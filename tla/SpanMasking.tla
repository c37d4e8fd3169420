----------------------------- MODULE SpanMasking -----------------------------
(***************************************************************************)
(* security/mask.go: MergeSpans unites the sensitive spans of a text, and  *)
(* ApplyMask writes a marker over each union.  Tokenizer.Apply in          *)
(* tokenize.go is the same loop with a token in the marker's place.        *)
(*                                                                         *)
(* A span covers the positions from its start up to its end, its end       *)
(* excluded; positions begin at 0.                                         *)
(***************************************************************************)
EXTENDS Integers, Sequences, FiniteSets

CONSTANT Rules     \* the rules a span may come from

VARIABLES
    given,         \* the spans to hide
    dataLen,       \* the length of the text
    stage,         \* where the masking is
    sorted,        \* the spans clipped and sorted
    next,          \* the next of them to merge
    merged,        \* their unions so far
    applied,       \* the unions applied so far
    prev,          \* the text is written up to here
    out            \* what is written: pieces of text, and markers

maskVars == <<given, dataLen, stage, sorted, next, merged, applied, prev, out>>

Levels == Int
Span == [start : Int, end : Int, level : Levels, rule : Rules]

Text(from, to) == [shows |-> from..(to - 1), marker |-> 0]
Marker(level) == [shows |-> {}, marker |-> level]

\* MaskMarker: a level with no marker of its own has that of Confidential.
MaskMarker(level) == Marker(IF level = 3 THEN 3 ELSE 2)

SpanMax(a, b) == IF a > b THEN a ELSE b
SpanMin(a, b) == IF a < b THEN a ELSE b

Clipped(s) == [start |-> SpanMax(s.start, 0), end |-> SpanMin(s.end, dataLen),
               level |-> s.level, rule |-> s.rule]
Valid == {i \in DOMAIN given : Clipped(given[i]).start < Clipped(given[i]).end}

\* SliceStable: by start, then by end, then as they came.
Before(i, j) ==
    LET a == Clipped(given[i])
        b == Clipped(given[j])
    IN  \/ a.start < b.start
        \/ a.start = b.start /\ a.end < b.end
        \/ a.start = b.start /\ a.end = b.end /\ i < j

\* The ways to list the spans that are not empty once, in that order: just one.
Orders ==
    {o \in [1..Cardinality(Valid) -> Valid] :
        /\ \A i \in Valid : \E k \in DOMAIN o : o[k] = i
        /\ \A k, l \in DOMAIN o : k < l => Before(o[k], o[l])}

NothingMasked ==
    /\ sorted = <<>>
    /\ next = 1
    /\ merged = <<>>
    /\ applied = 0
    /\ prev = 0
    /\ out = <<>>

\* Any spans and any text: a span may be empty, or reach out of the text.
MaskInit ==
    /\ given \in Seq(Span)
    /\ dataLen \in Nat
    /\ stage = "sort"
    /\ NothingMasked

-----------------------------------------------------------------------------
\* MergeSpans, up to its loop, which the first span is past.
Sort ==
    /\ stage = "sort"
    /\ \E o \in Orders : sorted' = [k \in DOMAIN o |-> Clipped(given[o[k]])]
    /\ merged' = IF sorted' = <<>> THEN <<>> ELSE <<sorted'[1]>>
    /\ next' = 2
    /\ stage' = "merge"
    /\ UNCHANGED <<given, dataLen, applied, prev, out>>

LastUnion == merged[Len(merged)]

\* Mutant: a span taken into a union sets its end.
UniteCutsEnd(u, s) == [start |-> u.start, end |-> s.end,
                       level |-> SpanMax(u.level, s.level), rule |-> u.rule]

\* Mutant: the union keeps the level of its first span.
UniteKeepsLevel(u, s) == [start |-> u.start, end |-> SpanMax(u.end, s.end),
                          level |-> u.level, rule |-> u.rule]

\* A span that overlaps the last union or touches it is taken into it.
Unite(u, s) == [start |-> u.start, end |-> SpanMax(u.end, s.end),
                level |-> SpanMax(u.level, s.level), rule |-> u.rule]

\* One turn of the loop: the span is united with the last one, or begins another.
MergeNext ==
    /\ stage = "merge" /\ next <= Len(sorted)
    /\ next' = next + 1
    /\ merged' = IF sorted[next].start <= LastUnion.end
                 THEN [merged EXCEPT ![Len(merged)] = Unite(@, sorted[next])]
                 ELSE Append(merged, sorted[next])
    /\ UNCHANGED <<given, dataLen, stage, sorted, applied, prev, out>>

MergeEnds ==
    /\ stage = "merge" /\ next > Len(sorted)
    /\ stage' = "apply"
    /\ UNCHANGED <<given, dataLen, sorted, next, merged, applied, prev, out>>

\* One turn of ApplyMask: the text up to the union, and a marker for it.
ApplyNext ==
    /\ stage = "apply" /\ applied < Len(merged)
    /\ applied' = applied + 1
    /\ out' = out \o <<Text(prev, merged[applied + 1].start),
                      MaskMarker(merged[applied + 1].level)>>
    /\ prev' = merged[applied + 1].end
    /\ UNCHANGED <<given, dataLen, stage, sorted, next, merged>>

\* The rest of the text.
ApplyEnds ==
    /\ stage = "apply" /\ applied = Len(merged)
    /\ out' = Append(out, Text(prev, dataLen))
    /\ stage' = "done"
    /\ UNCHANGED <<given, dataLen, sorted, next, merged, applied, prev>>

MaskNext == Sort \/ MergeNext \/ MergeEnds \/ ApplyNext \/ ApplyEnds

MaskSpec == MaskInit /\ [][MaskNext]_maskVars

-----------------------------------------------------------------------------
(* Properties                                                              *)

Covers(s, p) == s.start <= p /\ p < s.end
Covered(p) == \E i \in DOMAIN given : Covers(given[i], p)
Shown(p) == \E k \in DOMAIN out : p \in out[k].shows

\* "replaces every span in data with the level's placeholder": of the text,
\* exactly the positions outside every span are shown, however the spans
\* overlap, touch, repeat, run out of the text or hide in one another.
HidesExactlySpans ==
    stage = "done" => \A p \in 0..(dataLen - 1) : Shown(p) <=> ~Covered(p)

\* "unites overlapping / adjacent ranges and keeps the highest level": the
\* unions do not touch, the level of each is the highest of its spans, and it is
\* this level the marker written in the place of the union tells.
UnionsAreGraded ==
    stage \in {"apply", "done"} =>
        /\ \A j, k \in DOMAIN merged : j < k => merged[j].end < merged[k].start
        /\ \A j \in DOMAIN merged :
              \E i \in Valid : /\ given[i].level = merged[j].level
                               /\ Covers(merged[j], Clipped(given[i]).start)
        /\ \A i \in Valid :
              \E j \in DOMAIN merged :
                  /\ merged[j].start <= Clipped(given[i]).start
                  /\ Clipped(given[i]).end <= merged[j].end
                  /\ given[i].level <= merged[j].level
        /\ stage = "done" =>
              \A j \in DOMAIN merged : out[2 * j] = MaskMarker(merged[j].level)

(* The invariant they follow from.                                         *)

Piece == [shows : SUBSET Int, marker : 0..3]
MaskTypeOK ==
    /\ given \in Seq(Span) /\ sorted \in Seq(Span) /\ merged \in Seq(Span)
    /\ dataLen \in Nat /\ next \in Nat /\ applied \in Nat /\ prev \in Int
    /\ stage \in {"sort", "merge", "apply", "done"}
    /\ out \in Seq(Piece)

\* The sorted spans are the given ones, in the order of their starts.
InText(s) == 0 <= s.start /\ s.start < s.end /\ s.end <= dataLen
SortedOK ==
    stage # "sort" =>
        /\ \A k \in DOMAIN sorted : InText(sorted[k])
        /\ \A k, l \in DOMAIN sorted : k < l => sorted[k].start <= sorted[l].start
        /\ \A k \in DOMAIN sorted : \E i \in Valid : sorted[k] = Clipped(given[i])
        /\ \A i \in Valid : \E k \in DOMAIN sorted : sorted[k] = Clipped(given[i])

\* The unions lie apart, and the spans that are left begin behind the last one's start.
UnionsOK ==
    stage # "sort" =>
        /\ \A j \in DOMAIN merged : InText(merged[j])
        /\ \A j, k \in DOMAIN merged : j < k => merged[j].end < merged[k].start
        /\ sorted # <<>> => merged # <<>>
        /\ next >= 2
        /\ merged # <<>> => \A k \in DOMAIN sorted :
                               k >= next => LastUnion.start <= sorted[k].start
        /\ stage # "merge" => next > Len(sorted)

\* They cover what the spans merged so far cover, and grade it.
Merged == {k \in DOMAIN sorted : k < next}
Holds(u, s) == u.start <= s.start /\ s.end <= u.end /\ s.level <= u.level
CoverOK ==
    stage # "sort" =>
        /\ \A k \in Merged : \E j \in DOMAIN merged : Holds(merged[j], sorted[k])
        /\ \A j \in DOMAIN merged : \A p \in Int :
              Covers(merged[j], p) => \E k \in Merged : Covers(sorted[k], p)
        /\ \A j \in DOMAIN merged : \E k \in Merged :
              sorted[k].level = merged[j].level /\ Covers(merged[j], sorted[k].start)

\* What is written is the text up to prev without the unions applied.
OutOK ==
    /\ stage \in {"sort", "merge"} => out = <<>> /\ applied = 0
    /\ applied \in 0..Len(merged)
    /\ prev = IF applied = 0 THEN 0 ELSE merged[applied].end
    /\ \A p \in Int :
          Shown(p) <=> /\ 0 <= p
                       /\ p < IF stage = "done" THEN dataLen ELSE prev
                       /\ \A j \in 1..applied : ~Covers(merged[j], p)
    /\ stage = "done" => applied = Len(merged)

\* Every other piece is the marker of a union applied.
MarkersOK ==
    /\ Len(out) = 2 * applied + IF stage = "done" THEN 1 ELSE 0
    /\ \A j \in 1..applied : out[2 * j] = MaskMarker(merged[j].level)

MaskInvariant == MaskTypeOK /\ SortedOK /\ UnionsOK /\ CoverOK /\ OutOK /\ MarkersOK
=============================================================================
