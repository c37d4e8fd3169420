------------------------------ MODULE PartScan ------------------------------
(***************************************************************************)
(* capture.go, scanMultipart: one pass over a multipart/form-data body     *)
(* that tags the values of sensitive fields.  Parts are told apart by the  *)
(* delimiter, headers from the value by a blank line, which may be that of *)
(* either kind of line end.                                                *)
(*                                                                         *)
(* The delimiter, a header line without its end, and the "--" that makes a *)
(* delimiter the closing one are one position each; a line end is one      *)
(* ("LF") or two ("CR", "LF").                                             *)
(***************************************************************************)
EXTENDS Integers, SequencesExt

CONSTANTS
    Headers,       \* the header lines of a part, in order: "named" and "secret"
                   \* are Content-Disposition with the name of a field, the
                   \* second a sensitive one; "other" is another header
    Values,        \* the values of a part, without the delimiter
    PartLevel,     \* the level of the rule for the sensitive name
    MaxParts       \* bound: the parts of a body

ASSUME PartsAssumption ==
    /\ Headers \subseteq Seq({"named", "secret", "other"})
    /\ \A value \in Values : value \in Seq(STRING) /\ \A i \in DOMAIN value : value[i] # "delim"
    /\ MaxParts \in Nat

VARIABLES
    bytes,         \* the body: what is at each position, and whether it is of a
                   \* value, and of a secret one, which the code has to find out
    pos,           \* what is before it has been looked at
    looking,       \* the loop goes on
    partSpans      \* the spans of the values tagged

partVars == <<bytes, pos, looking, partSpans>>

CRLF == <<"CR", "LF">>
LF == <<"LF">>

\* Content-Disposition counts where it comes first.
Named(lines) == \E i \in DOMAIN lines : lines[i] = "secret" /\ \A j \in 1..(i - 1) : lines[j] # "named"

Plainly(s) == [i \in DOMAIN s |-> [c |-> s[i], of |-> "frame"]]
Part(lines, value, eol) ==
    Plainly(<<"delim">> \o eol \o FlattenSeq([i \in DOMAIN lines |-> <<lines[i]>> \o eol]) \o eol)
    \o [i \in DOMAIN value |-> [c |-> value[i], of |-> IF Named(lines) THEN "secret" ELSE "value"]]
    \o Plainly(eol)

\* The bodies: the parts, each with line ends of its own, and the closing
\* delimiter, unless the body is cut off before it.
Parts == {Part(lines, value, eol) : lines \in Headers, value \in Values, eol \in {CRLF, LF}}
Bodies ==
    {FlattenSeq(parts) \o end :
        parts \in UNION {[1..n -> Parts] : n \in 0..MaxParts},
        end \in {<<>>, Plainly(<<"delim", "dashes">> \o CRLF)}}

PartInit ==
    /\ bytes \in Bodies
    /\ pos = 0
    /\ looking = TRUE
    /\ partSpans = <<>>

-----------------------------------------------------------------------------
\* bytes.Index: where s is found from the offset on.
Found(s, from) ==
    {k \in from..(Len(bytes) - Len(s)) : \A i \in DOMAIN s : bytes[k + i].c = s[i]}
Index(s, from) == Min(Found(s, from))

\* indexHeaderSeparator: the first blank line with CRLF, wherever it is, and
\* only if there is none the first with LF.
Separators(from) == IF Found(CRLF \o CRLF, from) # {} THEN CRLF \o CRLF ELSE LF \o LF

\* multipartFieldName.
FieldIsSecret(from, to) ==
    Named([k \in 1..(to - from) |-> bytes[from + k].c])

PartStart == Index(<<"delim">>, pos) + 1
Separator == Separators(PartStart)
HeaderEnd == Index(Separator, PartStart)
PartValue == HeaderEnd + Len(Separator)
NextDelim == Index(<<"delim">>, PartValue)

\* There is another part, its headers end, and another delimiter follows.
HasPart ==
    /\ Found(<<"delim">>, pos) # {}
    /\ PartStart \notin Found(<<"dashes">>, PartStart)
    /\ Found(Separator, PartStart) # {}
    /\ Found(<<"delim">>, PartValue) # {}

\* Mutant: the line end before the delimiter is taken for a part of the value.
NextPartKeepsLineEnd ==
    /\ looking /\ HasPart
    /\ partSpans' = IF FieldIsSecret(PartStart, HeaderEnd) /\ PartValue < NextDelim
                    THEN Append(partSpans, [start |-> PartValue, end |-> NextDelim,
                                            level |-> PartLevel, rule |-> 0])
                    ELSE partSpans
    /\ pos' = NextDelim
    /\ UNCHANGED <<bytes, looking>>

\* One turn of the loop.  Two bytes before the delimiter are not of the value.
NextPart ==
    /\ looking /\ HasPart
    /\ partSpans' = IF FieldIsSecret(PartStart, HeaderEnd) /\ PartValue < NextDelim - 2
                    THEN Append(partSpans, [start |-> PartValue, end |-> NextDelim - 2,
                                            level |-> PartLevel, rule |-> 0])
                    ELSE partSpans
    /\ pos' = NextDelim
    /\ UNCHANGED <<bytes, looking>>

PartsEnd ==
    /\ looking /\ ~HasPart
    /\ looking' = FALSE
    /\ UNCHANGED <<bytes, pos, partSpans>>

PartScanNext == NextPart \/ PartsEnd
PartSpec == PartInit /\ [][PartScanNext]_partVars

-----------------------------------------------------------------------------
(* Properties                                                              *)

\* Every line of the body that is not of a value ends with CRLF.
Regular ==
    \A k \in DOMAIN bytes :
        bytes[k].c = "LF" /\ (k = 1 \/ bytes[k - 1].c # "CR") => bytes[k].of # "frame"

\* The offset p is in a sensitive value, and the part with it is not cut off.
InSecret(p) ==
    /\ bytes[p + 1].of = "secret"
    /\ \E k \in (p + 2)..Len(bytes) : bytes[k].c = "delim"

\* The offset p is in a span tagged.
InPart(p) == \E k \in DOMAIN partSpans : partSpans[k].start <= p /\ p < partSpans[k].end

\* "tags named form-field values inside a multipart body": in a body with
\* lines that end with CRLF, as the ones a client writes do, the offsets tagged
\* are exactly those of the values of sensitive fields, whatever line ends and
\* blank lines are in the values and however many headers come before them.
PartsAreTagged ==
    ~looking /\ Regular =>
        \A p \in 0..(Len(bytes) - 1) : InSecret(p) <=> InPart(p)

(* The invariant it follows from.                                          *)

PartTypeOK ==
    /\ bytes \in Bodies
    /\ pos \in 0..Len(bytes) /\ looking \in BOOLEAN
    /\ partSpans \in Seq([start : Nat, end : Nat, level : {PartLevel}, rule : {0}])
    /\ \A k \in DOMAIN partSpans : partSpans[k].end <= pos

\* A delimiter is next, the offsets before it are tagged as they should be, and
\* where the loop ends there is nothing left to tag.
DelimiterIsNext ==
    Regular =>
        /\ pos = 0 \/ (pos < Len(bytes) /\ bytes[pos + 1].c = "delim")
        /\ \A p \in 0..(pos - 1) : InSecret(p) <=> InPart(p)
        /\ ~looking => \A p \in pos..(Len(bytes) - 1) : ~InSecret(p)

PartInvariant == PartTypeOK /\ DelimiterIsNext
=============================================================================
