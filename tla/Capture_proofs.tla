---------------------------- MODULE Capture_proofs ----------------------------
(***************************************************************************)
(* Proofs about Capture and the modules it is made of. The scanners tag    *)
(* what the policy means and nothing else: form fields, the scalars of a   *)
(* JSON body, the parts of a multipart body. What is masked is what the    *)
(* spans cover, with the highest of their levels. Together: in the render, *)
(* whatever the policy hides is masked, for texts of any length.           *)
(***************************************************************************)
EXTENDS Capture, FiniteSetTheorems, WellFoundedInduction, TLAPS

-----------------------------------------------------------------------------
(* Induction                                                               *)

\* A least number with a property, which is what induction needs here.
LEMMA LeastNumber ==
    ASSUME NEW S \in SUBSET Nat, S # {}
    PROVE  \E n \in S : \A m \in S : n <= m
<1>1. PICK n \in S : \A m \in S : <<m, n>> \notin OpToRel(<, Nat)
  BY NatLessThanWellFounded, WFMin
<1>2. \A m \in S : ~(m < n)
  BY <1>1 DEF OpToRel
<1> QED
  BY <1>2

\* A set with 0 and every successor of a member has all numbers.
LEMMA NumbersInSteps ==
    ASSUME NEW S, 0 \in S, \A n \in Nat : n \in S => n + 1 \in S
    PROVE  Nat \subseteq S
<1> SUFFICES ASSUME Nat \ S # {} PROVE FALSE
  OBVIOUS
<1>1. PICK n \in Nat \ S : \A m \in Nat \ S : n <= m
  BY LeastNumber
<1>2. n - 1 \in Nat /\ n - 1 \notin S
  BY <1>1
<1> QED
  BY <1>1, <1>2

-----------------------------------------------------------------------------
(* Masking: clipped spans and their unions                                 *)

\* A clipped span is a span, and covers of the text what the span covers.
LEMMA ClippedCovers ==
    ASSUME MaskTypeOK, NEW i \in DOMAIN given
    PROVE  /\ given[i] \in Span
           /\ Clipped(given[i]) \in Span
           /\ Clipped(given[i]).level = given[i].level
           /\ \A p \in 0..(dataLen - 1) : Covers(given[i], p) <=> Covers(Clipped(given[i]), p)
           /\ i \in Valid => InText(Clipped(given[i]))
<1>1. given[i] \in Span /\ dataLen \in Nat
  BY DEF MaskTypeOK
<1> QED
  BY <1>1 DEF Clipped, Span, SpanMax, SpanMin, Covers, Valid, InText

\* There are finitely many spans to sort.
LEMMA ValidFinite ==
    ASSUME MaskTypeOK
    PROVE  Cardinality(Valid) \in Nat
<1>1. Len(given) \in Nat /\ Valid \subseteq 1..Len(given)
  BY DEF MaskTypeOK, Valid
<1>2. IsFiniteSet(1..Len(given))
  BY <1>1, FS_Interval
<1>3. IsFiniteSet(Valid)
  BY <1>1, <1>2, FS_Subset
<1> QED
  BY <1>3, FS_CardinalityType

\* Uniting a span with one that begins no earlier keeps both.
LEMMA UniteHolds ==
    ASSUME NEW u \in Span, NEW s \in Span
    PROVE  /\ Unite(u, s) \in Span
           /\ Unite(u, s).start = u.start
           /\ Unite(u, s).end >= u.end /\ Unite(u, s).end >= s.end
           /\ Unite(u, s).end \in {u.end, s.end}
           /\ Unite(u, s).level >= u.level /\ Unite(u, s).level >= s.level
           /\ Unite(u, s).level \in {u.level, s.level}
BY DEF Unite, Span, SpanMax, Levels

-----------------------------------------------------------------------------
(* The markers                                                             *)

\* Each step writes the marker of the union it applies, and no other.
LEMMA MarkersKeep ==
    ASSUME MaskInvariant, MaskNext
    PROVE  MarkersOK'
<1>1. /\ MaskTypeOK /\ OutOK /\ MarkersOK
  BY DEF MaskInvariant
<1>2. /\ merged \in Seq(Span) /\ out \in Seq(Piece) /\ applied \in Nat
      /\ Len(out) \in Nat /\ Len(merged) \in Nat
      /\ DOMAIN out = 1..Len(out) /\ DOMAIN merged = 1..Len(merged)
  BY <1>1 DEF MaskTypeOK
<1>3. ASSUME Sort \/ MergeNext
      PROVE  MarkersOK'
  <2>1. applied' = 0 /\ out' = <<>> /\ stage' # "done"
    BY <1>1, <1>3 DEF OutOK, Sort, MergeNext
  <2> QED
    BY <2>1 DEF MarkersOK
<1>4. ASSUME MergeEnds
      PROVE  MarkersOK'
  BY <1>1, <1>4 DEF MarkersOK, MergeEnds
<1>5. ASSUME ApplyNext
      PROVE  MarkersOK'
  <2> DEFINE a == Text(prev, merged[applied + 1].start)
             b == MaskMarker(merged[applied + 1].level)
  <2>1. /\ stage = "apply" /\ stage' = stage /\ merged' = merged
        /\ applied' = applied + 1 /\ out' = out \o <<a, b>>
    BY <1>5 DEF ApplyNext
  <2>2. Len(out) = 2 * applied /\ \A j \in 1..applied : out[2 * j] = MaskMarker(merged[j].level)
    BY <1>1, <1>2, <2>1 DEF MarkersOK
  <2>3. b = MaskMarker(merged[applied + 1].level)
    OBVIOUS
  <2> HIDE DEF a, b
  <2>4. /\ Len(out') = Len(out) + 2 /\ out'[Len(out) + 2] = b
        /\ \A k \in 1..Len(out) : out'[k] = out[k]
    BY <1>2, <2>1
  <2>5. Len(out') = 2 * applied' /\ out'[2 * applied'] = b
    BY <1>2, <2>1, <2>2, <2>4
  <2>6. \A j \in 1..applied : out'[2 * j] = MaskMarker(merged[j].level)
    <3>1. \A j \in 1..applied : 2 * j \in 1..Len(out)
      BY <1>2, <2>2
    <3> QED
      BY <2>2, <2>4, <3>1
  <2>7. \A j \in 1..applied' : j \in 1..applied \/ j = applied'
    BY <1>2, <2>1
  <2>8. \A j \in 1..applied' : out'[2 * j] = MaskMarker(merged[j].level)
    BY <2>1, <2>3, <2>5, <2>6, <2>7
  <2>9. Len(out') = 2 * applied' + 0 /\ stage' # "done"
    BY <1>2, <2>1, <2>5
  <2> QED
    BY <2>1, <2>8, <2>9 DEF MarkersOK, MaskMarker, Marker
<1>6. ASSUME ApplyEnds
      PROVE  MarkersOK'
  <2> DEFINE a == Text(prev, dataLen)
  <2>1. /\ stage = "apply" /\ stage' = "done" /\ merged' = merged
        /\ applied' = applied /\ out' = Append(out, a)
    BY <1>6 DEF ApplyEnds
  <2>2. Len(out) = 2 * applied /\ \A j \in 1..applied : out[2 * j] = MaskMarker(merged[j].level)
    BY <1>1, <1>2, <2>1 DEF MarkersOK
  <2> HIDE DEF a
  <2>3. Len(out') = Len(out) + 1 /\ \A k \in 1..Len(out) : out'[k] = out[k]
    BY <1>2, <2>1
  <2>4. \A j \in 1..applied : 2 * j \in 1..Len(out)
    BY <1>2, <2>2
  <2> QED
    BY <2>1, <2>2, <2>3, <2>4 DEF MarkersOK, MaskMarker, Marker
<1> QED
  BY <1>3, <1>4, <1>5, <1>6 DEF MaskNext

-----------------------------------------------------------------------------
(* Sort                                                                    *)

\* Sorting leaves the spans that are not empty, by their beginnings.
LEMMA SortKeeps ==
    ASSUME MaskInvariant, Sort
    PROVE  MaskInvariant'
<1>m. MarkersOK'
  BY MarkersKeep DEF MaskNext
<1> USE DEF MaskInvariant
<1>1. PICK o \in Orders : sorted' = [k \in DOMAIN o |-> Clipped(given[o[k]])]
  BY DEF Sort
<1> DEFINE n == Cardinality(Valid)
<1>2. n \in Nat /\ o \in [1..n -> Valid]
  BY ValidFinite DEF Orders
<1>3. /\ \A i \in Valid : \E k \in DOMAIN o : o[k] = i
      /\ \A k, l \in DOMAIN o : k < l => Before(o[k], o[l])
  BY DEF Orders
<1>4. \A i \in Valid : i \in DOMAIN given /\ Clipped(given[i]) \in Span /\ InText(Clipped(given[i]))
  BY ClippedCovers DEF Valid
<1>5. /\ sorted' \in Seq(Span) /\ DOMAIN sorted' = 1..n /\ Len(sorted') = n
      /\ \A k \in 1..n : sorted'[k] = Clipped(given[o[k]]) /\ o[k] \in Valid
  <2>1. /\ DOMAIN sorted' = 1..n
        /\ \A k \in 1..n : sorted'[k] = Clipped(given[o[k]]) /\ o[k] \in Valid
    BY <1>1, <1>2
  <2>2. sorted' \in [1..n -> Span]
    BY <1>1, <1>2, <1>4
  <2> QED
    BY <1>2, <2>1, <2>2
<1>6. /\ merged' = IF sorted' = <<>> THEN <<>> ELSE <<sorted'[1]>>
      /\ next' = 2 /\ stage = "sort" /\ stage' = "merge"
      /\ UNCHANGED <<given, dataLen, applied, prev, out>>
  BY DEF Sort
<1>7. Valid' = Valid /\ \A s : Clipped(s)' = Clipped(s)
  BY <1>6 DEF Valid, Clipped
<1>8. SortedOK'
  <2>1. \A k \in 1..n : InText(sorted'[k])
    BY <1>4, <1>5
  <2>2. ASSUME NEW k \in 1..n, NEW l \in 1..n, k < l
        PROVE  sorted'[k].start <= sorted'[l].start
    <3>1. Before(o[k], o[l])
      BY <1>2, <1>3, <2>2
    <3>2. sorted'[k] \in Span /\ sorted'[l] \in Span
      BY <1>5
    <3> QED
      BY <1>5, <3>1, <3>2 DEF Before, Span
  <2>3. \A k \in 1..n : \E i \in Valid : sorted'[k] = Clipped(given[i])
    BY <1>5
  <2>4. \A i \in Valid : \E k \in 1..n : sorted'[k] = Clipped(given[i])
    BY <1>2, <1>3, <1>5
  <2>5. \A i \in DOMAIN given : Clipped(given[i])' = Clipped(given[i])
    BY <1>6 DEF Clipped
  <2>6. \A k \in 1..n : InText(sorted[k])'
    BY <1>6, <2>1 DEF InText
  <2>7. \A k \in 1..n : \E i \in Valid' : sorted'[k] = Clipped(given[i])'
    BY <1>6, <1>7, <2>3 DEF Clipped
  <2>8. \A i \in Valid' : \E k \in 1..n : sorted'[k] = Clipped(given[i])'
    BY <1>6, <1>7, <2>4 DEF Clipped
  <2> QED
    BY <1>5, <2>2, <2>6, <2>7, <2>8 DEF SortedOK
<1>9. CASE n = 0
  <2>1. sorted' = <<>> /\ merged' = <<>>
    BY <1>5, <1>6, <1>9
  <2>2. UnionsOK' /\ CoverOK'
    BY <1>6, <2>1 DEF UnionsOK, CoverOK, Merged
  <2>3. MaskTypeOK'
    BY <1>5, <1>6, <2>1 DEF MaskTypeOK
  <2>4. OutOK'
    BY <1>6, <2>1 DEF OutOK, Shown
  <2> QED
    BY <1>8, <1>m, <2>2, <2>3, <2>4
<1>10. CASE n # 0
  <2>1. sorted' # <<>> /\ 1 \in 1..n
    BY <1>2, <1>5, <1>10
  <2>2. /\ merged' = <<sorted'[1]>> /\ sorted'[1] \in Span /\ Len(merged') = 1
        /\ DOMAIN merged' = {1} /\ merged'[1] = sorted'[1]
    BY <1>5, <1>6, <2>1
  <2>3. MaskTypeOK'
    BY <1>5, <1>6, <2>2 DEF MaskTypeOK
  <2>4. UnionsOK'
    <3>1. ASSUME NEW k \in 1..n
          PROVE  sorted'[1].start <= sorted'[k].start
      <4>1. 1 < k => sorted'[1].start <= sorted'[k].start
        BY <1>5, <1>6, <1>8, <2>1 DEF SortedOK
      <4> QED
        BY <1>2, <2>2, <4>1 DEF Span
    <3>2. InText(sorted'[1])
      BY <1>4, <1>5, <2>1
    <3> QED
      BY <1>5, <1>6, <2>1, <2>2, <3>1, <3>2 DEF UnionsOK, LastUnion, InText
  <2>5. CoverOK'
    <3>1. Merged' = {1}
      BY <1>5, <1>6, <2>1 DEF Merged
    <3>2. sorted'[1].start <= sorted'[1].start /\ sorted'[1].start < sorted'[1].end
          /\ sorted'[1].level <= sorted'[1].level /\ sorted'[1].end <= sorted'[1].end
      BY <1>4, <1>5, <2>1, <2>2 DEF InText, Span, Levels
    <3>3. /\ Holds(merged[1], sorted[1])'
          /\ Covers(merged[1], sorted[1].start)'
          /\ (sorted[1].level = merged[1].level)'
          /\ \A p \in Int : Covers(merged[1], p)' => Covers(sorted[1], p)'
      <4>1. Holds(merged[1], sorted[1])'
        BY <2>2, <3>2 DEF Holds
      <4>2. Covers(merged[1], sorted[1].start)'
        BY <2>2, <3>2 DEF Covers
      <4>3. (sorted[1].level = merged[1].level)'
        BY <2>2
      <4>4. \A p \in Int : Covers(merged[1], p)' => Covers(sorted[1], p)'
        BY <2>2 DEF Covers
      <4> QED
        BY <4>1, <4>2, <4>3, <4>4
    <3>4. \A j \in DOMAIN merged' : j = 1
      BY <2>2
    <3> QED
      BY <2>2, <3>1, <3>3, <3>4 DEF CoverOK, Covers
  <2>6. OutOK'
    BY <1>6, <2>2 DEF OutOK, Shown
  <2> QED
    BY <1>8, <1>m, <2>3, <2>4, <2>5, <2>6
<1> QED
  BY <1>2, <1>9, <1>10

-----------------------------------------------------------------------------
(* MergeNext                                                               *)

\* What a turn of the loop leaves as it is.
LEMMA MergeNextFrame ==
    ASSUME MaskInvariant, MergeNext
    PROVE  /\ SortedOK' /\ OutOK'
           /\ next \in 1..Len(sorted) /\ next >= 2 /\ merged # <<>>
           /\ sorted[next] \in Span /\ InText(sorted[next])
           /\ LastUnion \in Span /\ InText(LastUnion)
           /\ LastUnion.start <= sorted[next].start
           /\ Merged' = Merged \cup {next}
<1> USE DEF MaskInvariant
<1>1. /\ stage = "merge" /\ next <= Len(sorted) /\ next' = next + 1
      /\ UNCHANGED <<given, dataLen, stage, sorted, applied, prev, out>>
  BY DEF MergeNext
<1>2. SortedOK'
  BY <1>1 DEF SortedOK, InText, Valid, Clipped
<1>3. OutOK'
  BY <1>1 DEF OutOK, Shown, MaskTypeOK
<1>4. next \in 1..Len(sorted) /\ next >= 2 /\ sorted # <<>>
  BY <1>1 DEF UnionsOK, MaskTypeOK
<1>5. merged # <<>> /\ sorted[next] \in Span /\ InText(sorted[next])
      /\ LastUnion.start <= sorted[next].start
  BY <1>1, <1>4 DEF UnionsOK, SortedOK, MaskTypeOK
<1>6. Len(merged) \in DOMAIN merged
  BY <1>5 DEF MaskTypeOK
<1>7. LastUnion \in Span /\ InText(LastUnion)
  BY <1>1, <1>6 DEF UnionsOK, LastUnion, MaskTypeOK
<1>8. Merged' = Merged \cup {next}
  BY <1>1, <1>4 DEF Merged, MaskTypeOK
<1> QED
  BY <1>2, <1>3, <1>4, <1>5, <1>7, <1>8

\* A span that begins in the last union is united with it.
LEMMA UnitingKeeps ==
    ASSUME MaskInvariant, MergeNext, sorted[next].start <= LastUnion.end
    PROVE  MaskInvariant'
<1>m. MarkersOK'
  BY MarkersKeep DEF MaskNext
<1> USE DEF MaskInvariant
<1> DEFINE n == Len(merged)
           u == merged[n]
           s == sorted[next]
           w == Unite(u, s)
<1>1. /\ stage = "merge" /\ next' = next + 1
      /\ merged' = [merged EXCEPT ![n] = w]
      /\ UNCHANGED <<given, dataLen, stage, sorted, applied, prev, out>>
  BY DEF MergeNext
<1>2. /\ merged \in Seq(Span) /\ n \in Nat /\ n # 0 /\ DOMAIN merged = 1..n
      /\ u \in Span /\ s \in Span /\ u = LastUnion
      /\ n = Len(merged) /\ u = merged[n] /\ s = sorted[next]
  BY MergeNextFrame DEF MaskTypeOK, LastUnion
<1>n. /\ n \in Int /\ n >= 1 /\ n \in 1..n
      /\ \A j, k \in 1..n : j < k => j # n
  <2>1. n \in Nat /\ n # 0
    BY <1>2
  <2> HIDE DEF n, MaskInvariant
  <2> QED
    BY <2>1
<1>3. /\ w \in Span /\ w.start = u.start /\ w.end >= u.end /\ w.end >= s.end
      /\ w.end \in {u.end, s.end} /\ w.level >= u.level /\ w.level >= s.level
      /\ w.level \in {u.level, s.level}
  BY <1>2, UniteHolds
<1>4. /\ merged' \in Seq(Span) /\ Len(merged') = n /\ DOMAIN merged' = 1..n
      /\ merged'[n] = w /\ \A j \in 1..n : j # n => merged'[j] = merged[j]
  <2> HIDE DEF MaskInvariant, n, u, s, w
  <2>1. merged \in [1..n -> Span]
    BY <1>2
  <2>2. /\ merged' \in [1..n -> Span]
        /\ merged'[n] = w /\ \A j \in 1..n : j # n => merged'[j] = merged[j]
    <3>1. merged' = [merged EXCEPT ![n] = w] /\ n \in 1..n /\ w \in Span
      BY <1>1, <1>n, <1>3
    <3> QED
      BY <2>1, <3>1
  <2>3. merged' \in Seq(Span)
    <3>1. n \in Nat /\ merged' \in [1..n -> Span]
      BY <1>2, <2>2
    <3>2. \A f : f \in [1..n -> Span] => f \in Seq(Span)
      BY <3>1
    <3> QED
      BY <3>1, <3>2
  <2>4. n \in Nat /\ DOMAIN merged' = 1..n
    BY <1>2, <2>2
  <2>5. Len(merged') = n
    BY <2>3, <2>4
  <2> QED
    BY <2>2, <2>3, <2>4, <2>5
<1>5. LastUnion' = w
  BY <1>4 DEF LastUnion
<1> HIDE DEF w, u, s, n
<1>6. /\ \A j \in 1..n : merged[j] \in Span /\ InText(merged[j])
      /\ \A j, k \in 1..n : j < k => merged[j].end < merged[k].start
  <2>1. UnionsOK /\ stage # "sort"
    BY <1>1
  <2>2. /\ \A j \in DOMAIN merged : InText(merged[j])
        /\ \A j, k \in DOMAIN merged : j < k => merged[j].end < merged[k].start
    <3> HIDE DEF MaskInvariant
    <3> QED
      BY <2>1 DEF UnionsOK
  <2> HIDE DEF MaskInvariant
  <2>3. \A j \in DOMAIN merged : merged[j] \in Span
    BY <1>2
  <2> QED
    BY <1>2, <2>2, <2>3
<1>7. u.start <= s.start /\ s.start <= u.end /\ InText(s) /\ InText(u)
  BY <1>2, MergeNextFrame DEF s, u
<1>8. MaskTypeOK'
  BY <1>1, <1>4 DEF MaskTypeOK
<1>9. UnionsOK'
  <2>1. InText(w)
    BY <1>2, <1>3, <1>7 DEF InText, Span
  <2>2. \A j \in 1..n : InText(merged'[j])
    BY <1>4, <1>6, <2>1
  <2>3. ASSUME NEW j \in 1..n, NEW k \in 1..n, j < k
        PROVE  merged'[j].end < merged'[k].start
    <3>1. merged[j].end < merged[k].start /\ j # n
      BY <1>n, <1>6, <2>3
    <3>2. merged'[j] = merged[j]
      BY <1>4, <3>1
    <3>3. merged'[k].start = merged[k].start
      BY <1>2, <1>3, <1>4
    <3> QED
      BY <3>1, <3>2, <3>3
  <2>4. \A k \in DOMAIN sorted : k >= next + 1 => w.start <= sorted[k].start
    BY <1>1, <1>2, <1>3, MergeNextFrame DEF UnionsOK, MaskTypeOK
  <2>5. merged' # <<>>
    BY <1>2, <1>4
  <2>6. next + 1 >= 2
    BY MergeNextFrame
  <2>7. \A j \in 1..n : InText(merged[j])'
    BY <1>1, <2>2 DEF InText
  <2> QED
    BY <1>1, <1>4, <1>5, <2>3, <2>4, <2>5, <2>6, <2>7 DEF UnionsOK
<1>10. CoverOK'
  <2>1. Merged' = Merged \cup {next} /\ next \in DOMAIN sorted
    BY MergeNextFrame, <1>2 DEF MaskTypeOK
  <2>2. \A k \in Merged : sorted[k] \in Span /\ k \in DOMAIN sorted
    BY DEF Merged, MaskTypeOK
  <2>3. ASSUME NEW k \in Merged'
        PROVE  \E j \in 1..n : Holds(merged'[j], sorted[k])
    <3>1. CASE k = next
      <4>1. Holds(w, s)
        BY <1>2, <1>3, <1>7 DEF Holds, Span, Levels
      <4>2. Holds(merged'[n], sorted[k])
        BY <1>2, <1>4, <3>1, <4>1
      <4> QED
        BY <1>n, <4>2
    <3>2. CASE k \in Merged
      <4>1. PICK j \in 1..n : Holds(merged[j], sorted[k])
        BY <1>1, <1>2, <3>2 DEF CoverOK
      <4>2. j = n => Holds(w, sorted[k])
        <5>1. sorted[k] \in Span /\ u \in Span /\ w \in Span
          BY <1>2, <1>3, <2>2, <3>2
        <5>2. j = n => Holds(u, sorted[k])
          BY <1>2, <4>1
        <5> QED
          BY <1>3, <5>1, <5>2 DEF Holds, Span, Levels
      <4>3. Holds(merged'[j], sorted[k])
        BY <1>4, <4>1, <4>2
      <4> QED
        BY <4>3
    <3> QED
      BY <2>1, <3>1, <3>2
  <2>4. ASSUME NEW j \in 1..n, NEW p \in Int, Covers(merged'[j], p)
        PROVE  \E k \in Merged' : Covers(sorted[k], p)
    <3>1. CASE Covers(merged[j], p)
      BY <1>1, <1>2, <2>1, <3>1 DEF CoverOK
    <3>2. CASE ~Covers(merged[j], p)
      <4>1. j = n /\ Covers(w, p) /\ ~Covers(u, p)
        BY <1>2, <1>4, <2>4, <3>2
      <4>2. Covers(s, p)
        BY <1>2, <1>3, <1>7, <4>1 DEF Covers, Span
      <4> QED
        BY <1>2, <2>1, <4>2
    <3> QED
      BY <3>1, <3>2
  <2>5. ASSUME NEW j \in 1..n
        PROVE  \E k \in Merged' : /\ sorted[k].level = merged'[j].level
                                  /\ Covers(merged'[j], sorted[k].start)
    <3>1. PICK k \in Merged : /\ sorted[k].level = merged[j].level
                              /\ Covers(merged[j], sorted[k].start)
      BY <1>1, <1>2 DEF CoverOK
    <3>2. CASE j # n
      BY <1>2, <1>4, <2>1, <3>1, <3>2
    <3>3. CASE j = n /\ w.level = u.level
      <4>1. Covers(w, sorted[k].start)
        BY <1>2, <1>3, <2>2, <3>1, <3>3 DEF Covers, Span
      <4> QED
        BY <1>2, <1>4, <2>1, <3>1, <3>3, <4>1
    <3>4. CASE j = n /\ w.level = s.level
      <4>1. Covers(w, s.start)
        BY <1>2, <1>3, <1>7 DEF Covers, InText, Span
      <4> QED
        BY <1>2, <1>4, <2>1, <3>4, <4>1
    <3> QED
      BY <1>3, <3>2, <3>3, <3>4
  <2> QED
    BY <1>1, <1>4, <2>3, <2>4, <2>5 DEF CoverOK, Holds, Covers
<1> QED
  BY <1>m, <1>8, <1>9, <1>10, MergeNextFrame


\* A span that begins behind the last union is the next one.
LEMMA AppendingKeeps ==
    ASSUME MaskInvariant, MergeNext, ~(sorted[next].start <= LastUnion.end)
    PROVE  MaskInvariant'
<1>m. MarkersOK'
  BY MarkersKeep DEF MaskNext
<1> USE DEF MaskInvariant
<1> DEFINE n == Len(merged)
           u == merged[n]
           s == sorted[next]
<1>1. /\ stage = "merge" /\ next' = next + 1
      /\ merged' = Append(merged, s)
      /\ UNCHANGED <<given, dataLen, stage, sorted, applied, prev, out>>
  BY DEF MergeNext
<1>2. /\ merged \in Seq(Span) /\ n \in Nat /\ n # 0 /\ DOMAIN merged = 1..n
      /\ u \in Span /\ s \in Span /\ u = LastUnion
      /\ n = Len(merged) /\ u = merged[n] /\ s = sorted[next]
  BY MergeNextFrame DEF MaskTypeOK, LastUnion
<1>3. /\ merged' \in Seq(Span) /\ Len(merged') = n + 1 /\ DOMAIN merged' = 1..(n + 1)
      /\ merged'[n + 1] = s /\ \A j \in 1..n : merged'[j] = merged[j]
  <2> HIDE DEF MaskInvariant, s
  <2> QED
    BY <1>1, <1>2
<1>4. LastUnion' = s
  BY <1>3 DEF LastUnion
<1>5. u.end < s.start /\ InText(s) /\ InText(u)
  BY <1>2, MergeNextFrame DEF Span
<1>6. /\ \A j \in 1..n : merged[j] \in Span /\ InText(merged[j])
      /\ \A j, k \in 1..n : j < k => merged[j].end < merged[k].start
  BY <1>1, <1>2 DEF UnionsOK
<1> HIDE DEF n, u, s
<1>n. /\ n \in Int /\ n >= 1 /\ n \in 1..n /\ n + 1 \in 1..(n + 1)
      /\ \A j \in 1..(n + 1) : j \in 1..n \/ j = n + 1
      /\ \A j \in 1..n : j \in 1..(n + 1)
  BY <1>2
<1>7. MaskTypeOK'
  BY <1>1, <1>3 DEF MaskTypeOK
<1>8. UnionsOK'
  <2>1. \A j \in 1..(n + 1) : InText(merged'[j])
    BY <1>n, <1>3, <1>5, <1>6
  <2>2. ASSUME NEW j \in 1..(n + 1), NEW k \in 1..(n + 1), j < k
        PROVE  merged'[j].end < merged'[k].start
    <3>1. j \in 1..n
      BY <1>n, <2>2
    <3>2. CASE k \in 1..n
      BY <1>3, <1>6, <2>2, <3>1, <3>2
    <3>3. CASE k = n + 1
      <4>1. merged[j].end <= u.end
        <5>1. j < n => merged[j].end < u.start
          BY <1>n, <1>2, <1>6, <3>1
        <5>2. j = n \/ j < n
          BY <1>n, <3>1
        <5>3. merged[j].end \in Int /\ u.end \in Int /\ u.start \in Int /\ u.start < u.end
          BY <1>2, <1>5, <1>6, <3>1 DEF InText, Span
        <5>4. j = n => merged[j].end = u.end
          BY <1>2
        <5> QED
          BY <5>1, <5>2, <5>3, <5>4
      <4> QED
        BY <1>2, <1>3, <1>5, <1>6, <3>1, <3>3, <4>1 DEF Span
    <3> QED
      BY <1>n, <3>2, <3>3
  <2>3. \A k \in DOMAIN sorted : k >= next + 1 => s.start <= sorted[k].start
    <3>1. next \in DOMAIN sorted /\ next \in Nat
      BY MergeNextFrame DEF MaskTypeOK
    <3>2. \A k \in DOMAIN sorted : k >= next + 1 => next < k
      BY <3>1 DEF MaskTypeOK
    <3> QED
      BY <1>1, <1>2, <3>1, <3>2 DEF SortedOK
  <2>4. merged' # <<>> /\ next + 1 >= 2
    BY <1>n, <1>3, MergeNextFrame
  <2>5. \A j \in 1..(n + 1) : InText(merged[j])'
    BY <1>1, <2>1 DEF InText
  <2> QED
    BY <1>1, <1>3, <1>4, <2>2, <2>3, <2>4, <2>5 DEF UnionsOK
<1>9. CoverOK'
  <2>1. Merged' = Merged \cup {next} /\ next \in DOMAIN sorted
    BY MergeNextFrame, <1>2 DEF MaskTypeOK
  <2>2. /\ Holds(s, s) /\ Covers(s, s.start)
    BY <1>2, <1>5 DEF Holds, Covers, InText, Span, Levels
  <2>3. ASSUME NEW k \in Merged'
        PROVE  \E j \in 1..(n + 1) : Holds(merged'[j], sorted[k])
    <3>1. CASE k = next
      BY <1>n, <1>2, <1>3, <2>2, <3>1
    <3>2. CASE k \in Merged
      <4>1. PICK j \in 1..n : Holds(merged[j], sorted[k])
        BY <1>1, <1>2, <3>2 DEF CoverOK
      <4> QED
        BY <1>n, <1>3, <4>1
    <3> QED
      BY <2>1, <3>1, <3>2
  <2>4. ASSUME NEW j \in 1..(n + 1), NEW p \in Int, Covers(merged'[j], p)
        PROVE  \E k \in Merged' : Covers(sorted[k], p)
    <3>1. CASE j \in 1..n
      <4>1. Covers(merged[j], p)
        BY <1>3, <2>4, <3>1
      <4> QED
        BY <1>1, <1>2, <2>1, <3>1, <4>1 DEF CoverOK
    <3>2. CASE j = n + 1
      BY <1>2, <1>3, <2>1, <2>4, <3>2
    <3> QED
      BY <1>n, <3>1, <3>2
  <2>5. ASSUME NEW j \in 1..(n + 1)
        PROVE  \E k \in Merged' : /\ sorted[k].level = merged'[j].level
                                  /\ Covers(merged'[j], sorted[k].start)
    <3>1. CASE j \in 1..n
      <4>1. PICK k \in Merged : /\ sorted[k].level = merged[j].level
                                /\ Covers(merged[j], sorted[k].start)
        BY <1>1, <1>2, <3>1 DEF CoverOK
      <4> QED
        BY <1>3, <2>1, <3>1, <4>1
    <3>2. CASE j = n + 1
      BY <1>2, <1>3, <2>1, <2>2, <3>2
    <3> QED
      BY <1>n, <3>1, <3>2
  <2> QED
    BY <1>1, <1>3, <2>3, <2>4, <2>5 DEF CoverOK, Holds, Covers
<1> QED
  BY <1>m, <1>7, <1>8, <1>9, MergeNextFrame

-----------------------------------------------------------------------------
(* The other steps                                                         *)

\* When all are merged nothing is applied yet.
LEMMA MergeEndsKeeps ==
    ASSUME MaskInvariant, MergeEnds
    PROVE  MaskInvariant'
<1>m. MarkersOK'
  BY MarkersKeep DEF MaskNext
<1>1. /\ stage = "merge" /\ stage' = "apply" /\ next > Len(sorted)
      /\ UNCHANGED <<given, dataLen, sorted, next, merged, applied, prev, out>>
  BY DEF MergeEnds
<1>2. MaskTypeOK'
  BY <1>1 DEF MaskInvariant, MaskTypeOK
<1>3. SortedOK'
  BY <1>1 DEF MaskInvariant, SortedOK, InText, Valid, Clipped
<1>4. UnionsOK'
  BY <1>1 DEF MaskInvariant, UnionsOK, InText, LastUnion
<1>5. CoverOK'
  BY <1>1 DEF MaskInvariant, CoverOK, Merged
<1>6. OutOK'
  BY <1>1 DEF MaskInvariant, OutOK, Shown
<1> QED
  BY <1>m, <1>2, <1>3, <1>4, <1>5, <1>6 DEF MaskInvariant

\* Writing more shows what was shown, and what is written.
LEMMA ShownByMore ==
    ASSUME NEW q \in Seq(Piece), NEW a \in Piece
    PROVE  /\ Append(q, a) \in Seq(Piece)
           /\ \A p : (\E k \in DOMAIN Append(q, a) : p \in Append(q, a)[k].shows)
                     <=> (\E k \in DOMAIN q : p \in q[k].shows) \/ p \in a.shows
<1>1. /\ Append(q, a) \in Seq(Piece) /\ Len(q) \in Nat
      /\ DOMAIN q = 1..Len(q) /\ DOMAIN Append(q, a) = 1..(Len(q) + 1)
      /\ \A k \in 1..Len(q) : Append(q, a)[k] = q[k]
      /\ Append(q, a)[Len(q) + 1] = a
  OBVIOUS
<1>2. 1..(Len(q) + 1) = 1..Len(q) \cup {Len(q) + 1}
  BY <1>1
<1> QED
  BY <1>1, <1>2


\* A union is written as a marker, what is before it as it is.
LEMMA ApplyNextKeeps ==
    ASSUME MaskInvariant, ApplyNext
    PROVE  MaskInvariant'
<1>m. MarkersOK'
  BY MarkersKeep DEF MaskNext
<1> DEFINE u == merged[applied + 1]
           a == Text(prev, u.start)
           b == MaskMarker(u.level)
<1>1. /\ stage = "apply" /\ applied < Len(merged) /\ applied' = applied + 1
      /\ out' = out \o <<a, b>>
      /\ prev' = u.end
      /\ UNCHANGED <<given, dataLen, stage, sorted, next, merged>>
  BY DEF ApplyNext
<1>2. /\ merged \in Seq(Span) /\ DOMAIN merged = 1..Len(merged) /\ Len(merged) \in Nat
      /\ applied \in Nat /\ prev \in Int /\ dataLen \in Nat
      /\ applied + 1 \in 1..Len(merged) /\ u \in Span /\ InText(u)
  <2>1. merged \in Seq(Span) /\ applied \in Nat /\ prev \in Int /\ dataLen \in Nat
    BY DEF MaskInvariant, MaskTypeOK
  <2>2. DOMAIN merged = 1..Len(merged) /\ Len(merged) \in Nat /\ applied + 1 \in 1..Len(merged)
    BY <1>1, <2>1
  <2>3. u \in Span
    BY <2>1, <2>2
  <2> QED
    BY <1>1, <2>1, <2>2, <2>3 DEF MaskInvariant, UnionsOK
<1>3. a \in Piece /\ b \in Piece /\ a.shows = prev..(u.start - 1) /\ b.shows = {}
  BY <1>2 DEF Piece, Text, Marker, MaskMarker, Span
<1> HIDE DEF u, a, b
<1>b. /\ u.start \in Int /\ u.end \in Int
      /\ 0 <= u.start /\ u.start < u.end /\ u.end <= dataLen
  BY <1>2 DEF Span, InText
<1>4. out \in Seq(Piece) /\ out' = Append(Append(out, a), b)
  <2>1. out \in Seq(Piece)
    BY DEF MaskInvariant, MaskTypeOK
  <2> QED
    BY <1>1, <1>3, <2>1
<1>5. out' \in Seq(Piece) /\ \A p : Shown(p)' <=> Shown(p) \/ p \in prev..(u.start - 1)
  <2>1. /\ Append(out, a) \in Seq(Piece)
        /\ \A p : (\E k \in DOMAIN Append(out, a) : p \in Append(out, a)[k].shows)
                  <=> (\E k \in DOMAIN out : p \in out[k].shows) \/ p \in a.shows
    BY <1>3, <1>4, ShownByMore
  <2>2. /\ Append(Append(out, a), b) \in Seq(Piece)
        /\ \A p : (\E k \in DOMAIN Append(Append(out, a), b) :
                      p \in Append(Append(out, a), b)[k].shows)
                  <=> \/ \E k \in DOMAIN Append(out, a) : p \in Append(out, a)[k].shows
                      \/ p \in b.shows
    BY <1>3, <2>1, ShownByMore
  <2> QED
    BY <1>3, <1>4, <2>1, <2>2 DEF Shown
<1>6. MaskTypeOK'
  BY <1>1, <1>2, <1>5 DEF MaskInvariant, MaskTypeOK, Span
<1>7. SortedOK' /\ UnionsOK' /\ CoverOK'
  BY <1>1 DEF MaskInvariant, SortedOK, UnionsOK, CoverOK, InText, Valid, Clipped, LastUnion, Merged
<1>8. /\ prev = IF applied = 0 THEN 0 ELSE merged[applied].end
      /\ 0 <= prev /\ prev <= u.start
  <2>1. prev = IF applied = 0 THEN 0 ELSE merged[applied].end
    BY DEF MaskInvariant, OutOK
  <2>2. CASE applied = 0
    BY <1>2, <2>1, <2>2 DEF InText, Span
  <2>3. CASE applied # 0
    <3>1. applied \in 1..Len(merged) /\ applied < applied + 1
      BY <1>2, <2>3
    <3>2. merged[applied] \in Span /\ InText(merged[applied]) /\ merged[applied].end < u.start
      <4>1. merged[applied] \in Span
        BY <1>2, <3>1
      <4>2. /\ InText(merged[applied])
            /\ merged[applied].end < merged[applied + 1].start
        BY <1>1, <1>2, <3>1 DEF MaskInvariant, UnionsOK
      <4> QED
        BY <4>1, <4>2 DEF u
    <3>3. prev = merged[applied].end
      BY <2>1, <2>3
    <3>4. /\ merged[applied].start \in Int /\ merged[applied].end \in Int
          /\ 0 <= merged[applied].start /\ merged[applied].start < merged[applied].end
      BY <3>2 DEF InText, Span
    <3>5. 0 <= prev /\ prev <= u.start
      BY <1>b, <3>2, <3>3, <3>4
    <3> QED
      BY <2>1, <3>5
  <2> QED
    BY <2>2, <2>3
<1>c. prev \in Int /\ 0 <= prev /\ prev <= u.start
  BY <1>2, <1>8
<1>9. OutOK'
  <2>1. ASSUME NEW p \in Int
        PROVE  Shown(p)' <=> /\ 0 <= p /\ p < u.end
                             /\ \A j \in 1..(applied + 1) : ~Covers(merged[j], p)
    <3>1. Shown(p) <=> 0 <= p /\ p < prev /\ \A j \in 1..applied : ~Covers(merged[j], p)
      BY <1>1 DEF MaskInvariant, OutOK
    <3>2. p \in prev..(u.start - 1) <=> prev <= p /\ p < u.start
      BY <1>2 DEF Span
    <3>a. ASSUME NEW j \in 1..applied
          PROVE  merged[j].end <= prev /\ merged[j] \in Span
      <4>2. j \in 1..Len(merged) /\ applied \in 1..Len(merged) /\ applied # 0 /\ merged[j] \in Span
        BY <1>2
      <4>3. merged[applied] \in Span /\ InText(merged[applied])
        BY <1>1, <1>2, <4>2 DEF MaskInvariant, UnionsOK
      <4>4. j < applied => merged[j].end < merged[applied].start
        BY <1>1, <1>2, <4>2 DEF MaskInvariant, UnionsOK
      <4>5. j = applied \/ j < applied
        BY <1>2
      <4> QED
        BY <1>8, <4>2, <4>3, <4>4, <4>5 DEF InText, Span
    <3>3. \A j \in 1..applied : ~(Covers(merged[j], p) /\ prev <= p)
      <4>1. \A j \in 1..applied : merged[j].end \in Int /\ merged[j].end <= prev
        BY <3>a DEF Span
      <4>2. prev \in Int /\ p \in Int
        BY <1>2
      <4> QED
        BY <4>1, <4>2 DEF Covers
    <3>8. p < prev => p < u.start
      BY <1>b, <1>c
    <3>4. p < prev => ~Covers(u, p)
      BY <1>b, <3>8 DEF Covers
    <3>5. p < u.end /\ ~Covers(u, p) <=> p < u.start
      BY <1>b DEF Covers
    <3>6. \A j : j \in 1..(applied + 1) <=> j \in 1..applied \/ j = applied + 1
      BY <1>2
    <3>7. (\A j \in 1..(applied + 1) : ~Covers(merged[j], p))
             <=> (\A j \in 1..applied : ~Covers(merged[j], p)) /\ ~Covers(u, p)
      BY <3>6 DEF u
    <3>9. 0 <= p \/ ~(prev <= p)
      BY <1>c
    <3>10. p < prev \/ prev <= p
      BY <1>c
    <3> QED
      BY <1>5, <3>1, <3>2, <3>3, <3>5, <3>7, <3>8, <3>9, <3>10
  <2>2. \A p \in Int :
           Shown(p)' <=> /\ 0 <= p
                         /\ p < IF stage' = "done" THEN dataLen' ELSE prev'
                         /\ \A j \in 1..applied' : ~Covers(merged[j], p)'
    <3>1. prev' = u.end /\ stage' # "done" /\ applied' = applied + 1
      BY <1>1
    <3>2. \A j, p : Covers(merged[j], p)' <=> Covers(merged[j], p)
      BY <1>1 DEF Covers
    <3> QED
      BY <2>1, <3>1, <3>2
  <2>3. applied' \in 0..Len(merged') /\ applied' # 0
    BY <1>1, <1>2
  <2>4. prev' = IF applied' = 0 THEN 0 ELSE merged'[applied'].end
    BY <1>1, <2>3 DEF u
  <2> QED
    BY <1>1, <2>2, <2>3, <2>4 DEF OutOK
<1> QED
  BY <1>m, <1>6, <1>7, <1>9 DEF MaskInvariant


\* The rest is written as it is.
LEMMA ApplyEndsKeeps ==
    ASSUME MaskInvariant, ApplyEnds
    PROVE  MaskInvariant'
<1>m. MarkersOK'
  BY MarkersKeep DEF MaskNext
<1> DEFINE a == Text(prev, dataLen)
<1>1. /\ stage = "apply" /\ stage' = "done" /\ applied = Len(merged)
      /\ out' = Append(out, a)
      /\ UNCHANGED <<given, dataLen, sorted, next, merged, applied, prev>>
  BY DEF ApplyEnds
<1>2. /\ merged \in Seq(Span) /\ DOMAIN merged = 1..Len(merged) /\ Len(merged) \in Nat
      /\ prev \in Int /\ dataLen \in Nat /\ out \in Seq(Piece)
  BY DEF MaskInvariant, MaskTypeOK
<1>3. a \in Piece /\ a.shows = prev..(dataLen - 1)
  BY <1>2 DEF Piece, Text
<1> HIDE DEF a
<1>4. out' \in Seq(Piece) /\ \A p : Shown(p)' <=> Shown(p) \/ p \in prev..(dataLen - 1)
  <2>1. /\ Append(out, a) \in Seq(Piece)
        /\ \A p : (\E k \in DOMAIN Append(out, a) : p \in Append(out, a)[k].shows)
                  <=> (\E k \in DOMAIN out : p \in out[k].shows) \/ p \in a.shows
    BY <1>2, <1>3, ShownByMore
  <2> QED
    BY <1>1, <1>3, <2>1 DEF Shown
<1>5. MaskTypeOK'
  BY <1>1, <1>4 DEF MaskInvariant, MaskTypeOK
<1>6. SortedOK' /\ UnionsOK' /\ CoverOK'
  BY <1>1 DEF MaskInvariant, SortedOK, UnionsOK, CoverOK, InText, Valid, Clipped, LastUnion, Merged
<1>7. prev = IF applied = 0 THEN 0 ELSE merged[applied].end
  BY DEF MaskInvariant, OutOK
<1>8. \A j \in 1..applied : merged[j] \in Span /\ InText(merged[j]) /\ merged[j].end <= prev
  <2>1. SUFFICES ASSUME NEW j \in 1..applied
                 PROVE  merged[j] \in Span /\ InText(merged[j]) /\ merged[j].end <= prev
    OBVIOUS
  <2>2. applied \in 1..Len(merged) /\ applied # 0 /\ (j = applied \/ j < applied)
    BY <1>1, <1>2
  <2>3. /\ merged[applied] \in Span /\ InText(merged[applied])
        /\ merged[j] \in Span /\ InText(merged[j])
    BY <1>1, <1>2, <2>2 DEF MaskInvariant, UnionsOK
  <2>4. j < applied => merged[j].end < merged[applied].start
    BY <1>1, <1>2, <2>2 DEF MaskInvariant, UnionsOK
  <2> QED
    BY <1>7, <2>2, <2>3, <2>4 DEF InText, Span
<1>9. 0 <= prev /\ prev <= dataLen
  <2>1. CASE applied = 0
    BY <1>2, <1>7, <2>1
  <2>2. CASE applied # 0
    <3>1. applied \in 1..applied
      BY <1>1, <1>2, <2>2
    <3> QED
      BY <1>2, <1>7, <1>8, <2>2, <3>1 DEF InText, Span
  <2> QED
    BY <2>1, <2>2
<1>10. OutOK'
  <2>1. ASSUME NEW p \in Int
        PROVE  Shown(p)' <=> /\ 0 <= p /\ p < dataLen
                             /\ \A j \in 1..applied : ~Covers(merged[j], p)
    <3>1. Shown(p) <=> 0 <= p /\ p < prev /\ \A j \in 1..applied : ~Covers(merged[j], p)
      BY <1>1 DEF MaskInvariant, OutOK
    <3>2. p \in prev..(dataLen - 1) <=> prev <= p /\ p < dataLen
      BY <1>2
    <3>3. \A j \in 1..applied : ~(Covers(merged[j], p) /\ prev <= p)
      BY <1>2, <1>8 DEF Covers, Span
    <3>4. (p < prev \/ prev <= p) /\ (p < prev => p < dataLen) /\ (prev <= p => 0 <= p)
      BY <1>2, <1>9
    <3> QED
      BY <1>4, <3>1, <3>2, <3>3, <3>4
  <2>2. \A j, p : Covers(merged[j], p)' <=> Covers(merged[j], p)
    BY <1>1 DEF Covers
  <2>3. \A p \in Int :
           Shown(p)' <=> /\ 0 <= p
                         /\ p < IF stage' = "done" THEN dataLen' ELSE prev'
                         /\ \A j \in 1..applied' : ~Covers(merged[j], p)'
    BY <1>1, <2>1, <2>2
  <2>4. applied' \in 0..Len(merged') /\ prev' = IF applied' = 0 THEN 0 ELSE merged'[applied'].end
    BY <1>1, <1>2, <1>7
  <2> QED
    BY <1>1, <2>3, <2>4 DEF OutOK
<1> QED
  BY <1>m, <1>5, <1>6, <1>10 DEF MaskInvariant

-----------------------------------------------------------------------------
(* The theorems                                                            *)

\* At the beginning nothing is sorted.
LEMMA MaskInitHolds == MaskInit => MaskInvariant
<1>1. SUFFICES ASSUME MaskInit PROVE MaskInvariant
  OBVIOUS
<1>2. MaskTypeOK
  BY <1>1 DEF MaskInit, NothingMasked, MaskTypeOK
<1>3. SortedOK /\ UnionsOK /\ CoverOK
  BY <1>1 DEF MaskInit, SortedOK, UnionsOK, CoverOK
<1>4. OutOK /\ MarkersOK
  BY <1>1 DEF MaskInit, NothingMasked, OutOK, MarkersOK, Shown
<1> QED
  BY <1>2, <1>3, <1>4 DEF MaskInvariant

\* Every turn, and none.
LEMMA MaskStepKeeps == MaskInvariant /\ [MaskNext]_maskVars => MaskInvariant'
<1>1. ASSUME MaskInvariant, UNCHANGED maskVars
      PROVE  MaskInvariant'
  BY <1>1 DEF maskVars, MaskInvariant, MaskTypeOK, SortedOK, UnionsOK, CoverOK, OutOK,
              MarkersOK, InText, Valid, Clipped, LastUnion, Merged, Shown
<1>2. ASSUME MaskInvariant, MergeNext
      PROVE  MaskInvariant'
  BY <1>2, UnitingKeeps, AppendingKeeps
<1> QED
  BY <1>1, <1>2, SortKeeps, MergeEndsKeeps, ApplyNextKeeps, ApplyEndsKeeps DEF MaskNext

\* At every step of MergeSpans and ApplyMask the unions lie apart and cover the
\* spans merged so far, and what is written is the text without those applied.
THEOREM MaskInvariantHolds == MaskSpec => []MaskInvariant
  BY MaskInitHolds, MaskStepKeeps, PTL DEF MaskSpec

\* When the unions are applied, every span has been merged.
LEMMA AllAreMerged ==
    ASSUME MaskInvariant, stage \in {"apply", "done"}
    PROVE  Merged = DOMAIN sorted
<1>1. sorted \in Seq(Span) /\ next \in Nat
  BY DEF MaskInvariant, MaskTypeOK
<1>2. next > Len(sorted)
  <2>1. stage # "sort" /\ stage # "merge"
    OBVIOUS
  <2> QED
    BY <2>1 DEF MaskInvariant, UnionsOK
<1>3. \A k \in DOMAIN sorted : k < next
  BY <1>1, <1>2
<1> QED
  BY <1>3 DEF Merged

\* What is written in the end shows what no span covers.
LEMMA MaskedIsHidden == MaskInvariant => HidesExactlySpans
<1>1. SUFFICES ASSUME MaskInvariant, stage = "done", NEW p \in 0..(dataLen - 1)
               PROVE  Shown(p) <=> ~Covered(p)
  BY DEF HidesExactlySpans
<1>2. p \in Int /\ 0 <= p /\ p < dataLen /\ MaskTypeOK
  BY <1>1 DEF MaskInvariant, MaskTypeOK
<1>3. Shown(p) <=> \A j \in DOMAIN merged : ~Covers(merged[j], p)
  <2>1. DOMAIN merged = 1..applied
    BY <1>1, <1>2 DEF MaskInvariant, OutOK, MaskTypeOK
  <2>2. Shown(p) <=> \A j \in 1..applied : ~Covers(merged[j], p)
    BY <1>1, <1>2 DEF MaskInvariant, OutOK
  <2> QED
    BY <2>1, <2>2
<1>4. Merged = DOMAIN sorted
  BY <1>1, AllAreMerged
<1>5. (\E j \in DOMAIN merged : Covers(merged[j], p)) <=> (\E k \in DOMAIN sorted : Covers(sorted[k], p))
  <2>1. ASSUME NEW k \in DOMAIN sorted, Covers(sorted[k], p)
        PROVE  \E j \in DOMAIN merged : Covers(merged[j], p)
    <3>1. PICK j \in DOMAIN merged : Holds(merged[j], sorted[k])
      BY <1>1, <1>4 DEF MaskInvariant, CoverOK
    <3>2. merged[j] \in Span /\ sorted[k] \in Span
      BY <1>2 DEF MaskTypeOK
    <3> QED
      BY <1>2, <2>1, <3>1, <3>2 DEF Holds, Covers, Span
  <2> QED
    BY <1>1, <1>2, <1>4, <2>1 DEF MaskInvariant, CoverOK
<1>6. (\E k \in DOMAIN sorted : Covers(sorted[k], p)) <=> (\E i \in Valid : Covers(Clipped(given[i]), p))
  BY <1>1 DEF MaskInvariant, SortedOK
<1>7. (\E i \in Valid : Covers(Clipped(given[i]), p)) <=> Covered(p)
  <2>1. \A i \in DOMAIN given : /\ Clipped(given[i]) \in Span
                                /\ Covers(given[i], p) <=> Covers(Clipped(given[i]), p)
    BY <1>2, ClippedCovers
  <2>2. \A i \in DOMAIN given : Covers(Clipped(given[i]), p) => i \in Valid
    BY <1>2, <2>1 DEF Covers, Valid, Span
  <2> QED
    BY <2>1, <2>2 DEF Covered, Valid
<1> QED
  BY <1>3, <1>5, <1>6, <1>7

\* What MaskSpec shows of a text in the end is what no span covers, whatever the
\* spans and the length of the text.
THEOREM MaskHidesExactlySpans == MaskSpec => []HidesExactlySpans
  BY MaskedIsHidden, MaskInvariantHolds, PTL

\* And the unions have the levels of their spans.
LEMMA MaskedIsGraded == MaskInvariant => UnionsAreGraded
<1>1. SUFFICES ASSUME MaskInvariant, stage \in {"apply", "done"} PROVE UnionsAreGraded
  BY DEF UnionsAreGraded
<1>2. Merged = DOMAIN sorted /\ MaskTypeOK /\ SortedOK /\ CoverOK /\ UnionsOK
  BY <1>1, AllAreMerged DEF MaskInvariant
<1>3. \A i \in Valid : i \in DOMAIN given /\ Clipped(given[i]).level = given[i].level
  BY <1>2, ClippedCovers DEF Valid
<1>4. \A j \in DOMAIN merged :
         \E i \in Valid : /\ given[i].level = merged[j].level
                          /\ Covers(merged[j], Clipped(given[i]).start)
  <2>1. SUFFICES ASSUME NEW j \in DOMAIN merged
                 PROVE  \E i \in Valid : /\ given[i].level = merged[j].level
                                         /\ Covers(merged[j], Clipped(given[i]).start)
    OBVIOUS
  <2>2. PICK k \in DOMAIN sorted : /\ sorted[k].level = merged[j].level
                                   /\ Covers(merged[j], sorted[k].start)
    BY <1>1, <1>2 DEF CoverOK
  <2>3. PICK i \in Valid : sorted[k] = Clipped(given[i])
    BY <1>1, <1>2 DEF SortedOK
  <2> QED
    BY <1>3, <2>2, <2>3
<1>5. \A i \in Valid :
         \E j \in DOMAIN merged :
            /\ merged[j].start <= Clipped(given[i]).start
            /\ Clipped(given[i]).end <= merged[j].end
            /\ given[i].level <= merged[j].level
  <2>1. SUFFICES ASSUME NEW i \in Valid
                 PROVE  \E j \in DOMAIN merged :
                            /\ merged[j].start <= Clipped(given[i]).start
                            /\ Clipped(given[i]).end <= merged[j].end
                            /\ given[i].level <= merged[j].level
    OBVIOUS
  <2>2. PICK k \in DOMAIN sorted : sorted[k] = Clipped(given[i])
    BY <1>1, <1>2 DEF SortedOK
  <2>3. PICK j \in DOMAIN merged : Holds(merged[j], sorted[k])
    BY <1>1, <1>2 DEF CoverOK
  <2> QED
    BY <1>3, <2>2, <2>3 DEF Holds
<1>6. stage = "done" => \A j \in DOMAIN merged : out[2 * j] = MaskMarker(merged[j].level)
  <2>1. SUFFICES ASSUME stage = "done" PROVE \A j \in DOMAIN merged : out[2 * j] = MaskMarker(merged[j].level)
    OBVIOUS
  <2>2. applied = Len(merged) /\ merged \in Seq(Span)
    BY <1>1, <1>2, <2>1 DEF MaskInvariant, OutOK, MaskTypeOK
  <2>3. \A j \in 1..applied : out[2 * j] = MaskMarker(merged[j].level)
    BY <1>1 DEF MaskInvariant, MarkersOK
  <2> QED
    BY <2>2, <2>3
<1> QED
  BY <1>1, <1>2, <1>4, <1>5, <1>6 DEF UnionsAreGraded, UnionsOK

\* The unions that are masked lie apart, each is graded as high as the highest
\* span in it, and no higher, and its marker is that of this level.
THEOREM MaskUnionsAreGraded == MaskSpec => []UnionsAreGraded
  BY MaskedIsGraded, MaskInvariantHolds, PTL

-----------------------------------------------------------------------------
(* scanFormPairs                                                           *)

\* The beginning of a text up to a character.
LEMMA UpToHolds ==
    ASSUME NEW S, NEW t \in Seq(S), NEW c
    PROVE  \E n \in 0..Len(t) : /\ UpTo(c, t) = SubSeq(t, 1, n)
                                /\ \A i \in 1..n : t[i] # c
                                /\ n < Len(t) => t[n + 1] = c
<1> DEFINE Stops(k) == (\A i \in 1..k : t[i] # c) /\ (k < Len(t) => t[k + 1] = c)
           At == {k \in Nat : k < Len(t) /\ t[k + 1] = c}
<1>0. Len(t) \in Nat
  OBVIOUS
<1>1. \E k \in 0..Len(t) : Stops(k)
  <2>0. ASSUME NEW i \in 1..Len(t), t[i] = c
        PROVE  i - 1 \in At
    <3>1. i - 1 \in Nat /\ i - 1 < Len(t) /\ (i - 1) + 1 = i
      BY <1>0
    <3> QED
      BY <2>0, <3>1
  <2>1. CASE At = {}
    <3>1. \A i \in 1..Len(t) : t[i] # c
      BY <2>0, <2>1
    <3>2. Stops(Len(t))
      BY <1>0, <3>1
    <3> QED
      BY <1>0, <3>2
  <2>2. CASE At # {}
    <3>1. PICK k \in At : \A l \in At : k <= l
      <4>1. At \subseteq Nat
        OBVIOUS
      <4> HIDE DEF At
      <4> QED
        BY <2>2, <4>1, LeastNumber
    <3>2. ASSUME NEW i \in 1..k
          PROVE  t[i] # c
      <4>1. i \in 1..Len(t) /\ ~(k <= i - 1)
        BY <1>0, <3>1
      <4> QED
        BY <2>0, <3>1, <4>1
    <3> QED
      BY <1>0, <3>1, <3>2
  <2> QED
    BY <2>1, <2>2
<1> DEFINE n == CHOOSE k \in 0..Len(t) : Stops(k)
<1>2. n \in 0..Len(t) /\ Stops(n)
  BY <1>1
<1>3. UpTo(c, t) = SubSeq(t, 1, n)
  BY DEF UpTo
<1> HIDE DEF n
<1> QED
  BY <1>2, <1>3

\* At the beginning nothing is tagged.
LEMMA FormInitHolds == FormInit => FormInvariant
<1> SUFFICES ASSUME FormInit PROVE FormInvariant
  OBVIOUS
<1>1. PICK n \in Nat : text \in [1..n -> Chars \cup {"&", "="}]
  BY CharsAssumption DEF FormInit
<1>2. /\ text \in Seq(Chars \cup {"&", "="}) /\ raw = text /\ off = 0 /\ fields = <<>>
      /\ Len(text) \in Nat
  BY <1>1 DEF FormInit
<1>3. FormTypeOK /\ RawIsTheRest
  BY <1>2 DEF FormTypeOK, RawIsTheRest
<1>4. Behind = 0
  BY <1>2 DEF Behind
<1>5. BehindIsTagged
  BY <1>2, <1>4 DEF BehindIsTagged
<1> QED
  BY <1>3, <1>5 DEF FormInvariant

\* Where the pair at the offset and the name in it end.
LEMMA PairHolds ==
    ASSUME FormInvariant, raw # <<>>
    PROVE  /\ Len(Pair) \in 0..Len(raw) /\ Len(Name) \in 0..Len(Pair)
           /\ \A i \in 1..Len(Pair) : text[off + i] # "&"
           /\ Len(Pair) < Len(raw) => text[off + Len(Pair) + 1] = "&"
           /\ \A i \in 1..Len(Name) : text[off + i] # "="
           /\ Len(Name) < Len(Pair) => text[off + Len(Name) + 1] = "="
           /\ Name = Pair <=> Len(Name) = Len(Pair)
           /\ Name = SubSeq(text, off + 1, off + Len(Name))
           /\ Pair \in Seq(Chars \cup {"&", "="})
<1> DEFINE All == Chars \cup {"&", "="}
<1>1. /\ text \in Seq(All) /\ raw \in Seq(All) /\ off \in Nat /\ off + Len(raw) = Len(text)
      /\ \A i \in 1..Len(raw) : raw[i] = text[off + i]
      /\ Len(raw) \in Nat
  <2>1. text \in Seq(All) /\ raw \in Seq(All) /\ off \in Nat
    BY DEF FormInvariant, FormTypeOK
  <2>2. off + Len(raw) = Len(text) /\ \A i \in 1..Len(raw) : raw[i] = text[off + i]
    BY DEF FormInvariant, RawIsTheRest
  <2> HIDE DEF All
  <2>3. Len(raw) \in Nat
    BY <2>1
  <2> QED
    BY <2>1, <2>2, <2>3
<1> HIDE DEF All
<1>2. PICK n \in 0..Len(raw) : /\ Pair = SubSeq(raw, 1, n)
                               /\ \A i \in 1..n : raw[i] # "&"
                               /\ n < Len(raw) => raw[n + 1] = "&"
  BY <1>1, UpToHolds DEF Pair
<1>3. Pair \in Seq(All) /\ Len(Pair) = n /\ \A i \in 1..n : Pair[i] = raw[i]
  BY <1>1, <1>2
<1>4. PICK m \in 0..Len(Pair) : /\ Name = SubSeq(Pair, 1, m)
                                /\ \A i \in 1..m : Pair[i] # "="
                                /\ m < Len(Pair) => Pair[m + 1] = "="
  BY <1>3, UpToHolds DEF Name
<1>5. Name \in Seq(All) /\ Len(Name) = m /\ \A i \in 1..m : Name[i] = Pair[i]
  BY <1>3, <1>4
<1>6. n \in Nat /\ m \in Nat /\ n <= Len(raw) /\ m <= n
  BY <1>1, <1>3, <1>4
<1>7. Name = Pair <=> m = n
  BY <1>3, <1>4, <1>5, <1>6
<1>8. Name = SubSeq(text, off + 1, off + m)
  <2>1. SubSeq(text, off + 1, off + m) \in Seq(All) /\ Len(SubSeq(text, off + 1, off + m)) = m
    BY <1>1, <1>6
  <2>2. \A i \in 1..m : SubSeq(text, off + 1, off + m)[i] = text[off + i]
    BY <1>1, <1>6
  <2>3. ASSUME NEW i \in 1..m
        PROVE  Name[i] = text[off + i]
    <3>1. i \in 1..n /\ i \in 1..Len(raw)
      BY <1>1, <1>6
    <3>2. Name[i] = Pair[i] /\ Pair[i] = raw[i] /\ raw[i] = text[off + i]
      BY <1>1, <1>3, <1>5, <3>1
    <3> QED
      BY <3>2
  <2> DEFINE same == SubSeq(text, off + 1, off + m)
  <2>4. same \in [1..m -> All] /\ Name \in [1..m -> All]
    <3> DEFINE T == SubSeq(text, off + 1, off + m)
    <3>1. \A u \in Seq(All) : u \in [1..Len(u) -> All]
      OBVIOUS
    <3> HIDE DEF T
    <3>2. T \in Seq(All) /\ Len(T) = m /\ Name \in Seq(All) /\ Len(Name) = m
      BY <1>5, <2>1 DEF T
    <3> QED
      BY <3>1, <3>2 DEF T
  <2>5. \A i \in 1..m : same[i] = Name[i]
    BY <2>2, <2>3
  <2> HIDE DEF same
  <2>6. same = Name
    BY <2>4, <2>5
  <2> QED
    BY <2>6 DEF same
<1>9. \A i \in 1..n : text[off + i] # "&"
  BY <1>1, <1>2, <1>6
<1>10. n < Len(raw) => text[off + n + 1] = "&"
  BY <1>1, <1>2, <1>6
<1>11. \A i \in 1..m : text[off + i] # "="
  <2> TAKE i \in 1..m
  <2>1. i \in 1..n /\ i \in 1..Len(raw)
    BY <1>6
  <2>2. Pair[i] # "=" /\ Pair[i] = raw[i] /\ raw[i] = text[off + i]
    BY <1>1, <1>3, <1>4, <2>1
  <2> QED
    BY <2>2
<1>12. m < n => text[off + m + 1] = "="
  BY <1>1, <1>3, <1>4, <1>6
<1> QED
  BY <1>3, <1>5, <1>6, <1>7, <1>8, <1>9, <1>10, <1>11, <1>12 DEF All

\* Of a pair, what is in a value is what is behind its first "=", if its name
\* is sensitive; the "&" behind it is in none.
LEMMA PairValue ==
    ASSUME FormInvariant, raw # <<>>,
           NEW p \in off..(off + Len(Pair)), p < Len(text)
    PROVE  InValue(p) <=> /\ Name \in FieldNames
                          /\ Len(Name) < Len(Pair)
                          /\ off + Len(Name) + 1 <= p /\ p < off + Len(Pair)
<1> DEFINE P == Len(Pair)
           N == Len(Name)
<1>1. /\ off \in Nat /\ off + Len(raw) = Len(text) /\ Len(raw) \in Nat
      /\ off = 0 \/ text[off] = "&"
  BY DEF FormInvariant, FormTypeOK, RawIsTheRest
<1>2. /\ P \in 0..Len(raw) /\ N \in 0..P
      /\ \A i \in 1..P : text[off + i] # "&"
      /\ P < Len(raw) => text[off + P + 1] = "&"
      /\ \A i \in 1..N : text[off + i] # "="
      /\ N < P => text[off + N + 1] = "="
      /\ Name = SubSeq(text, off + 1, off + N)
  BY PairHolds
<1> HIDE DEF P, N
<1>3. P \in Nat /\ N \in Nat /\ p \in Nat /\ p <= off + P /\ off <= p
  BY <1>1, <1>2 DEF P
<1>4. \A i \in (off + 1)..(off + P) : text[i] # "&"
  <2> TAKE i \in (off + 1)..(off + P)
  <2>1. i - off \in 1..P /\ off + (i - off) = i
    BY <1>1, <1>3
  <2> QED
    BY <1>2, <2>1
<1>5. \A i \in (off + 1)..(off + N) : text[i] # "="
  <2> TAKE i \in (off + 1)..(off + N)
  <2>1. i - off \in 1..N /\ off + (i - off) = i
    BY <1>1, <1>3
  <2> QED
    BY <1>2, <2>1
<1>6. ASSUME InValue(p)
      PROVE  Name \in FieldNames /\ N < P /\ off + N + 1 <= p /\ p < off + P
  <2>1. PICK b \in 0..p, e \in 1..p :
           /\ b = 0 \/ text[b] = "&"
           /\ \A i \in (b + 1)..(p + 1) : text[i] # "&"
           /\ b < e /\ text[e] = "="
           /\ \A i \in (b + 1)..(e - 1) : text[i] # "="
           /\ SubSeq(text, b + 1, e - 1) \in FieldNames
    BY <1>6 DEF InValue
  <2>2. p < off + P
    <3>1. ASSUME p = off + P
          PROVE  FALSE
      <4>1. P < Len(raw) /\ p + 1 = off + P + 1 /\ p + 1 \in (b + 1)..(p + 1)
        BY <1>1, <1>3, <2>1, <3>1
      <4> QED
        BY <1>2, <2>1, <4>1
    <3> QED
      BY <1>1, <1>3, <3>1
  <2>3. ~(b < off)
    <3> SUFFICES ASSUME b < off PROVE FALSE
      OBVIOUS
    <3>1. off \in (b + 1)..(p + 1) /\ off # 0
      BY <1>1, <1>3, <2>1
    <3> QED
      BY <1>1, <2>1, <3>1
  <2>4. ~(b > off)
    <3> SUFFICES ASSUME b > off PROVE FALSE
      OBVIOUS
    <3>1. b \in (off + 1)..(off + P) /\ b # 0
      BY <1>1, <1>3, <2>1
    <3> QED
      BY <1>4, <2>1, <3>1
  <2>5. b = off
    BY <1>1, <2>1, <2>3, <2>4
  <2>6. ~(e <= off + N)
    <3> SUFFICES ASSUME e <= off + N PROVE FALSE
      OBVIOUS
    <3>1. e \in (off + 1)..(off + N)
      BY <1>1, <1>3, <2>1, <2>5
    <3> QED
      BY <1>5, <2>1, <3>1
  <2>7. N < P
    BY <1>1, <1>2, <1>3, <2>1, <2>2, <2>6
  <2>8. ~(e > off + N + 1)
    <3> SUFFICES ASSUME e > off + N + 1 PROVE FALSE
      OBVIOUS
    <3>1. off + N + 1 \in (b + 1)..(e - 1)
      BY <1>1, <1>3, <2>1, <2>5
    <3> QED
      BY <1>2, <2>1, <2>7, <3>1
  <2>9. e = off + N + 1 /\ e - 1 = off + N
    BY <1>1, <1>3, <2>1, <2>6, <2>8
  <2> QED
    BY <1>2, <2>1, <2>2, <2>5, <2>7, <2>9
<1>7. ASSUME Name \in FieldNames, N < P, off + N + 1 <= p, p < off + P
      PROVE  InValue(p)
  <2> DEFINE e == off + N + 1
  <2>1. off \in 0..p /\ e \in 1..p /\ off < e /\ e - 1 = off + N
    BY <1>1, <1>3, <1>7
  <2>2. \A i \in (off + 1)..(p + 1) : text[i] # "&"
    BY <1>1, <1>3, <1>4, <1>7
  <2>3. text[e] = "=" /\ SubSeq(text, off + 1, e - 1) \in FieldNames
    BY <1>2, <1>7, <2>1
  <2>4. \A i \in (off + 1)..(e - 1) : text[i] # "="
    BY <1>5, <2>1
  <2> HIDE DEF e
  <2> QED
    BY <1>1, <2>1, <2>2, <2>3, <2>4 DEF InValue
<1> QED
  BY <1>6, <1>7 DEF P, N

\* A turn of the loop tags its pair as it should.
LEMMA NextPairKeeps ==
    ASSUME FormInvariant, NextPair
    PROVE  FormInvariant'
<1> DEFINE All == Chars \cup {"&", "="}
           P == Len(Pair)
           N == Len(Name)
           span == [start |-> ValueStart, end |-> ValueEnd, level |-> FieldLevel, rule |-> 0]
           tags == Name \in FieldNames /\ ValueStart < ValueEnd
           Tags == [start : Nat, end : Nat, level : {FieldLevel}, rule : {0}]
<1>1. /\ raw # <<>> /\ text' = text /\ raw' = SubSeq(raw, P + 2, Len(raw)) /\ off' = off + P + 1
      /\ fields' = IF tags THEN Append(fields, span) ELSE fields
  BY DEF NextPair
<1>2. /\ text \in Seq(All) /\ raw \in Seq(All) /\ off \in Nat /\ fields \in Seq(Tags)
      /\ off + Len(raw) = Len(text) /\ \A i \in 1..Len(raw) : raw[i] = text[off + i]
      /\ Len(raw) \in Nat /\ Len(text) \in Nat
  <2>1. text \in Seq(All) /\ raw \in Seq(All) /\ off \in Nat /\ fields \in Seq(Tags)
    BY DEF FormInvariant, FormTypeOK
  <2>2. /\ off + Len(raw) = Len(text)
        /\ \A i \in DOMAIN raw : raw[i] = text[off + i]
    BY <1>1 DEF FormInvariant, RawIsTheRest
  <2>3. DOMAIN raw = 1..Len(raw) /\ Len(raw) \in Nat /\ Len(text) \in Nat
    BY <2>1
  <2> QED
    BY <2>1, <2>2, <2>3
<1>3. /\ P \in 0..Len(raw) /\ N \in 0..P
      /\ P < Len(raw) => text[off + P + 1] = "&"
      /\ Name = Pair <=> N = P
  BY <1>1, PairHolds
<1>4. P \in Nat /\ N \in Nat /\ N <= P /\ P <= Len(raw)
  BY <1>2, <1>3
<1>5. ValueEnd = off + P /\ ValueStart = off + (IF N = P THEN P ELSE N + 1)
  BY <1>3 DEF ValueEnd, ValueStart
<1>6. /\ tags => N < P
      /\ tags <=> Name \in FieldNames /\ N < P /\ off + N + 1 < off + P
      /\ tags => span.start = off + N + 1 /\ span.end = off + P
      /\ tags => span \in Tags
  BY <1>2, <1>4, <1>5
<1> HIDE DEF P, N, span, tags, All, Tags
<1>a. /\ off \in Nat /\ Len(raw) \in Nat /\ Len(text) \in Nat /\ P \in Nat /\ P <= Len(raw)
      /\ off + Len(raw) = Len(text)
  BY <1>2, <1>4
<1>b. \A k \in DOMAIN fields : fields[k].end \in Nat
  <2>1. \A k \in DOMAIN fields : fields[k] \in Tags
    BY <1>2
  <2> QED
    BY <2>1 DEF Tags
<1>7. FormTypeOK'
  <2>1. fields' \in Seq(Tags)
    <3>1. CASE tags
      BY <1>1, <1>2, <1>6, <3>1
    <3>2. CASE ~tags
      BY <1>1, <1>2, <3>2
    <3> QED
      BY <3>1, <3>2
  <2>2. SubSeq(raw, P + 2, Len(raw)) \in Seq(All)
    BY <1>2, <1>4
  <2>3. off' \in Nat
    BY <1>1, <1>2, <1>4
  <2> QED
    BY <1>1, <1>2, <2>1, <2>2, <2>3 DEF FormTypeOK, All, Tags
<1>8. /\ raw' # <<>> <=> P + 2 <= Len(raw)
      /\ raw' # <<>> => Len(raw') = Len(raw) - (P + 1)
      /\ \A i \in 1..(Len(raw) - (P + 1)) : raw'[i] = raw[P + 1 + i]
  <2>1. Len(raw') = IF P + 2 <= Len(raw) THEN Len(raw) - (P + 1) ELSE 0
    BY <1>1, <1>2, <1>4
  <2>2. raw' # <<>> <=> Len(raw') # 0
    <3>1. raw' \in Seq(All)
      BY <1>7 DEF FormTypeOK, All
    <3> QED
      BY <3>1
  <2>3. \A i \in 1..(Len(raw) - (P + 1)) : raw'[i] = raw[P + 1 + i]
    BY <1>1, <1>2, <1>4
  <2> QED
    BY <1>2, <1>4, <2>1, <2>2, <2>3
<1>9. RawIsTheRest'
  <2> SUFFICES ASSUME raw' # <<>>
               PROVE  /\ off' + Len(raw') = Len(text)
                      /\ \A i \in 1..Len(raw') : raw'[i] = text[off' + i]
                      /\ text[off'] = "&"
    <3>1. DOMAIN raw' = 1..Len(raw')
      BY <1>7 DEF FormTypeOK
    <3> QED
      BY <1>1, <3>1 DEF RawIsTheRest
  <2>1. P < Len(raw) /\ Len(raw') = Len(raw) - (P + 1)
    BY <1>2, <1>4, <1>8
  <2>2. \A i \in 1..Len(raw') : raw'[i] = text[off' + i]
    <3> TAKE i \in 1..Len(raw')
    <3>1. P + 1 + i \in 1..Len(raw) /\ off + (P + 1 + i) = off' + i
      BY <1>1, <1>2, <1>4, <2>1
    <3> QED
      BY <1>2, <1>8, <2>1, <3>1
  <2>3. off' + Len(raw') = Len(text)
    <3>1. off' = off + P + 1 /\ Len(raw') = Len(raw) - (P + 1) /\ off + Len(raw) = Len(text)
      BY <1>1, <1>2, <2>1
    <3> QED
      BY <1>a, <3>1
  <2> QED
    BY <1>1, <1>3, <2>1, <2>2, <2>3
<1>10. Behind = off /\ Behind' = (IF off + P + 1 <= Len(text) THEN off + P + 1 ELSE Len(text))
  <2>1. Behind = off /\ Behind' = IF raw' = <<>> THEN Len(text) ELSE off'
    BY <1>1 DEF Behind
  <2>2. CASE raw' = <<>>
    <3>1. Behind' = Len(text) /\ ~(P + 2 <= Len(raw))
      BY <1>8, <2>1, <2>2
    <3>2. off + P + 1 <= Len(text) => off + P + 1 = Len(text)
      BY <1>a, <3>1
    <3> QED
      BY <2>1, <3>1, <3>2
  <2>3. CASE raw' # <<>>
    <3>1. Behind' = off + P + 1 /\ P + 2 <= Len(raw)
      BY <1>1, <1>8, <2>1, <2>3
    <3>2. off + P + 1 <= Len(text)
      BY <1>2, <1>4, <3>1
    <3> QED
      BY <2>1, <3>1, <3>2
  <2> QED
    BY <2>2, <2>3
<1>11. /\ \A p \in 0..(off - 1) : InValue(p) <=> InField(p)
       /\ \A k \in DOMAIN fields : fields[k].end <= off
  BY <1>10 DEF FormInvariant, BehindIsTagged
<1>12. \A p \in Nat : InField(p)' <=> InField(p) \/ (tags /\ off + N + 1 <= p /\ p < off + P)
  <2>1. CASE tags
    <3>1. fields' = Append(fields, span)
      BY <1>1, <2>1
    <3>2. DOMAIN fields' = 1..(Len(fields) + 1) /\ DOMAIN fields = 1..Len(fields)
          /\ fields'[Len(fields) + 1] = span /\ \A k \in 1..Len(fields) : fields'[k] = fields[k]
      BY <1>2, <3>1
    <3>3. Len(fields) \in Nat
      BY <1>2
    <3> QED
      BY <1>6, <2>1, <3>2, <3>3 DEF InField
  <2>2. CASE ~tags
    BY <1>1, <2>2 DEF InField
  <2> QED
    BY <2>1, <2>2
<1>13. \A p \in Nat : p >= off => ~InField(p)
  <2>1. \A k \in DOMAIN fields : fields[k].end \in Nat
    BY <1>b
  <2> QED
    BY <1>2, <1>11, <2>1 DEF InField
<1>14. \A p : InValue(p)' <=> InValue(p)
  BY <1>1 DEF InValue
<1>15. ASSUME NEW p \in 0..(Behind' - 1)
       PROVE  InValue(p)' <=> InField(p)'
  <2>0. p \in Nat /\ Behind' \in Nat
    BY <1>2, <1>4, <1>10
  <2>1. CASE p < off
    <3>1. InValue(p) <=> InField(p)
      BY <1>2, <1>11, <2>0, <2>1
    <3>2. ~(off + N + 1 <= p)
      BY <1>2, <1>4, <2>0, <2>1
    <3> QED
      BY <1>12, <1>14, <2>0, <3>1, <3>2
  <2>2. CASE p >= off
    <3>1. p \in off..(off + P) /\ p < Len(text)
      BY <1>2, <1>4, <1>10, <1>15, <2>0, <2>2
    <3>2. InValue(p) <=> Name \in FieldNames /\ N < P /\ off + N + 1 <= p /\ p < off + P
      BY <1>1, <3>1, PairValue DEF P, N
    <3>3. Name \in FieldNames /\ N < P /\ off + N + 1 <= p /\ p < off + P
             <=> tags /\ off + N + 1 <= p /\ p < off + P
      BY <1>2, <1>4, <1>6, <2>0
    <3> QED
      BY <1>12, <1>13, <1>14, <2>0, <2>2, <3>2, <3>3
  <2> QED
    BY <1>2, <2>0, <2>1, <2>2
<1>16. \A k \in DOMAIN fields' : fields'[k].end <= Behind'
  <2>1. \A k \in DOMAIN fields : fields[k].end \in Nat /\ fields[k].end <= off
    BY <1>11, <1>b
  <2>2. off <= Behind' /\ off + P <= Behind'
    BY <1>2, <1>4, <1>10
  <2>3. CASE tags
    <3>1. DOMAIN fields' = 1..(Len(fields) + 1) /\ DOMAIN fields = 1..Len(fields)
          /\ fields'[Len(fields) + 1] = span /\ \A k \in 1..Len(fields) : fields'[k] = fields[k]
      BY <1>1, <1>2, <2>3
    <3>2. Behind' \in Nat /\ Len(fields) \in Nat
      BY <1>2, <1>4, <1>10
    <3> QED
      BY <1>2, <1>6, <2>1, <2>2, <2>3, <3>1, <3>2
  <2>4. CASE ~tags
    <3>1. Behind' \in Nat
      BY <1>2, <1>4, <1>10
    <3> QED
      BY <1>1, <1>2, <2>1, <2>2, <2>4, <3>1
  <2> QED
    BY <2>3, <2>4
<1>17. BehindIsTagged'
  BY <1>15, <1>16 DEF BehindIsTagged
<1> QED
  BY <1>7, <1>9, <1>17 DEF FormInvariant

\* Nothing changes without a step of the scanner.
LEMMA FormStutters == FormInvariant /\ UNCHANGED formVars => FormInvariant'
<1> SUFFICES ASSUME FormInvariant, UNCHANGED formVars
             PROVE  FormInvariant'
  OBVIOUS
<1>1. text' = text /\ raw' = raw /\ off' = off /\ fields' = fields
  BY DEF formVars
<1>2. Behind' = Behind
  BY <1>1 DEF Behind
<1>3. \A p : (InValue(p)' <=> InValue(p)) /\ (InField(p)' <=> InField(p))
  BY <1>1 DEF InValue, InField
<1>4. FormTypeOK' /\ RawIsTheRest'
  BY <1>1 DEF FormInvariant, FormTypeOK, RawIsTheRest
<1>5. BehindIsTagged'
  BY <1>1, <1>2, <1>3 DEF FormInvariant, BehindIsTagged
<1> QED
  BY <1>4, <1>5 DEF FormInvariant

\* What scanFormPairs has looked at is tagged as it should be, at any moment.
THEOREM FormInvariantHolds == FormSpec => []FormInvariant
<1>1. FormInvariant /\ [NextPair]_formVars => FormInvariant'
  BY NextPairKeeps, FormStutters
<1> QED
  BY <1>1, FormInitHolds, PTL DEF FormSpec

\* When all of a text is looked at, all of it is tagged as it should be.
LEMMA FormInvariantTags == FormInvariant => FieldsAreTagged
BY DEF FormInvariant, BehindIsTagged, Behind, FieldsAreTagged

\* "keeping raw offsets", for a text of any length with any characters: in the
\* end the values of sensitive fields are tagged, and nothing else.
THEOREM FieldsAlwaysTagged == FormSpec => []FieldsAreTagged
  BY FormInvariantHolds, FormInvariantTags, PTL

-----------------------------------------------------------------------------
(* matchJSONPath                                                           *)

\* The pattern from its i-th segment on is found in the path from its j-th on.
AssignsFrom(f, pattern, p, i, j) ==
    /\ \A q \in i..Len(pattern) :
          LET before == IF q = i THEN j - 1 ELSE f[q - 1]
          IN  /\ SegEqual(pattern[q], p[f[q]])
              /\ IF pattern[q].deep THEN f[q] > before ELSE f[q] = before + 1
    /\ Len(p) = IF i > Len(pattern) THEN j - 1 ELSE f[Len(pattern)]
MatchesFrom(pattern, p, i, j) ==
    \E f \in [i..Len(pattern) -> 1..Len(p)] : AssignsFrom(f, pattern, p, i, j)

\* The table that matchJSONPath is.
Step(m, pattern, p, i, j) ==
    IF i > Len(pattern) THEN j > Len(p)
    ELSE \E k \in j..Len(p) :
            /\ k = j \/ pattern[i].deep
            /\ SegEqual(pattern[i], p[k])
            /\ m[i + 1][k + 1]
Table(m, pattern, p) ==
    m = [i \in 1..(Len(pattern) + 1) |-> [j \in 1..(Len(p) + 1) |-> Step(m, pattern, p, i, j)]]

\* matchJSONPath fills such a table and reads its first entry.
LEMMA TableOf ==
    ASSUME NEW pattern, NEW p
    PROVE  MatchJSONPath(pattern, p) = (CHOOSE m : Table(m, pattern, p))[1][1]
BY DEF MatchJSONPath, Table, Step

\* The first of the segments left is found at a place, the others behind it.
LEMMA FirstSegment ==
    ASSUME NEW S, NEW pattern \in Seq(S), NEW T, NEW p \in Seq(T),
           NEW i \in 1..Len(pattern), NEW j \in 1..(Len(p) + 1)
    PROVE  MatchesFrom(pattern, p, i, j) <=>
             \E k \in j..Len(p) : /\ k = j \/ pattern[i].deep
                                  /\ SegEqual(pattern[i], p[k])
                                  /\ MatchesFrom(pattern, p, i + 1, k + 1)
<1> DEFINE n == Len(pattern)
           l == Len(p)
<1>0. n \in Nat /\ l \in Nat
  OBVIOUS
<1> HIDE DEF n, l
<1>a. i \in Nat /\ 1 <= i /\ i <= n /\ j \in Nat /\ 1 <= j /\ j <= l + 1
  BY <1>0 DEF n, l
<1>1. ASSUME MatchesFrom(pattern, p, i, j)
      PROVE  \E k \in j..l : /\ k = j \/ pattern[i].deep
                             /\ SegEqual(pattern[i], p[k])
                             /\ MatchesFrom(pattern, p, i + 1, k + 1)
  <2>1. PICK f \in [i..n -> 1..l] : AssignsFrom(f, pattern, p, i, j)
    BY <1>1 DEF MatchesFrom, n, l
  <2> DEFINE k == f[i]
             g == [q \in (i + 1)..n |-> f[q]]
  <2>2. /\ SegEqual(pattern[i], p[f[i]])
        /\ IF pattern[i].deep THEN f[i] > j - 1 ELSE f[i] = (j - 1) + 1
        /\ l = f[n]
    BY <1>a, <2>1 DEF AssignsFrom, n, l
  <2>3. k \in j..l /\ (k = j \/ pattern[i].deep)
    BY <1>0, <1>a, <2>1, <2>2
  <2>4. g \in [(i + 1)..n -> 1..l]
    BY <1>0, <1>a, <2>1
  <2>5. ASSUME NEW q \in (i + 1)..n
        PROVE  LET before == IF q = i + 1 THEN (k + 1) - 1 ELSE g[q - 1]
               IN  /\ SegEqual(pattern[q], p[g[q]])
                   /\ IF pattern[q].deep THEN g[q] > before ELSE g[q] = before + 1
    <3>1. q \in i..n /\ q # i /\ g[q] = f[q] /\ q \in Nat
      BY <1>0, <1>a
    <3>2. /\ SegEqual(pattern[q], p[f[q]])
          /\ IF pattern[q].deep THEN f[q] > f[q - 1] ELSE f[q] = f[q - 1] + 1
      BY <2>1, <3>1 DEF AssignsFrom, n
    <3>3. CASE q = i + 1
      <4>1. f[q - 1] = k /\ (k + 1) - 1 = k
        BY <1>0, <1>a, <2>1, <2>3, <3>3
      <4> QED
        BY <3>1, <3>2, <3>3, <4>1
    <3>4. CASE q # i + 1
      <4>1. g[q - 1] = f[q - 1]
        BY <1>0, <1>a, <3>1, <3>4
      <4> QED
        BY <3>1, <3>2, <3>4, <4>1
    <3> QED
      BY <3>3, <3>4
  <2>6. l = IF i + 1 > n THEN (k + 1) - 1 ELSE g[n]
    <3>1. CASE i = n
      BY <1>0, <1>a, <2>2, <2>3, <3>1
    <3>2. CASE i # n
      <4>1. g[n] = f[n] /\ ~(i + 1 > n)
        BY <1>0, <1>a, <3>2
      <4> QED
        BY <2>2, <4>1
    <3> QED
      BY <3>1, <3>2
  <2> HIDE DEF k, g
  <2>7. AssignsFrom(g, pattern, p, i + 1, k + 1)
    BY <2>5, <2>6 DEF AssignsFrom, n, l
  <2>8. MatchesFrom(pattern, p, i + 1, k + 1)
    BY <2>4, <2>7 DEF MatchesFrom, n, l
  <2> QED
    BY <2>2, <2>3, <2>8 DEF k
<1>2. ASSUME NEW k \in j..l, k = j \/ pattern[i].deep, SegEqual(pattern[i], p[k]),
             MatchesFrom(pattern, p, i + 1, k + 1)
      PROVE  MatchesFrom(pattern, p, i, j)
  <2>1. PICK g \in [(i + 1)..n -> 1..l] : AssignsFrom(g, pattern, p, i + 1, k + 1)
    BY <1>2 DEF MatchesFrom, n, l
  <2> DEFINE f == [q \in i..n |-> IF q = i THEN k ELSE g[q]]
  <2>0. k \in Nat /\ j <= k /\ k <= l /\ (k + 1) - 1 = k
    BY <1>0, <1>a
  <2>2. f \in [i..n -> 1..l] /\ f[i] = k
    <3>1. \A q \in i..n : q # i => q \in (i + 1)..n
      BY <1>0, <1>a
    <3> QED
      BY <1>0, <1>a, <2>0, <2>1, <3>1
  <2>3. ASSUME NEW q \in i..n
        PROVE  LET before == IF q = i THEN j - 1 ELSE f[q - 1]
               IN  /\ SegEqual(pattern[q], p[f[q]])
                   /\ IF pattern[q].deep THEN f[q] > before ELSE f[q] = before + 1
    <3>1. CASE q = i
      <4>1. k > j - 1 /\ (k = j => k = (j - 1) + 1)
        BY <1>0, <1>a, <2>0
      <4> QED
        BY <1>2, <2>2, <3>1, <4>1
    <3>2. CASE q # i
      <4>1. q \in (i + 1)..n /\ f[q] = g[q] /\ q - 1 \in i..n /\ q \in Nat
        BY <1>0, <1>a, <3>2
      <4>2. f[q - 1] = IF q = i + 1 THEN (k + 1) - 1 ELSE g[q - 1]
        BY <1>0, <1>a, <2>0, <2>2, <4>1
      <4>3. LET before == IF q = i + 1 THEN (k + 1) - 1 ELSE g[q - 1]
            IN  /\ SegEqual(pattern[q], p[g[q]])
                /\ IF pattern[q].deep THEN g[q] > before ELSE g[q] = before + 1
        BY <2>1, <4>1 DEF AssignsFrom, n
      <4> HIDE DEF f
      <4> QED
        BY <3>2, <4>1, <4>2, <4>3
    <3> QED
      BY <3>1, <3>2
  <2>4. l = IF i > n THEN j - 1 ELSE f[n]
    <3>1. ~(i > n) /\ n \in i..n
      BY <1>0, <1>a
    <3>2. l = IF i + 1 > n THEN (k + 1) - 1 ELSE g[n]
      BY <2>1 DEF AssignsFrom, n, l
    <3>3. CASE i = n
      <4>1. i + 1 > n
        BY <1>0, <1>a, <3>3
      <4>2. l = k
        BY <2>0, <3>2, <4>1
      <4> QED
        BY <2>2, <3>1, <3>3, <4>2
    <3>4. CASE i # n
      <4>1. ~(i + 1 > n) /\ f[n] = g[n]
        BY <1>0, <1>a, <3>1, <3>4
      <4> QED
        BY <3>1, <3>2, <4>1
    <3> QED
      BY <3>3, <3>4
  <2> HIDE DEF f
  <2>5. AssignsFrom(f, pattern, p, i, j)
    BY <2>3, <2>4 DEF AssignsFrom, n, l
  <2> QED
    BY <2>2, <2>5 DEF MatchesFrom, n, l
<1> QED
  BY <1>1, <1>2 DEF l

\* With no segment left the path has to be at its end.
LEMMA EndOfPattern ==
    ASSUME NEW S, NEW pattern \in Seq(S), NEW T, NEW p \in Seq(T), NEW j \in 1..(Len(p) + 1)
    PROVE  MatchesFrom(pattern, p, Len(pattern) + 1, j) <=> j > Len(p)
<1> DEFINE n == Len(pattern)
           l == Len(p)
<1>0. n \in Nat /\ l \in Nat /\ j \in 1..(l + 1)
  OBVIOUS
<1> HIDE DEF n, l
<1>1. (n + 1)..n = {} /\ n + 1 > n
  BY <1>0
<1>2. \A f : AssignsFrom(f, pattern, p, n + 1, j) <=> l = j - 1
  BY <1>1 DEF AssignsFrom, n, l
<1>3. \E f : f \in [(n + 1)..n -> 1..l]
  <2>1. [q \in {} |-> 1] \in [{} -> 1..l]
    OBVIOUS
  <2> QED
    BY <1>1, <2>1
<1>4. l = j - 1 <=> j > l
  BY <1>0
<1> QED
  BY <1>2, <1>3, <1>4 DEF MatchesFrom, n, l

\* The table of what the rest of the pattern matches is such a table.
LEMMA TableExists ==
    ASSUME NEW S, NEW pattern \in Seq(S), NEW T, NEW p \in Seq(T)
    PROVE  \E m : Table(m, pattern, p)
<1> DEFINE n == Len(pattern)
           l == Len(p)
           m == [i \in 1..(n + 1) |-> [j \in 1..(l + 1) |-> MatchesFrom(pattern, p, i, j)]]
<1>0. n \in Nat /\ l \in Nat
  OBVIOUS
<1> HIDE DEF n, l
<1>1. \A i \in 1..(n + 1), j \in 1..(l + 1) : m[i][j] = MatchesFrom(pattern, p, i, j)
  OBVIOUS
<1>2. ASSUME NEW i \in 1..(n + 1), NEW j \in 1..(l + 1)
      PROVE  MatchesFrom(pattern, p, i, j) <=> Step(m, pattern, p, i, j)
  <2> HIDE DEF m
  <2>1. CASE i > n
    <3>1. i = n + 1
      BY <1>0, <2>1
    <3> QED
      BY <2>1, <3>1, EndOfPattern DEF Step, n, l
  <2>2. CASE ~(i > n)
    <3>1. i \in 1..n /\ i + 1 \in 1..(n + 1)
      BY <1>0, <2>2
    <3>2. \A k \in j..l : k + 1 \in 1..(l + 1)
      BY <1>0
    <3>3. \A k \in j..l : m[i + 1][k + 1] = MatchesFrom(pattern, p, i + 1, k + 1)
      BY <1>1, <3>1, <3>2
    <3>4. MatchesFrom(pattern, p, i, j) <=>
             \E k \in j..l : /\ k = j \/ pattern[i].deep
                             /\ SegEqual(pattern[i], p[k])
                             /\ MatchesFrom(pattern, p, i + 1, k + 1)
      BY <3>1, FirstSegment DEF n, l
    <3> QED
      BY <2>2, <3>3, <3>4 DEF Step, n, l
  <2> QED
    BY <2>1, <2>2
<1>3. \A i \in 1..(n + 1), j \in 1..(l + 1) : MatchesFrom(pattern, p, i, j) = Step(m, pattern, p, i, j)
  <2> HIDE DEF m
  <2>1. \A i, j : MatchesFrom(pattern, p, i, j) \in BOOLEAN
    BY DEF MatchesFrom
  <2>2. \A i, j : Step(m, pattern, p, i, j) \in BOOLEAN
    <3> TAKE i, j
    <3>1. CASE i > Len(pattern)
      <4>1. Step(m, pattern, p, i, j) = (j > Len(p))
        BY <3>1 DEF Step
      <4> QED
        BY <4>1
    <3>2. CASE ~(i > Len(pattern))
      <4>1. Step(m, pattern, p, i, j) = \E k \in j..Len(p) : /\ k = j \/ pattern[i].deep
                                                           /\ SegEqual(pattern[i], p[k])
                                                           /\ m[i + 1][k + 1]
        BY <3>2 DEF Step
      <4> QED
        BY <4>1
    <3> QED
      BY <3>1, <3>2
  <2> QED
    BY <1>2, <2>1, <2>2
<1>4. m = [i \in 1..(n + 1) |-> [j \in 1..(l + 1) |-> Step(m, pattern, p, i, j)]]
  <2> DEFINE R(x) == [i \in 1..(n + 1) |-> [j \in 1..(l + 1) |-> Step(x, pattern, p, i, j)]]
             M == m
  <2> SUFFICES M = R(M)
    OBVIOUS
  <2>1. \A i \in 1..(n + 1), j \in 1..(l + 1) : MatchesFrom(pattern, p, i, j) = Step(M, pattern, p, i, j)
    BY <1>3
  <2>2. M = [i \in 1..(n + 1) |-> [j \in 1..(l + 1) |-> MatchesFrom(pattern, p, i, j)]]
    OBVIOUS
  <2> HIDE DEF M
  <2> QED
    BY ONLY <2>1, <2>2
<1> QED
  BY <1>4 DEF Table, n, l

\* And its entries say whether the rest of the pattern is found.
LEMMA TableMeans ==
    ASSUME NEW S, NEW pattern \in Seq(S), NEW T, NEW p \in Seq(T), NEW m, Table(m, pattern, p)
    PROVE  m[1][1] <=> MatchesFrom(pattern, p, 1, 1)
<1> DEFINE n == Len(pattern)
           l == Len(p)
           Right == {c \in Nat : \A i \in 1..(n + 1), j \in 1..(l + 1) :
                        i = n + 1 - c => (m[i][j] <=> MatchesFrom(pattern, p, i, j))}
<1>0. n \in Nat /\ l \in Nat
  OBVIOUS
<1>1. ASSUME NEW i \in 1..(n + 1), NEW j \in 1..(l + 1)
      PROVE  m[i][j] <=> Step(m, pattern, p, i, j)
  <2>1. m[i] = [k \in 1..(l + 1) |-> Step(m, pattern, p, i, k)]
    BY DEF Table
  <2> QED
    BY <2>1
<1> HIDE DEF n, l
<1>2. 0 \in Right
  <2> SUFFICES ASSUME NEW i \in 1..(n + 1), NEW j \in 1..(l + 1), i = n + 1
               PROVE  m[i][j] <=> MatchesFrom(pattern, p, i, j)
    BY <1>0
  <2>1. i > n
    BY <1>0
  <2> QED
    BY <1>1, <2>1, EndOfPattern DEF Step, n, l
<1>3. ASSUME NEW c \in Nat, c \in Right
      PROVE  c + 1 \in Right
  <2> SUFFICES ASSUME NEW i \in 1..(n + 1), NEW j \in 1..(l + 1), i = n + 1 - (c + 1)
               PROVE  m[i][j] <=> MatchesFrom(pattern, p, i, j)
    OBVIOUS
  <2>1. i \in 1..n /\ i + 1 \in 1..(n + 1) /\ i + 1 = n + 1 - c /\ ~(i > n)
    BY <1>0
  <2>2. \A k \in j..l : k + 1 \in 1..(l + 1)
    BY <1>0
  <2>3. \A k \in j..l : m[i + 1][k + 1] <=> MatchesFrom(pattern, p, i + 1, k + 1)
    BY <1>3, <2>1, <2>2
  <2>4. MatchesFrom(pattern, p, i, j) <=>
           \E k \in j..l : /\ k = j \/ pattern[i].deep
                           /\ SegEqual(pattern[i], p[k])
                           /\ MatchesFrom(pattern, p, i + 1, k + 1)
    BY <2>1, FirstSegment DEF n, l
  <2>5. m[i][j] <=> \E k \in j..l : /\ k = j \/ pattern[i].deep
                                    /\ SegEqual(pattern[i], p[k])
                                    /\ m[i + 1][k + 1]
    BY <1>1, <2>1 DEF Step, n, l
  <2> QED
    BY <2>3, <2>4, <2>5
<1> HIDE DEF Right
<1>4. Nat \subseteq Right
  BY <1>2, <1>3, NumbersInSteps
<1>5. n \in Right /\ 1 \in 1..(n + 1) /\ 1 \in 1..(l + 1) /\ 1 = n + 1 - n
  BY <1>0, <1>4
<1> QED
  BY <1>5 DEF Right

\* matchJSONPath matches what a pattern means, for every pattern and path.
THEOREM MatchIsMatches ==
    ASSUME NEW S, NEW pattern \in Seq(S), NEW T, NEW p \in Seq(T)
    PROVE  MatchJSONPath(pattern, p) <=> Matches(pattern, p)
<1> DEFINE n == Len(pattern)
           m == CHOOSE x : Table(x, pattern, p)
<1>1. Table(m, pattern, p)
  BY TableExists
<1>2. MatchJSONPath(pattern, p) <=> m[1][1]
  BY TableOf
<1> HIDE DEF m
<1>3. m[1][1] <=> MatchesFrom(pattern, p, 1, 1)
  BY <1>1, TableMeans
<1>4. MatchesFrom(pattern, p, 1, 1) <=> Matches(pattern, p)
  <2>1. /\ DOMAIN pattern = 1..n /\ DOMAIN p = 1..Len(p) /\ n \in Nat /\ 1 - 1 = 0
        /\ pattern = <<>> <=> n = 0
    OBVIOUS
  <2> HIDE DEF n
  <2>2. ASSUME NEW f \in [1..n -> 1..Len(p)]
        PROVE  AssignsFrom(f, pattern, p, 1, 1) <=> Assigns(f, pattern, p)
    <3>1. DOMAIN f = 1..n /\ (1 > n <=> pattern = <<>>)
      BY <2>1
    <3> QED
      BY <2>1, <3>1 DEF AssignsFrom, Assigns, n
  <2> QED
    BY <2>1, <2>2 DEF MatchesFrom, Matches, n
<1> QED
  BY <1>2, <1>3, <1>4

-----------------------------------------------------------------------------
(* scanJSON: what one more token changes                                   *)

\* One more token, which leaves what the tokens before it mean alone.
LEMMA OneMoreCount ==
    ASSUME ScanTypeOK, NEW h, h = Here, NEW x \in Tokens, tokens' = Append(tokens, x), NEW kind
    PROVE  /\ \A t \in 1..h : /\ Count(kind, 1..(t - 1)) \in Nat
                                 /\ Count(kind, 1..(t - 1))' = Count(kind, 1..(t - 1))
           /\ Count(kind, 1..h)' =
                 Count(kind, 1..(h - 1)) + (IF x.kind = kind THEN 1 ELSE 0)
<1> DEFINE n == Len(tokens)
           S(t) == {p \in 1..(t - 1) : tokens[p].kind = kind}
<1>1. n \in Nat /\ h = n + 1 /\ tokens'[n + 1] = x /\ \A p \in 1..n : tokens'[p] = tokens[p]
  BY DEF ScanTypeOK, Here
<1> HIDE DEF n
<1>2. ASSUME NEW t \in 1..h
      PROVE  /\ Count(kind, 1..(t - 1)) \in Nat
             /\ Count(kind, 1..(t - 1))' = Count(kind, 1..(t - 1))
             /\ IsFiniteSet(S(t)) /\ Count(kind, 1..(t - 1)) = Cardinality(S(t))
  <2>1. 1..(t - 1) \subseteq 1..n
    BY <1>1
  <2>2. {p \in 1..(t - 1) : tokens'[p].kind = kind} = S(t)
    BY <1>1, <2>1
  <2>3. IsFiniteSet(S(t))
    <3>1. 1 \in Int /\ t - 1 \in Int
      BY <1>1
    <3>2. IsFiniteSet(1..(t - 1))
      BY <3>1, FS_Interval
    <3> QED
      BY <3>2, FS_Subset
  <2>4. Cardinality(S(t)) \in Nat
    BY <2>3, FS_CardinalityType
  <2> QED
    BY <2>2, <2>3, <2>4 DEF Count
<1>3. {p \in 1..h : tokens'[p].kind = kind} = IF x.kind = kind THEN S(h) \cup {h} ELSE S(h)
  <2>1. \A p \in 1..h : p = h \/ p \in 1..n
    BY <1>1
  <2>2. h - 1 = n /\ h \in 1..h /\ 1..n \subseteq 1..h
    BY <1>1
  <2>3. S(h) = {p \in 1..n : tokens[p].kind = kind}
    BY <2>2
  <2>4. tokens'[h].kind = x.kind /\ \A p \in 1..n : tokens'[p].kind = tokens[p].kind
    BY <1>1
  <2> HIDE DEF S
  <2>5. \A p : p \in 1..h /\ tokens'[p].kind = kind <=> p \in S(h) \/ (p = h /\ x.kind = kind)
    BY <2>1, <2>2, <2>3, <2>4
  <2> QED
    BY <2>5
<1>4. h \in 1..h /\ h \notin S(h) /\ h \in Nat
  BY <1>1
<1>5. IsFiniteSet(S(h)) /\ Count(kind, 1..(h - 1)) = Cardinality(S(h)) /\ Cardinality(S(h)) \in Nat
  <2>1. IsFiniteSet(S(h)) /\ Count(kind, 1..(h - 1)) = Cardinality(S(h))
    BY <1>2, <1>4
  <2> QED
    BY <2>1, FS_CardinalityType
<1>6. Cardinality(S(h) \cup {h}) = Cardinality(S(h)) + 1
  BY <1>4, <1>5, FS_AddElement
<1> HIDE DEF S
<1>7. Count(kind, 1..h)' = Cardinality(IF x.kind = kind THEN S(h) \cup {h} ELSE S(h))
  <2>1. Count(kind, 1..h)' = Cardinality({p \in 1..h : tokens'[p].kind = kind})
    BY DEF Count
  <2> QED
    BY <1>3, <2>1
<1> QED
  BY <1>2, <1>5, <1>6, <1>7

\* The depths before a token do not depend on it.
LEMMA OneMoreDepth ==
    ASSUME ScanTypeOK, NEW h, h = Here, NEW x \in Tokens, tokens' = Append(tokens, x)
    PROVE  /\ h \in Nat /\ h >= 1 /\ Len(tokens) = h - 1 /\ Here' = h + 1 /\ Len(tokens') = h
           /\ tokens'[h] = x /\ \A p \in 1..(h - 1) : tokens'[p] = tokens[p]
           /\ Depth(1) = 0 /\ Depth(1)' = 0
           /\ \A t \in 1..h : Depth(t) \in Int /\ Depth(t)' = Depth(t)
           /\ Depth(h + 1)' = CASE x.kind = "open" -> Depth(h) + 1
                                [] x.kind = "close" -> Depth(h) - 1
                                [] OTHER -> Depth(h)
<1>1. tokens \in Seq(Tokens) /\ tokens' \in Seq(Tokens) /\ Len(tokens) \in Nat /\ h = Len(tokens) + 1
      /\ Len(tokens') = h /\ h \in Nat
  BY DEF ScanTypeOK, Here
<1>2. Here' = h + 1
  BY <1>1 DEF Here
<1>3. tokens'[h] = x /\ \A p \in 1..(h - 1) : tokens'[p] = tokens[p]
  BY <1>1
<1>4. \A kind : /\ \A t \in 1..h : /\ Count(kind, 1..(t - 1)) \in Nat
                                   /\ Count(kind, 1..(t - 1))' = Count(kind, 1..(t - 1))
                /\ Count(kind, 1..h)' =
                      Count(kind, 1..(h - 1)) + (IF x.kind = kind THEN 1 ELSE 0)
  BY OneMoreCount
<1>5. \A t \in 1..h : Depth(t) \in Int /\ Depth(t)' = Depth(t)
  <2> TAKE t \in 1..h
  <2>1. /\ Count("open", 1..(t - 1)) \in Nat /\ Count("close", 1..(t - 1)) \in Nat
        /\ Count("open", 1..(t - 1))' = Count("open", 1..(t - 1))
        /\ Count("close", 1..(t - 1))' = Count("close", 1..(t - 1))
    BY <1>4
  <2> QED
    BY <2>1 DEF Depth
<1>6. Depth(h + 1)' = Count("open", 1..h)' - Count("close", 1..h)'
  <2>1. (h + 1) - 1 = h
    BY <1>1
  <2>2. Depth(h + 1)' = Count("open", 1..((h + 1) - 1))' - Count("close", 1..((h + 1) - 1))'
    BY DEF Depth
  <2> QED
    BY <2>1, <2>2
<1>7. Depth(h + 1)' = CASE x.kind = "open" -> Depth(h) + 1
                        [] x.kind = "close" -> Depth(h) - 1
                        [] OTHER -> Depth(h)
  <2> DEFINE o == Count("open", 1..(h - 1))
             c == Count("close", 1..(h - 1))
  <2>1. o \in Nat /\ c \in Nat /\ Depth(h) = o - c
    <3>1. h \in 1..h
      BY <1>1
    <3> QED
      BY <1>4, <3>1 DEF Depth
  <2>2. /\ Count("open", 1..h)' = o + (IF x.kind = "open" THEN 1 ELSE 0)
        /\ Count("close", 1..h)' = c + (IF x.kind = "close" THEN 1 ELSE 0)
    BY <1>4
  <2> HIDE DEF o, c
  <2>3. CASE x.kind = "open"
    <3>1. Count("open", 1..h)' = o + 1 /\ Count("close", 1..h)' = c + 0
      BY <2>2, <2>3
    <3> QED
      BY <1>6, <2>1, <2>3, <3>1
  <2>4. CASE x.kind = "close"
    <3>1. Count("open", 1..h)' = o + 0 /\ Count("close", 1..h)' = c + 1
      BY <2>2, <2>4
    <3> QED
      BY <1>6, <2>1, <2>4, <3>1
  <2>5. CASE x.kind # "open" /\ x.kind # "close"
    <3>1. Count("open", 1..h)' = o + 0 /\ Count("close", 1..h)' = c + 0
      BY <2>2, <2>5
    <3> QED
      BY <1>6, <2>1, <2>5, <3>1
  <2> QED
    BY <2>3, <2>4, <2>5
<1>8. Depth(1) = 0
  <2>1. \A kind : {p \in 1..(1 - 1) : tokens[p].kind = kind} = {}
    OBVIOUS
  <2>2. \A kind : Count(kind, 1..(1 - 1)) = 0
    BY <2>1, FS_EmptySet DEF Count
  <2> QED
    BY <2>2 DEF Depth
<1>9. Depth(1)' = 0
  BY <1>1, <1>5, <1>8
<1> QED
  BY <1>1, <1>2, <1>3, <1>5, <1>7, <1>8, <1>9

\* Nor which containers are around a place before it.
LEMMA OneMoreAround ==
    ASSUME ScanTypeOK, NEW h, h = Here, NEW x \in Tokens, tokens' = Append(tokens, x)
    PROVE  /\ \A t \in 1..h : /\ Around(t)' = Around(t) /\ Around(t) \subseteq 1..(h - 1)
                              /\ Inside(t)' = Inside(t) /\ Parent(t)' = Parent(t)
           /\ Around(h + 1)' = {q \in Around(h) : Depth(q) < Depth(h + 1)'}
                                  \cup (IF x.kind = "open" THEN {h} ELSE {})
           /\ \A q \in Around(h) : tokens'[q].array = tokens[q].array
<1>1. /\ h \in Nat /\ h >= 1
      /\ tokens'[h] = x /\ \A p \in 1..(h - 1) : tokens'[p] = tokens[p]
      /\ \A t \in 1..h : Depth(t) \in Int /\ Depth(t)' = Depth(t)
      /\ Depth(h + 1)' = CASE x.kind = "open" -> Depth(h) + 1
                           [] x.kind = "close" -> Depth(h) - 1
                           [] OTHER -> Depth(h)
  BY OneMoreDepth
<1>2. ASSUME NEW t \in 1..h
      PROVE  Around(t)' = Around(t) /\ Around(t) \subseteq 1..(h - 1)
  <2>1. 1..(t - 1) \subseteq 1..(h - 1) /\ 1..(t - 1) \subseteq 1..h
    BY <1>1
  <2>2. \A q \in 1..(t - 1) : (q + 1)..t \subseteq 1..h
    BY <1>1
  <2>3. \A q \in 1..(t - 1) : /\ tokens'[q].kind = tokens[q].kind
                              /\ Depth(q)' = Depth(q)
                              /\ \A p \in (q + 1)..t : Depth(p)' = Depth(p)
    BY <1>1, <2>1, <2>2
  <2> QED
    BY <2>1, <2>3 DEF Around
<1>3. \A t \in 1..h : Inside(t)' = Inside(t) /\ Parent(t)' = Parent(t)
  BY <1>2 DEF Inside, Parent
<1>4. Around(h + 1)' = {q \in Around(h) : Depth(q) < Depth(h + 1)'}
                          \cup (IF x.kind = "open" THEN {h} ELSE {})
  <2>0. (h + 1) - 1 = h
    BY <1>1
  <2>1. \A q : q \in Around(h + 1)' <=>
             /\ q \in 1..h /\ tokens'[q].kind = "open"
             /\ \A p \in (q + 1)..(h + 1) : Depth(p)' > Depth(q)'
    BY <2>0 DEF Around
  <2>2. \A q : q \in Around(h) <=>
             /\ q \in 1..(h - 1) /\ tokens[q].kind = "open"
             /\ \A p \in (q + 1)..h : Depth(p) > Depth(q)
    BY DEF Around
  <2>3. ASSUME NEW q \in 1..(h - 1)
        PROVE  q \in Around(h + 1)' <=> q \in Around(h) /\ Depth(q) < Depth(h + 1)'
    <3>1. /\ q \in 1..h /\ tokens'[q] = tokens[q] /\ Depth(q)' = Depth(q)
          /\ \A p : p \in (q + 1)..(h + 1) <=> p \in (q + 1)..h \/ p = h + 1
          /\ \A p \in (q + 1)..h : p \in 1..h
      <4>1. q \in 1..h /\ h \in Nat /\ q \in Nat /\ q >= 1 /\ q < h
        BY <1>1
      <4>2. (q + 1)..(h + 1) = ((q + 1)..h) \cup {h + 1} /\ (q + 1)..h \subseteq 1..h
        BY <4>1
      <4>3. tokens'[q] = tokens[q] /\ Depth(q)' = Depth(q)
        BY <1>1, <4>1
      <4> QED
        BY <4>1, <4>2, <4>3
    <3>2. (\A p \in (q + 1)..(h + 1) : Depth(p)' > Depth(q)') <=>
             (\A p \in (q + 1)..h : Depth(p) > Depth(q)) /\ Depth(h + 1)' > Depth(q)
      BY <1>1, <3>1
    <3>3. Depth(h + 1)' \in Int /\ Depth(q) \in Int
      <4>1. h \in 1..h
        BY <1>1
      <4> QED
        BY <1>1, <3>1, <4>1
    <3>4. Depth(h + 1)' > Depth(q) <=> Depth(q) < Depth(h + 1)'
      BY <3>3
    <3> QED
      BY <2>1, <2>2, <3>1, <3>2, <3>4
  <2>4. h \in Around(h + 1)' <=> x.kind = "open"
    <3>1. h \in 1..h /\ (h + 1)..(h + 1) = {h + 1} /\ Depth(h)' = Depth(h) /\ Depth(h) \in Int
      BY <1>1
    <3>2. x.kind = "open" => Depth(h + 1)' > Depth(h)
      BY <1>1, <3>1
    <3> QED
      BY <1>1, <2>1, <3>1, <3>2
  <2>5. \A q \in 1..h : q = h \/ q \in 1..(h - 1)
    BY <1>1
  <2>6. h \notin Around(h)
    BY <1>1, <2>2
  <2> QED
    BY <2>1, <2>2, <2>3, <2>4, <2>5, <2>6
<1>5. \A q \in Around(h) : tokens'[q].array = tokens[q].array
  <2>1. h \in 1..h
    BY <1>1
  <2> QED
    BY <1>1, <1>2, <2>1
<1> QED
  BY <1>2, <1>3, <1>4, <1>5

\* Whether a token is a key, and its place in its container.
LEMMA OneMorePlace ==
    ASSUME ScanTypeOK, NEW h, h = Here, NEW x \in Tokens, tokens' = Append(tokens, x)
    PROVE  /\ \A t \in 1..h : /\ InArray(t)' = InArray(t) /\ IsKey(t)' = IsKey(t)
                              /\ Inside(t) => Siblings(t)' = Siblings(t)
           /\ \A t \in 2..h : SegOf(t)' = SegOf(t)
<1>1. /\ h \in Nat /\ h >= 1
      /\ \A p \in 1..(h - 1) : tokens'[p] = tokens[p]
      /\ \A t \in 1..h : Depth(t) \in Int /\ Depth(t)' = Depth(t)
  BY OneMoreDepth
<1>2. \A t \in 1..h : /\ Around(t)' = Around(t) /\ Around(t) \subseteq 1..(h - 1)
                      /\ Inside(t)' = Inside(t) /\ Parent(t)' = Parent(t)
  BY OneMoreAround
<1>3. ASSUME NEW t \in 1..h, Inside(t)
      PROVE  Parent(t) \in Around(t) /\ Parent(t) \in 1..(h - 1)
  <2>1. Around(t) \subseteq 1..(t - 1) /\ Around(t) # {}
    BY <1>3 DEF Around, Inside
  <2>2. \E q \in Around(t) : \A p \in Around(t) : q >= p
    <3> DEFINE Low == {k \in Nat : t - k \in Around(t)}
    <3>1. PICK q \in Around(t) : TRUE
      BY <2>1
    <3>2. t - q \in Low
      BY <1>1, <2>1, <3>1
    <3>3. Low \subseteq Nat
      OBVIOUS
    <3> HIDE DEF Low
    <3>4. PICK k \in Low : \A l \in Low : k <= l
      BY <3>2, <3>3, LeastNumber
    <3>5. t - k \in Around(t) /\ k \in Nat
      BY <3>4 DEF Low
    <3>6. ASSUME NEW p \in Around(t)
          PROVE  t - k >= p
      <4>1. p \in 1..(t - 1) /\ t \in Nat
        BY <1>1, <2>1
      <4>2. t - p \in Nat /\ t - (t - p) = p
        BY <4>1
      <4>3. k <= t - p
        BY <3>4, <4>2 DEF Low
      <4> QED
        BY <3>5, <4>1, <4>3
    <3> QED
      BY <3>5, <3>6
  <2>3. Parent(t) \in Around(t)
    BY <2>2 DEF Parent, Max
  <2> QED
    BY <1>2, <2>3
<1>4. ASSUME NEW t \in 1..h, Inside(t)
      PROVE  Siblings(t)' = Siblings(t) /\ tokens'[Parent(t)] = tokens[Parent(t)]
  <2>1. Parent(t)' = Parent(t) /\ Parent(t) \in 1..(h - 1)
    BY <1>2, <1>3, <1>4
  <2>2. (Parent(t) + 1)..(t - 1) \subseteq 1..(h - 1) /\ (Parent(t) + 1)..(t - 1) \subseteq 1..h
    <3>1. \A a \in 1..(h - 1) : /\ (a + 1)..(t - 1) \subseteq 1..(h - 1)
                                /\ (a + 1)..(t - 1) \subseteq 1..h
      BY <1>1
    <3> QED
      BY <2>1, <3>1
  <2>3. \A p \in (Parent(t) + 1)..(t - 1) : tokens'[p] = tokens[p] /\ Depth(p)' = Depth(p)
    BY <1>1, <2>2
  <2>4. Depth(t)' = Depth(t)
    BY <1>1
  <2> QED
    BY <1>1, <2>1, <2>3, <2>4 DEF Siblings
<1>5. \A t \in 1..h : InArray(t)' = InArray(t)
  BY <1>2, <1>4 DEF InArray
<1>6. \A t \in 1..h : IsKey(t)' = IsKey(t)
  BY <1>2, <1>4, <1>5 DEF IsKey
<1>7. ASSUME NEW t \in 2..h
      PROVE  SegOf(t)' = SegOf(t)
  <2>1. t \in 1..h /\ t - 1 \in 1..(h - 1)
    BY <1>1
  <2>2. tokens'[t - 1] = tokens[t - 1] /\ InArray(t)' = InArray(t)
    BY <1>1, <1>5, <2>1
  <2>3. InArray(t) => Siblings(t)' = Siblings(t)
    BY <1>4, <2>1 DEF InArray
  <2> QED
    BY <2>2, <2>3 DEF SegOf
<1> QED
  BY <1>4, <1>5, <1>6, <1>7

\* There is one container of each depth around a token.
LEMMA OnePerDepth ==
    ASSUME NEW h \in Nat, \A t \in 1..h : Depth(t) \in Int,
           NEW t \in 1..h, NEW p \in Around(t) \cup {t}, NEW q \in Around(t) \cup {t},
           Depth(p) = Depth(q)
    PROVE  p = q
<1>1. \A r \in Around(t) : r \in 1..(t - 1) /\ \A s \in (r + 1)..t : Depth(s) > Depth(r)
  BY DEF Around
<1>2. ASSUME NEW r \in Around(t) \cup {t}, NEW s \in Around(t) \cup {t}, r < s
      PROVE  Depth(r) # Depth(s)
  <2>1. r \in Nat /\ s \in 1..t /\ t \in Nat /\ t <= h
    BY <1>1
  <2>2. r \in Around(t) /\ s \in (r + 1)..t /\ s \in 1..h /\ r \in 1..h
    BY <1>1, <1>2, <2>1
  <2>3. Depth(s) > Depth(r) /\ Depth(s) \in Int /\ Depth(r) \in Int
    BY <1>1, <2>2
  <2> QED
    BY <2>3
<1>3. p \in Nat /\ q \in Nat
  BY <1>1
<1>4. ~(p < q) /\ ~(q < p)
  BY <1>2
<1> QED
  BY <1>3, <1>4

\* What is around a token lies above it.
LEMMA AroundIsAbove ==
    ASSUME NEW t \in Nat, NEW q \in Around(t)
    PROVE  q \in 1..(t - 1) /\ tokens[q].kind = "open" /\ Depth(t) > Depth(q)
<1>1. q \in 1..(t - 1) /\ tokens[q].kind = "open" /\ t \in (q + 1)..t
  BY DEF Around
<1> QED
  BY <1>1 DEF Around

\* The location of a token, by the containers around it.
LEMMA LocationAt ==
    ASSUME NEW h \in Nat, \A t \in 1..h : Depth(t) \in Int,
           NEW t \in 1..h, NEW d \in 1..Depth(t), NEW q \in Around(t) \cup {t}, Depth(q) = d
    PROVE  Location(t)[d] = SegOf(q)
<1>1. \A p \in Around(t) \cup {t} : Depth(p) = d => p = q
  BY OnePerDepth
<1>2. (CHOOSE p \in Around(t) \cup {t} : Depth(p) = d) = q
  BY <1>1
<1> QED
  BY <1>2 DEF Location

\* Nested: the containers around a token are of every depth above its own.
Nested(t) == \A d \in 0..(Depth(t) - 1) : \E q \in Around(t) : Depth(q) = d

\* The location of a token does not depend on the later ones.
LEMMA OneMoreLocation ==
    ASSUME ScanTypeOK, NEW h, h = Here, NEW x \in Tokens, tokens' = Append(tokens, x),
           NEW t \in 1..h, Nested(t)
    PROVE  Location(t)' = Location(t)
<1>1. /\ h \in Nat /\ h >= 1 /\ Depth(1) = 0
      /\ \A u \in 1..h : Depth(u) \in Int /\ Depth(u)' = Depth(u)
  BY OneMoreDepth
<1>2. Around(t)' = Around(t) /\ Around(t) \subseteq 1..(h - 1)
  BY OneMoreAround
<1>3. \A u \in 2..h : SegOf(u)' = SegOf(u)
  BY OneMorePlace
<1>4. \A d \in 1..Depth(t) : Location(t)'[d] = Location(t)[d]
  <2> TAKE d \in 1..Depth(t)
  <2>1. \E q \in Around(t) \cup {t} : Depth(q) = d
    <3>1. CASE d = Depth(t)
      BY <3>1
    <3>2. CASE d # Depth(t)
      <4>1. d \in 0..(Depth(t) - 1)
        BY <1>1, <3>2
      <4> QED
        BY <4>1 DEF Nested
    <3> QED
      BY <3>1, <3>2
  <2>2. PICK q \in Around(t) \cup {t} : Depth(q) = d
    BY <2>1
  <2>3. q \in 1..h /\ q # 1
    BY <1>1, <1>2, <2>2
  <2>4. q \in 2..h
    BY <1>1, <2>3
  <2>5. \A p \in Around(t) \cup {t} : Depth(p) = d => p = q
    BY <1>1, <2>2, OnePerDepth
  <2>6. \A p \in Around(t)' \cup {t} : p \in 1..h /\ Depth(p)' = Depth(p)
    BY <1>1, <1>2
  <2>7. (CHOOSE p \in Around(t)' \cup {t} : Depth(p)' = d) = q
    BY <1>2, <2>2, <2>5, <2>6
  <2>8. d \in 1..Depth(t)'
    BY <1>1
  <2>9. Location(t)'[d] = SegOf(q)'
    BY <2>7, <2>8 DEF Location
  <2>10. Location(t)[d] = SegOf(q)
    BY <1>1, <2>2, LocationAt
  <2> QED
    BY <1>3, <2>4, <2>9, <2>10
<1>5. Location(t)' = [d \in 1..Depth(t) |-> Location(t)'[d]] /\ Location(t) = [d \in 1..Depth(t) |-> Location(t)[d]]
  <2>1. Depth(t)' = Depth(t)
    BY <1>1
  <2> QED
    BY <2>1 DEF Location
<1> QED
  BY <1>4, <1>5

-----------------------------------------------------------------------------
(* scanJSON: where the next token is                                       *)

\* The next token is odd or even among its siblings.
LEMMA Parity ==
    ASSUME NEW n \in Nat
    PROVE  /\ n % 2 \in {0, 1}
           /\ (n + 1) % 2 = IF n % 2 = 0 THEN 1 ELSE 0
           /\ 0 % 2 = 0
  OBVIOUS

\* What the frames tell about the next token.
LEMMA FramesTell ==
    ASSUME ScanTypeOK, FramesAreOpen, NEW h, h = Here, \A t \in 1..h : Depth(t) \in Int
    PROVE  /\ Inside(h) <=> frames # <<>>
           /\ frames # <<>> =>
                /\ Parent(h) \in Around(h) /\ FrameIsOf(Len(frames), Parent(h))
                /\ Siblings(h) = Members(Parent(h))
                /\ Cardinality(Members(Parent(h))) \in Nat
           /\ InArray(h) <=> frames # <<>> /\ Top.isArray
           /\ IsKey(h) <=> InObject /\ ~Top.haveKey
<1> DEFINE n == Len(frames)
           q == Parent(h)
<1>1. n \in Nat /\ (frames # <<>> <=> n > 0) /\ h \in Nat /\ h >= 1 /\ Len(tokens) = h - 1
      /\ tokens \in Seq(Tokens) /\ Len(tokens) \in Nat
  BY DEF ScanTypeOK, Here
<1>2. Depth(h) = n /\ \A i \in 1..n : \E p \in Around(h) : FrameIsOf(i, p)
  <2>1. DOMAIN frames = 1..n
    BY DEF ScanTypeOK
  <2> QED
    BY <2>1 DEF FramesAreOpen
<1>3. \A p \in Around(h) : p \in 1..(h - 1) /\ Depth(p) \in Int /\ 0 <= Depth(p) /\ Depth(p) < n
  <2> TAKE p \in Around(h)
  <2>1. p \in 1..(h - 1) /\ Depth(h) > Depth(p)
    BY <1>1, AroundIsAbove
  <2>2. p \in 1..h /\ h \in 1..h
    BY <1>1, <2>1
  <2>3. Depth(p) >= 0
    BY <2>2 DEF FramesAreOpen
  <2> QED
    BY <1>2, <2>1, <2>2, <2>3
<1>4. Inside(h) <=> frames # <<>>
  <2>1. CASE n = 0
    <3>1. Around(h) = {}
      BY <1>3, <2>1
    <3> QED
      BY <1>1, <2>1, <3>1 DEF Inside
  <2>2. CASE n > 0
    <3>1. n \in 1..n
      BY <1>1, <2>2
    <3> QED
      BY <1>1, <1>2, <2>2, <3>1 DEF Inside
  <2> QED
    BY <1>1, <2>1, <2>2
<1>5. ASSUME frames # <<>>
      PROVE  q \in Around(h) /\ FrameIsOf(n, q)
  <2>1. n \in 1..n
    BY <1>1, <1>5
  <2>2. PICK p \in Around(h) : FrameIsOf(n, p)
    BY <1>2, <2>1
  <2>3. Depth(p) = n - 1
    BY <2>2 DEF FrameIsOf
  <2>4. ASSUME NEW r \in Around(h)
        PROVE  p >= r
    <3>1. SUFFICES ASSUME p < r
                   PROVE  FALSE
      BY <1>3, <2>2
    <3>2. r \in (p + 1)..h
      BY <1>1, <1>3, <2>2, <3>1
    <3>3. Depth(r) > Depth(p)
      BY <2>2, <3>2 DEF Around
    <3> QED
      BY <1>1, <1>3, <2>3, <3>3
  <2>5. \A r \in Around(h) : (\A s \in Around(h) : r >= s) => r = p
    <3> TAKE r \in Around(h)
    <3> HAVE \A s \in Around(h) : r >= s
    <3>1. r >= p /\ p >= r /\ r \in Int /\ p \in Int
      BY <1>3, <2>2, <2>4
    <3> QED
      BY <3>1
  <2>6. q = p
    BY <2>2, <2>4, <2>5 DEF Parent, Max
  <2> QED
    BY <2>2, <2>6
<1>6. ASSUME frames # <<>>
      PROVE  /\ Siblings(h) = Members(q) /\ Cardinality(Members(q)) \in Nat
             /\ tokens[q].array = Top.isArray
  <2>1. Depth(q) = n - 1 /\ tokens[q].array = Top.isArray
    BY <1>5, <1>6 DEF FrameIsOf, Top
  <2>2. Depth(q) + 1 = Depth(h)
    BY <1>1, <1>2, <2>1
  <2>3. Siblings(h) = Members(q)
    BY <1>1, <2>2 DEF Siblings, Members
  <2>4. q \in Nat
    BY <1>3, <1>5, <1>6
  <2>5. IsFiniteSet((q + 1)..Len(tokens))
    BY <1>1, <2>4, FS_Interval
  <2>6. IsFiniteSet(Members(q))
    BY <2>5, FS_Subset DEF Members
  <2> QED
    BY <2>1, <2>3, <2>6, FS_CardinalityType
<1>7. InArray(h) <=> frames # <<>> /\ Top.isArray
  BY <1>4, <1>6 DEF InArray
<1>8. IsKey(h) <=> InObject /\ ~Top.haveKey
  <2>1. ASSUME frames # <<>>, ~Top.isArray
        PROVE  Top.haveKey <=> Cardinality(Siblings(h)) % 2 = 1
    <3>1. FrameIsOf(n, q) /\ ~tokens[q].array /\ ~(n < Len(frames))
      BY <1>1, <1>5, <1>6, <2>1
    <3> QED
      BY <1>6, <2>1, <3>1 DEF FrameIsOf, Top
  <2>2. frames # <<>> => Cardinality(Siblings(h)) % 2 \in {0, 1}
    BY <1>6, Parity
  <2> QED
    BY <1>4, <1>7, <2>1, <2>2 DEF IsKey, InObject
<1> QED
  BY <1>4, <1>5, <1>6, <1>7, <1>8

\* scanJSON is where the next value is.
LEMMA PathIsLocation ==
    ASSUME ScanTypeOK, FramesAreOpen, NEW h, h = Here, \A t \in 1..h : Depth(t) \in Int, ~IsKey(h)
    PROVE  /\ PathHere = Location(h)
           /\ Owned <=> frames # <<>>
           /\ PathHere \in Seq([kind : {"key", "index"}, key : Keys \cup {"*"}, index : Nat])
           /\ Len(PathHere) = Len(frames)
           /\ frames # <<>> => /\ PathHere[Len(frames)] = SegOf(h)
                               /\ \A i \in 1..(Len(frames) - 1) : PathHere[i] = path[i]
<1> DEFINE n == Len(frames)
           Seg == [kind : {"key", "index"}, key : Keys \cup {"*"}, index : Nat]
           Frame == [isArray : BOOLEAN, haveKey : BOOLEAN, pendingKey : Keys \cup {"*"},
                     index : Nat, owned : BOOLEAN]
<1>1. n \in Nat /\ (frames # <<>> <=> n > 0) /\ h \in Nat /\ h >= 1 /\ Len(tokens) = h - 1
      /\ path \in Seq(Seg) /\ frames \in Seq(Frame)
  BY DEF ScanTypeOK, Here
<1>2. Depth(h) = n /\ Len(path) = IF frames = <<>> THEN 0 ELSE n - 1
  BY DEF FramesAreOpen
<1>3. /\ frames # <<>> =>
           /\ FrameIsOf(n, Parent(h))
           /\ Siblings(h) = Members(Parent(h))
      /\ InArray(h) <=> frames # <<>> /\ Top.isArray
      /\ IsKey(h) <=> InObject /\ ~Top.haveKey
  BY FramesTell
<1>4. Owned <=> frames # <<>>
  BY <1>3 DEF Owned, InObject
<1>5. CASE frames = <<>>
  <2>1. path = <<>> /\ PathHere = path /\ n = 0
    BY <1>1, <1>2, <1>4, <1>5 DEF PathHere
  <2>2. Location(h) = [d \in 1..0 |-> SegOf(CHOOSE q \in Around(h) \cup {h} : Depth(q) = d)]
    BY <1>2, <2>1 DEF Location
  <2>3. Location(h) = <<>>
    BY <2>2
  <2> QED
    BY <1>1, <1>4, <1>5, <2>1, <2>3
<1>6. CASE frames # <<>>
  <2> DEFINE seg == IF Top.isArray THEN IndexSeg(Top.index) ELSE KeySeg(Top.pendingKey)
  <2>1. PathHere = Append(path, seg) /\ n > 0 /\ Len(path) = n - 1
    BY <1>1, <1>2, <1>4, <1>6 DEF PathHere
  <2>2. Top \in Frame
    <3>1. n \in 1..n /\ frames \in Seq(Frame)
      BY <1>1, <2>1
    <3> HIDE DEF Frame
    <3>2. frames[n] \in Frame
      BY <3>1
    <3> QED
      BY <3>2 DEF Top
  <2>3. seg \in Seg
    BY <2>2 DEF IndexSeg, KeySeg
  <2>4. seg = SegOf(h)
    <3>1. CASE Top.isArray
      <4>1. tokens[Parent(h)].array = frames[n].isArray
        BY <1>3, <1>6 DEF FrameIsOf
      <4>2. Top.index = Cardinality(Members(Parent(h)))
        BY <1>3, <1>6, <3>1, <4>1 DEF FrameIsOf, Top
      <4> QED
        BY <1>3, <1>6, <3>1, <4>2 DEF SegOf
    <3>2. CASE ~Top.isArray
      <4>1. InObject /\ Top.haveKey
        BY <1>3, <1>6, <3>2 DEF InObject
      <4>2. tokens[h - 1].s = Top.pendingKey
        BY <1>1, <4>1 DEF FramesAreOpen
      <4> QED
        BY <1>3, <3>2, <4>2 DEF SegOf
    <3> QED
      BY <3>1, <3>2
  <2> HIDE DEF seg
  <2>5. /\ PathHere \in Seq(Seg) /\ Len(PathHere) = n /\ PathHere[n] = SegOf(h)
        /\ \A i \in 1..(n - 1) : PathHere[i] = path[i]
    BY <1>1, <2>1, <2>3, <2>4
  <2>6. ASSUME NEW d \in 1..n
        PROVE  Location(h)[d] = PathHere[d]
    <3>0. h \in 1..h /\ d \in 1..Depth(h)
      BY <1>1, <1>2
    <3>1. CASE d = n
      <4>1. h \in Around(h) \cup {h} /\ Depth(h) = d
        BY <1>2, <3>1
      <4>2. Location(h)[d] = SegOf(h)
        BY <1>1, <3>0, <4>1, LocationAt
      <4> QED
        BY <2>5, <3>1, <4>2
    <3>2. CASE d # n
      <4>1. d + 1 \in 1..n /\ d \in 1..(n - 1) /\ (d + 1) - 1 = d /\ d + 1 > 1
        BY <1>1, <3>2
      <4>2. PICK q \in Around(h) : FrameIsOf(d + 1, q)
        <5>1. DOMAIN frames = 1..n
          BY <1>1
        <5> QED
          BY <4>1, <5>1 DEF FramesAreOpen
      <4>3. Depth(q) = d /\ path[d] = SegOf(q)
        BY <4>1, <4>2 DEF FrameIsOf
      <4>4. Location(h)[d] = SegOf(q)
        BY <1>1, <3>0, <4>2, <4>3, LocationAt
      <4> QED
        BY <2>5, <4>1, <4>3, <4>4
    <3> QED
      BY <3>1, <3>2
  <2>7. Location(h) = [d \in 1..n |-> Location(h)[d]]
    BY <1>2 DEF Location
  <2>8. PathHere = [d \in 1..n |-> PathHere[d]]
    BY <2>5
  <2> QED
    BY <1>4, <1>6, <2>5, <2>6, <2>7, <2>8
<1> QED
  BY <1>5, <1>6

\* Policy.MatchJSONPath finds the first rule whose pattern means the path.
LEMMA RuleForIsFirst ==
    ASSUME NEW T, NEW p \in Seq(T)
    PROVE  /\ RuleFor(p) = 0 => FirstMatch(p) = {}
           /\ RuleFor(p) # 0 => FirstMatch(p) = {RuleFor(p)} /\ RuleFor(p) \in DOMAIN Policy
<1>1. Policy \in Seq([segs : Seq(Segment), level : Int])
  BY PolicyAssumption DEF PolicyAssumption
<1>2. \A r \in DOMAIN Policy : r \in Nat /\ r # 0 /\ r \in 1..Len(Policy)
  BY <1>1
<1>3. \A r \in DOMAIN Policy : MatchJSONPath(Policy[r].segs, p) <=> Matches(Policy[r].segs, p)
  <2> TAKE r \in DOMAIN Policy
  <2>1. Policy[r] \in [segs : Seq(Segment), level : Int]
    <3> DEFINE Rule == [segs : Seq(Segment), level : Int]
    <3>1. Policy \in Seq(Rule)
      BY <1>1
    <3> HIDE DEF Rule
    <3>2. Policy[r] \in Rule
      BY <3>1
    <3> QED
      BY <3>2 DEF Rule
  <2>2. Policy[r].segs \in Seq(Segment)
    BY <2>1
  <2> QED
    BY <2>2, MatchIsMatches
<1>4. Matching(p) = {r \in DOMAIN Policy : Matches(Policy[r].segs, p)}
  BY <1>3 DEF Matching
<1>5. CASE Matching(p) = {}
  <2>1. RuleFor(p) = 0 /\ FirstMatch(p) = {}
    BY <1>4, <1>5 DEF RuleFor, FirstMatch
  <2> QED
    BY <2>1
<1>6. CASE Matching(p) # {}
  <2>1. Matching(p) \in SUBSET Nat
    BY <1>2, <1>4
  <2>2. \E r \in Matching(p) : \A s \in Matching(p) : r <= s
    BY <1>6, <2>1, LeastNumber
  <2> DEFINE f == RuleFor(p)
  <2>3. f \in Matching(p) /\ \A s \in Matching(p) : f <= s
    BY <1>6, <2>2 DEF RuleFor
  <2>4. f \in DOMAIN Policy /\ f # 0 /\ f \in Nat
    BY <1>2, <1>4, <2>3
  <2> HIDE DEF f
  <2>5. ASSUME NEW r \in FirstMatch(p)
        PROVE  r = f
    <3>1. r \in Matching(p) /\ r \in Nat /\ \A s \in 1..(r - 1) : ~Matches(Policy[s].segs, p)
      BY <1>2, <1>4 DEF FirstMatch
    <3>2. f <= r
      BY <2>3, <3>1
    <3>3. ~(f < r)
      <4>1. SUFFICES ASSUME f < r
                     PROVE  FALSE
        OBVIOUS
      <4>2. f \in 1..(r - 1)
        BY <2>4, <3>1, <4>1
      <4> QED
        BY <1>4, <2>3, <3>1, <4>2
    <3> QED
      BY <2>4, <3>1, <3>2, <3>3
  <2>6. f \in FirstMatch(p)
    <3>1. \A s \in 1..(f - 1) : ~Matches(Policy[s].segs, p)
      <4> TAKE s \in 1..(f - 1)
      <4>1. f \in 1..Len(Policy) /\ Len(Policy) \in Nat /\ DOMAIN Policy = 1..Len(Policy)
        BY <1>1, <1>2, <2>4
      <4>2. s \in DOMAIN Policy /\ ~(f <= s)
        BY <2>4, <4>1
      <4> QED
        BY <1>4, <2>3, <4>2
    <3> QED
      BY <1>4, <2>3, <2>4, <3>1 DEF FirstMatch
  <2> QED
    BY <2>4, <2>5, <2>6 DEF f
<1> QED
  BY <1>5, <1>6

-----------------------------------------------------------------------------
(* scanJSON: the frames                                                    *)

Frame == [isArray : BOOLEAN, haveKey : BOOLEAN, pendingKey : Keys \cup {"*"},
          index : Nat, owned : BOOLEAN]
PathSeg == [kind : {"key", "index"}, key : Keys \cup {"*"}, index : Nat]

\* What one more token changes for a container that is open.
LEMMA OneMoreMember ==
    ASSUME ScanTypeOK, FramesAreOpen, NEW h, h = Here, NEW x \in Tokens, tokens' = Append(tokens, x),
           NEW i \in DOMAIN frames, NEW q \in Around(h), FrameIsOf(i, q)
    PROVE  /\ q \in 1..(h - 1) /\ Depth(q) = i - 1 /\ Depth(q)' = i - 1
           /\ tokens'[q].array = tokens[q].array
           /\ i > 1 => SegOf(q)' = SegOf(q)
           /\ Cardinality(Members(q)) \in Nat
           /\ Cardinality(Members(q))' =
                 IF i = Len(frames) /\ x.kind # "close" THEN Cardinality(Members(q)) + 1
                 ELSE Cardinality(Members(q))
<1> DEFINE n == Len(frames)
<1>1. /\ n \in Nat /\ i \in 1..n /\ Depth(h) = n
  BY DEF ScanTypeOK, FramesAreOpen
<1>2. /\ h \in Nat /\ h >= 1 /\ Len(tokens) = h - 1 /\ Len(tokens') = h
      /\ tokens'[h] = x /\ \A p \in 1..(h - 1) : tokens'[p] = tokens[p]
      /\ Depth(1) = 0
      /\ \A t \in 1..h : Depth(t) \in Int /\ Depth(t)' = Depth(t)
  BY OneMoreDepth
<1>3. q \in 1..(h - 1) /\ tokens'[q].array = tokens[q].array
  BY <1>2, AroundIsAbove, OneMoreAround
<1>4. Depth(q) = i - 1 /\ Depth(q)' = i - 1
  <2>1. q \in 1..h
    BY <1>2, <1>3
  <2> QED
    BY <1>2, <2>1 DEF FrameIsOf
<1>5. i > 1 => SegOf(q)' = SegOf(q)
  <2>1. ASSUME i > 1
        PROVE  q \in 2..h
    <3>1. q # 1
      BY <1>1, <1>2, <1>4, <2>1
    <3> QED
      BY <1>2, <1>3, <3>1
  <2> QED
    BY <2>1, OneMorePlace
<1>6. IsFiniteSet(Members(q)) /\ Cardinality(Members(q)) \in Nat /\ h \notin Members(q)
  <2>1. IsFiniteSet((q + 1)..Len(tokens))
    <3>1. q + 1 \in Int /\ Len(tokens) \in Int
      BY <1>2, <1>3
    <3> QED
      BY <3>1, FS_Interval
  <2>3. h \notin (q + 1)..Len(tokens)
    BY <1>2, <1>3
  <2>2. IsFiniteSet(Members(q)) /\ h \notin Members(q)
    BY <2>1, <2>3, FS_Subset DEF Members
  <2> QED
    BY <2>2, FS_CardinalityType
<1>7. Members(q)' = IF i = n /\ x.kind # "close" THEN Members(q) \cup {h} ELSE Members(q)
  <2>1. Members(q)' = {p \in (q + 1)..h : Depth(p)' = Depth(q)' + 1 /\ tokens'[p].kind # "close"}
    BY <1>2 DEF Members
  <2>2. Members(q) = {p \in (q + 1)..(h - 1) : Depth(p) = Depth(q) + 1 /\ tokens[p].kind # "close"}
    BY <1>2 DEF Members
  <2>3. (q + 1)..h = ((q + 1)..(h - 1)) \cup {h} /\ (q + 1)..(h - 1) \subseteq 1..(h - 1)
        /\ 1..(h - 1) \subseteq 1..h /\ h \in 1..h
    BY <1>2, <1>3
  <2>4. Depth(h)' = Depth(q)' + 1 <=> i = n
    BY <1>1, <1>2, <1>4, <2>3
  <2>5. \A p \in (q + 1)..(h - 1) : Depth(p)' = Depth(p) /\ tokens'[p] = tokens[p]
    BY <1>2, <2>3
  <2> QED
    BY <1>2, <1>4, <2>1, <2>2, <2>3, <2>4, <2>5
<1>8. Cardinality(Members(q) \cup {h}) = Cardinality(Members(q)) + 1
  BY <1>6, FS_AddElement
<1>9. Cardinality(Members(q))' = IF i = n /\ x.kind # "close" THEN Cardinality(Members(q)) + 1
                                 ELSE Cardinality(Members(q))
  BY <1>7, <1>8
<1> QED
  BY <1>3, <1>4, <1>5, <1>6, <1>9

\* A container below the last one is left as it is.
LEMMA OneMoreBelow ==
    ASSUME ScanTypeOK, FramesAreOpen, NEW h, h = Here, NEW x \in Tokens, tokens' = Append(tokens, x),
           NEW i \in DOMAIN frames, NEW q \in Around(h), FrameIsOf(i, q), i < Len(frames),
           frames'[i] = frames[i], i < Len(frames'), i > 1 => path'[i - 1] = path[i - 1]
    PROVE  FrameIsOf(i, q)'
<1>1. /\ Depth(q)' = i - 1 /\ tokens'[q].array = tokens[q].array
      /\ i > 1 => SegOf(q)' = SegOf(q)
      /\ Cardinality(Members(q))' =
            IF i = Len(frames) /\ x.kind # "close" THEN Cardinality(Members(q)) + 1
            ELSE Cardinality(Members(q))
  BY OneMoreMember
<1>2. i # Len(frames)
  BY DEF ScanTypeOK
<1>3. Cardinality(Members(q))' = Cardinality(Members(q))
  BY <1>1, <1>2
<1> QED
  BY <1>1, <1>3 DEF FrameIsOf

\* What a step has to show of the frames, the rest follows.
LEMMA FramesStayOpen ==
    ASSUME ScanTypeOK, FramesAreOpen, NEW h, h = Here, NEW x \in Tokens, tokens' = Append(tokens, x),
           frames' \in Seq(Frame), Depth(h + 1)' = Len(frames'),
           \A i \in 1..Len(frames') : \E q \in Around(h + 1)' : FrameIsOf(i, q)',
           Len(path') = IF frames' = <<>> THEN 0 ELSE Len(frames') - 1,
           (InObject /\ Top.haveKey)' => x.s = Top'.pendingKey
    PROVE  FramesAreOpen'
<1>1. /\ h \in Nat /\ h >= 1 /\ Here' = h + 1 /\ Len(tokens') = h /\ tokens'[h] = x
      /\ \A t \in 1..h : Depth(t) \in Int /\ Depth(t)' = Depth(t)
  BY OneMoreDepth
<1>2. \A t \in 1..h : Around(t)' = Around(t) /\ Around(t) \subseteq 1..(h - 1)
  BY OneMoreAround
<1>3. Len(frames') \in Nat /\ DOMAIN frames' = 1..Len(frames')
  OBVIOUS
<1>4. ASSUME NEW t \in 1..Here'
      PROVE  /\ Depth(t)' >= 0
             /\ \A d \in 0..(Depth(t)' - 1) : \E q \in Around(t)' : Depth(q)' = d
  <2>1. CASE t = h + 1
    <3>1. Depth(t)' = Len(frames')
      BY <2>1
    <3>2. ASSUME NEW d \in 0..(Len(frames') - 1)
          PROVE  \E q \in Around(h + 1)' : Depth(q)' = d
      <4>1. d + 1 \in 1..Len(frames') /\ (d + 1) - 1 = d
        BY <1>3
      <4>2. PICK q \in Around(h + 1)' : FrameIsOf(d + 1, q)'
        BY <4>1
      <4>3. Depth(q)' = (d + 1) - 1
        BY <4>2 DEF FrameIsOf
      <4> QED
        BY <4>1, <4>3
    <3> QED
      BY <1>3, <2>1, <3>1, <3>2
  <2>2. CASE t # h + 1
    <3>1. t \in 1..h
      BY <1>1, <2>2
    <3>2. t \in 1..Here
      BY <3>1
    <3>3. Depth(t) >= 0 /\ \A d \in 0..(Depth(t) - 1) : \E q \in Around(t) : Depth(q) = d
      BY <3>2 DEF FramesAreOpen
    <3>4. Around(t) \subseteq 1..h
      BY <1>1, <1>2, <3>1
    <3> QED
      BY <1>1, <1>2, <3>1, <3>3, <3>4
  <2> QED
    BY <2>1, <2>2
<1>5. (InObject /\ Top.haveKey => tokens[Len(tokens)].s = Top.pendingKey)'
  BY <1>1
<1>6. Depth(Here)' = Len(frames')
  BY <1>1
<1>7. \A i \in DOMAIN frames' : \E q \in Around(Here)' : FrameIsOf(i, q)'
  BY <1>1, <1>3
<1> QED
  BY <1>4, <1>5, <1>6, <1>7 DEF FramesAreOpen

\* A key or a scalar changes the last frame only.
LEMMA TopMovesOn ==
    ASSUME ScanTypeOK, FramesAreOpen, NEW h, h = Here, NEW x \in Tokens, tokens' = Append(tokens, x),
           x.kind \notin {"open", "close"}, frames # <<>>, NEW g \in Frame,
           frames' = [frames EXCEPT ![Len(frames)] = g], path' = path,
           g.isArray = Top.isArray, g.owned = Top.owned,
           g.isArray => g.index = Top.index + 1,
           ~g.isArray => g.haveKey = ~Top.haveKey,
           ~g.isArray /\ g.haveKey => x.s = g.pendingKey
    PROVE  FramesAreOpen'
<1> DEFINE n == Len(frames)
<1>1. n \in Nat /\ n > 0 /\ frames \in Seq(Frame) /\ DOMAIN frames = 1..n
  BY DEF ScanTypeOK, Frame
<1>2. /\ frames' \in Seq(Frame) /\ Len(frames') = n /\ frames'[n] = g /\ frames' # <<>>
      /\ \A i \in 1..n : i # n => frames'[i] = frames[i]
  <2>1. /\ frames' \in Seq(Frame) /\ Len(frames') = n
        /\ \A i \in 1..n : frames'[i] = IF i = n THEN g ELSE frames[i]
    BY <1>1
  <2>2. n \in 1..n
    BY <1>1
  <2>3. frames'[n] = g /\ \A i \in 1..n : i # n => frames'[i] = frames[i]
    BY <2>1, <2>2
  <2>4. frames' # <<>>
    BY <1>1, <2>1
  <2> QED
    BY <2>1, <2>3, <2>4
<1>3. /\ h \in Nat /\ h >= 1 /\ Depth(h + 1)' = Depth(h)
      /\ \A t \in 1..h : Depth(t) \in Int
  BY OneMoreDepth
<1>4. Depth(h) = n
  BY DEF FramesAreOpen
<1>5. Around(h + 1)' = Around(h)
  <2>1. Around(h + 1)' = {q \in Around(h) : Depth(q) < Depth(h + 1)'}
    BY OneMoreAround
  <2>2. \A q \in Around(h) : Depth(q) < Depth(h)
    <3> TAKE q \in Around(h)
    <3>1. q \in 1..(h - 1) /\ Depth(h) > Depth(q)
      BY <1>3, AroundIsAbove
    <3>2. q \in 1..h /\ h \in 1..h
      BY <1>3, <3>1
    <3> QED
      BY <1>3, <3>1, <3>2
  <2> QED
    BY <1>3, <2>1, <2>2
<1>6. ASSUME NEW i \in 1..n
      PROVE  \E q \in Around(h + 1)' : FrameIsOf(i, q)'
  <2>1. PICK q \in Around(h) : FrameIsOf(i, q)
    BY <1>1 DEF FramesAreOpen
  <2>2. CASE i # n
    <3>1. i < n /\ i < Len(frames') /\ frames'[i] = frames[i] /\ i \in DOMAIN frames
      <4>1. i < n
        <5>1. \A a \in Nat : \A b \in 1..a : b # a => b < a
          OBVIOUS
        <5> QED
          BY <1>1, <2>2, <5>1
      <4> QED
        BY <1>1, <1>2, <2>2, <4>1
    <3>2. FrameIsOf(i, q)'
      BY <2>1, <3>1, OneMoreBelow
    <3> QED
      BY <1>5, <2>1, <3>2
  <2>3. CASE i = n
    <3> DEFINE c == Cardinality(Members(q))
    <3>1. /\ Depth(q)' = i - 1
          /\ tokens'[q].array = tokens[q].array
          /\ i > 1 => SegOf(q)' = SegOf(q)
          /\ c \in Nat
          /\ c' = c + 1
      <4>1. i \in DOMAIN frames
        BY <1>1
      <4>2. /\ Depth(q)' = i - 1 /\ tokens'[q].array = tokens[q].array
            /\ i > 1 => SegOf(q)' = SegOf(q)
            /\ Cardinality(Members(q)) \in Nat
            /\ Cardinality(Members(q))' =
                  IF i = Len(frames) /\ x.kind # "close" THEN Cardinality(Members(q)) + 1
                  ELSE Cardinality(Members(q))
        BY <2>1, <4>1, OneMoreMember, Zenon
      <4>3. i = Len(frames) /\ x.kind # "close"
        BY <1>1, <2>3
      <4> QED
        BY <4>2, <4>3
    <3>2. /\ Top.isArray = tokens[q].array
          /\ Top.owned = (i > 1)
          /\ tokens[q].array => Top.index = c
          /\ ~tokens[q].array => (Top.haveKey <=> c % 2 = 1)
          /\ i > 1 => path[i - 1] = SegOf(q)
      <4>1. ~(i < Len(frames))
        BY <1>1, <2>3
      <4> QED
        BY <2>1, <2>3, <4>1 DEF FrameIsOf, Top
    <3>3. c % 2 \in {0, 1} /\ c' % 2 = IF c % 2 = 0 THEN 1 ELSE 0
      BY <3>1, Parity
    <3> HIDE DEF c
    <3>4. ASSUME ~tokens[q].array
          PROVE  g.haveKey <=> c' % 2 = 1
      <4>1. g.haveKey \in BOOLEAN /\ Top.haveKey \in BOOLEAN
        <5>1. n \in DOMAIN frames
          BY <1>1
        <5>2. frames[n] \in Frame
          BY <1>1, <5>1
        <5> QED
          BY <5>2 DEF Frame, Top
      <4>2. ~g.isArray
        BY <3>2, <3>4
      <4> QED
        BY <3>2, <3>3, <3>4, <4>1, <4>2
    <3>5. tokens[q].array => g.index = c'
      BY <3>1, <3>2
    <3>6. ~(i < Len(frames')) /\ frames'[i] = g
      <4>1. ~(n < n)
        BY <1>1
      <4> QED
        BY <1>2, <2>3, <4>1
    <3>7. /\ Depth(q)' = i - 1
          /\ g.isArray = tokens'[q].array
          /\ g.owned = (i > 1)
          /\ tokens'[q].array => g.index = Cardinality(Members(q))'
          /\ ~tokens'[q].array => (g.haveKey <=> Cardinality(Members(q))' % 2 = 1)
          /\ i > 1 => path'[i - 1] = SegOf(q)'
      BY <3>1, <3>2, <3>4, <3>5 DEF c
    <3>8. FrameIsOf(i, q)'
      BY <3>6, <3>7 DEF FrameIsOf
    <3> QED
      BY <1>5, <2>1, <3>8
  <2> QED
    BY <2>2, <2>3
<1>7. Len(path') = IF frames' = <<>> THEN 0 ELSE Len(frames') - 1
  BY <1>2 DEF FramesAreOpen
<1>8. (InObject /\ Top.haveKey)' => x.s = Top'.pendingKey
  BY <1>2 DEF InObject, Top
<1> QED
  BY <1>2, <1>3, <1>4, <1>6, <1>7, <1>8, FramesStayOpen

\* The frame on top has counted the value that is read.
LEMMA CountedHolds ==
    ASSUME ScanTypeOK, frames # <<>>
    PROVE  /\ Top \in Frame /\ Len(frames) \in Nat /\ Len(frames) > 0
           /\ Counted \in Seq(Frame) /\ Len(Counted) = Len(frames)
           /\ \A i \in 1..Len(frames) :
                 Counted[i] = IF i = Len(frames) /\ Top.isArray THEN [Top EXCEPT !.index = @ + 1]
                              ELSE frames[i]
<1> DEFINE n == Len(frames)
<1>1. frames \in Seq(Frame) /\ n \in Nat /\ n > 0 /\ n \in 1..n /\ DOMAIN frames = 1..n
  <2>1. frames \in Seq(Frame)
    BY DEF ScanTypeOK, Frame
  <2>2. n \in Nat /\ n > 0
    BY <2>1
  <2> QED
    BY <2>1, <2>2
<1>2. Top \in Frame
  <2>1. frames[n] \in Frame
    BY <1>1
  <2> QED
    BY <2>1 DEF Top
<1>3. [Top EXCEPT !.index = @ + 1] \in Frame
  BY <1>2 DEF Frame
<1> HIDE DEF Frame
<1>4. CASE Top.isArray
  <2> DEFINE g == [Top EXCEPT !.index = @ + 1]
  <2>1. Counted = [frames EXCEPT ![n] = g]
    BY <1>4 DEF Counted, SetTop
  <2> HIDE DEF g
  <2>2. /\ Counted \in Seq(Frame) /\ Len(Counted) = n
        /\ \A i \in 1..n : Counted[i] = IF i = n THEN g ELSE frames[i]
    BY <1>1, <1>3, <2>1 DEF g
  <2> QED
    BY <1>1, <1>2, <1>4, <2>2 DEF g
<1>5. CASE ~Top.isArray
  <2>1. Counted = frames
    BY <1>5 DEF Counted
  <2> QED
    BY <1>1, <1>2, <1>5, <2>1
<1> QED
  BY <1>4, <1>5

\* An opening bracket pushes a frame, and the place it has in the one around it.
LEMMA OpenKeepsFrames ==
    ASSUME ScanTypeOK, FramesAreOpen, NEW h, h = Here,
           NEW array \in BOOLEAN, MayBeValue, OpenContainer(array)
    PROVE  /\ FramesAreOpen'
           /\ frames' \in Seq(Frame) /\ path' \in Seq(PathSeg)
<1> DEFINE n == Len(frames)
           x == Open(array)
           new == [isArray |-> array, haveKey |-> FALSE, pendingKey |-> "*",
                   index |-> 0, owned |-> Owned]
<1>1. x \in Tokens /\ x.kind = "open" /\ x.array = array /\ tokens' = Append(tokens, x)
  BY DEF Tokens, Open, OpenContainer
<1>2. /\ h \in Nat /\ h >= 1 /\ tokens'[h] = x /\ Len(tokens') = h /\ Len(tokens) = h - 1
      /\ Depth(h + 1)' = Depth(h) + 1 /\ Depth(1) = 0
      /\ \A t \in 1..h : Depth(t) \in Int /\ Depth(t)' = Depth(t)
  BY <1>1, OneMoreDepth
<1>3. n \in Nat /\ (frames # <<>> <=> n > 0) /\ DOMAIN frames = 1..n /\ Depth(h) = n
      /\ frames \in Seq(Frame)
  BY DEF ScanTypeOK, FramesAreOpen, Frame
<1>4. Around(h + 1)' = Around(h) \cup {h}
  <2>1. Around(h + 1)' = {q \in Around(h) : Depth(q) < Depth(h + 1)'} \cup {h}
    BY <1>1, OneMoreAround
  <2>2. \A q \in Around(h) : Depth(q) < Depth(h) + 1
    <3> TAKE q \in Around(h)
    <3>1. q \in 1..(h - 1) /\ Depth(h) > Depth(q)
      BY <1>2, AroundIsAbove
    <3>2. q \in 1..h /\ h \in 1..h
      BY <1>2, <3>1
    <3> QED
      BY <1>2, <3>1, <3>2
  <2> QED
    BY <1>2, <2>1, <2>2
<1>5. /\ Owned <=> frames # <<>>
      /\ path' \in Seq(PathSeg)
      /\ Len(path') = n
      /\ frames # <<>> => path'[n] = SegOf(h) /\ \A i \in 1..(n - 1) : path'[i] = path[i]
  BY <1>2, PathIsLocation DEF MayBeValue, OpenContainer, PathSeg
<1>6. Owned \in BOOLEAN /\ new \in Frame
  <2>1. frames # <<>> => Top.isArray \in BOOLEAN /\ Top.haveKey \in BOOLEAN
    BY CountedHolds DEF Frame
  <2>2. Owned \in BOOLEAN
    BY <2>1 DEF Owned
  <2> QED
    BY <2>2 DEF Frame
<1>7. frames' = Append(Counted, new)
  BY DEF OpenContainer
<1>8. frames = <<>> => Counted = frames
  BY DEF Counted
<1>9. frames # <<>> =>
        /\ Top \in Frame
        /\ Counted \in Seq(Frame) /\ Len(Counted) = n
        /\ \A i \in 1..n : Counted[i] = IF i = n /\ Top.isArray THEN [Top EXCEPT !.index = @ + 1]
                                        ELSE frames[i]
  BY CountedHolds
<1> HIDE DEF new, x
<1>10. /\ frames' \in Seq(Frame) /\ Len(frames') = n + 1 /\ frames'[n + 1] = new
       /\ \A i \in 1..n : frames'[i] = IF i = n /\ Top.isArray THEN [Top EXCEPT !.index = @ + 1]
                                       ELSE frames[i]
  <2>1. Counted \in Seq(Frame) /\ Len(Counted) = n
    BY <1>3, <1>8, <1>9
  <2>2. /\ frames' \in Seq(Frame) /\ Len(frames') = n + 1 /\ frames'[n + 1] = new
        /\ \A i \in 1..n : frames'[i] = Counted[i]
    BY <1>3, <1>6, <1>7, <2>1
  <2>3. \A i \in 1..n : frames # <<>>
    BY <1>3
  <2> QED
    BY <1>9, <2>2, <2>3
<1>11. ASSUME NEW i \in 1..n
       PROVE  \E q \in Around(h + 1)' : FrameIsOf(i, q)'
  <2>1. PICK q \in Around(h) : FrameIsOf(i, q)
    BY <1>3 DEF FramesAreOpen
  <2>2. frames # <<>> /\ i \in DOMAIN frames
    BY <1>3
  <2>3. i > 1 => path'[i - 1] = path[i - 1]
    BY <1>3, <1>5, <2>2
  <2>4. CASE i # n
    <3>1. i < n /\ i < Len(frames') /\ frames'[i] = frames[i]
      <4>1. \A a \in Nat : \A b \in 1..a : b < a + 1 /\ (b # a => b < a)
        OBVIOUS
      <4> QED
        BY <1>3, <1>10, <2>4, <4>1
    <3>2. FrameIsOf(i, q)'
      BY <1>1, <2>1, <2>2, <2>3, <3>1, OneMoreBelow
    <3> QED
      BY <1>4, <2>1, <3>2
  <2>5. CASE i = n
    <3> DEFINE c == Cardinality(Members(q))
    <3>1. /\ Depth(q)' = i - 1
          /\ tokens'[q].array = tokens[q].array
          /\ i > 1 => SegOf(q)' = SegOf(q)
          /\ c \in Nat
          /\ c' = c + 1
      BY <1>1, <2>1, <2>2, <2>5, OneMoreMember
    <3>2. /\ Top.isArray = tokens[q].array
          /\ Top.owned = (i > 1)
          /\ tokens[q].array => Top.index = c
          /\ ~tokens[q].array => (Top.haveKey <=> c % 2 = 1)
          /\ i > 1 => path[i - 1] = SegOf(q)
      <4>1. ~(i < Len(frames))
        BY <1>3, <2>5
      <4> QED
        BY <2>1, <2>5, <4>1 DEF FrameIsOf, Top
    <3>3. c % 2 \in {0, 1} /\ c' % 2 = IF c % 2 = 0 THEN 1 ELSE 0
      BY <3>1, Parity
    <3> HIDE DEF c
    <3>4. Top.isArray \/ Top.haveKey
      BY <1>5, <2>2 DEF Owned
    <3>5. ~tokens[q].array => c' % 2 = 0
      BY <3>2, <3>3, <3>4
    <3>6. /\ frames'[i].isArray = tokens[q].array
          /\ frames'[i].owned = (i > 1)
          /\ tokens[q].array => frames'[i].index = c'
      <4>1. Top = frames[i]
        BY <2>5 DEF Top
      <4>2. CASE Top.isArray
        <5>1. frames'[i] = [Top EXCEPT !.index = @ + 1]
          BY <1>10, <2>5, <4>2
        <5>2. Top \in Frame
          BY <1>9, <2>2
        <5>3. frames'[i].isArray = Top.isArray /\ frames'[i].owned = Top.owned
              /\ frames'[i].index = Top.index + 1
          BY <5>1, <5>2 DEF Frame
        <5> QED
          BY <3>1, <3>2, <5>3
      <4>3. CASE ~Top.isArray
        <5>1. frames'[i] = frames[i]
          BY <1>10, <4>3
        <5> QED
          BY <3>2, <4>1, <4>3, <5>1
      <4> QED
        BY <4>2, <4>3
    <3>7. i < Len(frames')
      BY <1>3, <1>10, <2>5
    <3>8. FrameIsOf(i, q)'
      BY <2>3, <3>1, <3>2, <3>5, <3>6, <3>7 DEF FrameIsOf, c
    <3> QED
      BY <1>4, <2>1, <3>8
  <2> QED
    BY <2>4, <2>5
<1>12. ASSUME NEW i, i = n + 1
       PROVE  FrameIsOf(i, h)'
  <2>1. Members(h)' = {}
    BY <1>2 DEF Members
  <2>2. Cardinality(Members(h))' = 0
    BY <2>1, FS_EmptySet
  <2>3. Depth(h)' = i - 1 /\ ~(i < Len(frames'))
    <3>1. h \in 1..h /\ (n + 1) - 1 = n /\ ~(n + 1 < n + 1)
      BY <1>2, <1>3
    <3> QED
      BY <1>2, <1>3, <1>10, <1>12, <3>1
  <2>4. i > 1 <=> frames # <<>>
    BY <1>3, <1>12
  <2>5. i > 1 => path'[i - 1] = SegOf(h)'
    <3>1. ASSUME frames # <<>>
          PROVE  h \in 2..h
      <4>1. h # 1
        BY <1>2, <1>3, <3>1
      <4> QED
        BY <1>2, <4>1
    <3>2. frames # <<>> => SegOf(h)' = SegOf(h)
      BY <1>1, <3>1, OneMorePlace
    <3>3. i - 1 = n
      BY <1>3, <1>12
    <3> QED
      BY <1>5, <2>4, <3>2, <3>3
  <2>6. /\ new.isArray = array /\ new.haveKey = FALSE /\ new.index = 0
        /\ new.owned = (i > 1)
    <3>1. Owned <=> i > 1
      BY <1>5, <2>4
    <3>2. Owned \in BOOLEAN /\ (i > 1) \in BOOLEAN
      BY <1>6
    <3>3. new.owned = Owned
      BY DEF new
    <3>4. new.isArray = array /\ new.haveKey = FALSE /\ new.index = 0
      BY DEF new
    <3> QED
      BY <3>1, <3>2, <3>3, <3>4
  <2> QED
    <3>1. 0 % 2 # 1
      OBVIOUS
    <3>2. frames'[i] = new
      BY <1>10, <1>12
    <3>3. tokens'[h].array = array
      BY <1>1, <1>2
    <3> QED
      BY <2>2, <2>3, <2>5, <2>6, <3>1, <3>2, <3>3 DEF FrameIsOf
<1>13. \A i \in 1..Len(frames') : \E q \in Around(h + 1)' : FrameIsOf(i, q)'
  <2> TAKE i \in 1..Len(frames')
  <2>1. i \in 1..n \/ i = n + 1
    BY <1>3, <1>10
  <2> QED
    BY <1>4, <1>11, <1>12, <2>1
<1>14. Len(path') = IF frames' = <<>> THEN 0 ELSE Len(frames') - 1
  <2>1. frames' # <<>> /\ (n + 1) - 1 = n
    BY <1>3, <1>10
  <2> QED
    BY <1>5, <1>10, <2>1
<1>15. (InObject /\ Top.haveKey)' => x.s = Top'.pendingKey
  <2>1. Top' = new
    BY <1>10 DEF Top
  <2> QED
    BY <2>1 DEF new
<1>16. Depth(h + 1)' = Len(frames')
  BY <1>2, <1>3, <1>10
<1> QED
  BY <1>1, <1>5, <1>10, <1>13, <1>14, <1>15, <1>16, FramesStayOpen

\* endValue.
LEMMA EndValueHolds ==
    ASSUME NEW fs \in Seq(Frame)
    PROVE  /\ EndValue(fs) \in Seq(Frame) /\ Len(EndValue(fs)) = Len(fs)
           /\ \A i \in 1..Len(fs) :
                 EndValue(fs)[i] = IF i = Len(fs) /\ ~fs[Len(fs)].isArray
                                   THEN [fs[i] EXCEPT !.haveKey = FALSE] ELSE fs[i]
<1> DEFINE n == Len(fs)
<1>1. n \in Nat /\ DOMAIN fs = 1..n
  OBVIOUS
<1>2. CASE fs = <<>>
  BY <1>2 DEF EndValue
<1>3. CASE fs # <<>> /\ fs[n].isArray
  BY <1>3 DEF EndValue, Last
<1>4. CASE fs # <<>> /\ ~fs[n].isArray
  <2> DEFINE g == [fs[n] EXCEPT !.haveKey = FALSE]
  <2>1. EndValue(fs) = [fs EXCEPT ![n] = g]
    BY <1>4 DEF EndValue, Last
  <2>2. n \in 1..n
    BY <1>1, <1>4
  <2>3. g \in Frame
    <3>1. fs[n] \in Frame
      BY <1>1, <2>2
    <3> QED
      BY <3>1 DEF Frame
  <2> HIDE DEF g
  <2>4. /\ EndValue(fs) \in Seq(Frame) /\ Len(EndValue(fs)) = n
        /\ \A i \in 1..n : EndValue(fs)[i] = IF i = n THEN g ELSE fs[i]
    BY <1>1, <2>1, <2>2, <2>3
  <2> QED
    BY <1>4, <2>4 DEF g
<1> QED
  BY <1>2, <1>3, <1>4

\* A closing bracket pops them.
LEMMA CloseKeepsFrames ==
    ASSUME ScanTypeOK, FramesAreOpen, NEW h, h = Here, Inside(Here), CloseContainer
    PROVE  /\ FramesAreOpen'
           /\ frames' \in Seq(Frame) /\ path' \in Seq(PathSeg)
<1> DEFINE n == Len(frames)
           x == Close
           fs == Front(frames)
<1>1. x \in Tokens /\ x.kind = "close" /\ tokens' = Append(tokens, x)
  BY DEF Tokens, Close, CloseContainer
<1>2. /\ h \in Nat /\ h >= 1 /\ tokens'[h] = x /\ Len(tokens') = h /\ Len(tokens) = h - 1
      /\ Depth(h + 1)' = Depth(h) - 1
      /\ \A t \in 1..h : Depth(t) \in Int /\ Depth(t)' = Depth(t)
  BY <1>1, OneMoreDepth
<1>3. n \in Nat /\ n > 0 /\ DOMAIN frames = 1..n /\ Depth(h) = n /\ frames \in Seq(Frame)
  <2>1. frames # <<>>
    BY <1>2, FramesTell
  <2>2. frames \in Seq(Frame)
    BY DEF ScanTypeOK, Frame
  <2>3. n \in Nat /\ n > 0 /\ DOMAIN frames = 1..n
    BY <2>1, <2>2
  <2> QED
    BY <2>2, <2>3 DEF FramesAreOpen
<1>4. Around(h + 1)' = {q \in Around(h) : Depth(q) < n - 1}
  <2>1. Around(h + 1)' = {q \in Around(h) : Depth(q) < Depth(h + 1)'}
    BY <1>1, OneMoreAround
  <2> QED
    BY <1>2, <1>3, <2>1
<1>5. fs \in Seq(Frame) /\ Len(fs) = n - 1 /\ \A i \in 1..(n - 1) : fs[i] = frames[i]
  <2>1. fs = SubSeq(frames, 1, n - 1)
    BY DEF Front
  <2>2. n - 1 <= n /\ n - 1 \in Nat
    BY <1>3
  <2> QED
    BY <1>3, <2>1, <2>2
<1>6. frames' = EndValue(fs)
  BY DEF CloseContainer
<1> HIDE DEF fs, x
<1>7. /\ frames' \in Seq(Frame) /\ Len(frames') = n - 1
      /\ \A i \in 1..(n - 1) : frames'[i] = IF i = n - 1 /\ ~frames[i].isArray
                                            THEN [frames[i] EXCEPT !.haveKey = FALSE] ELSE frames[i]
  <2>1. /\ frames' \in Seq(Frame) /\ Len(frames') = n - 1
        /\ \A i \in 1..(n - 1) : frames'[i] = IF i = n - 1 /\ ~fs[n - 1].isArray
                                              THEN [fs[i] EXCEPT !.haveKey = FALSE] ELSE fs[i]
    BY <1>5, <1>6, EndValueHolds
  <2> QED
    BY <1>5, <2>1
<1>8. path \in Seq(PathSeg) /\ Len(path) = n - 1
  BY <1>3 DEF ScanTypeOK, FramesAreOpen, PathSeg
<1>9. Top.owned = (n > 1)
  <2>1. n \in DOMAIN frames
    BY <1>3
  <2>2. \E q \in Around(h) : FrameIsOf(n, q)
    BY <2>1 DEF FramesAreOpen
  <2> QED
    BY <2>2 DEF FrameIsOf, Top
<1>10. /\ path' \in Seq(PathSeg) /\ Len(path') = IF n > 1 THEN n - 2 ELSE 0
       /\ \A i \in 1..(n - 2) : path'[i] = path[i]
  <2>1. CASE n > 1
    <3>1. path' = SubSeq(path, 1, Len(path) - 1)
      BY <1>9, <2>1 DEF CloseContainer, Front
    <3>2. Len(path) - 1 = n - 2 /\ n - 2 \in Nat /\ n - 2 <= n - 1
      BY <1>3, <1>8, <2>1
    <3>3. path' \in Seq(PathSeg) /\ Len(path') = n - 2 /\ \A i \in 1..(n - 2) : path'[i] = path[i]
      BY <1>8, <3>1, <3>2
    <3> QED
      BY <2>1, <3>3
  <2>2. CASE ~(n > 1)
    <3>1. path' = path
      BY <1>9, <2>2 DEF CloseContainer
    <3>2. n - 1 = 0
      BY <1>3, <2>2
    <3> QED
      BY <1>8, <2>2, <3>1, <3>2
  <2> QED
    BY <2>1, <2>2
<1>11. ASSUME NEW i \in 1..(n - 1)
       PROVE  \E q \in Around(h + 1)' : FrameIsOf(i, q)'
  <2>1. i \in DOMAIN frames /\ i < n /\ i \in 1..n
    BY <1>3
  <2>2. PICK q \in Around(h) : FrameIsOf(i, q)
    BY <2>1 DEF FramesAreOpen
  <2>3. /\ Depth(q) = i - 1 /\ Depth(q)' = i - 1
        /\ tokens'[q].array = tokens[q].array
        /\ i > 1 => SegOf(q)' = SegOf(q)
        /\ Cardinality(Members(q))' = Cardinality(Members(q))
    BY <1>1, <2>1, <2>2, OneMoreMember DEF x
  <2>4. q \in Around(h + 1)'
    <3>1. i - 1 < n - 1
      BY <1>3
    <3> QED
      BY <1>4, <2>2, <2>3, <3>1
  <2>5. i > 1 => path'[i - 1] = path[i - 1]
    <3>1. i > 1 => i - 1 \in 1..(n - 2)
      BY <1>3
    <3> QED
      BY <1>10, <3>1
  <2>6. CASE i # n - 1
    <3>1. i < n - 1
      <4>1. \A a \in Nat : \A b \in 1..(a - 1) : b # a - 1 => b < a - 1
        OBVIOUS
      <4> QED
        BY <1>3, <2>6, <4>1
    <3>2. frames'[i] = frames[i] /\ i < Len(frames')
      BY <1>7, <2>6, <3>1
    <3>3. FrameIsOf(i, q)'
      BY <1>1, <2>1, <2>2, <2>5, <3>2, OneMoreBelow
    <3> QED
      BY <2>4, <3>3
  <2>7. CASE i = n - 1
    <3>1. ~(i < Len(frames'))
      BY <1>3, <1>7, <2>7
    <3>2. /\ frames[i].isArray = tokens[q].array
          /\ frames[i].owned = (i > 1)
          /\ tokens[q].array => frames[i].index = Cardinality(Members(q))
          /\ ~tokens[q].array => Cardinality(Members(q)) % 2 = 0
          /\ i > 1 => path[i - 1] = SegOf(q)
      BY <2>1, <2>2 DEF FrameIsOf
    <3>3. /\ frames'[i].isArray = frames[i].isArray
          /\ frames'[i].owned = frames[i].owned
          /\ frames[i].isArray => frames'[i].index = frames[i].index
          /\ ~frames[i].isArray => frames'[i].haveKey = FALSE
      <4>1. frames[i] \in Frame
        BY <1>3, <2>1
      <4> QED
        BY <1>7, <2>7, <4>1 DEF Frame
    <3>4. \A c : c % 2 = 0 => c % 2 # 1
      OBVIOUS
    <3>5. FrameIsOf(i, q)'
      BY <2>3, <2>5, <3>1, <3>2, <3>3, <3>4 DEF FrameIsOf
    <3> QED
      BY <2>4, <3>5
  <2> QED
    BY <2>6, <2>7
<1>12. Len(path') = IF frames' = <<>> THEN 0 ELSE Len(frames') - 1
  <2>1. frames' = <<>> <=> n - 1 = 0
    BY <1>3, <1>7
  <2>2. (n - 1) - 1 = n - 2 /\ (n > 1 <=> n - 1 # 0)
    BY <1>3
  <2> QED
    BY <1>7, <1>10, <2>1, <2>2
<1>13. (InObject /\ Top.haveKey)' => x.s = Top'.pendingKey
  <2>1. SUFFICES ASSUME frames' # <<>>, ~Top'.isArray
                 PROVE  Top'.haveKey = FALSE
    BY DEF InObject
  <2>2. n - 1 \in 1..(n - 1)
    BY <1>3, <1>7, <2>1
  <2>3. Top' = frames'[n - 1] /\ frames[n - 1] \in Frame
    <3>1. n - 1 \in 1..n
      BY <1>3, <2>2
    <3> QED
      BY <1>3, <1>7, <3>1 DEF Top
  <2> QED
    BY <1>7, <2>1, <2>2, <2>3 DEF Frame
<1>14. Depth(h + 1)' = Len(frames') /\ \A i \in 1..Len(frames') : \E q \in Around(h + 1)' : FrameIsOf(i, q)'
  BY <1>2, <1>3, <1>7, <1>11
<1> QED
  BY <1>1, <1>7, <1>10, <1>12, <1>13, <1>14, FramesStayOpen

\* A string that is a key.
LEMMA KeyKeepsFrames ==
    ASSUME ScanTypeOK, FramesAreOpen, NEW h, h = Here, NEW s \in Keys, NEW plain \in BOOLEAN,
           IsKey(Here), ReadString(s, plain)
    PROVE  /\ FramesAreOpen'
           /\ frames' \in Seq(Frame) /\ path' = path /\ spans' = spans
<1> DEFINE n == Len(frames)
           x == String(s, plain)
           g == [Top EXCEPT !.pendingKey = s, !.haveKey = TRUE]
<1>1. x \in Tokens /\ x.kind = "string" /\ x.s = s /\ tokens' = Append(tokens, x)
  BY DEF Tokens, String, ReadString
<1>2. InObject /\ ~Top.haveKey
  <2>1. \A t \in 1..h : Depth(t) \in Int
    BY <1>1, OneMoreDepth
  <2> QED
    BY <2>1, FramesTell
<1>3. frames' = SetTop(g) /\ path' = path /\ spans' = spans
  BY <1>2 DEF ReadString
<1>4. frames # <<>> /\ ~Top.isArray /\ Top \in Frame /\ n \in Nat /\ n > 0
  BY <1>2, CountedHolds DEF InObject
<1>5. /\ g \in Frame /\ g.isArray = Top.isArray /\ g.owned = Top.owned
      /\ g.haveKey = TRUE /\ g.pendingKey = s
  BY <1>4 DEF Frame
<1>6. frames' = [frames EXCEPT ![n] = g]
  BY <1>3 DEF SetTop
<1> HIDE DEF g, x
<1>7. FramesAreOpen'
  BY <1>1, <1>2, <1>3, <1>4, <1>5, <1>6, TopMovesOn
<1>8. frames' \in Seq(Frame)
  <2>1. frames \in Seq(Frame)
    BY DEF ScanTypeOK, Frame
  <2> QED
    BY <1>4, <1>5, <1>6, <2>1
<1> QED
  BY <1>3, <1>7, <1>8

\* A scalar.
LEMMA ScalarKeepsFrames ==
    ASSUME ScanTypeOK, FramesAreOpen, NEW h, h = Here, ~IsKey(h), NEW x \in Tokens,
           tokens' = Append(tokens, x), x.kind \notin {"open", "close"},
           frames' = EndValue(Counted), path' = path
    PROVE  FramesAreOpen' /\ frames' \in Seq(Frame)
<1>1. /\ h \in Nat /\ h >= 1 /\ Depth(h + 1)' = Depth(h)
      /\ \A t \in 1..h : Depth(t) \in Int
  BY OneMoreDepth
<1>2. CASE frames = <<>>
  <2>1. frames' = <<>>
    BY <1>2 DEF EndValue, Counted
  <2>2. Depth(h) = 0 /\ Len(path) = 0
    BY <1>2 DEF FramesAreOpen
  <2>3. frames' \in Seq(Frame) /\ Len(frames') = 0 /\ ~InObject'
    BY <2>1 DEF InObject
  <2>4. \A i \in 1..Len(frames') : FALSE
    BY <2>3
  <2> QED
    BY <1>1, <2>1, <2>2, <2>3, <2>4, FramesStayOpen
<1>3. CASE frames # <<>>
  <2> DEFINE n == Len(frames)
             g == IF Top.isArray THEN [Top EXCEPT !.index = @ + 1]
                  ELSE [Top EXCEPT !.haveKey = FALSE]
  <2>1. /\ Top \in Frame /\ n \in Nat /\ n > 0
        /\ Counted \in Seq(Frame) /\ Len(Counted) = n
        /\ \A i \in 1..n : Counted[i] = IF i = n /\ Top.isArray THEN [Top EXCEPT !.index = @ + 1]
                                        ELSE frames[i]
    BY <1>3, CountedHolds
  <2>2. /\ frames' \in Seq(Frame) /\ Len(frames') = n
        /\ \A i \in 1..n : frames'[i] = IF i = n /\ ~Counted[n].isArray
                                        THEN [Counted[i] EXCEPT !.haveKey = FALSE] ELSE Counted[i]
    BY <2>1, EndValueHolds
  <2>3. /\ g \in Frame /\ g.isArray = Top.isArray /\ g.owned = Top.owned
        /\ g.isArray => g.index = Top.index + 1
        /\ ~g.isArray => g.haveKey = FALSE
    <3>1. CASE Top.isArray
      <4>1. g = [Top EXCEPT !.index = Top.index + 1]
        BY <3>1
      <4>2. Top.index + 1 \in Nat
        BY <2>1 DEF Frame
      <4> HIDE DEF g
      <4>3. /\ g \in Frame /\ g.isArray = Top.isArray /\ g.owned = Top.owned
            /\ g.index = Top.index + 1
        BY <2>1, <4>1, <4>2 DEF Frame
      <4> QED
        BY <3>1, <4>3
    <3>2. CASE ~Top.isArray
      <4>1. g = [Top EXCEPT !.haveKey = FALSE]
        BY <3>2
      <4> HIDE DEF g
      <4>2. /\ g \in Frame /\ g.isArray = Top.isArray /\ g.owned = Top.owned
            /\ g.haveKey = FALSE
        BY <2>1, <4>1 DEF Frame
      <4> QED
        BY <3>2, <4>2
    <3> QED
      BY <3>1, <3>2
  <2>4. ~IsKey(h) => Top.isArray \/ Top.haveKey
    BY <1>1, <1>3, FramesTell DEF InObject
  <2>5. ASSUME NEW i \in 1..n
        PROVE  frames'[i] = IF i = n THEN g ELSE frames[i]
    <3>1. CASE i # n
      BY <2>1, <2>2, <3>1
    <3>2. CASE i = n /\ Top.isArray
      <4>1. Counted[n] = g /\ g.isArray
        BY <2>1, <2>3, <3>2
      <4> QED
        BY <2>2, <3>2, <4>1
    <3>3. CASE i = n /\ ~Top.isArray
      <4>1. Counted[n] = Top
        BY <2>1, <3>3 DEF Top
      <4> QED
        BY <2>2, <3>3, <4>1
    <3> QED
      BY <3>1, <3>2, <3>3
  <2> HIDE DEF g
  <2>6. frames \in Seq(Frame)
    BY DEF ScanTypeOK, Frame
  <2>7. frames' = [frames EXCEPT ![n] = g]
    <3>1. frames' = [i \in 1..n |-> frames'[i]]
      BY <2>2
    <3>2. [frames EXCEPT ![n] = g] = [i \in 1..n |-> IF i = n THEN g ELSE frames[i]]
      BY <2>6
    <3> QED
      BY <2>5, <3>1, <3>2
  <2>8. ~g.isArray => g.haveKey = ~Top.haveKey
    BY <2>3, <2>4
  <2>9. ~(~g.isArray /\ g.haveKey)
    BY <2>3
  <2>10. FramesAreOpen'
    BY <1>3, <2>3, <2>7, <2>8, <2>9, TopMovesOn
  <2> QED
    BY <2>2, <2>10
<1> QED
  BY <1>2, <1>3

-----------------------------------------------------------------------------
(* scanJSON: the tags, and the theorems                                    *)

TagSpan == [start : Nat, end : Nat, level : Int, rule : DOMAIN Policy]

\* A token is tagged when it is read, or never.
LEMMA OneMoreTag ==
    ASSUME ScanInvariant, NEW h, h = Here, NEW x \in Tokens, tokens' = Append(tokens, x),
           NEW tag \in BOOLEAN,
           tag <=> ~IsKey(h) /\ x.kind \in {"string", "literal"} /\ (x.kind = "string" => x.plain),
           spans' = IF tag /\ RuleFor(PathHere) # 0
                    THEN Append(spans, [start |-> Len(tokens), end |-> Len(tokens) + 1,
                                        level |-> Policy[RuleFor(PathHere)].level,
                                        rule |-> RuleFor(PathHere)])
                    ELSE spans
    PROVE  spans' \in Seq(TagSpan) /\ SpansAreBehind' /\ FirstMatchTags'
<1> USE DEF ScanInvariant
<1> DEFINE m == Len(spans)
           r == RuleFor(PathHere)
           new == [start |-> h - 1, end |-> h, level |-> Policy[r].level, rule |-> r]
<1>1. /\ h \in Nat /\ h >= 1 /\ tokens'[h] = x /\ Len(tokens') = h /\ Len(tokens) = h - 1
      /\ \A t \in 1..(h - 1) : tokens'[t] = tokens[t]
      /\ \A t \in 1..h : Depth(t) \in Int
  BY OneMoreDepth
<1>2. DOMAIN tokens = 1..(h - 1) /\ DOMAIN tokens' = 1..h /\ \A t \in 1..(h - 1) : t \in 1..h
  <2>1. tokens \in Seq(Tokens) /\ tokens' \in Seq(Tokens)
    BY DEF ScanTypeOK
  <2> QED
    BY <1>1, <2>1
<1>3. spans \in Seq(TagSpan) /\ m \in Nat /\ DOMAIN spans = 1..m
  BY DEF ScanTypeOK, TagSpan
<1>4. \A t \in 1..h : IsKey(t)' = IsKey(t)
  BY OneMorePlace
<1>5. \A t \in 1..h : Location(t)' = Location(t)
  <2> TAKE t \in 1..h
  <2>1. Nested(t)
    BY DEF FramesAreOpen, Nested
  <2> QED
    BY <2>1, OneMoreLocation
<1>6. ASSUME tag
      PROVE  /\ PathHere = Location(h)
             /\ r = 0 => FirstMatch(PathHere) = {}
             /\ r # 0 => FirstMatch(PathHere) = {r} /\ r \in DOMAIN Policy
  <2>1. PathHere = Location(h) /\ PathHere \in Seq(PathSeg)
    BY <1>1, <1>6, PathIsLocation DEF PathSeg
  <2> QED
    BY <2>1, RuleForIsFirst
<1>7. ASSUME tag, r # 0
      PROVE  new \in TagSpan
  <2>1. Policy[r].level \in Int
    <3> DEFINE Rule == [segs : Seq(Segment), level : Int]
    <3>1. Policy \in Seq(Rule) /\ r \in DOMAIN Policy
      BY <1>6, <1>7, PolicyAssumption DEF PolicyAssumption
    <3> HIDE DEF Rule, r
    <3>2. Policy[r] \in Rule
      BY <3>1
    <3> QED
      BY <3>2 DEF Rule
  <2>2. r \in DOMAIN Policy
    BY <1>6, <1>7
  <2>3. h - 1 \in Nat
    BY <1>1
  <2> HIDE DEF r
  <2> QED
    BY <1>1, <2>1, <2>2, <2>3 DEF TagSpan
<1>8. spans' = IF tag /\ r # 0 THEN Append(spans, new) ELSE spans
  <2>1. Len(tokens) = h - 1 /\ Len(tokens) + 1 = h
    BY <1>1
  <2> QED
    BY <2>1
<1>9. new.start = h - 1 /\ new.end = h /\ new.level = Policy[r].level /\ new.rule = r
  OBVIOUS
<1> HIDE DEF new, r
<1>10. \A k \in 1..m : /\ spans[k].end = spans[k].start + 1 /\ spans[k].end <= h - 1
                       /\ spans[k].level = Policy[spans[k].rule].level
                       /\ spans[k].end \in Nat /\ spans[k].start \in Nat
  <2> TAKE k \in 1..m
  <2>1. spans[k] \in TagSpan
    BY <1>3
  <2>2. spans[k].end \in Nat /\ spans[k].start \in Nat
    BY <2>1 DEF TagSpan
  <2> QED
    BY <1>1, <1>3, <2>2 DEF SpansAreBehind
<1>11. ASSUME NEW t \in 1..(h - 1)
       PROVE  /\ {spans[k].rule : k \in TaggedAt(t)} =
                    IF ~IsKey(t)' /\ tokens'[t].kind \in {"string", "literal"} /\ Plain(t)'
                    THEN FirstMatch(Location(t)') ELSE {}
              /\ (Scalar(t) /\ Plain(t))' <=>
                    ~IsKey(t)' /\ tokens'[t].kind \in {"string", "literal"} /\ Plain(t)'
  <2>1. t \in 1..h /\ tokens'[t] = tokens[t]
    BY <1>1, <1>2
  <2>2. IsKey(t)' = IsKey(t) /\ Location(t)' = Location(t)
    BY <1>4, <1>5, <2>1
  <2>3. Plain(t)' <=> Plain(t)
    BY <2>1 DEF Plain
  <2>4. {spans[k].rule : k \in TaggedAt(t)} =
           IF Scalar(t) /\ Plain(t) THEN FirstMatch(Location(t)) ELSE {}
    BY <1>2 DEF FirstMatchTags
  <2> QED
    BY <2>1, <2>2, <2>3, <2>4 DEF Scalar
<1>12. (Scalar(h) /\ Plain(h))' <=> tag
  <2>1. h \in 1..h
    BY <1>1
  <2> QED
    BY <1>1, <1>4, <2>1 DEF Scalar, Plain
<1>13. FirstMatch(Location(h))' = FirstMatch(Location(h))
  <2>1. h \in 1..h
    BY <1>1
  <2>2. Location(h)' = Location(h)
    BY <1>5, <2>1
  <2> QED
    BY <2>2 DEF FirstMatch
<1>14. \A t \in 1..(h - 1) : FirstMatch(Location(t))' = FirstMatch(Location(t)')
  BY DEF FirstMatch
<1>15. CASE ~(tag /\ r # 0)
  <2>1. spans' = spans
    BY <1>8, <1>15
  <2>2. SpansAreBehind'
    <3>1. \A k \in 1..m : spans[k].end <= h
      BY <1>1, <1>10
    <3> QED
      BY <1>1, <1>3, <1>10, <2>1, <3>1 DEF SpansAreBehind
  <2>3. ASSUME NEW t \in 1..h
        PROVE  {spans'[k].rule : k \in TaggedAt(t)'} =
                  IF (Scalar(t) /\ Plain(t))' THEN FirstMatch(Location(t))' ELSE {}
    <3>1. TaggedAt(t)' = TaggedAt(t)
      BY <2>1 DEF TaggedAt
    <3>2. CASE t = h
      <4>1. \A k \in 1..m : spans[k].end # h
        BY <1>1, <1>10
      <4>2. TaggedAt(t) = {}
        BY <1>3, <3>2, <4>1 DEF TaggedAt
      <4>3. tag => FirstMatch(Location(t))' = {}
        BY <1>6, <1>13, <1>15, <3>2
      <4> QED
        BY <1>12, <3>1, <3>2, <4>2, <4>3
    <3>3. CASE t # h
      <4>1. t \in 1..(h - 1)
        BY <1>1, <3>3
      <4>2. {spans'[k].rule : k \in TaggedAt(t)'} = {spans[k].rule : k \in TaggedAt(t)}
        BY <2>1, <3>1
      <4> QED
        BY <1>11, <1>14, <4>1, <4>2
    <3> QED
      BY <3>2, <3>3
  <2>4. FirstMatchTags'
    BY <1>2, <2>3 DEF FirstMatchTags
  <2> QED
    BY <1>3, <2>1, <2>2, <2>4
<1>16. CASE tag /\ r # 0
  <2>1. spans' = Append(spans, new) /\ new \in TagSpan
    BY <1>7, <1>8, <1>16
  <2>2. /\ spans' \in Seq(TagSpan) /\ DOMAIN spans' = 1..(m + 1) /\ spans'[m + 1] = new
        /\ \A k \in 1..m : spans'[k] = spans[k]
        /\ 1..(m + 1) = 1..m \cup {m + 1}
    BY <1>3, <2>1
  <2>3. SpansAreBehind'
    <3> SUFFICES ASSUME NEW k \in 1..(m + 1)
                 PROVE  /\ spans'[k].end = spans'[k].start + 1 /\ spans'[k].end <= h
                        /\ spans'[k].level = Policy[spans'[k].rule].level
      BY <1>1, <2>2 DEF SpansAreBehind
    <3>1. CASE k = m + 1
      BY <1>1, <1>9, <2>2, <3>1
    <3>2. CASE k \in 1..m
      <4>1. spans[k].end <= h
        BY <1>1, <1>10, <3>2
      <4> QED
        BY <1>10, <2>2, <3>2, <4>1
    <3> QED
      BY <2>2, <3>1, <3>2
  <2>4. ASSUME NEW t \in 1..h
        PROVE  {spans'[k].rule : k \in TaggedAt(t)'} =
                  IF (Scalar(t) /\ Plain(t))' THEN FirstMatch(Location(t))' ELSE {}
    <3>1. TaggedAt(t)' = {k \in 1..(m + 1) : spans'[k].start = t - 1 /\ spans'[k].end = t}
      BY <2>2 DEF TaggedAt
    <3>2. CASE t = h
      <4>1. \A k \in 1..m : spans[k].end # h
        BY <1>1, <1>10
      <4>2. TaggedAt(t)' = {m + 1}
        BY <1>9, <2>2, <3>1, <3>2, <4>1
      <4>3. FirstMatch(Location(t))' = {r}
        BY <1>6, <1>13, <1>16, <3>2
      <4> QED
        BY <1>9, <1>12, <1>16, <2>2, <3>2, <4>2, <4>3
    <3>3. CASE t # h
      <4>1. t \in 1..(h - 1)
        BY <1>1, <3>3
      <4>2. TaggedAt(t)' = TaggedAt(t) /\ TaggedAt(t) \subseteq 1..m
        BY <1>3, <1>9, <2>2, <3>1, <3>3 DEF TaggedAt
      <4>3. {spans'[k].rule : k \in TaggedAt(t)'} = {spans[k].rule : k \in TaggedAt(t)}
        BY <2>2, <4>2
      <4> QED
        BY <1>11, <1>14, <4>1, <4>3
    <3> QED
      BY <3>2, <3>3
  <2>5. FirstMatchTags'
    BY <1>2, <2>4 DEF FirstMatchTags
  <2> QED
    BY <2>2, <2>3, <2>5
<1> QED
  BY <1>15, <1>16

\* At the beginning there are no frames.
LEMMA ScanInitHolds == ScanInit => ScanInvariant
<1> SUFFICES ASSUME ScanInit
             PROVE  ScanInvariant
  OBVIOUS
<1>1. tokens = <<>> /\ frames = <<>> /\ path = <<>> /\ spans = <<>>
  BY DEF ScanInit
<1>2. ScanTypeOK
  BY <1>1 DEF ScanTypeOK
<1>3. Here = 1 /\ Len(tokens) = 0
  BY <1>1 DEF Here
<1>4. Depth(1) = 0
  <2>1. \A kind : {p \in 1..(1 - 1) : tokens[p].kind = kind} = {}
    OBVIOUS
  <2>2. \A kind : Count(kind, 1..(1 - 1)) = 0
    BY <2>1, FS_EmptySet DEF Count
  <2> QED
    BY <2>2 DEF Depth
<1>5. FramesAreOpen
  <2>1. \A t \in 1..Here : t = 1
    BY <1>3
  <2>2. 0..(0 - 1) = {}
    OBVIOUS
  <2>3. ~InObject /\ DOMAIN frames = {}
    BY <1>1 DEF InObject
  <2> QED
    BY <1>1, <1>3, <1>4, <2>1, <2>2, <2>3 DEF FramesAreOpen
<1>6. SpansAreBehind /\ FirstMatchTags
  BY <1>1 DEF SpansAreBehind, FirstMatchTags
<1> QED
  BY <1>2, <1>5, <1>6 DEF ScanInvariant

\* One turn of the loop of scanJSON.
LEMMA ScanNextKeeps ==
    ASSUME ScanInvariant, ScanNext
    PROVE  ScanInvariant'
<1> USE DEF ScanInvariant
<1>1. ASSUME NEW x \in Tokens, tokens' = Append(tokens, x), frames' \in Seq(Frame),
             path' \in Seq(PathSeg), spans' \in Seq(TagSpan)
      PROVE  ScanTypeOK'
  <2>1. tokens' \in Seq(Tokens)
    BY <1>1 DEF ScanTypeOK
  <2> QED
    BY <1>1, <2>1 DEF ScanTypeOK, Frame, PathSeg, TagSpan
<1>2. ASSUME NEW array \in BOOLEAN, MayBeValue, OpenContainer(array)
      PROVE  ScanInvariant'
  <2>1. Open(array) \in Tokens /\ Open(array).kind = "open"
    BY DEF Tokens, Open
  <2>2. tokens' = Append(tokens, Open(array)) /\ spans' = spans
    BY <1>2 DEF OpenContainer
  <2>3. FramesAreOpen' /\ frames' \in Seq(Frame) /\ path' \in Seq(PathSeg)
    BY <1>2, OpenKeepsFrames
  <2>4. spans' \in Seq(TagSpan) /\ SpansAreBehind' /\ FirstMatchTags'
    BY <2>1, <2>2, OneMoreTag
  <2> QED
    BY <1>1, <2>1, <2>2, <2>3, <2>4
<1>3. ASSUME Inside(Here), CloseContainer
      PROVE  ScanInvariant'
  <2>1. Close \in Tokens /\ Close.kind = "close"
    BY DEF Tokens, Close
  <2>2. tokens' = Append(tokens, Close) /\ spans' = spans
    BY <1>3 DEF CloseContainer
  <2>3. FramesAreOpen' /\ frames' \in Seq(Frame) /\ path' \in Seq(PathSeg)
    BY <1>3, CloseKeepsFrames
  <2>4. spans' \in Seq(TagSpan) /\ SpansAreBehind' /\ FirstMatchTags'
    BY <2>1, <2>2, OneMoreTag
  <2> QED
    BY <1>1, <2>1, <2>2, <2>3, <2>4
<1>4. ASSUME NEW s \in Keys, IsKey(Here), ReadString(s, TRUE)
      PROVE  ScanInvariant'
  <2>1. String(s, TRUE) \in Tokens
    <3>1. \A plain \in BOOLEAN : String(s, plain) \in Tokens
      BY DEF Tokens
    <3> QED
      BY <3>1
  <2>2. tokens' = Append(tokens, String(s, TRUE))
    BY <1>4 DEF ReadString
  <2>3. FramesAreOpen' /\ frames' \in Seq(Frame) /\ path' = path /\ spans' = spans
    BY <1>4, KeyKeepsFrames
  <2>4. spans' \in Seq(TagSpan) /\ SpansAreBehind' /\ FirstMatchTags'
    BY <1>4, <2>1, <2>2, <2>3, OneMoreTag
  <2>5. path' \in Seq(PathSeg)
    BY <2>3 DEF ScanTypeOK, PathSeg
  <2> QED
    BY <1>1, <2>1, <2>2, <2>3, <2>4, <2>5
<1>5. ASSUME NEW x \in Tokens, tokens' = Append(tokens, x), MayBeValue, NEW plain \in BOOLEAN,
             Classify(plain), x.kind \in {"string", "literal"}, x.kind = "string" => x.plain = plain,
             x.kind = "literal" => plain
      PROVE  ScanInvariant'
  <2>1. ~IsKey(Here)
    BY <1>5 DEF MayBeValue
  <2>2. frames' = EndValue(Counted) /\ path' = path
    BY <1>5 DEF Classify
  <2>3. FramesAreOpen' /\ frames' \in Seq(Frame)
    BY <1>5, <2>1, <2>2, ScalarKeepsFrames
  <2>4. spans' \in Seq(TagSpan) /\ SpansAreBehind' /\ FirstMatchTags'
    <3>1. plain <=> ~IsKey(Here) /\ x.kind \in {"string", "literal"} /\ (x.kind = "string" => x.plain)
      BY <1>5, <2>1
    <3> QED
      BY <1>5, <3>1, OneMoreTag DEF Classify
  <2>5. path' \in Seq(PathSeg)
    BY <2>2 DEF ScanTypeOK, PathSeg
  <2> QED
    BY <1>1, <1>5, <2>3, <2>4, <2>5
<1>6. ASSUME NEW plain \in BOOLEAN, MayBeValue, ReadString(AnyString, plain)
      PROVE  ScanInvariant'
  <2> DEFINE x == String(AnyString, plain)
  <2>1. x \in Tokens /\ x.kind = "string" /\ x.plain = plain
    BY DEF Tokens, String
  <2>2. tokens' = Append(tokens, x)
    BY <1>6 DEF ReadString
  <2>3. \A t \in 1..Here : Depth(t) \in Int
    BY <2>1, <2>2, OneMoreDepth
  <2>4. ~(InObject /\ ~Top.haveKey)
    BY <1>6, <2>3, FramesTell DEF MayBeValue
  <2>5. Classify(plain)
    BY <1>6, <2>4 DEF ReadString
  <2> HIDE DEF x
  <2> QED
    BY <1>5, <1>6, <2>1, <2>2, <2>5
<1>7. ASSUME MayBeValue, ReadLiteral
      PROVE  ScanInvariant'
  <2>1. Literal \in Tokens /\ Literal.kind = "literal"
    BY DEF Tokens, Literal
  <2>2. tokens' = Append(tokens, Literal) /\ Classify(TRUE)
    BY <1>7 DEF ReadLiteral
  <2> QED
    BY <1>5, <1>7, <2>1, <2>2
<1> QED
  BY <1>2, <1>3, <1>4, <1>6, <1>7 DEF ScanNext

\* Nothing changes without a step of the scanner.
LEMMA ScanStutters == ScanInvariant /\ UNCHANGED scanVars => ScanInvariant'
<1> SUFFICES ASSUME ScanInvariant, UNCHANGED scanVars
             PROVE  ScanInvariant'
  OBVIOUS
<1>1. tokens' = tokens /\ frames' = frames /\ path' = path /\ spans' = spans
  BY DEF scanVars
<1>2. /\ \A t : Depth(t)' = Depth(t)
      /\ Here' = Here /\ Top' = Top /\ (InObject' <=> InObject)
  BY <1>1 DEF Depth, Count, Here, Top, InObject
<1>3. \A t : Around(t)' = Around(t)
  BY <1>1, <1>2 DEF Around
<1>4. \A t : Parent(t)' = Parent(t) /\ (Inside(t)' <=> Inside(t)) /\ (InArray(t)' <=> InArray(t))
  BY <1>1, <1>3 DEF Parent, Inside, InArray
<1>5. \A t : Siblings(t)' = Siblings(t) /\ Members(t)' = Members(t)
  BY <1>1, <1>2, <1>4 DEF Siblings, Members
<1>6. \A t : (IsKey(t)' <=> IsKey(t)) /\ SegOf(t)' = SegOf(t)
  BY <1>1, <1>4, <1>5 DEF IsKey, SegOf
<1>7. \A t : /\ Location(t)' = Location(t) /\ TaggedAt(t)' = TaggedAt(t)
             /\ Scalar(t)' <=> Scalar(t)
             /\ Plain(t)' <=> Plain(t)
  <2> TAKE t
  <2>1. Location(t)' = Location(t)
    BY <1>1 DEF Location, Depth, Count, Around, SegOf, InArray, Siblings, Inside, Parent
  <2>2. TaggedAt(t)' = TaggedAt(t)
    BY <1>1 DEF TaggedAt
  <2>3. (Scalar(t)' <=> Scalar(t)) /\ (Plain(t)' <=> Plain(t))
    BY <1>1, <1>6 DEF Scalar, Plain
  <2> QED
    BY <2>1, <2>2, <2>3
<1>8. \A i, q : FrameIsOf(i, q)' <=> FrameIsOf(i, q)
  BY <1>1, <1>2, <1>5, <1>6 DEF FrameIsOf
<1>9. ScanTypeOK' /\ SpansAreBehind'
  BY <1>1 DEF ScanInvariant, ScanTypeOK, SpansAreBehind
<1>10. FramesAreOpen'
  BY <1>1, <1>2, <1>3, <1>8 DEF ScanInvariant, FramesAreOpen
<1>11. FirstMatchTags'
  BY <1>1, <1>7 DEF ScanInvariant, FirstMatchTags, FirstMatch
<1> QED
  BY <1>9, <1>10, <1>11 DEF ScanInvariant

\* At every step of scanJSON the frames are the containers that are open, the
\* path leads to the last of them, and what has been read is tagged.
THEOREM ScanInvariantHolds == ScanSpec => []ScanInvariant
  BY ScanInitHolds, ScanNextKeeps, ScanStutters, PTL DEF ScanSpec

\* Of the rules that match there is a first.
LEMMA FirstOfMatching ==
    ASSUME NEW p
    PROVE  /\ FirstMatch(p) \subseteq MatchingRules(p)
           /\ MatchingRules(p) # {} => FirstMatch(p) # {}
<1>1. FirstMatch(p) \subseteq MatchingRules(p)
  BY DEF FirstMatch, MatchingRules
<1>2. ASSUME MatchingRules(p) # {}
      PROVE  FirstMatch(p) # {}
  <2>1. Policy \in Seq([segs : Seq(Segment), level : Int])
    BY PolicyAssumption
  <2>2. DOMAIN Policy = 1..Len(Policy) /\ Len(Policy) \in Nat
    BY <2>1
  <2>3. MatchingRules(p) \in SUBSET Nat
    BY <2>2 DEF MatchingRules
  <2>4. PICK r \in MatchingRules(p) : \A m \in MatchingRules(p) : r <= m
    BY <1>2, <2>3, LeastNumber
  <2>5. r \in DOMAIN Policy /\ Matches(Policy[r].segs, p)
    BY DEF MatchingRules
  <2>6. ASSUME NEW u \in 1..(r - 1)
        PROVE  ~Matches(Policy[u].segs, p)
    <3>1. u \in DOMAIN Policy /\ ~(r <= u)
      BY <2>2, <2>5
    <3> QED
      BY <2>4, <3>1 DEF MatchingRules
  <2>7. r \in FirstMatch(p)
    BY <2>5, <2>6 DEF FirstMatch
  <2> QED
    BY <2>7
<1> QED
  BY <1>1, <1>2

\* What the invariant says of first rules and spellings that are expected tells
\* what is tagged, and the levels.
LEMMA ScanInvariantTags == ScanInvariant => ScalarsAreTagged
<1> SUFFICES ASSUME ScanInvariant, NEW t \in DOMAIN tokens
             PROVE  /\ ~Scalar(t) => TaggedAt(t) = {}
                    /\ Scalar(t) /\ Plain(t) =>
                          (TaggedAt(t) # {} <=> MatchingRules(Location(t)) # {})
                    /\ \A k \in TaggedAt(t) : \E r \in MatchingRules(Location(t)) :
                          spans[k].level = Policy[r].level
  BY DEF ScalarsAreTagged
<1>1. {spans[k].rule : k \in TaggedAt(t)} =
         IF Scalar(t) /\ Plain(t) THEN FirstMatch(Location(t)) ELSE {}
  BY DEF ScanInvariant, FirstMatchTags
<1>2. /\ FirstMatch(Location(t)) \subseteq MatchingRules(Location(t))
      /\ MatchingRules(Location(t)) # {} => FirstMatch(Location(t)) # {}
  BY FirstOfMatching
<1>3. \A k \in TaggedAt(t) : spans[k].level = Policy[spans[k].rule].level
  BY DEF ScanInvariant, SpansAreBehind, TaggedAt
<1> QED
  BY <1>1, <1>2, <1>3

\* Whatever the tokens, a scalar in the expected spelling is tagged if and only if
\* a rule matches its place in the text, nothing else is without one, and a tag has
\* the level of a rule that matches, of several either.
THEOREM ScalarsAlwaysTagged == ScanSpec => []ScalarsAreTagged
  BY ScanInvariantTags, ScanInvariantHolds, PTL

-----------------------------------------------------------------------------
(* Loops, and texts behind each other                                      *)

\* What a loop computes in n turns, each from what the turn before it left.
Turns(f, V, a, n, g) == f \in [0..n -> V] /\ f[0] = a /\ \A i \in 1..n : f[i] = g[f[i - 1]][i]

\* Such a function exists, for any number of turns.
LEMMA LoopRuns ==
    ASSUME NEW V, NEW a \in V, NEW n \in Nat, NEW g, \A v \in V, i \in 1..n : g[v][i] \in V
    PROVE  \E f : Turns(f, V, a, n, g)
<1> DEFINE Runs(f, k) == f[0] = a /\ \A i \in 1..k : f[i] = g[f[i - 1]][i]
           S == {k \in Nat : k <= n => \E f \in [0..k -> V] : Runs(f, k)}
<1>1. 0 \in S
  <2>1. [i \in 0..0 |-> a] \in [0..0 -> V] /\ Runs([i \in 0..0 |-> a], 0)
    OBVIOUS
  <2> QED
    BY <2>1
<1>2. ASSUME NEW k \in Nat, k \in S
      PROVE  k + 1 \in S
  <2> HIDE DEF Runs
  <2>0. k + 1 \in Nat
    OBVIOUS
  <2> SUFFICES ASSUME k + 1 <= n
               PROVE  \E f \in [0..(k + 1) -> V] : Runs(f, k + 1)
    BY <2>0
  <2>1. k <= n
    OBVIOUS
  <2>2. PICK f \in [0..k -> V] : Runs(f, k)
    BY <1>2, <2>1
  <2> DEFINE e == [i \in 0..(k + 1) |-> IF i = k + 1 THEN g[f[k]][k + 1] ELSE f[i]]
  <2>3. k \in 0..k /\ k + 1 \in 1..n
    OBVIOUS
  <2>5. g[f[k]][k + 1] \in V
    <3>1. f[k] \in V
      BY <2>3
    <3> QED
      BY <2>3, <3>1
  <2>6. e \in [0..(k + 1) -> V]
    <3>1. \A i \in 0..(k + 1) : i = k + 1 \/ i \in 0..k
      OBVIOUS
    <3> QED
      BY <2>5, <3>1
  <2>7. \A i \in 0..k : e[i] = f[i]
    OBVIOUS
  <2>8. e[k + 1] = g[f[k]][k + 1]
    OBVIOUS
  <2> HIDE DEF e
  <2> USE DEF Runs
  <2>9. e[0] = a
    BY <2>2, <2>7
  <2>10. ASSUME NEW i \in 1..(k + 1)
         PROVE  e[i] = g[e[i - 1]][i]
    <3>1. CASE i = k + 1
      <4>1. i - 1 = k
        BY <3>1
      <4>2. e[k] = f[k]
        BY <2>3, <2>7
      <4> QED
        BY <2>8, <3>1, <4>1, <4>2
    <3>2. CASE i # k + 1
      <4>1. i \in 1..k /\ i \in 0..k /\ i - 1 \in 0..k
        BY <3>2
      <4> QED
        BY <2>2, <2>7, <4>1
    <3> QED
      BY <3>1, <3>2
  <2>11. Runs(e, k + 1)
    BY <2>9, <2>10
  <2> QED
    BY <2>6, <2>11
<1> HIDE DEF S
<1>3. n \in S
  BY <1>1, <1>2, NumbersInSteps
<1> QED
  BY <1>3 DEF S, Turns

\* A text behind another.
Joined(u, s, t) ==
    /\ Len(u) = Len(s) + Len(t)
    /\ \A i \in 1..Len(s) : u[i] = s[i]
    /\ \A i \in 1..Len(t) : u[Len(s) + i] = t[i]

\* Two texts joined have the positions of the one, then those of the other.
LEMMA JoinedHolds ==
    ASSUME NEW S, NEW s \in Seq(S), NEW t \in Seq(S)
    PROVE  s \o t \in Seq(S) /\ Joined(s \o t, s, t)
  BY DEF Joined

\* Texts behind each other: what FlattenSeq gives, one text at a time.
Beginnings(b, seqs) ==
    /\ b[0] = <<>> /\ FlattenSeq(seqs) = b[Len(seqs)]
    /\ \A i \in 1..Len(seqs) : b[i] = b[i - 1] \o seqs[i]

\* Each beginning is the one before it and one text more.
LEMMA FlattenHolds ==
    ASSUME NEW S, NEW seqs \in Seq(Seq(S))
    PROVE  \E b \in [0..Len(seqs) -> Seq(S)] : Beginnings(b, seqs)
<1> DEFINE n == Len(seqs)
<1>1. n \in Nat /\ DOMAIN seqs = 1..n /\ \A i \in 1..n : seqs[i] \in Seq(S)
  OBVIOUS
<1>2. PICK b \in [0..n -> Seq(S)] : b[0] = <<>> /\ \A i \in 1..n : b[i] = b[i - 1] \o seqs[i]
  <2> DEFINE V == Seq(S)
             g == [v \in V |-> [i \in 1..n |-> v \o seqs[i]]]
  <2>1. <<>> \in V
    OBVIOUS
  <2>2. \A v \in V, i \in 1..n : g[v][i] = v \o seqs[i] /\ v \o seqs[i] \in V
    BY <1>1
  <2> HIDE DEF V, g, n
  <2>4. PICK b \in [0..n -> V] : b[0] = <<>> /\ \A i \in 1..n : b[i] = g[b[i - 1]][i]
    <3> DEFINE a == <<>>
    <3>1. a \in V
      BY <2>1
    <3> HIDE DEF a
    <3>2. \E b \in [0..n -> V] : b[0] = a /\ \A i \in 1..n : b[i] = g[b[i - 1]][i]
      <4>1. n \in Nat /\ \A v \in V, i \in 1..n : g[v][i] \in V
        BY <1>1, <2>2
      <4>2. \E b : Turns(b, V, a, n, g)
        BY <3>1, <4>1, LoopRuns
      <4> QED
        BY <4>2 DEF Turns
    <3> QED
      BY <3>2 DEF a
  <2>5. \A i \in 1..n : b[i] = b[i - 1] \o seqs[i]
    <3> TAKE i \in 1..n
    <3>1. i - 1 \in 0..n
      BY <1>1
    <3>2. b[i - 1] \in V
      BY <3>1
    <3> QED
      BY <2>2, <2>4, <3>2
  <2> QED
    BY <2>4, <2>5 DEF V
<1>3. FlattenSeq(seqs) = b[n]
  <2>1. CASE n = 0
    <3>1. FlattenSeq(seqs) = seqs
      BY <2>1 DEF FlattenSeq
    <3>2. seqs = <<>>
      BY <2>1
    <3> QED
      BY <1>2, <2>1, <3>1, <3>2
  <2>2. CASE n # 0
    <3> DEFINE Fl(x) == [i \in 1..n |-> IF i = 1 THEN seqs[i] ELSE x[i - 1] \o seqs[i]]
               Is(x) == x = Fl(x)
               fl == CHOOSE x : Is(x)
    <3>1. FlattenSeq(seqs) = fl[n]
      BY <2>2 DEF FlattenSeq
    <3> DEFINE c == [i \in 1..n |-> b[i]]
    <3>2. Is(c)
      <4>1. ASSUME NEW i \in 1..n
            PROVE  c[i] = IF i = 1 THEN seqs[i] ELSE c[i - 1] \o seqs[i]
        <5>1. CASE i = 1
          <6>1. b[i] = b[i - 1] \o seqs[i] /\ seqs[i] \in Seq(S) /\ i - 1 = 0
            BY <1>1, <1>2, <5>1
          <6>2. <<>> \o seqs[i] = seqs[i]
            BY <6>1
          <6> QED
            BY <1>2, <5>1, <6>1, <6>2
        <5>2. CASE i # 1
          <6>1. i - 1 \in 1..n
            BY <1>1, <5>2
          <6> QED
            BY <1>2, <5>2, <6>1
        <5> QED
          BY <5>1, <5>2
      <4>2. c = [i \in 1..n |-> c[i]]
        OBVIOUS
      <4> HIDE DEF c, n
      <4> QED
        BY <4>1, <4>2
    <3>3. Is(fl)
      <4> HIDE DEF Is, c
      <4> QED
        BY <3>2
    <3> HIDE DEF fl, c
    <3>4. \A i \in 1..n : fl[i] = IF i = 1 THEN seqs[i] ELSE fl[i - 1] \o seqs[i]
      <4> HIDE DEF n
      <4> QED
        BY <3>3
    <3> DEFINE T == {k \in Nat : k + 1 \in 1..n => fl[k + 1] = b[k + 1]}
    <3>5. 0 \in T
      <4>1. ASSUME 1 \in 1..n
            PROVE  fl[1] = b[1]
        <5>1. fl[1] = seqs[1] /\ b[1] = b[1 - 1] \o seqs[1] /\ seqs[1] \in Seq(S)
          BY <1>1, <1>2, <3>4, <4>1
        <5>2. 1 - 1 = 0 /\ <<>> \o seqs[1] = seqs[1]
          BY <5>1
        <5> QED
          BY <1>2, <5>1, <5>2
      <4> QED
        BY <4>1
    <3>6. ASSUME NEW k \in Nat, k \in T
          PROVE  k + 1 \in T
      <4> SUFFICES ASSUME k + 2 \in 1..n
                   PROVE  fl[k + 2] = b[k + 2]
        OBVIOUS
      <4>1. k + 1 \in 1..n /\ k + 2 # 1 /\ (k + 2) - 1 = k + 1
        BY <1>1
      <4>2. fl[k + 1] = b[k + 1]
        BY <3>6, <4>1
      <4>3. fl[k + 2] = fl[k + 1] \o seqs[k + 2]
        BY <3>4, <4>1
      <4>4. b[k + 2] = b[k + 1] \o seqs[k + 2]
        BY <1>2, <4>1
      <4> QED
        BY <4>2, <4>3, <4>4
    <3> HIDE DEF T
    <3>7. Nat \subseteq T
      BY <3>5, <3>6, NumbersInSteps
    <3>8. n - 1 \in T /\ (n - 1) + 1 = n /\ n \in 1..n
      BY <1>1, <2>2, <3>7
    <3> QED
      BY <3>1, <3>8 DEF T
  <2> QED
    BY <2>1, <2>2
<1> QED
  BY <1>2, <1>3 DEF Beginnings

\* A text is where its beginning ends, and every position is in a text.
LEMMA FlattenAt ==
    ASSUME NEW S, NEW seqs \in Seq(Seq(S)),
           NEW b \in [0..Len(seqs) -> Seq(S)], Beginnings(b, seqs)
    PROVE  /\ FlattenSeq(seqs) \in Seq(S) /\ Len(b[0]) = 0
           /\ \A i \in 1..Len(seqs) :
                 /\ Len(b[i]) = Len(b[i - 1]) + Len(seqs[i])
                 /\ Len(b[i]) <= Len(FlattenSeq(seqs))
                 /\ \A j \in 1..Len(seqs[i]) : FlattenSeq(seqs)[Len(b[i - 1]) + j] = seqs[i][j]
           /\ \A t \in 1..Len(FlattenSeq(seqs)) :
                 \E i \in 1..Len(seqs) : t - Len(b[i - 1]) \in 1..Len(seqs[i])
<1> DEFINE n == Len(seqs)
<1>1. n \in Nat /\ DOMAIN seqs = 1..n /\ \A i \in 1..n : seqs[i] \in Seq(S) /\ Len(seqs[i]) \in Nat
  OBVIOUS
<1> HIDE DEF n
<1>2. \A i \in 0..n : b[i] \in Seq(S) /\ Len(b[i]) \in Nat
  <2>1. \A i \in 0..n : b[i] \in Seq(S)
    BY DEF n
  <2>2. \A u \in Seq(S) : Len(u) \in Nat
    OBVIOUS
  <2> QED
    BY <2>1, <2>2
<1>3. b[0] = <<>> /\ FlattenSeq(seqs) = b[n] /\ \A i \in 1..n : b[i] = b[i - 1] \o seqs[i]
  BY DEF Beginnings, n
<1>4. ASSUME NEW i \in 1..n
      PROVE  /\ i \in 0..n /\ i - 1 \in 0..n
             /\ Len(b[i]) = Len(b[i - 1]) + Len(seqs[i])
             /\ \A t \in 1..Len(b[i - 1]) : b[i][t] = b[i - 1][t]
             /\ \A j \in 1..Len(seqs[i]) : b[i][Len(b[i - 1]) + j] = seqs[i][j]
  <2>1. i \in 0..n /\ i - 1 \in 0..n
    BY <1>1
  <2>2. b[i] = b[i - 1] \o seqs[i] /\ b[i - 1] \in Seq(S) /\ seqs[i] \in Seq(S)
    BY <1>1, <1>2, <1>3, <2>1
  <2>3. /\ Len(b[i - 1] \o seqs[i]) = Len(b[i - 1]) + Len(seqs[i])
        /\ \A t \in 1..Len(b[i - 1]) : (b[i - 1] \o seqs[i])[t] = b[i - 1][t]
        /\ \A j \in 1..Len(seqs[i]) : (b[i - 1] \o seqs[i])[Len(b[i - 1]) + j] = seqs[i][j]
    <3> DEFINE u == b[i - 1]
               v == seqs[i]
    <3>1. u \in Seq(S) /\ v \in Seq(S)
      BY <2>2
    <3> HIDE DEF u, v
    <3>2. /\ Len(u \o v) = Len(u) + Len(v)
          /\ \A t \in 1..Len(u) : (u \o v)[t] = u[t]
          /\ \A j \in 1..Len(v) : (u \o v)[Len(u) + j] = v[j]
      BY <3>1, JoinedHolds DEF Joined
    <3> QED
      BY <3>2 DEF u, v
  <2> QED
    BY <2>1, <2>2, <2>3, Zenon
<1>5. ASSUME NEW i \in 0..n
      PROVE  Len(b[i]) <= Len(b[n]) /\ \A t \in 1..Len(b[i]) : b[n][t] = b[i][t]
  <2> DEFINE T == {c \in Nat : \A k \in 0..n : k = n - c =>
                       Len(b[k]) <= Len(b[n]) /\ \A t \in 1..Len(b[k]) : b[n][t] = b[k][t]}
  <2>1. 0 \in T
    <3>1. n - 0 = n /\ n \in 0..n
      BY <1>1
    <3>2. Len(b[n]) <= Len(b[n])
      BY <1>2, <3>1
    <3> QED
      BY <3>1, <3>2
  <2>2. ASSUME NEW c \in Nat, c \in T
        PROVE  c + 1 \in T
    <3> SUFFICES ASSUME NEW k \in 0..n, k = n - (c + 1)
                 PROVE  Len(b[k]) <= Len(b[n]) /\ \A t \in 1..Len(b[k]) : b[n][t] = b[k][t]
      OBVIOUS
    <3>1. PICK l \in 1..n : l = k + 1 /\ l = n - c /\ l - 1 = k /\ l \in 0..n
      BY <1>1
    <3>2. Len(b[l]) <= Len(b[n]) /\ \A t \in 1..Len(b[l]) : b[n][t] = b[l][t]
      BY <2>2, <3>1
    <3>3. /\ Len(b[l]) = Len(b[k]) + Len(seqs[l])
          /\ \A t \in 1..Len(b[k]) : b[l][t] = b[k][t]
      <4>1. /\ Len(b[l]) = Len(b[l - 1]) + Len(seqs[l])
            /\ \A t \in 1..Len(b[l - 1]) : b[l][t] = b[l - 1][t]
        BY <1>4
      <4>2. l - 1 = k
        BY <3>1
      <4> QED
        BY ONLY <4>1, <4>2
    <3>4. Len(seqs[l]) \in Nat /\ Len(b[k]) \in Nat /\ Len(b[n]) \in Nat /\ Len(b[l]) \in Nat
      <4>1. n \in 0..n
        BY <1>1
      <4> QED
        BY <1>1, <1>2, <3>1, <4>1
    <3>5. \A x, y, z, w \in Nat : x = y + z /\ x <= w => y <= w /\ 1..y \subseteq 1..x
      OBVIOUS
    <3>6. Len(b[k]) <= Len(b[n]) /\ 1..Len(b[k]) \subseteq 1..Len(b[l])
      BY <3>2, <3>3, <3>4, <3>5
    <3> QED
      BY <3>2, <3>3, <3>6
  <2> HIDE DEF T
  <2>3. Nat \subseteq T
    BY <2>1, <2>2, NumbersInSteps
  <2>4. n - i \in T /\ i = n - (n - i)
    BY <1>1, <2>3
  <2> QED
    BY <2>4 DEF T
<1>6. ASSUME NEW i \in 1..n, NEW j \in 1..Len(seqs[i])
      PROVE  b[n][Len(b[i - 1]) + j] = seqs[i][j]
  <2>1. Len(b[i - 1]) \in Nat /\ Len(seqs[i]) \in Nat
    BY <1>1, <1>2, <1>4
  <2>2. Len(b[i - 1]) + j \in 1..Len(b[i])
    <3>1. \A x, y, z \in Nat : x = y + z => \A u \in 1..z : y + u \in 1..x
      OBVIOUS
    <3>2. Len(b[i]) \in Nat
      BY <1>2, <1>4
    <3> QED
      BY <1>4, <2>1, <3>1, <3>2
  <2>3. i \in 0..n
    BY <1>4
  <2>4. b[n][Len(b[i - 1]) + j] = b[i][Len(b[i - 1]) + j]
    BY <1>5, <2>2, <2>3
  <2> QED
    BY <1>4, <2>4
<1>7. ASSUME NEW t \in 1..Len(b[n])
      PROVE  \E i \in 1..n : t - Len(b[i - 1]) \in 1..Len(seqs[i])
  <2> DEFINE T == {k \in 0..n : t <= Len(b[k])}
  <2>1. n \in T /\ T \in SUBSET Nat
    BY <1>1, <1>2
  <2>2. PICK i \in T : \A k \in T : i <= k
    BY <2>1, LeastNumber
  <2>3. i # 0
    BY <1>3, <2>2
  <2>4. i \in 1..n /\ i - 1 \in 0..n /\ ~(i <= i - 1)
    BY <1>1, <2>2, <2>3
  <2>5. ~(t <= Len(b[i - 1]))
    BY <2>2, <2>4
  <2>6. Len(b[i]) = Len(b[i - 1]) + Len(seqs[i]) /\ Len(b[i - 1]) \in Nat /\ Len(seqs[i]) \in Nat
    BY <1>1, <1>2, <1>4, <2>4
  <2>7. t <= Len(b[i])
    BY <2>2
  <2>8. t - Len(b[i - 1]) \in 1..Len(seqs[i])
    <3>1. \A x, y, z, u \in Nat : x = y + z /\ u <= x /\ ~(u <= y) => u - y \in 1..z
      OBVIOUS
    <3>2. t \in Nat /\ Len(b[i]) \in Nat
      BY <1>1, <1>2, <2>4
    <3> QED
      BY <2>5, <2>6, <2>7, <3>1, <3>2
  <2> QED
    BY <2>4, <2>8
<1>8. b[n] \in Seq(S) /\ Len(b[0]) = 0
  <2>1. n \in 0..n
    BY <1>1
  <2> QED
    BY <1>2, <1>3, <2>1
<1> DEFINE u == FlattenSeq(seqs)
<1>9. u \in Seq(S) /\ Len(b[0]) = 0 /\ u = b[n]
  BY <1>3, <1>8
<1>10. \A i \in 1..n : /\ Len(b[i]) = Len(b[i - 1]) + Len(seqs[i])
                        /\ Len(b[i]) <= Len(u)
                        /\ \A j \in 1..Len(seqs[i]) : u[Len(b[i - 1]) + j] = seqs[i][j]
  <2> TAKE i \in 1..n
  <2>1. Len(b[i]) = Len(b[i - 1]) + Len(seqs[i]) /\ i \in 0..n
    BY <1>4
  <2>2. Len(b[i]) <= Len(b[n])
    BY <1>5, <2>1
  <2>3. \A j \in 1..Len(seqs[i]) : b[n][Len(b[i - 1]) + j] = seqs[i][j]
    BY <1>6
  <2> HIDE DEF u
  <2> QED
    BY <1>9, <2>1, <2>2, <2>3
<1>11. \A t \in 1..Len(u) : \E i \in 1..n : t - Len(b[i - 1]) \in 1..Len(seqs[i])
  <2> HIDE DEF u
  <2> QED
    BY <1>7, <1>9
<1>12. n = Len(seqs)
  BY DEF n
<1> HIDE DEF u
<1>13. /\ \A i \in 1..Len(seqs) : /\ Len(b[i]) = Len(b[i - 1]) + Len(seqs[i])
                                  /\ Len(b[i]) <= Len(u)
                                  /\ \A j \in 1..Len(seqs[i]) : u[Len(b[i - 1]) + j] = seqs[i][j]
       /\ \A t \in 1..Len(u) : \E i \in 1..Len(seqs) : t - Len(b[i - 1]) \in 1..Len(seqs[i])
  BY <1>10, <1>11, <1>12
<1> QED
  BY <1>9, <1>13 DEF u

-----------------------------------------------------------------------------
(* scanMultipart: what a part is                                           *)

Char == {"named", "secret", "other", "CR", "LF"}
Letter == Char \cup {"delim", "dashes"} \cup UNION {{value[i] : i \in DOMAIN value} : value \in Values}
Cell == [c : Letter, of : {"frame", "value", "secret"}]
Line(l, eol) == <<l>> \o eol
HeaderLines(lines, eol) == [i \in DOMAIN lines |-> Line(lines[i], eol)]
HeaderPart(lines, eol) == <<"delim">> \o eol \o FlattenSeq(HeaderLines(lines, eol)) \o eol
ValuePart(lines, value) ==
    [i \in DOMAIN value |-> [c |-> value[i], of |-> IF Named(lines) THEN "secret" ELSE "value"]]

\* What a part is made of.
LEMMA LettersHold ==
    /\ Char \subseteq Letter /\ "delim" \in Letter /\ "dashes" \in Letter /\ "delim" \notin Char
    /\ CRLF \in Seq(Char) /\ LF \in Seq(Char)
    /\ Len(CRLF) = 2 /\ CRLF[1] = "CR" /\ CRLF[2] = "LF" /\ Len(LF) = 1 /\ LF[1] = "LF"
<1>1. Char \subseteq Letter /\ "delim" \in Letter /\ "dashes" \in Letter
  BY DEF Letter
<1>2. "CR" \in Char /\ "LF" \in Char /\ "delim" \notin Char
  BY DEF Char
<1> HIDE DEF Char
<1>3. CRLF \in Seq(Char)
  BY <1>2 DEF CRLF
<1>4. LF \in Seq(Char)
  BY <1>2 DEF LF
<1>5. Len(CRLF) = 2 /\ CRLF[1] = "CR" /\ CRLF[2] = "LF" /\ Len(LF) = 1 /\ LF[1] = "LF"
  BY DEF CRLF, LF
<1> QED
  BY <1>1, <1>2, <1>3, <1>4, <1>5

\* A value is of letters, and none is the delimiter.
LEMMA ValuesHold ==
    ASSUME NEW value \in Values
    PROVE  /\ value \in Seq(Letter) /\ Len(value) \in Nat /\ DOMAIN value = 1..Len(value)
           /\ \A i \in 1..Len(value) : value[i] \in Letter /\ value[i] # "delim"
<1>1. value \in Seq(STRING) /\ \A i \in DOMAIN value : value[i] # "delim"
  BY PartsAssumption DEF PartsAssumption
<1>2. Len(value) \in Nat /\ DOMAIN value = 1..Len(value)
  BY <1>1
<1>3. \A i \in 1..Len(value) : value[i] \in Letter
  BY <1>2 DEF Letter
<1>4. \A i \in DOMAIN value : value[i] \in Letter
  BY <1>2, <1>3
<1>5. value \in Seq(Letter)
  BY <1>1, <1>4
<1> QED
  BY <1>1, <1>2, <1>3, <1>5

\* A part by its two halves.
LEMMA PartIs ==
    ASSUME NEW lines, NEW value, NEW eol
    PROVE  Part(lines, value, eol) =
              Plainly(HeaderPart(lines, eol)) \o ValuePart(lines, value) \o Plainly(eol)
BY DEF Part, HeaderPart, HeaderLines, Line, ValuePart

\* Text that belongs to no value.
LEMMA PlainlyHolds ==
    ASSUME NEW s \in Seq(Letter)
    PROVE  /\ Plainly(s) \in Seq(Cell) /\ Len(Plainly(s)) = Len(s) /\ Len(s) \in Nat
           /\ \A i \in 1..Len(s) : Plainly(s)[i].c = s[i] /\ Plainly(s)[i].of = "frame"
<1> DEFINE n == Len(s)
<1>1. n \in Nat /\ DOMAIN s = 1..n /\ \A i \in 1..n : s[i] \in Letter
  OBVIOUS
<1>2. Plainly(s) = [i \in 1..n |-> [c |-> s[i], of |-> "frame"]]
  BY <1>1 DEF Plainly
<1>3. \A i \in 1..n : [c |-> s[i], of |-> "frame"] \in Cell
  BY <1>1 DEF Cell
<1> HIDE DEF n
<1>4. Plainly(s) \in [1..n -> Cell]
  BY <1>2, <1>3
<1>5. Plainly(s) \in Seq(Cell) /\ Len(Plainly(s)) = n
  BY <1>1, <1>4
<1>6. \A i \in 1..n : Plainly(s)[i].c = s[i] /\ Plainly(s)[i].of = "frame"
  BY <1>2
<1> QED
  BY <1>1, <1>5, <1>6 DEF n

\* The value of a part, secret or not.
LEMMA ValuePartHolds ==
    ASSUME NEW lines \in Headers, NEW value \in Values
    PROVE  /\ ValuePart(lines, value) \in Seq(Cell) /\ Len(ValuePart(lines, value)) = Len(value)
           /\ Len(value) \in Nat
           /\ \A i \in 1..Len(value) :
                 /\ ValuePart(lines, value)[i].c # "delim"
                 /\ ValuePart(lines, value)[i].of = IF Named(lines) THEN "secret" ELSE "value"
<1> DEFINE n == Len(value)
           of == IF Named(lines) THEN "secret" ELSE "value"
<1>1. n \in Nat /\ DOMAIN value = 1..n /\ \A i \in 1..n : value[i] \in Letter /\ value[i] # "delim"
  BY ValuesHold
<1>2. ValuePart(lines, value) = [i \in 1..n |-> [c |-> value[i], of |-> of]]
  BY <1>1 DEF ValuePart
<1>3. of \in {"value", "secret"}
  OBVIOUS
<1> HIDE DEF n, of
<1>4. \A i \in 1..n : [c |-> value[i], of |-> of] \in Cell
  BY <1>1, <1>3 DEF Cell
<1>5. ValuePart(lines, value) \in [1..n -> Cell]
  BY <1>2, <1>4
<1>6. ValuePart(lines, value) \in Seq(Cell) /\ Len(ValuePart(lines, value)) = n
  BY <1>1, <1>5
<1>7. \A i \in 1..n : ValuePart(lines, value)[i].c # "delim" /\ ValuePart(lines, value)[i].of = of
  BY <1>1, <1>2
<1> QED
  BY <1>1, <1>6, <1>7 DEF n, of

\* The lines of a header, each with its end.
LEMMA HeaderLinesHold ==
    ASSUME NEW lines \in Headers, NEW eol \in {CRLF, LF}
    PROVE  /\ HeaderLines(lines, eol) \in Seq(Seq(Char)) /\ Len(HeaderLines(lines, eol)) = Len(lines)
           /\ Len(lines) \in Nat /\ DOMAIN lines = 1..Len(lines)
           /\ \A i \in 1..Len(lines) : /\ HeaderLines(lines, eol)[i] = Line(lines[i], eol)
                                       /\ lines[i] \in {"named", "secret", "other"}
           /\ eol \in Seq(Char)
<1> DEFINE n == Len(lines)
<1>0. lines \in Seq({"named", "secret", "other"})
  BY PartsAssumption DEF PartsAssumption
<1>1. n \in Nat /\ DOMAIN lines = 1..n /\ \A i \in 1..n : lines[i] \in {"named", "secret", "other"}
  BY <1>0
<1>2. eol \in Seq(Char)
  BY LettersHold
<1>3. \A i \in 1..n : Line(lines[i], eol) \in Seq(Char)
  <2> TAKE i \in 1..n
  <2>1. <<lines[i]>> \in Seq(Char)
    BY <1>1 DEF Char
  <2> QED
    BY <1>2, <2>1 DEF Line
<1>4. HeaderLines(lines, eol) = [i \in 1..n |-> Line(lines[i], eol)]
  BY <1>1 DEF HeaderLines
<1> HIDE DEF n
<1>5. HeaderLines(lines, eol) \in [1..n -> Seq(Char)]
  BY <1>3, <1>4
<1>6. HeaderLines(lines, eol) \in Seq(Seq(Char)) /\ Len(HeaderLines(lines, eol)) = n
  BY <1>1, <1>5
<1> QED
  BY <1>1, <1>2, <1>4, <1>6 DEF n

\* What is before the value.
LEMMA HeaderPartHolds ==
    ASSUME NEW lines \in Headers, NEW eol \in {CRLF, LF}
    PROVE  /\ HeaderPart(lines, eol) \in Seq(Letter)
           /\ Len(HeaderPart(lines, eol)) >= 2
           /\ HeaderPart(lines, eol)[1] = "delim"
           /\ HeaderPart(lines, eol)[2] = eol[1]
           /\ \A i \in 2..Len(HeaderPart(lines, eol)) : HeaderPart(lines, eol)[i] \in Char
           /\ FlattenSeq(HeaderLines(lines, eol)) \in Seq(Char)
           /\ LET m == Len(FlattenSeq(HeaderLines(lines, eol)))
                  l == Len(eol)
              IN  /\ m \in Nat /\ l \in {1, 2} /\ Len(HeaderPart(lines, eol)) = 1 + l + m + l
                  /\ \A i \in 1..l : HeaderPart(lines, eol)[1 + i] = eol[i]
                  /\ \A i \in 1..m : HeaderPart(lines, eol)[1 + l + i] =
                                        FlattenSeq(HeaderLines(lines, eol))[i]
                  /\ \A i \in 1..l : HeaderPart(lines, eol)[1 + l + m + i] = eol[i]
<1> DEFINE f == FlattenSeq(HeaderLines(lines, eol))
           C == Char \cup {"delim"}
           a == <<"delim">> \o eol
           b == a \o f
           h == b \o eol
           l == Len(eol)
           m == Len(f)
<1>1. HeaderLines(lines, eol) \in Seq(Seq(Char)) /\ eol \in Seq(Char)
  BY HeaderLinesHold
<1>2. f \in Seq(Char)
  <2>1. PICK x \in [0..Len(HeaderLines(lines, eol)) -> Seq(Char)] : Beginnings(x, HeaderLines(lines, eol))
    BY <1>1, FlattenHolds
  <2> QED
    BY <1>1, <2>1, FlattenAt
<1>3. /\ l \in {1, 2} /\ eol \in Seq(C) /\ Len(<<"delim">>) = 1 /\ <<"delim">>[1] = "delim"
      /\ <<"delim">> \in Seq(C)
      /\ 1 \in 1..l
      /\ \A i \in 1..l : eol[i] \in Char
  <2>1. l \in {1, 2}
    BY DEF CRLF, LF
  <2>2. \A i \in 1..l : eol[i] \in Char
    BY <1>1
  <2>3. eol \in Seq(C)
    BY <1>1
  <2> QED
    BY <2>1, <2>2, <2>3
<1>4. f \in Seq(C) /\ m \in Nat /\ \A i \in 1..m : f[i] \in Char
  BY <1>2
<1> HIDE DEF f
<1>5. HeaderPart(lines, eol) = h
  BY DEF HeaderPart, f
<1> HIDE DEF l, m, a, b, h, C
<1>6. /\ a \in Seq(C) /\ Len(a) = 1 + l
      /\ a[1] = "delim"
      /\ \A i \in 1..l : a[1 + i] = eol[i]
  <2> DEFINE d == <<"delim">>
  <2>1. d \in Seq(C) /\ Len(d) = 1 /\ d[1] = "delim" /\ 1 \in 1..1
    BY <1>3
  <2> HIDE DEF d
  <2>2. a = d \o eol
    BY DEF a, d
  <2>3. /\ d \o eol \in Seq(C) /\ Len(d \o eol) = Len(d) + Len(eol)
        /\ \A i \in 1..Len(d) : (d \o eol)[i] = d[i]
        /\ \A i \in 1..Len(eol) : (d \o eol)[Len(d) + i] = eol[i]
    <3>1. d \in Seq(C) /\ eol \in Seq(C)
      BY <1>3, <2>1
    <3>2. d \o eol \in Seq(C) /\ Joined(d \o eol, d, eol)
      BY <3>1, JoinedHolds
    <3> QED
      BY <3>2 DEF Joined
  <2> QED
    BY <2>1, <2>2, <2>3 DEF l
<1>7. /\ b \in Seq(C) /\ Len(b) = 1 + l + m
      /\ \A i \in 1..(1 + l) : b[i] = a[i]
      /\ \A i \in 1..m : b[1 + l + i] = f[i]
  <2>1. /\ a \o f \in Seq(C) /\ Len(a \o f) = Len(a) + Len(f)
        /\ \A i \in 1..Len(a) : (a \o f)[i] = a[i]
        /\ \A i \in 1..Len(f) : (a \o f)[Len(a) + i] = f[i]
    <3>1. a \in Seq(C) /\ f \in Seq(C)
      BY <1>4, <1>6
    <3>2. a \o f \in Seq(C) /\ Joined(a \o f, a, f)
      BY <3>1, JoinedHolds
    <3> QED
      BY <3>2 DEF Joined
  <2> QED
    BY <1>6, <2>1 DEF b, m
<1>8. /\ h \in Seq(C) /\ Len(h) = 1 + l + m + l
      /\ \A i \in 1..(1 + l + m) : h[i] = b[i]
      /\ \A i \in 1..l : h[1 + l + m + i] = eol[i]
  <2>1. /\ b \o eol \in Seq(C) /\ Len(b \o eol) = Len(b) + Len(eol)
        /\ \A i \in 1..Len(b) : (b \o eol)[i] = b[i]
        /\ \A i \in 1..Len(eol) : (b \o eol)[Len(b) + i] = eol[i]
    <3>1. b \in Seq(C) /\ eol \in Seq(C)
      BY <1>3, <1>7
    <3>2. b \o eol \in Seq(C) /\ Joined(b \o eol, b, eol)
      BY <3>1, JoinedHolds
    <3> QED
      BY <3>2 DEF Joined
  <2> QED
    BY <1>7, <2>1 DEF h, l
<1>9. \A i \in 1..l : h[1 + i] = eol[i]
  <2> TAKE i \in 1..l
  <2>1. 1 + i \in 1..(1 + l) /\ 1 + i \in 1..(1 + l + m)
    BY <1>3, <1>4
  <2> QED
    BY <1>6, <1>7, <1>8, <2>1
<1>10. \A i \in 1..m : h[1 + l + i] = f[i]
  <2> TAKE i \in 1..m
  <2>1. 1 + l + i \in 1..(1 + l + m)
    BY <1>3, <1>4
  <2> QED
    BY <1>7, <1>8, <2>1
<1>11. h[1] = "delim"
  <2>1. 1 \in 1..(1 + l) /\ 1 \in 1..(1 + l + m)
    BY <1>3, <1>4
  <2> QED
    BY <1>6, <1>7, <1>8, <2>1
<1>12. ASSUME NEW i \in 2..(1 + l + m + l)
       PROVE  h[i] \in Char
  <2>1. CASE i <= 1 + l
    <3>1. i - 1 \in 1..l /\ 1 + (i - 1) = i
      BY <1>3, <1>4, <2>1
    <3> QED
      BY <1>3, <1>9, <3>1
  <2>2. CASE i > 1 + l /\ i <= 1 + l + m
    <3>1. i - (1 + l) \in 1..m /\ 1 + l + (i - (1 + l)) = i
      BY <1>3, <1>4, <2>2
    <3> QED
      BY <1>4, <1>10, <3>1
  <2>3. CASE i > 1 + l + m
    <3>1. i - (1 + l + m) \in 1..l /\ 1 + l + m + (i - (1 + l + m)) = i
      BY <1>3, <1>4, <2>3
    <3> QED
      BY <1>3, <1>8, <3>1
  <2>4. i \in Int /\ 1 + l \in Int /\ 1 + l + m \in Int
    BY <1>3, <1>4
  <2> QED
    BY <2>1, <2>2, <2>3, <2>4
<1>13. h \in Seq(Letter)
  <2>1. C \subseteq Letter
    BY LettersHold DEF C
  <2> QED
    BY <1>8, <2>1
<1>14. Len(h) >= 2 /\ h[2] = eol[1]
  <2>1. 1 + 1 = 2
    OBVIOUS
  <2>2. Len(h) >= 2
    BY <1>3, <1>4, <1>8
  <2> QED
    BY <1>3, <1>9, <2>1, <2>2
<1> QED
  BY <1>2, <1>3, <1>4, <1>5, <1>8, <1>9, <1>10, <1>11, <1>12, <1>13, <1>14 DEF f, l, m

\* A part, whatever its lines end with: one delimiter, at its beginning.
LEMMA PartHolds ==
    ASSUME NEW lines \in Headers, NEW value \in Values, NEW eol \in {CRLF, LF}
    PROVE  LET P == Part(lines, value, eol)
               h == Len(HeaderPart(lines, eol))
           IN  /\ P \in Seq(Cell) /\ Len(P) = h + Len(value) + Len(eol)
               /\ h \in Nat /\ h >= 2
               /\ \A i \in 1..h : P[i].c = HeaderPart(lines, eol)[i] /\ P[i].of = "frame"
               /\ \A i \in 1..Len(value) :
                     P[h + i].of = IF Named(lines) THEN "secret" ELSE "value"
               /\ \A i \in 1..Len(eol) : P[h + Len(value) + i].c = eol[i] /\ P[h + Len(value) + i].of = "frame"
               /\ P[1].c = "delim" /\ \A i \in 2..Len(P) : P[i].c # "delim"
<1> DEFINE H == HeaderPart(lines, eol)
           V == ValuePart(lines, value)
           a == Plainly(H)
           e == Plainly(eol)
           b == a \o V
           p == b \o e
           h == Len(H)
           v == Len(value)
           l == Len(eol)
<1>1. /\ H \in Seq(Letter) /\ h \in Nat /\ h >= 2 /\ H[1] = "delim"
      /\ \A i \in 2..h : H[i] \in Char
  BY HeaderPartHolds
<1>2. /\ eol \in Seq(Letter) /\ l \in {1, 2} /\ \A i \in 1..l : eol[i] # "delim"
  <2>1. eol \in Seq(Char) /\ (l = 2 \/ l = 1) /\ l \in Nat
    BY LettersHold
  <2>2. \A i \in 1..l : eol[i] \in Char
    BY <2>1
  <2>3. Char \subseteq Letter /\ "delim" \notin Char
    BY LettersHold
  <2>4. eol \in Seq(Letter)
    BY <2>1, <2>3
  <2>5. \A i \in 1..l : eol[i] # "delim"
    BY <2>2, <2>3
  <2> QED
    BY <2>1, <2>4, <2>5
<1> HIDE DEF H, h, l
<1>3. /\ a \in Seq(Cell) /\ Len(a) = h
      /\ \A i \in 1..h : a[i].c = H[i] /\ a[i].of = "frame"
  BY <1>1, PlainlyHolds DEF h
<1>4. /\ e \in Seq(Cell) /\ Len(e) = l
      /\ \A i \in 1..l : e[i].c = eol[i] /\ e[i].of = "frame"
  BY <1>2, PlainlyHolds DEF l
<1>5. /\ V \in Seq(Cell) /\ Len(V) = v /\ v \in Nat
      /\ \A i \in 1..v : V[i].c # "delim" /\ V[i].of = IF Named(lines) THEN "secret" ELSE "value"
  BY ValuePartHolds
<1>6. Part(lines, value, eol) = p
  BY PartIs DEF H
<1> HIDE DEF V, v, a, e, b, p
<1>7. /\ b \in Seq(Cell) /\ Len(b) = h + v
      /\ \A i \in 1..h : b[i] = a[i]
      /\ \A i \in 1..v : b[h + i] = V[i]
  <2>1. /\ a \o V \in Seq(Cell) /\ Len(a \o V) = Len(a) + Len(V)
        /\ \A i \in 1..Len(a) : (a \o V)[i] = a[i]
        /\ \A i \in 1..Len(V) : (a \o V)[Len(a) + i] = V[i]
    <3>1. a \in Seq(Cell) /\ V \in Seq(Cell)
      BY <1>3, <1>5
    <3>2. a \o V \in Seq(Cell) /\ Joined(a \o V, a, V)
      BY <3>1, JoinedHolds
    <3> QED
      BY <3>2 DEF Joined
  <2> QED
    BY <1>3, <1>5, <2>1 DEF b
<1>8. /\ p \in Seq(Cell) /\ Len(p) = h + v + l
      /\ \A i \in 1..(h + v) : p[i] = b[i]
      /\ \A i \in 1..l : p[h + v + i] = e[i]
  <2>1. /\ b \o e \in Seq(Cell) /\ Len(b \o e) = Len(b) + Len(e)
        /\ \A i \in 1..Len(b) : (b \o e)[i] = b[i]
        /\ \A i \in 1..Len(e) : (b \o e)[Len(b) + i] = e[i]
    <3>1. b \in Seq(Cell) /\ e \in Seq(Cell)
      BY <1>4, <1>7
    <3>2. b \o e \in Seq(Cell) /\ Joined(b \o e, b, e)
      BY <3>1, JoinedHolds
    <3> QED
      BY <3>2 DEF Joined
  <2> QED
    BY <1>4, <1>7, <2>1 DEF p
<1>9. \A i \in 1..h : p[i].c = H[i] /\ p[i].of = "frame"
  <2> TAKE i \in 1..h
  <2>1. i \in 1..(h + v)
    BY <1>1, <1>5
  <2> QED
    BY <1>3, <1>7, <1>8, <2>1
<1>10. \A i \in 1..v : p[h + i] = V[i]
  <2> TAKE i \in 1..v
  <2>1. h + i \in 1..(h + v)
    BY <1>1, <1>5
  <2> QED
    BY <1>7, <1>8, <2>1
<1>11. ASSUME NEW i \in 2..(h + v + l)
       PROVE  p[i].c # "delim"
  <2>1. CASE i <= h
    <3>1. i \in 2..h /\ i \in 1..h
      BY <1>1, <2>1
    <3>2. H[i] \in Char
      BY <1>1, <3>1
    <3> QED
      BY <1>9, <3>1, <3>2 DEF Char
  <2>2. CASE i > h /\ i <= h + v
    <3>1. i - h \in 1..v /\ h + (i - h) = i
      BY <1>1, <1>5, <2>2
    <3> QED
      BY <1>5, <1>10, <3>1
  <2>3. CASE i > h + v
    <3>1. i - (h + v) \in 1..l /\ h + v + (i - (h + v)) = i
      BY <1>1, <1>2, <1>5, <2>3
    <3> QED
      BY <1>2, <1>4, <1>8, <3>1
  <2>4. i \in Int /\ h \in Int /\ h + v \in Int
    BY <1>1, <1>2, <1>5
  <2> QED
    BY <2>1, <2>2, <2>3, <2>4
<1>12. p[1].c = "delim"
  <2>1. 1 \in 1..h
    BY <1>1
  <2> QED
    BY <1>1, <1>9, <2>1
<1>13. \A i \in 1..v : p[h + i].of = IF Named(lines) THEN "secret" ELSE "value"
  BY <1>5, <1>10
<1>14. \A i \in 1..l : p[h + v + i].c = eol[i] /\ p[h + v + i].of = "frame"
  BY <1>4, <1>8
<1> QED
  BY <1>1, <1>6, <1>8, <1>9, <1>11, <1>12, <1>13, <1>14 DEF H, h, v, l

-----------------------------------------------------------------------------
(* scanMultipart: what a body is                                           *)

\* The texts behind each other, by the offsets where they end.
Flattened(u, at, seqs) ==
    /\ at \in [0..Len(seqs) -> Nat] /\ at[0] = 0 /\ at[Len(seqs)] = Len(u)
    /\ \A i \in 1..Len(seqs) :
          /\ at[i] = at[i - 1] + Len(seqs[i]) /\ at[i] <= Len(u)
          /\ \A j \in 1..Len(seqs[i]) : u[at[i - 1] + j] = seqs[i][j]
    /\ \A t \in 1..Len(u) : \E i \in 1..Len(seqs) : t - at[i - 1] \in 1..Len(seqs[i])

\* Flattening gives offsets at which the texts end.
LEMMA FlattenedHolds ==
    ASSUME NEW S, NEW seqs \in Seq(Seq(S))
    PROVE  FlattenSeq(seqs) \in Seq(S) /\ \E at : Flattened(FlattenSeq(seqs), at, seqs)
<1> DEFINE n == Len(seqs)
           u == FlattenSeq(seqs)
<1>1. n \in Nat
  OBVIOUS
<1>2. PICK b \in [0..n -> Seq(S)] : Beginnings(b, seqs)
  BY FlattenHolds
<1>3. /\ u \in Seq(S) /\ Len(b[0]) = 0
      /\ \A i \in 1..n :
            /\ Len(b[i]) = Len(b[i - 1]) + Len(seqs[i])
            /\ Len(b[i]) <= Len(u)
            /\ \A j \in 1..Len(seqs[i]) : u[Len(b[i - 1]) + j] = seqs[i][j]
      /\ \A t \in 1..Len(u) : \E i \in 1..n : t - Len(b[i - 1]) \in 1..Len(seqs[i])
  BY <1>2, FlattenAt
<1>4. u = b[n]
  BY <1>2 DEF Beginnings
<1> HIDE DEF n, u
<1> DEFINE at == [i \in 0..n |-> Len(b[i])]
<1>5. at \in [0..n -> Nat] /\ \A i \in 0..n : at[i] = Len(b[i])
  <2>1. \A i \in 0..n : b[i] \in Seq(S)
    BY <1>2
  <2>2. \A i \in 0..n : Len(b[i]) \in Nat
    BY <2>1
  <2> QED
    BY <2>2
<1> HIDE DEF at
<1>6. 0 \in 0..n /\ n \in 0..n /\ \A i \in 1..n : i \in 0..n /\ i - 1 \in 0..n
  BY <1>1
<1>7. at[0] = 0 /\ at[n] = Len(u)
  BY <1>3, <1>4, <1>5, <1>6
<1>8. \A i \in 1..n : /\ at[i] = at[i - 1] + Len(seqs[i]) /\ at[i] <= Len(u)
                     /\ \A j \in 1..Len(seqs[i]) : u[at[i - 1] + j] = seqs[i][j]
  <2> TAKE i \in 1..n
  <2>1. at[i] = Len(b[i]) /\ at[i - 1] = Len(b[i - 1])
    BY <1>5, <1>6
  <2> QED
    BY <1>3, <2>1
<1>9. \A t \in 1..Len(u) : \E i \in 1..n : t - at[i - 1] \in 1..Len(seqs[i])
  <2> TAKE t \in 1..Len(u)
  <2>1. PICK i \in 1..n : t - Len(b[i - 1]) \in 1..Len(seqs[i])
    BY <1>3
  <2>2. at[i - 1] = Len(b[i - 1])
    BY <1>5, <1>6
  <2> QED
    BY <2>1, <2>2
<1>10. Flattened(u, at, seqs)
  BY <1>5, <1>7, <1>8, <1>9 DEF Flattened, n
<1> QED
  BY <1>3, <1>10 DEF u

\* A header with CRLF: each line is three positions, behind the delimiter and its end.
LEMMA HeaderWithCRLF ==
    ASSUME NEW lines \in Headers
    PROVE  LET H == HeaderPart(lines, CRLF)
               k == Len(lines)
           IN  /\ k \in Nat /\ Len(H) = 3 * k + 5
               /\ \A i \in 0..k : H[3 * i + 2] = "CR" /\ H[3 * i + 3] = "LF"
               /\ \A i \in 1..k : H[3 * i + 1] = lines[i] /\ lines[i] \in {"named", "secret", "other"}
               /\ H[3 * k + 4] = "CR" /\ H[3 * k + 5] = "LF"
<1> DEFINE H == HeaderPart(lines, CRLF)
           L == HeaderLines(lines, CRLF)
           f == FlattenSeq(L)
           k == Len(lines)
           m == Len(f)
           l == Len(CRLF)
<1>1. /\ L \in Seq(Seq(Char)) /\ Len(L) = k /\ k \in Nat
      /\ \A i \in 1..k : L[i] = Line(lines[i], CRLF) /\ lines[i] \in {"named", "secret", "other"}
      /\ CRLF \in Seq(Char)
  BY HeaderLinesHold
<1>2. /\ m \in Nat /\ Len(H) = 1 + 2 + m + 2
      /\ \A i \in 1..2 : H[1 + i] = CRLF[i]
      /\ \A i \in 1..m : H[1 + 2 + i] = f[i]
      /\ \A i \in 1..2 : H[1 + 2 + m + i] = CRLF[i]
  <2>1. /\ m \in Nat /\ Len(H) = 1 + l + m + l
        /\ \A i \in 1..l : H[1 + i] = CRLF[i]
        /\ \A i \in 1..m : H[1 + l + i] = f[i]
        /\ \A i \in 1..l : H[1 + l + m + i] = CRLF[i]
    BY HeaderPartHolds
  <2>2. l = 2
    BY LettersHold
  <2> HIDE DEF l, m, f, H
  <2> QED
    BY <2>1, <2>2
<1>3. \A i \in 1..k : Len(L[i]) = 3 /\ L[i][1] = lines[i] /\ L[i][2] = "CR" /\ L[i][3] = "LF"
  <2> TAKE i \in 1..k
  <2> DEFINE d == <<lines[i]>>
  <2>1. L[i] = d \o CRLF
    BY <1>1 DEF Line
  <2>2. d \in Seq(Char) /\ Len(d) = 1 /\ d[1] = lines[i]
    <3>1. lines[i] \in Char
      BY <1>1 DEF Char
    <3> HIDE DEF Char
    <3> QED
      BY <3>1
  <2> HIDE DEF d
  <2>3. Joined(d \o CRLF, d, CRLF)
    BY <1>1, <2>2, JoinedHolds
  <2>4. Len(CRLF) = 2 /\ CRLF[1] = "CR" /\ CRLF[2] = "LF"
    BY LettersHold
  <2>5. 1 \in 1..Len(d) /\ 1 \in 1..Len(CRLF) /\ 2 \in 1..Len(CRLF)
    BY <2>2, <2>4
  <2>6. Len(L[i]) = 1 + 2 /\ L[i][1] = d[1] /\ L[i][1 + 1] = CRLF[1] /\ L[i][1 + 2] = CRLF[2]
    BY <2>1, <2>2, <2>3, <2>4, <2>5 DEF Joined
  <2> QED
    BY <2>2, <2>4, <2>6
<1> HIDE DEF H, L, f, m, k
<1>4. PICK at : Flattened(f, at, L)
  BY <1>1, FlattenedHolds DEF f
<1>5. /\ at \in [0..k -> Nat] /\ at[0] = 0 /\ at[k] = m
      /\ \A i \in 1..k : /\ at[i] = at[i - 1] + 3
                         /\ \A j \in 1..3 : f[at[i - 1] + j] = L[i][j]
  <2>1. /\ at \in [0..Len(L) -> Nat] /\ at[0] = 0 /\ at[Len(L)] = m
        /\ \A i \in 1..Len(L) : /\ at[i] = at[i - 1] + Len(L[i])
                                /\ \A j \in 1..Len(L[i]) : f[at[i - 1] + j] = L[i][j]
    BY <1>4 DEF Flattened, m
  <2>2. Len(L) = k /\ \A i \in 1..k : Len(L[i]) = 3
    BY <1>1, <1>3
  <2> QED
    BY <2>1, <2>2
<1>7. \A i \in 0..k : at[i] = 3 * i
  <2> DEFINE T == {i \in Nat : i <= k => at[i] = 3 * i}
  <2>1. 0 \in T
    BY <1>5
  <2>2. ASSUME NEW i \in Nat, i \in T
        PROVE  i + 1 \in T
    <3> SUFFICES ASSUME i + 1 <= k
                 PROVE  at[i + 1] = 3 * (i + 1)
      OBVIOUS
    <3>1. i <= k /\ i + 1 \in 1..k /\ (i + 1) - 1 = i
      BY <1>1
    <3>2. at[i] = 3 * i
      BY <2>2, <3>1
    <3>3. at[i + 1] = at[i] + 3
      BY <1>5, <3>1
    <3> QED
      BY <3>2, <3>3
  <2> HIDE DEF T
  <2>3. Nat \subseteq T
    BY <2>1, <2>2, NumbersInSteps
  <2> QED
    BY <1>1, <2>3 DEF T
<1>8. m = 3 * k
  BY <1>1, <1>5, <1>7
<1>9. \A i \in 1..k : H[3 * i + 1] = lines[i] /\ H[3 * i + 2] = "CR" /\ H[3 * i + 3] = "LF"
  <2> TAKE i \in 1..k
  <2>1. i - 1 \in 0..k
    BY <1>1
  <2>2. \A j \in 1..3 : f[3 * (i - 1) + j] = L[i][j]
    <3>1. at[i - 1] = 3 * (i - 1)
      BY <1>7, <2>1
    <3> QED
      BY <1>5, <3>1
  <2>3. \A j \in 1..3 : 3 * (i - 1) + j \in 1..m /\ 1 + 2 + (3 * (i - 1) + j) = 3 * i + j
    BY <1>1, <1>8
  <2>4. \A j \in 1..3 : H[3 * i + j] = L[i][j]
    <3> TAKE j \in 1..3
    <3> DEFINE t == 3 * (i - 1) + j
    <3>1. t \in 1..m /\ 1 + 2 + t = 3 * i + j /\ f[t] = L[i][j]
      BY <2>2, <2>3
    <3>2. \A e \in 1..m : H[1 + 2 + e] = f[e]
      BY <1>2
    <3> HIDE DEF t, H, f, L, m
    <3> QED
      BY <3>1, <3>2
  <2> QED
    BY <1>3, <2>4
<1>10. H[2] = "CR" /\ H[3] = "LF" /\ H[3 * k + 4] = "CR" /\ H[3 * k + 5] = "LF"
  <2>1. 1 \in 1..2 /\ 2 \in 1..2 /\ 1 + 1 = 2 /\ 1 + 2 = 3
    OBVIOUS
  <2>2. 1 + 2 + m + 1 = 3 * k + 4 /\ 1 + 2 + m + 2 = 3 * k + 5
    BY <1>1, <1>8
  <2> QED
    BY <1>2, <2>1, <2>2, LettersHold
<1>11. \A i \in 0..k : H[3 * i + 2] = "CR" /\ H[3 * i + 3] = "LF"
  <2> TAKE i \in 0..k
  <2>1. CASE i = 0
    <3>1. 3 * i + 2 = 2 /\ 3 * i + 3 = 3
      BY <2>1
    <3> QED
      BY <1>10, <3>1
  <2>2. CASE i # 0
    <3>1. i \in 1..k
      BY <1>1, <2>2
    <3> QED
      BY <1>9, <3>1
  <2> QED
    BY <2>1, <2>2
<1>12. Len(H) = 3 * k + 5
  BY <1>1, <1>2, <1>8
<1> QED
  BY <1>1, <1>9, <1>10, <1>11, <1>12 DEF H, k

\* A part of the body lies at the offset s, another delimiter or nothing behind it.
Lies(s, p) ==
    /\ s + Len(p) <= Len(bytes)
    /\ \A i \in 1..Len(p) : bytes[s + i] = p[i]
    /\ s + Len(p) = Len(bytes) \/ bytes[s + Len(p) + 1].c = "delim"
PartAt(s, eol) ==
    \E lines \in Headers, value \in Values : Lies(s, Part(lines, value, eol))

\* The closing delimiter is at the offset s, nothing of a value behind it.
ClosesAt(s) ==
    /\ s + 2 <= Len(bytes) /\ bytes[s + 2].c = "dashes"
    /\ \A i \in (s + 1)..Len(bytes) : bytes[i].of = "frame"

Closing == Plainly(<<"delim", "dashes">> \o CRLF)

\* The closing delimiter, as the code meets it.
LEMMA ClosingHolds ==
    /\ Closing \in Seq(Cell) /\ Len(Closing) = 4
    /\ Closing[1].c = "delim" /\ Closing[2].c = "dashes"
    /\ \A i \in 1..4 : Closing[i].of = "frame"
    /\ \A i \in 2..4 : Closing[i].c # "delim"
<1> DEFINE d == <<"delim", "dashes">>
           s == d \o CRLF
<1>1. CRLF \in Seq(Letter) /\ Len(CRLF) = 2 /\ CRLF[1] = "CR" /\ CRLF[2] = "LF"
  <2>1. CRLF \in Seq(Char) /\ Char \subseteq Letter
    BY LettersHold
  <2>2. CRLF \in Seq(Letter)
    BY <2>1
  <2> QED
    BY <2>2, LettersHold
<1>2. d \in Seq(Letter) /\ Len(d) = 2 /\ d[1] = "delim" /\ d[2] = "dashes"
  BY LettersHold
<1>3. Closing = Plainly(s)
  BY DEF Closing
<1> HIDE DEF d, s
<1>4. s \in Seq(Letter) /\ Len(s) = 4 /\ s[1] = "delim" /\ s[2] = "dashes" /\ s[3] = "CR" /\ s[4] = "LF"
  <2>1. s \in Seq(Letter) /\ Joined(s, d, CRLF)
    BY <1>1, <1>2, JoinedHolds DEF s
  <2>2. 1 \in 1..Len(d) /\ 2 \in 1..Len(d) /\ 1 \in 1..Len(CRLF) /\ 2 \in 1..Len(CRLF)
    BY <1>1, <1>2
  <2>3. Len(s) = 2 + 2 /\ s[1] = d[1] /\ s[2] = d[2] /\ s[2 + 1] = CRLF[1] /\ s[2 + 2] = CRLF[2]
    BY <1>1, <1>2, <2>1, <2>2 DEF Joined
  <2> QED
    BY <1>1, <1>2, <2>1, <2>3
<1>5. /\ Plainly(s) \in Seq(Cell) /\ Len(Plainly(s)) = 4
      /\ \A i \in 1..4 : Plainly(s)[i].c = s[i] /\ Plainly(s)[i].of = "frame"
  BY <1>4, PlainlyHolds
<1>6. \A i \in 2..4 : s[i] # "delim"
  <2>1. \A i \in 2..4 : i = 2 \/ i = 3 \/ i = 4
    OBVIOUS
  <2> QED
    BY <1>4, <2>1
<1>7. \A i \in 2..4 : i \in 1..4
  OBVIOUS
<1> QED
  BY <1>3, <1>4, <1>5, <1>6, <1>7

\* Every delimiter of a body begins a part, or closes it.
LEMMA BodyHolds ==
    ASSUME bytes \in Bodies
    PROVE  /\ bytes \in Seq(Cell) /\ Len(bytes) \in Nat
           /\ Len(bytes) > 0 => bytes[1].c = "delim"
           /\ \A t \in 1..Len(bytes) : bytes[t].c = "delim" =>
                 ClosesAt(t - 1) \/ \E eol \in {CRLF, LF} : PartAt(t - 1, eol)
<1>0. PICK n \in 0..MaxParts : \E parts \in [1..n -> Parts], end \in {<<>>, Closing} :
         bytes = FlattenSeq(parts) \o end
  <2>1. PICK parts \in UNION {[1..n -> Parts] : n \in 0..MaxParts}, end \in {<<>>, Closing} :
           bytes = FlattenSeq(parts) \o end
    BY DEF Bodies, Closing
  <2> QED
    BY <2>1
<1>1. PICK parts \in [1..n -> Parts], end \in {<<>>, Closing} : bytes = FlattenSeq(parts) \o end
  BY <1>0
<1>2. n \in Nat
  BY PartsAssumption DEF PartsAssumption
<1>3. \A p \in Parts : /\ p \in Seq(Cell) /\ Len(p) \in Nat /\ Len(p) >= 2
                       /\ p[1].c = "delim" /\ \A i \in 2..Len(p) : p[i].c # "delim"
  <2> TAKE p \in Parts
  <2>1. PICK lines \in Headers, value \in Values, eol \in {CRLF, LF} : p = Part(lines, value, eol)
    BY DEF Parts
  <2> DEFINE h == Len(HeaderPart(lines, eol))
  <2>2. /\ p \in Seq(Cell) /\ Len(p) = h + Len(value) + Len(eol)
        /\ h \in Nat /\ h >= 2
        /\ p[1].c = "delim" /\ \A i \in 2..Len(p) : p[i].c # "delim"
    BY <2>1, PartHolds
  <2>3. Len(value) \in Nat /\ Len(eol) \in Nat
    BY ValuesHold, LettersHold
  <2> HIDE DEF h
  <2>4. Len(p) \in Nat /\ Len(p) >= 2
    BY <2>2, <2>3
  <2> QED
    BY <2>2, <2>4
<1>4. parts \in Seq(Seq(Cell)) /\ Len(parts) = n /\ \A i \in 1..n : parts[i] \in Parts
  <2>1. parts \in [1..n -> Seq(Cell)]
    BY <1>3
  <2> QED
    BY <1>2, <2>1
<1> DEFINE F == FlattenSeq(parts)
           f == Len(F)
           g == Len(end)
<1>5. F \in Seq(Cell) /\ f \in Nat
  <2>1. F \in Seq(Cell)
    BY <1>4, FlattenedHolds
  <2> QED
    BY <2>1
<1>6. PICK at : Flattened(F, at, parts)
  BY <1>4, FlattenedHolds
<1>7. /\ at \in [0..n -> Nat] /\ at[0] = 0 /\ at[n] = f
      /\ \A i \in 1..n : /\ at[i] = at[i - 1] + Len(parts[i])
                         /\ at[i] <= f
                         /\ \A j \in 1..Len(parts[i]) : F[at[i - 1] + j] = parts[i][j]
      /\ \A t \in 1..f : \E i \in 1..n : t - at[i - 1] \in 1..Len(parts[i])
  BY <1>4, <1>6 DEF Flattened
<1>8. \A i \in 0..n : at[i] \in Nat
  BY <1>7
<1>9. /\ end \in Seq(Cell) /\ (end = <<>> \/ end = Closing) /\ (g = 0 \/ (g = 4 /\ end = Closing))
  <2>1. CASE end = <<>>
    BY <2>1
  <2>2. CASE end = Closing
    BY <2>2, ClosingHolds
  <2> QED
    BY <2>1, <2>2
<1> HIDE DEF F
<1>10. bytes = F \o end
  BY <1>1 DEF F
<1>11. /\ bytes \in Seq(Cell) /\ Len(bytes) = f + g /\ f \in Nat
       /\ \A t \in 1..f : bytes[t] = F[t]
       /\ \A j \in 1..g : bytes[f + j] = end[j]
  <2>1. F \in Seq(Cell) /\ end \in Seq(Cell)
    BY <1>5, <1>9
  <2>2. F \o end \in Seq(Cell) /\ Joined(F \o end, F, end)
    BY <2>1, JoinedHolds
  <2>3. f \in Nat
    BY <2>1
  <2> QED
    BY <1>10, <2>2, <2>3 DEF Joined
<1> HIDE DEF f, g
<1>12. Len(bytes) > 0 => bytes[1].c = "delim"
  <2> SUFFICES ASSUME Len(bytes) > 0
               PROVE  bytes[1].c = "delim"
    OBVIOUS
  <2>1. CASE n = 0
    <3>1. f = 0
      BY <1>7, <2>1
    <3>2. g = 4 /\ end = Closing
      BY <1>9, <1>11, <3>1
    <3>3. 1 \in 1..g /\ f + 1 = 1
      BY <3>1, <3>2
    <3>4. bytes[1] = end[1]
      BY <1>11, <3>3
    <3> QED
      BY <3>2, <3>4, ClosingHolds
  <2>2. CASE n # 0
    <3>1. 1 \in 1..n /\ 1 - 1 = 0
      BY <1>2, <2>2
    <3>2. parts[1] \in Parts /\ at[1 - 1] = 0
      BY <1>4, <1>7, <3>1
    <3>3. Len(parts[1]) \in Nat /\ Len(parts[1]) >= 2 /\ parts[1][1].c = "delim"
      BY <1>3, <3>2
    <3>4. 1 \in 1..Len(parts[1])
      BY <3>3
    <3>5. F[at[1 - 1] + 1] = parts[1][1] /\ at[1] = at[1 - 1] + Len(parts[1]) /\ at[1] <= f
      BY <1>7, <3>1, <3>4
    <3>6. 0 + 1 = 1 /\ 1 \in 1..f
      BY <1>11, <3>2, <3>3, <3>5
    <3> QED
      BY <1>11, <3>2, <3>3, <3>5, <3>6
  <2> QED
    BY <2>1, <2>2
<1>13. ASSUME NEW t \in 1..Len(bytes), bytes[t].c = "delim"
       PROVE  ClosesAt(t - 1) \/ \E eol \in {CRLF, LF} : PartAt(t - 1, eol)
  <2>1. CASE t \in 1..f
    <3>1. PICK i \in 1..n : t - at[i - 1] \in 1..Len(parts[i])
      BY <1>7, <2>1
    <3> DEFINE s == at[i - 1]
               p == parts[i]
    <3>2. i \in 0..n /\ i - 1 \in 0..n
      BY <1>2
    <3>3. s \in Nat /\ p \in Parts
      BY <1>4, <1>8, <3>2
    <3>4. Len(p) \in Nat /\ Len(p) >= 2 /\ \A j \in 2..Len(p) : p[j].c # "delim"
      BY <1>3, <3>3
    <3>5. at[i] = s + Len(p) /\ s + Len(p) <= f /\ \A j \in 1..Len(p) : F[s + j] = p[j]
      BY <1>7
    <3> HIDE DEF s, p
    <3>6. \A j \in 1..Len(p) : s + j \in 1..f /\ bytes[s + j] = p[j]
      <4> TAKE j \in 1..Len(p)
      <4>1. s + j \in 1..f
        BY <1>11, <3>3, <3>4, <3>5
      <4> QED
        BY <1>11, <3>5, <4>1
    <3>7. t - s = 1
      <4>1. t - s \in 1..Len(p) /\ s + (t - s) = t
        BY <2>1, <3>1, <3>3, <1>11 DEF s, p
      <4>2. p[t - s].c = "delim"
        BY <1>13, <3>6, <4>1
      <4>3. t - s \notin 2..Len(p)
        BY <3>4, <4>2
      <4> QED
        BY <3>4, <4>1, <4>3
    <3>8. s + Len(p) = Len(bytes) \/ bytes[s + Len(p) + 1].c = "delim"
      <4>1. CASE i = n
        <5>1. s + Len(p) = f
          BY <1>7, <3>5, <4>1
        <5>2. CASE g = 0
          BY <1>11, <5>1, <5>2
        <5>3. CASE g = 4 /\ end = Closing
          <6>1. 1 \in 1..g
            BY <5>3
          <6>2. bytes[f + 1] = end[1]
            BY <1>11, <6>1
          <6> QED
            BY <5>1, <5>3, <6>2, ClosingHolds
        <5> QED
          BY <1>9, <5>2, <5>3
      <4>2. CASE i # n
        <5>1. i + 1 \in 1..n /\ (i + 1) - 1 = i
          BY <1>2, <4>2
        <5>2. parts[i + 1] \in Parts
          BY <1>4, <5>1
        <5>3. Len(parts[i + 1]) \in Nat /\ Len(parts[i + 1]) >= 2 /\ parts[i + 1][1].c = "delim"
          BY <1>3, <5>2
        <5>4. 1 \in 1..Len(parts[i + 1])
          BY <5>3
        <5>5. /\ F[at[i] + 1] = parts[i + 1][1] /\ at[i + 1] = at[i] + Len(parts[i + 1])
              /\ at[i + 1] <= f
          <6>1. /\ at[i + 1] = at[(i + 1) - 1] + Len(parts[i + 1]) /\ at[i + 1] <= f
                /\ \A j \in 1..Len(parts[i + 1]) : F[at[(i + 1) - 1] + j] = parts[i + 1][j]
            BY <1>7, <5>1
          <6> QED
            BY <5>1, <5>4, <6>1
        <5>6. s + Len(p) + 1 \in 1..f
          <6>1. \A x, y, z \in Nat : y >= 2 /\ x + y <= z => x + 1 \in 1..z
            OBVIOUS
          <6>2. at[i] \in Nat
            BY <1>8, <3>2
          <6> QED
            BY <1>11, <3>5, <5>3, <5>5, <6>1, <6>2
        <5>7. bytes[s + Len(p) + 1] = parts[i + 1][1]
          BY <1>11, <3>5, <5>5, <5>6
        <5> QED
          BY <5>3, <5>7
      <4> QED
        BY <4>1, <4>2
    <3>9. s = t - 1 /\ s + Len(p) <= Len(bytes)
      <4>1. s = t - 1
        BY <1>11, <2>1, <3>3, <3>7
      <4>2. \A x, y, z \in Nat : x <= y => x <= y + z
        OBVIOUS
      <4>3. s + Len(p) \in Nat /\ g \in Nat
        BY <1>9, <3>3, <3>4
      <4> QED
        BY <1>11, <3>5, <4>1, <4>2, <4>3
    <3>10. Lies(t - 1, p)
      BY <3>6, <3>8, <3>9 DEF Lies
    <3>11. PICK lines \in Headers, value \in Values, eol \in {CRLF, LF} : p = Part(lines, value, eol)
      BY <3>3 DEF Parts
    <3> QED
      BY <3>10, <3>11 DEF PartAt
  <2>2. CASE t \notin 1..f
    <3>1. t - f \in 1..g /\ f + (t - f) = t /\ g = 4 /\ end = Closing
      BY <1>9, <1>11, <2>2
    <3>2. bytes[t] = end[t - f]
      BY <1>11, <3>1
    <3>3. t - f \notin 2..4
      BY <1>13, <3>1, <3>2, ClosingHolds
    <3>4. t = f + 1
      BY <1>11, <3>1, <3>3
    <3>5. Len(bytes) = f + 4 /\ \A j \in 1..4 : bytes[f + j] = Closing[j]
      BY <1>11, <3>1
    <3>6. 2 \in 1..4 /\ (t - 1) + 2 = f + 2 /\ (t - 1) + 2 <= Len(bytes)
      BY <1>11, <3>4, <3>5
    <3>7. bytes[(t - 1) + 2].c = "dashes"
      BY <3>5, <3>6, ClosingHolds
    <3>8. \A i \in ((t - 1) + 1)..Len(bytes) : bytes[i].of = "frame"
      <4> TAKE i \in ((t - 1) + 1)..Len(bytes)
      <4>1. i - f \in 1..4 /\ f + (i - f) = i
        BY <1>11, <3>4, <3>5
      <4> QED
        BY <3>5, <4>1, ClosingHolds
    <3> QED
      BY <3>6, <3>7, <3>8 DEF ClosesAt
  <2> QED
    BY <2>1, <2>2
<1>14. Len(bytes) \in Nat
  BY <1>11
<1> QED
  BY <1>11, <1>12, <1>13, <1>14

-----------------------------------------------------------------------------
(* scanMultipart: what the code finds                                      *)

\* A least number is the minimum.
LEMMA MinIs ==
    ASSUME NEW S \in SUBSET Int, NEW x \in S, \A y \in S : x <= y
    PROVE  Min(S) = x
<1>1. \A y \in S : (\A z \in S : y <= z) => y = x
  <2> TAKE y \in S
  <2> HAVE \A z \in S : y <= z
  <2>1. y <= x /\ x <= y /\ x \in Int /\ y \in Int
    OBVIOUS
  <2> QED
    BY <2>1
<1> QED
  BY <1>1 DEF Min

\* Where s, of length n, is found from the offset on, and where it is found first.
Finds(s, n, from) ==
    /\ Found(s, from) \in SUBSET Nat
    /\ \A k \in Nat : k \in Found(s, from) <=>
          from <= k /\ k + n <= Len(bytes) /\ \A i \in 1..n : bytes[k + i].c = s[i]
    /\ \A k \in Found(s, from) : (\A l \in Found(s, from) : k <= l) => Index(s, from) = k
    /\ Found(s, from) # {} => Index(s, from) \in Found(s, from)

\* A search gives the first place where the text is.
LEMMA FoundIs ==
    ASSUME bytes \in Seq(Cell), NEW s, NEW n \in Nat, n = Len(s), DOMAIN s = 1..n, NEW from \in Nat
    PROVE  Finds(s, n, from)
<1>1. Len(bytes) \in Nat
  OBVIOUS
<1>2. Found(s, from) \in SUBSET Nat
  BY <1>1 DEF Found
<1>3. \A k \in Nat : k \in Found(s, from) <=>
                 from <= k /\ k + n <= Len(bytes) /\ \A i \in 1..n : bytes[k + i].c = s[i]
  BY <1>1 DEF Found
<1>4. ASSUME NEW k \in Found(s, from), \A l \in Found(s, from) : k <= l
      PROVE  Index(s, from) = k
  <2>1. Found(s, from) \in SUBSET Int
    BY <1>2
  <2> QED
    BY <1>4, <2>1, MinIs DEF Index
<1>5. ASSUME Found(s, from) # {}
      PROVE  Index(s, from) \in Found(s, from)
  <2>1. PICK k \in Found(s, from) : \A l \in Found(s, from) : k <= l
    BY <1>2, <1>5, LeastNumber
  <2> QED
    BY <1>4, <2>1
<1> QED
  BY <1>2, <1>3, <1>4, <1>5 DEF Finds

\* What scanMultipart reads of a part with CRLF, k lines and a value of v at offset s.
Laid(s, lines, k, v) ==
    /\ s \in Nat /\ k \in Nat /\ v \in Nat /\ DOMAIN lines = 1..k /\ Len(lines) = k
    /\ s + (3 * k + v + 7) <= Len(bytes)
    /\ s + (3 * k + v + 7) = Len(bytes) \/ bytes[s + (3 * k + v + 7) + 1].c = "delim"
    /\ bytes[s + 1].c = "delim" /\ \A j \in 2..(3 * k + v + 7) : bytes[s + j].c # "delim"
    /\ \A i \in 0..k : bytes[s + (3 * i + 2)].c = "CR" /\ bytes[s + (3 * i + 3)].c = "LF"
    /\ \A i \in 1..k : bytes[s + (3 * i + 1)].c = lines[i] /\ lines[i] \in {"named", "secret", "other"}
    /\ bytes[s + (3 * k + 4)].c = "CR" /\ bytes[s + (3 * k + 5)].c = "LF"
    /\ \A j \in 1..(3 * k + v + 7) :
          bytes[s + j].of = IF j \in (3 * k + 6)..(3 * k + 5 + v)
                            THEN IF Named(lines) THEN "secret" ELSE "value"
                            ELSE "frame"

\* A part that begins at an offset lies there as it was written.
LEMMA PartIsLaid ==
    ASSUME NEW s \in Nat, PartAt(s, CRLF), Len(bytes) \in Nat
    PROVE  \E lines \in Headers, k \in Nat, v \in Nat : Laid(s, lines, k, v)
<1>1. PICK lines \in Headers, value \in Values : Lies(s, Part(lines, value, CRLF))
  BY DEF PartAt
<1> DEFINE P == Part(lines, value, CRLF)
           H == HeaderPart(lines, CRLF)
           h == Len(H)
           k == Len(lines)
           v == Len(value)
<1>2. /\ Len(P) = h + v + Len(CRLF) /\ h \in Nat
      /\ \A i \in 1..h : P[i].c = H[i] /\ P[i].of = "frame"
      /\ \A i \in 1..v : P[h + i].of = IF Named(lines) THEN "secret" ELSE "value"
      /\ \A i \in 1..Len(CRLF) : P[h + v + i].c = CRLF[i] /\ P[h + v + i].of = "frame"
      /\ P[1].c = "delim" /\ \A i \in 2..Len(P) : P[i].c # "delim"
  BY PartHolds
<1>3. /\ k \in Nat /\ h = 3 * k + 5
      /\ \A i \in 0..k : H[3 * i + 2] = "CR" /\ H[3 * i + 3] = "LF"
      /\ \A i \in 1..k : H[3 * i + 1] = lines[i] /\ lines[i] \in {"named", "secret", "other"}
      /\ H[3 * k + 4] = "CR" /\ H[3 * k + 5] = "LF"
  BY HeaderWithCRLF
<1>4. v \in Nat /\ Len(CRLF) = 2 /\ DOMAIN lines = 1..k
  BY ValuesHold, LettersHold, HeaderLinesHold
<1>5. s + Len(P) <= Len(bytes)
      /\ (\A i \in 1..Len(P) : bytes[s + i] = P[i])
      /\ (s + Len(P) = Len(bytes) \/ bytes[s + Len(P) + 1].c = "delim")
  BY <1>1 DEF Lies
<1> HIDE DEF P, H, h, k, v
<1>6. Len(P) = 3 * k + v + 7
  BY <1>2, <1>3, <1>4
<1> DEFINE N == 3 * k + v + 7
<1>7. N \in Nat /\ h <= N
  BY <1>3, <1>4
<1>8. \A i \in 1..N : bytes[s + i] = P[i]
  BY <1>5, <1>6
<1>9. \A j \in 1..h : bytes[s + j].c = H[j] /\ bytes[s + j].of = "frame"
  <2> TAKE j \in 1..h
  <2>1. j \in 1..N
    BY <1>2, <1>7
  <2> HIDE DEF N
  <2> QED
    BY <1>2, <1>8, <2>1
<1>10. bytes[s + 1].c = "delim" /\ \A j \in 2..N : bytes[s + j].c # "delim"
  <2>1. 1 \in 1..N /\ \A j \in 2..N : j \in 1..N
    BY <1>3, <1>4
  <2>2. N = Len(P)
    BY <1>6
  <2> HIDE DEF N
  <2> QED
    BY <1>2, <1>8, <2>1, <2>2
<1>11. \A i \in 0..k : bytes[s + (3 * i + 2)].c = "CR" /\ bytes[s + (3 * i + 3)].c = "LF"
  <2> TAKE i \in 0..k
  <2>1. 3 * i + 2 \in 1..h /\ 3 * i + 3 \in 1..h
    BY <1>3
  <2>2. H[3 * i + 2] = "CR" /\ H[3 * i + 3] = "LF"
    BY <1>3
  <2>3. \A j \in 1..h : bytes[s + j].c = H[j]
    BY <1>9
  <2> HIDE DEF N
  <2> QED
    BY <2>1, <2>2, <2>3
<1>12. \A i \in 1..k : bytes[s + (3 * i + 1)].c = lines[i] /\ lines[i] \in {"named", "secret", "other"}
  <2> TAKE i \in 1..k
  <2>1. 3 * i + 1 \in 1..h
    BY <1>3
  <2> QED
    BY <1>3, <1>9, <2>1
<1>13. bytes[s + (3 * k + 4)].c = "CR" /\ bytes[s + (3 * k + 5)].c = "LF"
  <2>1. 3 * k + 4 \in 1..h /\ 3 * k + 5 \in 1..h
    BY <1>3
  <2> QED
    BY <1>3, <1>9, <2>1
<1>14. ASSUME NEW j \in 1..N
       PROVE  bytes[s + j].of = IF j \in (3 * k + 6)..(3 * k + 5 + v)
                                THEN IF Named(lines) THEN "secret" ELSE "value"
                                ELSE "frame"
  <2>1. CASE j \in (3 * k + 6)..(3 * k + 5 + v)
    <3>1. j - h \in 1..v /\ h + (j - h) = j
      BY <1>3, <1>4, <2>1
    <3>2. P[j].of = IF Named(lines) THEN "secret" ELSE "value"
      BY <1>2, <3>1
    <3> HIDE DEF N
    <3> QED
      BY <1>8, <2>1, <3>2
  <2>2. CASE j <= h
    <3>1. j \in 1..h /\ j \notin (3 * k + 6)..(3 * k + 5 + v)
      BY <1>3, <1>4, <2>2
    <3> QED
      BY <1>9, <3>1
  <2>3. CASE j > h + v
    <3>1. j - (h + v) \in 1..2 /\ h + v + (j - (h + v)) = j /\ j \notin (3 * k + 6)..(3 * k + 5 + v)
      BY <1>3, <1>4, <2>3
    <3>2. P[j].of = "frame"
      BY <1>2, <1>4, <3>1
    <3> HIDE DEF N
    <3> QED
      BY <1>8, <3>1, <3>2
  <2>4. j \in (3 * k + 6)..(3 * k + 5 + v) \/ j <= h \/ j > h + v
    BY <1>3, <1>4
  <2> QED
    BY <2>1, <2>2, <2>3, <2>4
<1>15. Len(lines) = k
  BY DEF k
<1>16. s + N <= Len(bytes) /\ (s + N = Len(bytes) \/ bytes[s + N + 1].c = "delim")
  BY <1>5, <1>6
<1>17. Laid(s, lines, k, v)
  BY <1>3, <1>4, <1>10, <1>11, <1>12, <1>13, <1>14, <1>15, <1>16 DEF Laid
<1> QED
  BY <1>3, <1>4, <1>17

\* The blank line the code looks for first.
LEMMA BlankLineIs ==
    LET s == CRLF \o CRLF
    IN  /\ Len(s) = 4 /\ DOMAIN s = 1..4
        /\ s[1] = "CR" /\ s[2] = "LF" /\ s[3] = "CR" /\ s[4] = "LF"
<1>1. CRLF \in Seq(Char) /\ Len(CRLF) = 2 /\ CRLF[1] = "CR" /\ CRLF[2] = "LF"
  BY LettersHold
<1> DEFINE s == CRLF \o CRLF
<1>2. s \in Seq(Char) /\ Joined(s, CRLF, CRLF)
  BY <1>1, JoinedHolds
<1> HIDE DEF s
<1>3. 1 \in 1..Len(CRLF) /\ 2 \in 1..Len(CRLF)
  BY <1>1
<1>4. Len(s) = 2 + 2 /\ s[1] = CRLF[1] /\ s[2] = CRLF[2] /\ s[2 + 1] = CRLF[1] /\ s[2 + 2] = CRLF[2]
  BY <1>1, <1>2, <1>3 DEF Joined
<1>5. DOMAIN s = 1..4 /\ Len(s) = 4
  BY <1>2, <1>4
<1> QED
  BY <1>1, <1>4, <1>5 DEF s

\* Header lines are three positions apart.
LEMMA Thirds ==
    ASSUME NEW k \in Nat, NEW x \in 1..(3 * k)
    PROVE  \E i \in 1..k : x = 3 * i \/ x = 3 * i - 1 \/ x = 3 * i - 2
<1> DEFINE T == {n \in Nat : n >= 1 => \E i \in 1..n : n = 3 * i \/ n = 3 * i - 1 \/ n = 3 * i - 2}
<1>1. 0 \in T
  OBVIOUS
<1>2. ASSUME NEW n \in Nat, n \in T
      PROVE  n + 1 \in T
  <2>1. CASE n = 0
    <3>1. 1 \in 1..1 /\ 1 = 3 * 1 - 2 /\ 0 + 1 = 1
      OBVIOUS
    <3>2. \E i \in 1..1 : 1 = 3 * i \/ 1 = 3 * i - 1 \/ 1 = 3 * i - 2
      BY <3>1
    <3> QED
      BY <2>1, <3>1, <3>2
  <2>2. CASE n # 0
    <3>1. PICK i \in 1..n : n = 3 * i \/ n = 3 * i - 1 \/ n = 3 * i - 2
      BY <1>2, <2>2
    <3>2. i \in 1..(n + 1) /\ i + 1 \in 1..(n + 1)
      OBVIOUS
    <3>3. \/ n + 1 = 3 * (i + 1) - 2 
          \/ n + 1 = 3 * i
          \/ n + 1 = 3 * i - 1
      BY <3>1
    <3>4. \E l \in 1..(n + 1) : n + 1 = 3 * l \/ n + 1 = 3 * l - 1 \/ n + 1 = 3 * l - 2
      BY <3>2, <3>3
    <3> QED
      BY <3>4
  <2> QED
    BY <2>1, <2>2
<1> HIDE DEF T
<1>3. x \in T
  BY <1>1, <1>2, NumbersInSteps
<1>4. PICK i \in 1..x : x = 3 * i \/ x = 3 * i - 1 \/ x = 3 * i - 2
  BY <1>3 DEF T
<1>5. i \in 1..k
  BY <1>4
<1> QED
  BY <1>4, <1>5

\* The name is read from the lines, and from nothing between them.
LEMMA NameIsRead ==
    ASSUME NEW s, NEW lines, NEW k, NEW v, Laid(s, lines, k, v)
    PROVE  FieldIsSecret(s + 1, s + (3 * k + 1)) <=> Named(lines)
<1> DEFINE n == 3 * k
           q == [x \in 1..n |-> bytes[s + 1 + x].c]
<1>0. s \in Nat /\ k \in Nat /\ n \in Nat /\ DOMAIN lines = 1..k
  BY DEF Laid
<1>1. (s + (3 * k + 1)) - (s + 1) = n
  BY <1>0
<1>2. FieldIsSecret(s + 1, s + (3 * k + 1)) <=> Named(q)
  BY <1>1 DEF FieldIsSecret
<1>3. \A i \in 1..k : q[3 * i] = lines[i] /\ q[3 * i - 1] = "LF" /\ q[3 * i - 2] = "CR"
  <2> TAKE i \in 1..k
  <2>1. /\ 3 * i \in 1..n /\ 3 * i - 1 \in 1..n /\ 3 * i - 2 \in 1..n
        /\ s + 1 + 3 * i = s + (3 * i + 1)
        /\ s + 1 + (3 * i - 1) = s + (3 * (i - 1) + 3)
        /\ s + 1 + (3 * i - 2) = s + (3 * (i - 1) + 2)
        /\ i - 1 \in 0..k
    BY <1>0
  <2>2. bytes[s + (3 * i + 1)].c = lines[i]
    BY DEF Laid
  <2>3. bytes[s + (3 * (i - 1) + 2)].c = "CR" /\ bytes[s + (3 * (i - 1) + 3)].c = "LF"
    BY <2>1 DEF Laid
  <2> HIDE DEF n
  <2> QED
    BY <2>1, <2>2, <2>3
<1>4. DOMAIN q = 1..n
  OBVIOUS
<1> HIDE DEF q, n
<1>5. \A x \in 1..n : \E i \in 1..k : x = 3 * i \/ x = 3 * i - 1 \/ x = 3 * i - 2
  BY <1>0, Thirds DEF n
<1>6. ASSUME Named(lines)
      PROVE  Named(q)
  <2>1. PICK i \in 1..k : lines[i] = "secret" /\ \A j \in 1..(i - 1) : lines[j] # "named"
    BY <1>0, <1>6 DEF Named
  <2>2. 3 * i \in 1..n /\ q[3 * i] = "secret"
    BY <1>0, <1>3, <2>1 DEF n
  <2>3. ASSUME NEW x \in 1..(3 * i - 1)
        PROVE  q[x] # "named"
    <3>1. x \in 1..n
      BY <1>0 DEF n
    <3>2. PICK j \in 1..k : x = 3 * j \/ x = 3 * j - 1 \/ x = 3 * j - 2
      BY <1>5, <3>1
    <3>3. CASE x = 3 * j
      <4>1. j \in 1..(i - 1)
        BY <3>3
      <4> QED
        BY <1>3, <2>1, <3>3, <4>1
    <3>4. CASE x = 3 * j - 1 \/ x = 3 * j - 2
      <4>1. q[x] = "LF" \/ q[x] = "CR"
        BY <1>3, <3>4
      <4> QED
        BY <4>1
    <3> QED
      BY <3>2, <3>3, <3>4
  <2> QED
    BY <1>4, <2>2, <2>3 DEF Named
<1>7. ASSUME Named(q)
      PROVE  Named(lines)
  <2>1. PICK x \in 1..n : q[x] = "secret" /\ \A j \in 1..(x - 1) : q[j] # "named"
    BY <1>4, <1>7 DEF Named
  <2>2. PICK i \in 1..k : x = 3 * i \/ x = 3 * i - 1 \/ x = 3 * i - 2
    BY <1>5
  <2>3. x = 3 * i
    <3>1. q[3 * i - 1] = "LF" /\ q[3 * i - 2] = "CR"
      BY <1>3
    <3> QED
      BY <2>1, <2>2, <3>1
  <2>4. lines[i] = "secret"
    BY <1>3, <2>1, <2>3
  <2>5. \A j \in 1..(i - 1) : lines[j] # "named"
    <3> TAKE j \in 1..(i - 1)
    <3>1. 3 * j \in 1..(3 * i - 1) /\ j \in 1..k
      BY <1>0
    <3>2. 3 * j \in 1..(x - 1)
      BY <2>3, <3>1
    <3> QED
      BY <1>3, <2>1, <3>1, <3>2
  <2> QED
    BY <1>0, <2>4, <2>5 DEF Named
<1> QED
  BY <1>2, <1>6, <1>7

\* What the code finds of a part that begins where it looks.
LEMMA PartIsFound ==
    ASSUME bytes \in Seq(Cell), NEW lines, NEW k, NEW v, Laid(pos, lines, k, v)
    PROVE  /\ PartStart = pos + 1 /\ HeaderEnd = pos + (3 * k + 1) /\ PartValue = pos + (3 * k + 5)
           /\ HasPart <=> pos + (3 * k + v + 7) < Len(bytes)
           /\ HasPart => NextDelim = pos + (3 * k + v + 7)
<1> DEFINE e == pos + (3 * k + v + 7)
           D == <<"delim">>
           B == CRLF \o CRLF
           M == <<"dashes">>
<1>1. pos \in Nat /\ k \in Nat /\ v \in Nat /\ e \in Nat /\ e <= Len(bytes) /\ Len(bytes) \in Nat
  BY DEF Laid
<1>2. Len(D) = 1 /\ DOMAIN D = 1..1 /\ D[1] = "delim" /\ 1 \in Nat
  OBVIOUS
<1>3. Len(M) = 1 /\ DOMAIN M = 1..1 /\ M[1] = "dashes"
  OBVIOUS
<1>4. Len(B) = 4 /\ DOMAIN B = 1..4 /\ B[1] = "CR" /\ B[2] = "LF" /\ B[3] = "CR" /\ B[4] = "LF"
  BY BlankLineIs
<1> HIDE DEF D, M, B
<1> DEFINE OneFound(s, c, from) ==
               /\ Found(s, from) \in SUBSET Nat
               /\ \A l \in Nat : l \in Found(s, from) <=>
                     from <= l /\ l + 1 <= Len(bytes) /\ bytes[l + 1].c = c
               /\ \A l \in Found(s, from) : (\A m \in Found(s, from) : l <= m) => Index(s, from) = l
<1>19. \A from \in Nat : OneFound(D, "delim", from) /\ OneFound(M, "dashes", from)
  <2> TAKE from \in Nat
  <2>1. Finds(D, 1, from)
    BY <1>2, FoundIs
  <2>2. Finds(M, 1, from)
    BY <1>2, <1>3, FoundIs
  <2>3. \A s : \A l \in Nat : (\A i \in 1..1 : bytes[l + i].c = s[i]) <=> bytes[l + 1].c = s[1]
    OBVIOUS
  <2>4. OneFound(D, "delim", from)
    BY <1>2, <2>1, <2>3 DEF Finds
  <2>5. OneFound(M, "dashes", from)
    BY <1>3, <2>2, <2>3 DEF Finds
  <2> QED
    BY <2>4, <2>5
<1>20. \A from \in Nat : Finds(B, 4, from)
  <2>1. 4 \in Nat
    OBVIOUS
  <2> QED
    BY <1>4, <2>1, FoundIs
<1>5. pos \in Found(D, pos) /\ Index(D, pos) = pos
  <2>1. pos \in Found(D, pos)
    <3>1. bytes[pos + 1].c = "delim"
      BY DEF Laid
    <3>2. pos + 1 <= Len(bytes)
      BY <1>1
    <3>3. pos <= pos
      BY <1>1
    <3> QED
      BY <1>1, <1>19, <3>1, <3>2, <3>3
  <2>2. \A l \in Found(D, pos) : pos <= l
    BY <1>1, <1>19
  <2> QED
    BY <1>1, <1>19, <2>1, <2>2
<1>6. PartStart = pos + 1 /\ PartStart \in Nat
  BY <1>1, <1>5 DEF PartStart, D
<1>7. PartStart \notin Found(M, PartStart)
  <2> SUFFICES ASSUME pos + 1 \in Found(M, pos + 1)
               PROVE  FALSE
    BY <1>6
  <2>1. 0 \in 0..k /\ 3 * 0 + 2 = 2 /\ pos + 1 \in Nat
    BY <1>1
  <2>2. bytes[pos + (3 * 0 + 2)].c = "CR"
    BY <2>1 DEF Laid
  <2>4. (pos + 1) + 1 = pos + (3 * 0 + 2)
    BY <1>1
  <2>6. bytes[(pos + 1) + 1].c = "dashes"
    BY <1>19, <2>1
  <2> QED
    BY <2>2, <2>4, <2>6
<1> DEFINE x == pos + (3 * k + 1)
<1>8. x \in Nat /\ pos + 1 <= x /\ x + 4 <= Len(bytes) /\ pos + 1 \in Nat
  BY <1>1
<1>9. x \in Found(B, pos + 1)
  <2>1. k \in 0..k
    BY <1>1
  <2>2. /\ bytes[pos + (3 * k + 2)].c = "CR" /\ bytes[pos + (3 * k + 3)].c = "LF"
        /\ bytes[pos + (3 * k + 4)].c = "CR" /\ bytes[pos + (3 * k + 5)].c = "LF"
    BY <2>1 DEF Laid
  <2>3. /\ x + 1 = pos + (3 * k + 2) /\ x + 2 = pos + (3 * k + 3)
        /\ x + 3 = pos + (3 * k + 4) /\ x + 4 = pos + (3 * k + 5)
    BY <1>1
  <2> HIDE DEF x
  <2>4. \A i \in 1..4 : i = 1 \/ i = 2 \/ i = 3 \/ i = 4
    OBVIOUS
  <2>5. \A i \in 1..4 : bytes[x + i].c = B[i]
    BY <1>4, <2>2, <2>3, <2>4
  <2> QED
    BY <1>8, <1>20, <2>5 DEF Finds
<1>10. ASSUME NEW l \in Found(B, pos + 1)
       PROVE  x <= l
  <2>1. /\ l \in Nat /\ pos + 1 <= l /\ \A i \in 1..4 : bytes[l + i].c = B[i]
    BY <1>8, <1>20 DEF Finds
  <2> SUFFICES ASSUME l < x
               PROVE  FALSE
    BY <1>8, <2>1
  <2>2. 1 \in 1..4 /\ 3 \in 1..4
    OBVIOUS
  <2>3. bytes[l + 1].c = "CR" /\ bytes[l + 3].c = "CR"
    BY <1>4, <2>1, <2>2
  <2>4. l - pos \in 1..(3 * k)
    <3>1. \A a, b, y \in Nat : a + 1 <= b /\ b < a + (y + 1) => b - a \in 1..y
      OBVIOUS
    <3>2. 3 * k \in Nat
      BY <1>1
    <3> QED
      BY <1>1, <2>1, <3>1, <3>2
  <2>5. PICK i \in 1..k : l - pos = 3 * i \/ l - pos = 3 * i - 1 \/ l - pos = 3 * i - 2
    BY <1>1, <2>4, Thirds
  <2>6. i - 1 \in 0..k /\ i \in 0..k
    BY <1>1
  <2>7. CASE l - pos = 3 * i
    <3>1. l + 3 = pos + (3 * i + 3)
      BY <1>1, <2>1, <2>7
    <3>2. bytes[pos + (3 * i + 3)].c = "LF"
      BY <2>6 DEF Laid
    <3> QED
      BY <2>3, <3>1, <3>2
  <2>8. CASE l - pos = 3 * i - 1
    <3>1. l + 1 = pos + (3 * (i - 1) + 3)
      BY <1>1, <2>1, <2>8
    <3>2. bytes[pos + (3 * (i - 1) + 3)].c = "LF"
      BY <2>6 DEF Laid
    <3> QED
      BY <2>3, <3>1, <3>2
  <2>9. CASE l - pos = 3 * i - 2
    <3>1. l + 3 = pos + (3 * i + 1)
      BY <1>1, <2>1, <2>9
    <3>2. bytes[pos + (3 * i + 1)].c \in {"named", "secret", "other"}
      BY DEF Laid
    <3> QED
      BY <2>3, <3>1, <3>2
  <2> QED
    BY <2>5, <2>7, <2>8, <2>9
<1>11. Separator = B /\ Index(B, pos + 1) = x
  <2>1. Found(B, pos + 1) # {}
    BY <1>9
  <2>2. Separator = B
    BY <1>6, <2>1 DEF Separator, Separators, B
  <2> HIDE DEF x
  <2> QED
    BY <1>8, <1>9, <1>10, <1>20, <2>2 DEF Finds
<1>12. HeaderEnd = x
  BY <1>6, <1>11 DEF HeaderEnd
<1>13. PartValue = pos + (3 * k + 5) /\ PartValue \in Nat
  <2>1. PartValue = x + 4
    BY <1>4, <1>11, <1>12 DEF PartValue
  <2> QED
    BY <1>1, <2>1
<1>14. ASSUME NEW l \in Found(D, PartValue)
       PROVE  e <= l /\ e < Len(bytes)
  <2>1. l \in Nat /\ PartValue <= l /\ l + 1 <= Len(bytes) /\ bytes[l + 1].c = "delim"
    BY <1>13, <1>19
  <2>2. ASSUME l < e
        PROVE  FALSE
    <3>1. l + 1 - pos \in 2..(3 * k + v + 7) /\ pos + (l + 1 - pos) = l + 1
      <4>1. \A a, b, y, u \in Nat : a + (3 * y + 5) <= b /\ b < a + (3 * y + u + 7)
                                   => b + 1 - a \in 2..(3 * y + u + 7) /\ a + (b + 1 - a) = b + 1
        OBVIOUS
      <4> QED
        BY <1>1, <1>13, <2>1, <2>2, <4>1
    <3>2. bytes[pos + (l + 1 - pos)].c # "delim"
      BY <3>1 DEF Laid
    <3> QED
      BY <2>1, <3>1, <3>2
  <2> HIDE DEF e
  <2> QED
    BY <1>1, <2>1, <2>2
<1>15. ASSUME e < Len(bytes)
       PROVE  e \in Found(D, PartValue) /\ Index(D, PartValue) = e
  <2>1. bytes[e + 1].c = "delim"
    <3>1. e # Len(bytes)
      BY <1>1, <1>15
    <3> QED
      BY <3>1 DEF Laid
  <2>2. PartValue <= e /\ e + 1 <= Len(bytes)
    BY <1>1, <1>13, <1>15
  <2> HIDE DEF e
  <2>4. e \in Found(D, PartValue)
    BY <1>1, <1>13, <1>19, <2>1, <2>2
  <2>5. \A l \in Found(D, PartValue) : e <= l
    BY <1>14
  <2> QED
    BY <1>13, <1>19, <2>4, <2>5
<1>16. HasPart <=> Found(D, PartValue) # {}
  <2>1. Found(D, pos) # {} /\ Found(Separator, PartStart) # {}
    BY <1>5, <1>6, <1>9, <1>11
  <2>2. PartStart \notin Found(<<"dashes">>, PartStart)
    BY <1>7 DEF M
  <2> QED
    BY <2>1, <2>2 DEF HasPart, D
<1>17. HasPart <=> e < Len(bytes)
  BY <1>14, <1>15, <1>16
<1>18. HasPart => NextDelim = e
  BY <1>15, <1>17 DEF NextDelim, D
<1> QED
  BY <1>6, <1>12, <1>13, <1>17, <1>18

-----------------------------------------------------------------------------
(* scanMultipart: one turn, and the theorems                               *)

\* Where the loop is, in a regular body.
AtDelimiter ==
    \/ pos = 0 /\ Len(bytes) = 0
    \/ pos < Len(bytes) /\ bytes[pos + 1].c = "delim" /\ ClosesAt(pos)
    \/ \E lines \in Headers, k \in Nat, v \in Nat : Laid(pos, lines, k, v)

\* A delimiter of a regular body closes it, or begins a part whose lines end with CRLF.
LEMMA DelimiterStandsFor ==
    ASSUME bytes \in Bodies, pos \in Nat, Regular, pos = 0 \/ (pos < Len(bytes) /\ bytes[pos + 1].c = "delim")
    PROVE  AtDelimiter
<1>1. /\ bytes \in Seq(Cell) /\ Len(bytes) \in Nat
      /\ Len(bytes) > 0 => bytes[1].c = "delim"
      /\ \A t \in 1..Len(bytes) : bytes[t].c = "delim" =>
            ClosesAt(t - 1) \/ \E eol \in {CRLF, LF} : PartAt(t - 1, eol)
  BY BodyHolds
<1>2. CASE Len(bytes) = 0
  BY <1>1, <1>2 DEF AtDelimiter
<1>3. CASE Len(bytes) > 0
  <2>1. pos < Len(bytes) /\ bytes[pos + 1].c = "delim"
    <3>1. 0 + 1 = 1
      OBVIOUS
    <3> QED
      BY <1>1, <1>3, <3>1
  <2>2. pos + 1 \in 1..Len(bytes) /\ (pos + 1) - 1 = pos
    BY <1>1, <2>1
  <2>3. ClosesAt(pos) \/ \E eol \in {CRLF, LF} : PartAt(pos, eol)
    BY <1>1, <2>1, <2>2
  <2>4. CASE ClosesAt(pos)
    BY <2>1, <2>4 DEF AtDelimiter
  <2>5. CASE PartAt(pos, LF)
    <3>1. PICK lines \in Headers, value \in Values : Lies(pos, Part(lines, value, LF))
      BY <2>5 DEF PartAt
    <3> DEFINE P == Part(lines, value, LF)
               H == HeaderPart(lines, LF)
               h == Len(H)
    <3>2. /\ h \in Nat /\ h >= 2 /\ H[2] = "LF" /\ \A i \in 1..h : P[i].c = H[i] /\ P[i].of = "frame"
          /\ Len(P) = h + Len(value) + Len(LF)
      <4>1. LF \in {CRLF, LF}
        OBVIOUS
      <4>2. H[2] = LF[1]
        BY <4>1, HeaderPartHolds
      <4>3. /\ h \in Nat /\ h >= 2 /\ \A i \in 1..h : P[i].c = H[i] /\ P[i].of = "frame"
            /\ Len(P) = h + Len(value) + Len(LF)
        BY <4>1, PartHolds
      <4>4. LF[1] = "LF"
        BY LettersHold
      <4> QED
        BY <4>2, <4>3, <4>4
    <3>3. Len(value) \in Nat /\ Len(LF) \in Nat
      BY ValuesHold, LettersHold
    <3> HIDE DEF P, H, h
    <3>4. 2 \in 1..h /\ 2 \in 1..Len(P)
      BY <3>2, <3>3
    <3>5. pos + Len(P) <= Len(bytes) /\ \A i \in 1..Len(P) : bytes[pos + i] = P[i]
      BY <3>1 DEF Lies, P
    <3>6. bytes[pos + 2].c = "LF" /\ bytes[pos + 2].of = "frame"
      BY <3>2, <3>4, <3>5
    <3>7. pos + 2 \in 1..Len(bytes) /\ (pos + 2) - 1 = pos + 1 /\ pos + 2 # 1
      BY <1>1, <3>2, <3>3, <3>5
    <3>8. bytes[pos + 1].c # "CR" /\ DOMAIN bytes = 1..Len(bytes)
      BY <1>1, <2>1
    <3> QED
      BY <3>6, <3>7, <3>8 DEF Regular
  <2>6. CASE PartAt(pos, CRLF)
    BY <1>1, <2>6, PartIsLaid DEF AtDelimiter
  <2> QED
    BY <2>3, <2>4, <2>5, <2>6
<1> QED
  BY <1>1, <1>2, <1>3

\* The separators, and what the code reads when there is another part.
LEMMA SeparatorIs ==
    \E n \in {2, 4} : n = Len(Separator) /\ DOMAIN Separator = 1..n
<1>1. Len(CRLF \o CRLF) = 4 /\ DOMAIN (CRLF \o CRLF) = 1..4
  BY BlankLineIs
<1>2. Len(LF \o LF) = 2 /\ DOMAIN (LF \o LF) = 1..2
  <2>1. LF \in Seq(Char) /\ Len(LF) = 1
    BY LettersHold
  <2>2. LF \o LF \in Seq(Char) /\ Joined(LF \o LF, LF, LF)
    BY <2>1, JoinedHolds
  <2>3. Len(LF \o LF) = 2
    BY <2>1, <2>2 DEF Joined
  <2> QED
    BY <2>2, <2>3
<1> QED
  BY <1>1, <1>2 DEF Separator, Separators

\* Where the code finds a part, it is ahead of the loop, up to the next delimiter.
LEMMA PartIsAhead ==
    ASSUME bytes \in Seq(Cell), pos \in Nat, HasPart
    PROVE  /\ PartValue \in Nat /\ NextDelim \in Nat /\ pos < PartValue /\ PartValue <= NextDelim
           /\ NextDelim < Len(bytes) /\ bytes[NextDelim + 1].c = "delim"
<1> DEFINE D == <<"delim">>
<1>1. Len(D) = 1 /\ DOMAIN D = 1..1 /\ D[1] = "delim" /\ 1 \in Nat
  OBVIOUS
<1>2. /\ Found(D, pos) # {} /\ Found(Separator, PartStart) # {} /\ Found(D, PartValue) # {}
      /\ PartStart = Index(D, pos) + 1 /\ NextDelim = Index(D, PartValue)
  BY DEF HasPart, PartStart, NextDelim
<1> HIDE DEF D
<1>3. Len(bytes) \in Nat
  OBVIOUS
<1>4. PartStart \in Nat /\ pos < PartStart
  <2>1. Finds(D, 1, pos)
    BY <1>1, FoundIs
  <2>2. Index(D, pos) \in Found(D, pos)
    BY <1>2, <2>1 DEF Finds
  <2>3. Index(D, pos) \in Nat /\ pos <= Index(D, pos)
    BY <2>1, <2>2 DEF Finds
  <2> QED
    BY <1>2, <2>3
<1>5. HeaderEnd \in Nat /\ PartStart <= HeaderEnd
  <2>1. PICK n \in {2, 4} : n = Len(Separator) /\ DOMAIN Separator = 1..n
    BY SeparatorIs
  <2>2. n \in Nat
    OBVIOUS
  <2>3. Finds(Separator, n, PartStart)
    BY <1>4, <2>1, <2>2, FoundIs
  <2>4. HeaderEnd \in Found(Separator, PartStart)
    BY <1>2, <2>3 DEF Finds, HeaderEnd
  <2> QED
    BY <2>3, <2>4 DEF Finds
<1>6. PartValue \in Nat /\ pos < PartValue
  <2>1. Len(Separator) \in Nat
    BY SeparatorIs
  <2> QED
    BY <1>4, <1>5, <2>1 DEF PartValue
<1>7. NextDelim \in Nat /\ PartValue <= NextDelim /\ NextDelim + 1 <= Len(bytes) /\ bytes[NextDelim + 1].c = "delim"
  <2>1. Finds(D, 1, PartValue)
    BY <1>1, <1>6, FoundIs
  <2>2. NextDelim \in Found(D, PartValue)
    BY <1>2, <2>1 DEF Finds
  <2>3. 1 \in 1..1
    OBVIOUS
  <2>4. /\ NextDelim \in Nat /\ PartValue <= NextDelim /\ NextDelim + 1 <= Len(bytes)
        /\ \A i \in 1..1 : bytes[NextDelim + i].c = D[i]
    BY <2>1, <2>2 DEF Finds
  <2> QED
    BY <1>1, <2>3, <2>4
<1> QED
  BY <1>3, <1>6, <1>7

\* Where there is no other part, or the loop is behind the last one, nothing is left to tag.
LEMMA NothingIsLeft ==
    ASSUME bytes \in Seq(Cell), pos \in Nat, AtDelimiter, ~HasPart, NEW p \in pos..(Len(bytes) - 1)
    PROVE  ~InSecret(p)
<1>1. Len(bytes) \in Nat /\ p \in Nat /\ p + 1 \in (pos + 1)..Len(bytes)
  OBVIOUS
<1>2. CASE ClosesAt(pos)
  <2>1. bytes[p + 1].of = "frame"
    BY <1>1, <1>2 DEF ClosesAt
  <2> QED
    BY <2>1 DEF InSecret
<1>3. CASE \E lines \in Headers, k \in Nat, v \in Nat : Laid(pos, lines, k, v)
  <2>1. PICK lines \in Headers, k \in Nat, v \in Nat : Laid(pos, lines, k, v)
    BY <1>3
  <2>2. ~(pos + (3 * k + v + 7) < Len(bytes))
    BY <2>1, PartIsFound
  <2>3. \A t \in (p + 2)..Len(bytes) : bytes[t].c # "delim"
    <3> TAKE t \in (p + 2)..Len(bytes)
    <3>1. t - pos \in 2..(3 * k + v + 7) /\ pos + (t - pos) = t
      BY <1>1, <2>2
    <3>2. bytes[pos + (t - pos)].c # "delim"
      BY <2>1, <3>1 DEF Laid
    <3> QED
      BY <3>1, <3>2
  <2> QED
    BY <2>3 DEF InSecret
<1>4. CASE Len(bytes) = 0
  BY <1>1, <1>4
<1> QED
  BY <1>2, <1>3, <1>4 DEF AtDelimiter

\* A closing delimiter, or the end of an empty body, is no part.
LEMMA OnlyPartsAreParts ==
    ASSUME bytes \in Seq(Cell), pos \in Nat, AtDelimiter, HasPart
    PROVE  \E lines \in Headers, k \in Nat, v \in Nat : Laid(pos, lines, k, v)
<1> DEFINE D == <<"delim">>
           M == <<"dashes">>
<1>0. Len(D) = 1 /\ DOMAIN D = 1..1 /\ D[1] = "delim" /\ 1 \in Nat
      /\ Len(M) = 1 /\ DOMAIN M = 1..1 /\ M[1] = "dashes"
  OBVIOUS
<1>1. /\ PartStart = Index(D, pos) + 1 /\ PartStart \notin Found(M, PartStart)
  BY DEF HasPart, PartStart
<1>2. Len(bytes) \in Nat
  OBVIOUS
<1> HIDE DEF D, M
<1>3. pos < Len(bytes)
  <2>1. NextDelim \in Nat /\ PartValue \in Nat /\ pos < PartValue /\ PartValue <= NextDelim /\ NextDelim < Len(bytes)
    BY PartIsAhead
  <2> QED
    BY <1>2, <2>1
<1>4. ASSUME bytes[pos + 1].c = "delim", ClosesAt(pos)
      PROVE  FALSE
  <2>1. Finds(D, 1, pos)
    BY <1>0, FoundIs
  <2>2. \A i \in 1..1 : bytes[pos + i].c = D[i]
    BY <1>0, <1>4
  <2>3. pos \in Found(D, pos) /\ \A l \in Found(D, pos) : pos <= l
    <3>1. pos <= pos /\ pos + 1 <= Len(bytes)
      BY <1>2, <1>3
    <3> QED
      BY <2>1, <2>2, <3>1 DEF Finds
  <2>4. Index(D, pos) = pos
    BY <2>1, <2>3 DEF Finds
  <2>5. PartStart = pos + 1 /\ pos + 1 \in Nat
    BY <1>1, <2>4
  <2>6. Finds(M, 1, pos + 1)
    BY <1>0, <2>5, FoundIs
  <2>7. pos + 2 <= Len(bytes) /\ bytes[pos + 2].c = "dashes"
    BY <1>4 DEF ClosesAt
  <2>8. \A i \in 1..1 : bytes[(pos + 1) + i].c = M[i]
    <3>1. (pos + 1) + 1 = pos + 2
      OBVIOUS
    <3> QED
      BY <1>0, <2>7, <3>1
  <2>9. pos + 1 <= pos + 1 /\ (pos + 1) + 1 <= Len(bytes)
    BY <1>2, <2>7
  <2>10. pos + 1 \in Found(M, pos + 1)
    BY <2>5, <2>6, <2>8, <2>9 DEF Finds
  <2> QED
    BY <1>1, <2>5, <2>10
<1> QED
  BY <1>2, <1>3, <1>4 DEF AtDelimiter

\* At the beginning nothing is looked at.
LEMMA PartInitHolds == PartInit => PartInvariant
<1> SUFFICES ASSUME PartInit
             PROVE  PartInvariant
  OBVIOUS
<1>1. bytes \in Bodies /\ pos = 0 /\ looking = TRUE /\ partSpans = <<>>
  BY DEF PartInit
<1>2. Len(bytes) \in Nat
  BY <1>1, BodyHolds
<1>3. PartTypeOK
  BY <1>1, <1>2 DEF PartTypeOK
<1>4. DelimiterIsNext
  BY <1>1 DEF DelimiterIsNext
<1> QED
  BY <1>3, <1>4 DEF PartInvariant

\* Nothing changes without a step of the scanner.
LEMMA PartStutters == PartInvariant /\ UNCHANGED partVars => PartInvariant'
<1> SUFFICES ASSUME PartInvariant, UNCHANGED partVars
             PROVE  PartInvariant'
  OBVIOUS
<1>1. bytes' = bytes /\ pos' = pos /\ looking' = looking /\ partSpans' = partSpans
  BY DEF partVars
<1>2. PartTypeOK'
  BY <1>1 DEF PartInvariant, PartTypeOK
<1>3. Regular' <=> Regular
  BY <1>1 DEF Regular
<1>4. \A p : (InSecret(p)' <=> InSecret(p)) /\ (InPart(p)' <=> InPart(p))
  BY <1>1 DEF InSecret, InPart
<1>5. DelimiterIsNext'
  BY <1>1, <1>3, <1>4 DEF PartInvariant, DelimiterIsNext
<1> QED
  BY <1>2, <1>5 DEF PartInvariant

\* Where the loop stops, nothing is left untagged.
LEMMA PartsEndKeeps == PartInvariant /\ PartsEnd => PartInvariant'
<1> SUFFICES ASSUME PartInvariant, PartsEnd
             PROVE  PartInvariant'
  OBVIOUS
<1>1. bytes' = bytes /\ pos' = pos /\ looking' = FALSE /\ partSpans' = partSpans /\ ~HasPart
  BY DEF PartsEnd
<1>2. PartTypeOK'
  BY <1>1 DEF PartInvariant, PartTypeOK
<1>3. Regular' <=> Regular
  BY <1>1 DEF Regular
<1>4. \A p : (InSecret(p)' <=> InSecret(p)) /\ (InPart(p)' <=> InPart(p))
  BY <1>1 DEF InSecret, InPart
<1>5. bytes \in Bodies /\ pos \in 0..Len(bytes)
  BY DEF PartInvariant, PartTypeOK
<1>6. bytes \in Seq(Cell) /\ Len(bytes) \in Nat
  BY <1>5, BodyHolds
<1>7. ASSUME Regular
      PROVE  \A p \in pos..(Len(bytes) - 1) : ~InSecret(p)
  <2>1. pos = 0 \/ (pos < Len(bytes) /\ bytes[pos + 1].c = "delim")
    BY <1>7 DEF PartInvariant, DelimiterIsNext
  <2>2. pos \in Nat
    BY <1>5
  <2>3. AtDelimiter
    BY <1>5, <1>7, <2>1, <2>2, DelimiterStandsFor
  <2> QED
    BY <1>1, <1>6, <2>2, <2>3, NothingIsLeft
<1>8. DelimiterIsNext'
  BY <1>1, <1>3, <1>4, <1>7 DEF PartInvariant, DelimiterIsNext
<1> QED
  BY <1>2, <1>8 DEF PartInvariant

PartSpan == [start : Nat, end : Nat, level : {PartLevel}, rule : {0}]

\* The spans a turn leaves cover what they covered, and the value if it is tagged.
TagsMore(new, old, c, a, b) ==
    /\ new \in Seq(PartSpan)
    /\ \A k \in DOMAIN new : (k \in DOMAIN old /\ new[k] = old[k]) \/ new[k].end = b
    /\ \A p \in Int : (\E k \in DOMAIN new : new[k].start <= p /\ p < new[k].end)
          <=> \/ \E k \in DOMAIN old : old[k].start <= p /\ p < old[k].end
              \/ c /\ a <= p /\ p < b

\* The tag of a part, and what the part says of its positions.
LEMMA PartIsTagged ==
    ASSUME NEW spans0 \in Seq(PartSpan), NEW spans1, NEW a \in Nat, NEW b \in Int, NEW c \in BOOLEAN,
           spans1 = IF c /\ a < b THEN Append(spans0, [start |-> a, end |-> b, level |-> PartLevel, rule |-> 0])
                    ELSE spans0
    PROVE  TagsMore(spans1, spans0, c, a, b)
<1> DEFINE s == [start |-> a, end |-> b, level |-> PartLevel, rule |-> 0]
           n == Len(spans0)
<1>1. n \in Nat /\ DOMAIN spans0 = 1..n
  OBVIOUS
<1>2. CASE c /\ a < b
  <2>1. s \in PartSpan
    <3>1. b \in Nat
      BY <1>2
    <3> QED
      BY <3>1 DEF PartSpan
  <2>2. s.start = a /\ s.end = b
    OBVIOUS
  <2>3. spans1 = Append(spans0, s)
    BY <1>2
  <2> HIDE DEF s
  <2> HIDE DEF PartSpan
  <2>4. /\ spans1 \in Seq(PartSpan) /\ DOMAIN spans1 = 1..(n + 1) /\ spans1[n + 1] = s
        /\ \A k \in 1..n : spans1[k] = spans0[k]
    BY <2>1, <2>3
  <2> HIDE DEF n
  <2>5. \A k \in 1..(n + 1) : k \in 1..n \/ k = n + 1
    BY <1>1
  <2>6. \A k \in 1..n : k \in 1..(n + 1)
    BY <1>1
  <2>7. n + 1 \in 1..(n + 1)
    BY <1>1
  <2>8. \A k \in DOMAIN spans1 : (k \in DOMAIN spans0 /\ spans1[k] = spans0[k]) \/ spans1[k].end = b
    BY <1>1, <2>2, <2>4, <2>5
  <2>9. ASSUME NEW p \in Int
        PROVE  (\E k \in DOMAIN spans1 : spans1[k].start <= p /\ p < spans1[k].end)
                 <=> \/ \E k \in DOMAIN spans0 : spans0[k].start <= p /\ p < spans0[k].end
                     \/ c /\ a <= p /\ p < b
    BY <1>1, <1>2, <2>2, <2>4, <2>5, <2>6, <2>7
  <2> QED
    BY <2>4, <2>8, <2>9 DEF TagsMore
<1>3. CASE ~(c /\ a < b)
  <2>1. spans1 = spans0
    BY <1>3
  <2>2. \A p \in Int : ~(c /\ a <= p /\ p < b)
    BY <1>3
  <2> QED
    BY <2>1, <2>2 DEF TagsMore
<1> QED
  BY <1>2, <1>3

\* The part that is looked at is tagged where it is a sensitive value.
LEMMA TurnTags ==
    ASSUME bytes \in Seq(Cell), NEW lines, NEW k, NEW v, Laid(pos, lines, k, v), HasPart,
           NEW p \in pos..(NextDelim - 1)
    PROVE  InSecret(p) <=> /\ FieldIsSecret(PartStart, HeaderEnd)
                           /\ PartValue <= p /\ p < NextDelim - 2
<1>1. /\ PartStart = pos + 1 /\ HeaderEnd = pos + (3 * k + 1) /\ PartValue = pos + (3 * k + 5)
      /\ NextDelim = pos + (3 * k + v + 7)
  BY PartIsFound
<1>2. pos \in Nat /\ k \in Nat /\ v \in Nat
  BY DEF Laid
<1>3. FieldIsSecret(PartStart, HeaderEnd) <=> Named(lines)
  BY <1>1, NameIsRead
<1>4. NextDelim < Len(bytes) /\ bytes[NextDelim + 1].c = "delim" /\ Len(bytes) \in Nat
  BY <1>2, PartIsAhead
<1>5. p + 1 - pos \in 1..(3 * k + v + 7) /\ pos + (p + 1 - pos) = p + 1 /\ p \in Nat
  BY <1>1, <1>2
<1>6. bytes[p + 1].of = IF p + 1 - pos \in (3 * k + 6)..(3 * k + 5 + v)
                        THEN IF Named(lines) THEN "secret" ELSE "value"
                        ELSE "frame"
  <2> DEFINE j == p + 1 - pos
  <2>1. j \in 1..(3 * k + v + 7) /\ pos + j = p + 1
    BY <1>5
  <2> HIDE DEF j
  <2>2. bytes[pos + j].of = IF j \in (3 * k + 6)..(3 * k + 5 + v)
                            THEN IF Named(lines) THEN "secret" ELSE "value"
                            ELSE "frame"
    BY <2>1 DEF Laid
  <2> QED
    BY <2>1, <2>2 DEF j
<1>7. p + 1 - pos \in (3 * k + 6)..(3 * k + 5 + v) <=> PartValue <= p /\ p < NextDelim - 2
  BY <1>1, <1>2, <1>5
<1>8. \E t \in (p + 2)..Len(bytes) : bytes[t].c = "delim"
  <2>1. NextDelim + 1 \in (p + 2)..Len(bytes)
    <3>1. \A x, y, z \in Nat : x <= y - 1 /\ y < z => y + 1 \in (x + 2)..z
      OBVIOUS
    <3>2. p <= NextDelim - 1 /\ NextDelim \in Nat
      BY <1>1, <1>2
    <3> QED
      BY <1>4, <1>5, <3>1, <3>2
  <2> QED
    BY <1>4, <2>1
<1>9. bytes[p + 1].of = "secret" <=> Named(lines) /\ PartValue <= p /\ p < NextDelim - 2
  BY <1>6, <1>7
<1> QED
  BY <1>3, <1>8, <1>9 DEF InSecret

\* A turn tags its part as it should.
LEMMA NextPartKeeps == PartInvariant /\ NextPart => PartInvariant'
<1> SUFFICES ASSUME PartInvariant, NextPart
             PROVE  PartInvariant'
  OBVIOUS
<1>1. bytes' = bytes /\ pos' = NextDelim /\ looking' = looking /\ looking = TRUE /\ HasPart
  <2>1. looking \in BOOLEAN
    BY DEF PartInvariant, PartTypeOK
  <2> QED
    BY <2>1 DEF NextPart
<1> DEFINE C == FieldIsSecret(PartStart, HeaderEnd)
           B == NextDelim - 2
<1>2. partSpans' = IF C /\ PartValue < B
                   THEN Append(partSpans, [start |-> PartValue, end |-> B, level |-> PartLevel, rule |-> 0])
                   ELSE partSpans
  BY DEF NextPart
<1>3. /\ bytes \in Bodies /\ pos \in Nat /\ partSpans \in Seq(PartSpan)
      /\ \A k \in DOMAIN partSpans : partSpans[k].end <= pos
  <2>1. bytes \in Bodies /\ pos \in 0..Len(bytes)
    BY DEF PartInvariant, PartTypeOK
  <2>2. partSpans \in Seq(PartSpan) /\ \A k \in DOMAIN partSpans : partSpans[k].end <= pos
    BY DEF PartInvariant, PartTypeOK, PartSpan
  <2> QED
    BY <2>1, <2>2
<1>4. bytes \in Seq(Cell) /\ Len(bytes) \in Nat
  BY <1>3, BodyHolds
<1>5. /\ PartValue \in Nat /\ NextDelim \in Nat /\ pos < PartValue /\ PartValue <= NextDelim
      /\ NextDelim < Len(bytes) /\ bytes[NextDelim + 1].c = "delim"
  BY <1>1, <1>3, <1>4, PartIsAhead
<1>6. B \in Int /\ B <= NextDelim
  BY <1>5
<1> HIDE DEF B, C
<1>7. /\ partSpans' \in Seq(PartSpan)
      /\ \A k \in DOMAIN partSpans' :
            (k \in DOMAIN partSpans /\ partSpans'[k] = partSpans[k]) \/ partSpans'[k].end = B
      /\ \A p \in Int : (\E k \in DOMAIN partSpans' : partSpans'[k].start <= p /\ p < partSpans'[k].end)
            <=> \/ \E k \in DOMAIN partSpans : partSpans[k].start <= p /\ p < partSpans[k].end
                \/ C /\ PartValue <= p /\ p < B
  <2> DEFINE new == partSpans'
  <2>1. new = IF C /\ PartValue < B
              THEN Append(partSpans, [start |-> PartValue, end |-> B, level |-> PartLevel, rule |-> 0])
              ELSE partSpans
    BY <1>2
  <2> HIDE DEF new
  <2> DEFINE a == PartValue
  <2>2. a \in Nat /\ C \in BOOLEAN
    BY <1>5 DEF C, FieldIsSecret, Named
  <2>3. new = IF C /\ a < B
              THEN Append(partSpans, [start |-> a, end |-> B, level |-> PartLevel, rule |-> 0])
              ELSE partSpans
    BY <2>1
  <2> HIDE DEF a
  <2>4. TagsMore(new, partSpans, C, a, B)
    BY <1>3, <1>6, <2>2, <2>3, PartIsTagged
  <2> QED
    BY <2>4 DEF TagsMore, new, a
<1>8. \A k \in DOMAIN partSpans' : partSpans'[k].end <= NextDelim
  <2> TAKE k \in DOMAIN partSpans'
  <2>1. CASE k \in DOMAIN partSpans /\ partSpans'[k] = partSpans[k]
    <3>1. partSpans[k].end <= pos /\ partSpans[k].end \in Nat
      <4>1. partSpans[k] \in PartSpan
        BY <1>3, <2>1
      <4> QED
        BY <1>3, <2>1, <4>1 DEF PartSpan
    <3> QED
      BY <1>3, <1>5, <2>1, <3>1
  <2>2. CASE partSpans'[k].end = B
    BY <1>6, <2>2
  <2> QED
    BY <1>7, <2>1, <2>2
<1>9. PartTypeOK'
  <2>1. bytes' \in Bodies /\ pos' \in 0..Len(bytes') /\ looking' \in BOOLEAN
    BY <1>1, <1>3, <1>4, <1>5
  <2>2. partSpans' \in Seq([start : Nat, end : Nat, level : {PartLevel}, rule : {0}])
    BY <1>7 DEF PartSpan
  <2>3. \A k \in DOMAIN partSpans' : partSpans'[k].end <= pos'
    BY <1>1, <1>8
  <2> QED
    BY <2>1, <2>2, <2>3 DEF PartTypeOK
<1>10. Regular' <=> Regular
  BY <1>1 DEF Regular
<1>11. \A p : InSecret(p)' <=> InSecret(p)
  BY <1>1 DEF InSecret
<1>12. \A p \in Int : InPart(p)' <=> InPart(p) \/ (C /\ PartValue <= p /\ p < B)
  BY <1>7 DEF InPart
<1>13. ASSUME Regular, NEW p \in 0..(NextDelim - 1)
       PROVE  InSecret(p) <=> InPart(p)'
  <2>1. CASE p < pos
    <3>1. p \in 0..(pos - 1) /\ ~(PartValue <= p) /\ p \in Int
      BY <1>3, <1>5, <2>1
    <3>2. InSecret(p) <=> InPart(p)
      BY <1>13, <3>1 DEF PartInvariant, DelimiterIsNext
    <3> QED
      BY <1>12, <3>1, <3>2
  <2>2. CASE p >= pos
    <3>1. p \in pos..(NextDelim - 1) /\ p \in Int
      BY <1>3, <1>5, <2>2
    <3>2. pos = 0 \/ (pos < Len(bytes) /\ bytes[pos + 1].c = "delim")
      BY <1>13 DEF PartInvariant, DelimiterIsNext
    <3>3. PICK lines \in Headers, k \in Nat, v \in Nat : Laid(pos, lines, k, v)
      BY <1>1, <1>3, <1>4, <1>13, <3>2, DelimiterStandsFor, OnlyPartsAreParts
    <3>4. InSecret(p) <=> C /\ PartValue <= p /\ p < B
      BY <1>1, <1>4, <3>1, <3>3, TurnTags DEF B, C
    <3>5. ~InPart(p)
      <4> SUFFICES ASSUME NEW t \in DOMAIN partSpans, p < partSpans[t].end
                   PROVE  FALSE
        BY DEF InPart
      <4>1. partSpans[t] \in PartSpan
        BY <1>3
      <4>2. partSpans[t].end \in Nat /\ partSpans[t].end <= pos
        BY <1>3, <4>1 DEF PartSpan
      <4> QED
        BY <1>3, <2>2, <3>1, <4>2
    <3> QED
      BY <1>12, <3>1, <3>4, <3>5
  <2>3. p \in Nat
    BY <1>5
  <2> QED
    BY <1>3, <2>1, <2>2, <2>3
<1>14. DelimiterIsNext'
  <2>1. ASSUME Regular
        PROVE  /\ pos' < Len(bytes') /\ bytes'[pos' + 1].c = "delim"
               /\ \A p \in 0..(pos' - 1) : InSecret(p)' <=> InPart(p)'
               /\ looking'
    BY <1>1, <1>5, <1>11, <1>13, <2>1
  <2> QED
    BY <1>10, <2>1 DEF DelimiterIsNext
<1> QED
  BY <1>9, <1>14 DEF PartInvariant

\* What scanMultipart has looked at is tagged as it should be, at any moment.
THEOREM PartInvariantHolds == PartSpec => []PartInvariant
<1>1. PartInit => PartInvariant
  BY PartInitHolds
<1>2. PartInvariant /\ [PartScanNext]_partVars => PartInvariant'
  BY NextPartKeeps, PartsEndKeeps, PartStutters DEF PartScanNext
<1> QED
  BY <1>1, <1>2, PTL DEF PartSpec

\* When the loop has stopped, all of the body is tagged as it should be.
LEMMA PartInvariantTags == PartInvariant => PartsAreTagged
<1> SUFFICES ASSUME PartInvariant, ~looking, Regular, NEW p \in 0..(Len(bytes) - 1)
             PROVE  InSecret(p) <=> InPart(p)
  BY DEF PartsAreTagged
<1>1. pos \in 0..Len(bytes) /\ Len(bytes) \in Nat
  BY BodyHolds DEF PartInvariant, PartTypeOK
<1>2. CASE p \in 0..(pos - 1)
  BY <1>2 DEF PartInvariant, DelimiterIsNext
<1>3. CASE p \in pos..(Len(bytes) - 1)
  <2>1. ~InSecret(p)
    BY <1>3 DEF PartInvariant, DelimiterIsNext
  <2>2. ~InPart(p)
    <3> SUFFICES ASSUME NEW k \in DOMAIN partSpans, p < partSpans[k].end
                 PROVE  FALSE
      BY DEF InPart
    <3>1. partSpans \in Seq(PartSpan) /\ partSpans[k].end <= pos
      BY DEF PartInvariant, PartTypeOK, PartSpan
    <3>2. partSpans[k] \in PartSpan
      BY <3>1
    <3>3. partSpans[k].end \in Nat
      BY <3>2 DEF PartSpan
    <3> QED
      BY <1>1, <1>3, <3>1, <3>3
  <2> QED
    BY <2>1, <2>2
<1>4. p \in 0..(pos - 1) \/ p \in pos..(Len(bytes) - 1)
  BY <1>1
<1> QED
  BY <1>2, <1>3, <1>4

\* "tags named form-field values inside a multipart body", for any body of
\* parts, any headers and values, and any number of them.
THEOREM PartsAlwaysTagged == PartSpec => []PartsAreTagged
  BY PartInvariantHolds, PartInvariantTags, PTL

-----------------------------------------------------------------------------
(* What Render is given                                                    *)

\* The spans that reach the level are kept, and no others.
LEMMA ReachingHolds ==
    ASSUME NEW V, NEW all \in Seq(V), NEW level
    PROVE  /\ Reaching(level, all) \in Seq(V)
           /\ \A x : (\E i \in DOMAIN Reaching(level, all) : Reaching(level, all)[i] = x) <=>
                     \E j \in DOMAIN all : all[j] = x /\ x.level >= level
<1> DEFINE n == Len(all)
           W == Seq(V)
           a == <<>>
           Kept(v, i) == IF all[i].level >= level THEN Append(v, all[i]) ELSE v
           g == [v \in W |-> [i \in 1..n |-> Kept(v, i)]]
           Is(x) == x = [i \in 0..n |-> IF i = 0 THEN a
                                        ELSE IF all[i].level >= level THEN Append(x[i - 1], all[i]) ELSE x[i - 1]]
           kept == CHOOSE x : Is(x)
<1>1. n \in Nat /\ a \in W /\ DOMAIN all = 1..n /\ \A i \in 1..n : all[i] \in V
  OBVIOUS
<1>2. Reaching(level, all) = kept[n]
  BY DEF Reaching
<1>3. \A v \in W, i \in 1..n : Kept(v, i) \in W
  BY <1>1
<1>4. PICK f : Turns(f, W, a, n, g)
  <2>1. \A v \in W, i \in 1..n : g[v][i] \in W
    <3> HIDE DEF Kept, W
    <3> QED
      BY <1>3
  <2> HIDE DEF g, W, a, n
  <2> QED
    BY <1>1, <2>1, LoopRuns
<1>5. f \in [0..n -> W] /\ f[0] = a /\ \A i \in 1..n : f[i] = Kept(f[i - 1], i)
  <2>1. f \in [0..n -> W] /\ f[0] = a /\ \A i \in 1..n : f[i] = g[f[i - 1]][i]
    <3> HIDE DEF g, W, a, n
    <3> QED
      BY <1>4 DEF Turns
  <2>2. \A i \in 1..n : f[i - 1] \in W
    <3> HIDE DEF W, g
    <3>1. \A i \in 1..n : i - 1 \in 0..n
      BY <1>1
    <3> QED
      BY <2>1, <3>1
  <2>3. \A v \in W, i \in 1..n : g[v][i] = Kept(v, i)
    <3> HIDE DEF W, Kept, n
    <3> QED
      OBVIOUS
  <2> HIDE DEF g, W, a, n, Kept
  <2> QED
    BY <2>1, <2>2, <2>3
<1>6. Is(f)
  <2>1. \A i \in 0..n : f[i] = IF i = 0 THEN a
                              ELSE IF all[i].level >= level THEN Append(f[i - 1], all[i]) ELSE f[i - 1]
    <3> TAKE i \in 0..n
    <3>1. i = 0 \/ i \in 1..n
      BY <1>1
    <3> HIDE DEF n, a, W
    <3> QED
      BY <1>5, <3>1
  <2>2. f = [i \in 0..n |-> f[i]]
    <3> HIDE DEF n, W
    <3> QED
      BY <1>5
  <2> HIDE DEF n, W, a
  <2> QED
    BY <2>1, <2>2
<1>7. Is(kept)
  <2> HIDE DEF Is
  <2> QED
    BY <1>6
<1> HIDE DEF kept
<1>8. \A i \in 0..n : kept[i] = IF i = 0 THEN a
                               ELSE IF all[i].level >= level THEN Append(kept[i - 1], all[i]) ELSE kept[i - 1]
  <2> HIDE DEF n, a
  <2> QED
    BY <1>7
<1> HIDE DEF Is, g
<1> DEFINE Has(s, x) == \E i \in DOMAIN s : s[i] = x
           Good(m) == /\ kept[m] \in W
                      /\ \A x : Has(kept[m], x) <=> \E j \in 1..m : all[j] = x /\ x.level >= level
           T == {m \in Nat : m <= n => Good(m)}
<1>9. 0 \in T
  <2>1. kept[0] = a
    BY <1>1, <1>8
  <2>2. Good(0)
    BY <1>1, <2>1
  <2> QED
    BY <2>2
<1>10. ASSUME NEW m \in Nat, m \in T
       PROVE  m + 1 \in T
  <2> SUFFICES ASSUME m + 1 <= n
               PROVE  Good(m + 1)
    OBVIOUS
  <2>1. /\ m + 1 \in 0..n /\ m + 1 \in 1..n /\ (m + 1) - 1 = m /\ m + 1 # 0
        /\ \A j \in 1..(m + 1) : j \in 1..m \/ j = m + 1
        /\ \A j \in 1..m : j \in 1..(m + 1)
        /\ m + 1 \in 1..(m + 1)
    BY <1>1
  <2>2. m <= n
    BY <1>1
  <2>3. Good(m)
    BY <1>10, <2>2
  <2>4. all[m + 1] \in V
    BY <1>1, <2>1
  <2> DEFINE e == all[m + 1]
  <2>5. CASE e.level >= level
    <3>1. kept[m + 1] = Append(kept[m], e)
      BY <1>8, <2>1, <2>5
    <3>2. /\ kept[m + 1] \in W
          /\ \A x : Has(kept[m + 1], x) <=> Has(kept[m], x) \/ x = e
      <4> DEFINE s == kept[m]
      <4>1. s \in Seq(V) /\ e \in V
        BY <2>3, <2>4
      <4> HIDE DEF s, e
      <4>2. /\ Append(s, e) \in Seq(V) /\ Len(s) \in Nat /\ DOMAIN s = 1..Len(s)
            /\ DOMAIN Append(s, e) = 1..(Len(s) + 1)
            /\ \A i \in 1..Len(s) : Append(s, e)[i] = s[i]
            /\ Append(s, e)[Len(s) + 1] = e
        BY <4>1
      <4>3. \A i \in 1..(Len(s) + 1) : i \in 1..Len(s) \/ i = Len(s) + 1
        BY <4>2
      <4>4. Len(s) + 1 \in 1..(Len(s) + 1) /\ \A i \in 1..Len(s) : i \in 1..(Len(s) + 1)
        BY <4>2
      <4>5. \A x : Has(Append(s, e), x) <=> Has(s, x) \/ x = e
        BY <4>2, <4>3, <4>4
      <4> QED
        BY <3>1, <4>2, <4>5 DEF s
    <3>3. \A x : (\E j \in 1..(m + 1) : all[j] = x /\ x.level >= level) <=>
                 (\E j \in 1..m : all[j] = x /\ x.level >= level) \/ x = e
      BY <2>1, <2>5
    <3> HIDE DEF Has, e, W
    <3> QED
      BY <2>3, <3>2, <3>3
  <2>6. CASE ~(e.level >= level)
    <3>1. kept[m + 1] = kept[m]
      BY <1>8, <2>1, <2>6
    <3>2. \A x : (\E j \in 1..(m + 1) : all[j] = x /\ x.level >= level) <=>
                 (\E j \in 1..m : all[j] = x /\ x.level >= level)
      BY <2>1, <2>6
    <3> HIDE DEF Has, e, W
    <3> QED
      BY <2>3, <3>1, <3>2
  <2> QED
    BY <2>5, <2>6
<1> HIDE DEF T
<1>11. n \in T
  BY <1>1, <1>9, <1>10, NumbersInSteps
<1>12. Good(n)
  BY <1>1, <1>11 DEF T
<1>13. /\ kept[n] \in Seq(V)
       /\ \A x : (\E i \in DOMAIN kept[n] : kept[n][i] = x) <=> \E j \in 1..n : all[j] = x /\ x.level >= level
  BY <1>12
<1> DEFINE K == kept[n]
<1>14. /\ K \in Seq(V)
       /\ \A x : (\E i \in DOMAIN K : K[i] = x) <=> \E j \in DOMAIN all : all[j] = x /\ x.level >= level
  BY <1>1, <1>13
<1>15. Reaching(level, all) = K
  BY <1>2
<1> HIDE DEF K
<1> QED
  BY <1>14, <1>15

Among(s, x) == \E i \in DOMAIN s : s[i] = x

\* What two sequences joined hold is what either holds.
LEMMA JoinedAmong ==
    ASSUME NEW S, NEW s \in Seq(S), NEW t \in Seq(S)
    PROVE  \A x : Among(s \o t, x) <=> Among(s, x) \/ Among(t, x)
<1> DEFINE u == s \o t
<1>1. u \in Seq(S) /\ Joined(u, s, t)
  BY JoinedHolds
<1>2. /\ Len(s) \in Nat /\ Len(t) \in Nat /\ DOMAIN s = 1..Len(s) /\ DOMAIN t = 1..Len(t)
      /\ DOMAIN u = 1..Len(u)
  <2> HIDE DEF u
  <2> QED
    BY <1>1
<1> HIDE DEF u
<1>3. Len(u) = Len(s) + Len(t)
  BY <1>1 DEF Joined
<1>4. ASSUME NEW x, Among(u, x)
      PROVE  Among(s, x) \/ Among(t, x)
  <2>1. PICK i \in 1..Len(u) : u[i] = x
    BY <1>2, <1>4 DEF Among
  <2>2. CASE i \in 1..Len(s)
    BY <1>1, <1>2, <2>1, <2>2 DEF Joined, Among
  <2>3. CASE i \notin 1..Len(s)
    <3>1. i - Len(s) \in 1..Len(t) /\ Len(s) + (i - Len(s)) = i
      BY <1>2, <1>3, <2>3
    <3>2. t[i - Len(s)] = x
      BY <1>1, <2>1, <3>1 DEF Joined
    <3> QED
      BY <1>2, <3>1, <3>2 DEF Among
  <2> QED
    BY <2>2, <2>3
<1>5. ASSUME NEW x, Among(s, x)
      PROVE  Among(u, x)
  <2>1. PICK i \in 1..Len(s) : s[i] = x
    BY <1>2, <1>5 DEF Among
  <2>2. i \in 1..Len(u)
    BY <1>2, <1>3
  <2> QED
    BY <1>1, <1>2, <2>1, <2>2 DEF Among, Joined
<1>6. ASSUME NEW x, Among(t, x)
      PROVE  Among(u, x)
  <2>1. PICK i \in 1..Len(t) : t[i] = x
    BY <1>2, <1>6 DEF Among
  <2>2. Len(s) + i \in 1..Len(u)
    BY <1>2, <1>3
  <2> QED
    BY <1>1, <1>2, <2>1, <2>2 DEF Among, Joined
<1> QED
  BY <1>4, <1>5, <1>6 DEF u

\* The spans the scanners tag.
FoundSpan == [start : Nat, end : Nat, level : Int, rule : Rules]

-----------------------------------------------------------------------------
(* The render                                                              *)

FrameKind == {"method", "blank", "path", "mark", "rest"}
PlainKind == FrameKind \cup {"query", "body"}
PlainCell == [of : PlainKind, at : Nat]

\* A piece of the render, by the places in it.
LEMMA CellsHold ==
    ASSUME NEW of \in PlainKind, NEW n \in Nat
    PROVE  /\ Cells(of, n) \in Seq(PlainCell) /\ Len(Cells(of, n)) = n
           /\ \A k \in 1..n : Cells(of, n)[k].of = of /\ Cells(of, n)[k].at = k - 1
<1>1. \A k \in 1..n : [of |-> of, at |-> k - 1] \in PlainCell
  BY DEF PlainCell
<1>2. Cells(of, n) \in [1..n -> PlainCell]
  BY <1>1 DEF Cells
<1>3. Cells(of, n) \in Seq(PlainCell) /\ Len(Cells(of, n)) = n
  BY <1>2
<1> QED
  BY <1>3 DEF Cells

\* Neither is of the query, nor of the body.
LEMMA FrameCellsHold ==
    ASSUME NEW of \in FrameKind, NEW n \in Nat
    PROVE  /\ Cells(of, n) \in Seq(PlainCell) /\ Len(Cells(of, n)) = n
           /\ \A k \in 1..Len(Cells(of, n)) :
                 Cells(of, n)[k].of = of /\ Cells(of, n)[k].of \notin {"query", "body"}
<1>1. of \in PlainKind /\ of \notin {"query", "body"}
  BY DEF PlainKind, FrameKind
<1>2. /\ Cells(of, n) \in Seq(PlainCell) /\ Len(Cells(of, n)) = n
      /\ \A k \in 1..n : Cells(of, n)[k].of = of
  BY <1>1, CellsHold
<1> QED
  BY <1>1, <1>2

\* The places of a query are those from q on, m of them, and there is no body.
QueryIs(s, q, m) ==
    \A k \in 1..Len(s) :
        /\ s[k].of # "body"
        /\ s[k].of = "query" <=> q < k /\ k <= q + m
        /\ s[k].of = "query" => s[k].at = k - 1 - q

\* What is written behind the query leaves it where it is.
LEMMA QueryStays ==
    ASSUME NEW s \in Seq(PlainCell), NEW t \in Seq(PlainCell), NEW q \in Nat, NEW m \in Nat,
           QueryIs(s, q, m), m > 0 => q + m <= Len(s),
           \A k \in 1..Len(t) : t[k].of \notin {"query", "body"}
    PROVE  QueryIs(s \o t, q, m) /\ s \o t \in Seq(PlainCell) /\ Len(s \o t) = Len(s) + Len(t)
<1> DEFINE u == s \o t
<1>1. u \in Seq(PlainCell) /\ Joined(u, s, t)
  BY JoinedHolds
<1> HIDE DEF u
<1>2. Len(s) \in Nat /\ Len(t) \in Nat /\ Len(u) = Len(s) + Len(t)
  BY <1>1 DEF Joined
<1>3. ASSUME NEW k \in 1..Len(u)
      PROVE  /\ u[k].of # "body"
             /\ u[k].of = "query" <=> q < k /\ k <= q + m
             /\ u[k].of = "query" => u[k].at = k - 1 - q
  <2>1. CASE k \in 1..Len(s)
    <3>1. u[k] = s[k]
      BY <1>1, <2>1 DEF Joined
    <3> QED
      BY <2>1, <3>1 DEF QueryIs
  <2>2. CASE k \notin 1..Len(s)
    <3>1. k - Len(s) \in 1..Len(t) /\ Len(s) + (k - Len(s)) = k
      BY <1>2, <2>2
    <3>2. u[k].of \notin {"query", "body"}
      <4>1. u[Len(s) + (k - Len(s))] = t[k - Len(s)]
        BY <1>1, <3>1 DEF Joined
      <4> QED
        BY <3>1, <4>1
    <3>3. ~(q < k /\ k <= q + m)
      BY <1>2, <2>2
    <3> QED
      BY <3>2, <3>3
  <2> QED
    BY <2>1, <2>2
<1> QED
  BY <1>1, <1>2, <1>3 DEF QueryIs, u

\* The head has the query where the code believes it, if it has one.
LEMMA HeadHolds ==
    ASSUME FormTypeOK
    PROVE  LET m == IF HasQuery THEN Len(text) ELSE 0
           IN  /\ QueryBase \in Nat
               /\ HeadText \in Seq(PlainCell) /\ QueryIs(HeadText, QueryBase, m)
               /\ m > 0 => QueryBase + m <= Len(HeadText)
<1> DEFINE m == IF HasQuery THEN Len(text) ELSE 0
           ma == Cells("method", MethodLen)
           mb == ma \o Cells("blank", 1)
           head == UpToQuery \o QueryPart
           rest == Cells("rest", RestLen)
<1>k. /\ "method" \in FrameKind /\ "blank" \in FrameKind /\ "path" \in FrameKind
      /\ "mark" \in FrameKind /\ "rest" \in FrameKind /\ "query" \in PlainKind
  BY DEF FrameKind, PlainKind
<1>1. MethodLen \in Nat /\ PathLen \in Nat /\ RestLen \in Nat /\ Len(text) \in Nat /\ m \in Nat
  BY HeadAssumption DEF HeadAssumption, FormTypeOK
<1>2. QueryBase \in Nat /\ QueryBase = MethodLen + 1 + PathLen + 1
  BY <1>1 DEF QueryBase
<1>3. /\ UpToQuery \in Seq(PlainCell) /\ Len(UpToQuery) = QueryBase - 1
      /\ \A k \in 1..Len(UpToQuery) : UpToQuery[k].of \notin {"query", "body"}
  <2>1. QueryIs(<<>>, 0, 0) /\ <<>> \in Seq(PlainCell) /\ Len(<<>>) = 0
    BY DEF QueryIs
  <2>2. /\ ma \in Seq(PlainCell) /\ Len(ma) = MethodLen
        /\ \A k \in 1..Len(ma) : ma[k].of \notin {"query", "body"}
    BY <1>k, <1>1, FrameCellsHold
  <2>3. QueryIs(ma, 0, 0)
    BY <1>1, <2>2 DEF QueryIs
  <2>4. /\ Cells("blank", 1) \in Seq(PlainCell) /\ Len(Cells("blank", 1)) = 1
        /\ \A k \in 1..Len(Cells("blank", 1)) : Cells("blank", 1)[k].of \notin {"query", "body"}
    BY <1>k, FrameCellsHold
  <2> HIDE DEF ma
  <2>z. 0 \in Nat /\ ~(0 > 0)
    OBVIOUS
  <2>5. QueryIs(mb, 0, 0) /\ mb \in Seq(PlainCell) /\ Len(mb) = MethodLen + 1
    <3> DEFINE b == Cells("blank", 1)
    <3> HIDE DEF b
    <3>1. b \in Seq(PlainCell) /\ Len(b) = 1 /\ \A k \in 1..Len(b) : b[k].of \notin {"query", "body"}
      BY <2>4 DEF b
    <3>2. /\ QueryIs(ma \o b, 0, 0) /\ ma \o b \in Seq(PlainCell)
          /\ Len(ma \o b) = Len(ma) + Len(b)
      BY <2>2, <2>3, <2>z, <3>1, QueryStays
    <3> QED
      BY <2>2, <3>1, <3>2 DEF b
  <2>6. /\ Cells("path", PathLen) \in Seq(PlainCell) /\ Len(Cells("path", PathLen)) = PathLen
        /\ \A k \in 1..Len(Cells("path", PathLen)) :
              Cells("path", PathLen)[k].of \notin {"query", "body"}
    BY <1>k, <1>1, FrameCellsHold
  <2> HIDE DEF mb
  <2>7. /\ QueryIs(mb \o Cells("path", PathLen), 0, 0)
        /\ mb \o Cells("path", PathLen) \in Seq(PlainCell)
        /\ Len(mb \o Cells("path", PathLen)) = MethodLen + 1 + PathLen
    <3> DEFINE b == Cells("path", PathLen)
    <3> HIDE DEF b
    <3>1. b \in Seq(PlainCell) /\ Len(b) = PathLen
          /\ \A k \in 1..Len(b) : b[k].of \notin {"query", "body"}
      BY <2>6 DEF b
    <3>2. /\ QueryIs(mb \o b, 0, 0) /\ mb \o b \in Seq(PlainCell)
          /\ Len(mb \o b) = Len(mb) + Len(b)
      BY <2>5, <2>z, <3>1, QueryStays
    <3> QED
      BY <2>5, <3>1, <3>2 DEF b
  <2>8. UpToQuery = mb \o Cells("path", PathLen)
    BY DEF UpToQuery, mb, ma
  <2>9. \A k \in 1..Len(UpToQuery) : UpToQuery[k].of \notin {"query", "body"}
    <3> TAKE k \in 1..Len(UpToQuery)
    <3>1. Len(UpToQuery) \in Nat
      BY <1>1, <2>7, <2>8
    <3>2. k > 0
      BY <3>1
    <3> QED
      BY <2>7, <2>8, <3>2 DEF QueryIs
  <2> QED
    BY <1>1, <1>2, <2>7, <2>8, <2>9
<1>4. head \in Seq(PlainCell) /\ QueryIs(head, QueryBase, m) /\ (m > 0 => QueryBase + m <= Len(head))
  <2>1. CASE ~HasQuery
    <3>1. m = 0 /\ head = UpToQuery
      BY <1>3, <2>1 DEF QueryPart
    <3>2. \A k \in 1..Len(UpToQuery) : ~(QueryBase < k /\ k <= QueryBase + 0)
      BY <1>2
    <3>3. QueryIs(UpToQuery, QueryBase, 0)
      BY <1>3, <3>2 DEF QueryIs
    <3> HIDE DEF m, head
    <3> QED
      BY <1>3, <3>1, <3>3
  <2>2. CASE HasQuery
    <3> DEFINE mark == Cells("mark", 1)
               query == Cells("query", Len(text))
               part == mark \o query
    <3>1. /\ mark \in Seq(PlainCell) /\ Len(mark) = 1 /\ mark[1].of = "mark"
          /\ query \in Seq(PlainCell) /\ Len(query) = Len(text)
          /\ \A k \in 1..Len(text) : query[k].of = "query" /\ query[k].at = k - 1
      <4>1. /\ mark \in Seq(PlainCell) /\ Len(mark) = 1
            /\ \A k \in 1..Len(mark) : mark[k].of = "mark"
        BY <1>k, FrameCellsHold
      <4>2. /\ query \in Seq(PlainCell) /\ Len(query) = Len(text)
            /\ \A k \in 1..Len(text) : query[k].of = "query" /\ query[k].at = k - 1
        BY <1>k, <1>1, CellsHold
      <4> HIDE DEF mark, query
      <4> QED
        BY <4>1, <4>2
    <3>2. part \in Seq(PlainCell) /\ Joined(part, mark, query)
      BY <3>1, JoinedHolds
    <3>3. QueryPart = part /\ m = Len(text)
      BY <2>2 DEF QueryPart
    <3> HIDE DEF mark, query, part, m
    <3>4. head \in Seq(PlainCell) /\ Joined(head, UpToQuery, QueryPart)
      BY <1>3, <3>2, <3>3, JoinedHolds
    <3> HIDE DEF head
    <3>5. Len(QueryPart) = 1 + m /\ Len(head) = QueryBase + m
      BY <1>1, <1>2, <1>3, <3>1, <3>2, <3>3, <3>4 DEF Joined
    <3>6. ASSUME NEW k \in 1..Len(head)
          PROVE  /\ head[k].of # "body"
                 /\ head[k].of = "query" <=> QueryBase < k /\ k <= QueryBase + m
                 /\ head[k].of = "query" => head[k].at = k - 1 - QueryBase
      <4>1. CASE k < QueryBase
        <5>1. k \in 1..Len(UpToQuery)
          BY <1>2, <1>3, <4>1
        <5>2. head[k] = UpToQuery[k]
          BY <3>4, <5>1 DEF Joined
        <5> QED
          BY <1>2, <1>3, <4>1, <5>1, <5>2
      <4>2. CASE k = QueryBase
        <5>1. 1 \in 1..Len(QueryPart) /\ Len(UpToQuery) + 1 = QueryBase
          BY <1>1, <1>2, <1>3, <3>5
        <5>2. head[QueryBase] = QueryPart[1]
          BY <3>4, <5>1 DEF Joined
        <5>3. QueryPart[1] = mark[1]
          BY <3>1, <3>2, <3>3 DEF Joined
        <5> QED
          BY <1>2, <3>1, <4>2, <5>2, <5>3
      <4>3. CASE k > QueryBase
        <5> DEFINE i == k - QueryBase
        <5>1. i \in 1..m /\ i + 1 \in 1..Len(QueryPart) /\ Len(UpToQuery) + (i + 1) = k
          BY <1>1, <1>2, <1>3, <3>5, <4>3
        <5>2. i - 1 = k - 1 - QueryBase
          BY <1>2
        <5> HIDE DEF i
        <5>3. head[k] = QueryPart[i + 1]
          BY <3>4, <5>1 DEF Joined
        <5>4. QueryPart[1 + i] = query[i] /\ 1 + i = i + 1
          BY <1>1, <3>1, <3>2, <3>3, <5>1 DEF Joined
        <5>5. head[k].of = "query" /\ head[k].at = k - 1 - QueryBase
          BY <3>1, <3>3, <5>1, <5>2, <5>3, <5>4
        <5>6. QueryBase < k /\ k <= QueryBase + m
          BY <1>1, <1>2, <3>5, <4>3
        <5> QED
          BY <5>5, <5>6
      <4> QED
        BY <1>2, <4>1, <4>2, <4>3
    <3>7. QueryBase + m <= Len(head)
      BY <1>1, <1>2, <3>5
    <3> QED
      BY <3>4, <3>6, <3>7 DEF QueryIs
  <2> QED
    BY <2>1, <2>2
<1>5. /\ rest \in Seq(PlainCell) /\ Len(rest) = RestLen
      /\ \A k \in 1..Len(rest) : rest[k].of \notin {"query", "body"}
  BY <1>k, <1>1, FrameCellsHold
<1>6. HeadText = head \o rest
  BY DEF HeadText
<1> HIDE DEF head, rest, m
<1>7. /\ QueryIs(head \o rest, QueryBase, m) /\ head \o rest \in Seq(PlainCell)
      /\ Len(head \o rest) = Len(head) + Len(rest)
  BY <1>1, <1>2, <1>4, <1>5, QueryStays
<1>8. Len(head) \in Nat /\ Len(rest) \in Nat
  BY <1>4, <1>5
<1>9. m > 0 => QueryBase + m <= Len(HeadText)
  BY <1>1, <1>2, <1>4, <1>6, <1>7, <1>8
<1> QED
  BY <1>2, <1>6, <1>7, <1>9 DEF m

\* What is at a place of the render: the body behind the blank line, the query
\* where the code believes it.
At(p) == PlainText[p + 1]
PlainHolds ==
    /\ QueryBase \in Nat /\ BodyBase \in Nat /\ BodyLen \in Nat /\ FieldBase \in Nat
    /\ Len(HeadText) \in Nat /\ Len(PlainText) = BodyBase + BodyLen
    /\ \A p \in 0..(Len(PlainText) - 1) :
          /\ At(p).of = "body" <=> BodyBase <= p
          /\ At(p).of = "body" => At(p).at = p - BodyBase
          /\ At(p).of = "query" <=> HasQuery /\ QueryBase <= p /\ p < QueryBase + Len(text)
          /\ At(p).of = "query" => At(p).at = p - QueryBase

\* So it is, for any lengths.
LEMMA PlainTextHolds ==
    ASSUME FormTypeOK, ScanTypeOK, bytes \in Seq(Cell)
    PROVE  PlainHolds
<1> DEFINE m == IF HasQuery THEN Len(text) ELSE 0
           front == HeadText \o Blank
           body_ == Cells("body", BodyLen)
<1>k. "blank" \in FrameKind /\ "body" \in PlainKind
  BY DEF FrameKind, PlainKind
<1>1. /\ Len(text) \in Nat /\ Len(tokens) \in Nat /\ Len(bytes) \in Nat /\ OpaqueLen \in Nat
  BY HeadAssumption DEF HeadAssumption, FormTypeOK, ScanTypeOK
<1>2. BodyLen \in Nat
  <2>1. \A a, b, c, d \in Nat : a + b + c + d \in Nat
    OBVIOUS
  <2>2. (IF body = "form" THEN Len(text) ELSE 0) \in Nat /\ (IF body \in Opaque THEN OpaqueLen ELSE 0) \in Nat
    BY <1>1
  <2> QED
    BY <1>1, <2>1, <2>2 DEF BodyLen
<1>3. /\ QueryBase \in Nat /\ HeadText \in Seq(PlainCell)
      /\ QueryIs(HeadText, QueryBase, m) /\ (m > 0 => QueryBase + m <= Len(HeadText))
  BY HeadHolds
<1>4. /\ Blank \in Seq(PlainCell) /\ \A k \in 1..Len(Blank) : Blank[k].of \notin {"query", "body"}
  <2>1. /\ Cells("blank", 1) \in Seq(PlainCell)
        /\ \A k \in 1..Len(Cells("blank", 1)) : Cells("blank", 1)[k].of \notin {"query", "body"}
    BY <1>k, FrameCellsHold
  <2> QED
    BY <2>1 DEF Blank
<1>5. m \in Nat
  BY <1>1
<1>m. (m > 0 <=> HasQuery /\ Len(text) > 0) /\ (HasQuery => m = Len(text)) /\ (~HasQuery => m = 0)
  BY <1>1
<1> HIDE DEF m
<1>6. /\ QueryIs(front, QueryBase, m) /\ front \in Seq(PlainCell)
      /\ Len(front) = Len(HeadText) + Len(Blank)
  BY <1>3, <1>4, <1>5, QueryStays
<1>7. BodyBase = Len(front) /\ PlainText = front \o body_
  BY DEF BodyBase, PlainText
<1>8. /\ body_ \in Seq(PlainCell) /\ Len(body_) = BodyLen
      /\ \A k \in 1..BodyLen : body_[k].of = "body" /\ body_[k].at = k - 1
  BY <1>k, <1>2, CellsHold
<1> HIDE DEF front, body_
<1>9. PlainText \in Seq(PlainCell) /\ Joined(PlainText, front, body_)
  BY <1>6, <1>7, <1>8, JoinedHolds
<1>10. /\ BodyBase \in Nat /\ Len(HeadText) \in Nat /\ Len(Blank) \in Nat
       /\ Len(PlainText) = BodyBase + BodyLen
  BY <1>3, <1>4, <1>6, <1>7, <1>8, <1>9 DEF Joined
<1>11. FieldBase \in Nat
  BY <1>3, <1>10 DEF FieldBase
<1>12. ASSUME NEW p \in 0..(Len(PlainText) - 1)
       PROVE  /\ At(p).of = "body" <=> BodyBase <= p
              /\ At(p).of = "body" => At(p).at = p - BodyBase
              /\ At(p).of = "query" <=> HasQuery /\ QueryBase <= p /\ p < QueryBase + Len(text)
              /\ At(p).of = "query" => At(p).at = p - QueryBase
  <2>1. CASE p < BodyBase
    <3> DEFINE k == p + 1
    <3>1. k \in 1..Len(front) /\ k - 1 - QueryBase = p - QueryBase /\ (QueryBase < k <=> QueryBase <= p)
          /\ (k <= QueryBase + m <=> p < QueryBase + m)
      BY <1>3, <1>5, <1>7, <1>10, <2>1
    <3>2. At(p) = PlainText[k]
      BY DEF At
    <3> HIDE DEF k
    <3>3. PlainText[k] = front[k]
      BY <1>9, <3>1 DEF Joined
    <3>4. /\ front[k].of # "body"
          /\ front[k].of = "query" <=> QueryBase < k /\ k <= QueryBase + m
          /\ front[k].of = "query" => front[k].at = k - 1 - QueryBase
      BY <1>6, <3>1 DEF QueryIs
    <3>5. ~(BodyBase <= p)
      BY <1>10, <2>1
    <3>6. QueryBase <= p /\ p < QueryBase + m <=>
             HasQuery /\ QueryBase <= p /\ p < QueryBase + Len(text)
      <4>1. CASE HasQuery
        BY <1>m, <4>1
      <4>2. CASE ~HasQuery
        BY <1>m, <1>3, <1>10, <4>2
      <4> QED
        BY <4>1, <4>2
    <3> QED
      BY <3>1, <3>2, <3>3, <3>4, <3>5, <3>6
  <2>2. CASE BodyBase <= p
    <3> DEFINE k == p - BodyBase + 1
    <3>1. k \in 1..BodyLen /\ BodyBase + k = p + 1 /\ k - 1 = p - BodyBase
      BY <1>2, <1>10, <2>2
    <3> HIDE DEF k
    <3>2. PlainText[BodyBase + k] = body_[k]
      BY <1>7, <1>8, <1>9, <3>1 DEF Joined
    <3>3. At(p).of = "body" /\ At(p).at = p - BodyBase
      BY <1>8, <3>1, <3>2 DEF At
    <3>4. ~(HasQuery /\ QueryBase <= p /\ p < QueryBase + Len(text))
      <4> SUFFICES ASSUME HasQuery, p < QueryBase + Len(text), QueryBase <= p PROVE FALSE
        OBVIOUS
      <4>1. m = Len(text)
        BY <1>m
      <4>2. m > 0
        BY <1>1, <1>3, <1>10, <4>1
      <4>3. Len(front) >= QueryBase + m
        BY <1>3, <1>5, <1>6, <1>10, <4>2
      <4> QED
        BY <1>3, <1>5, <1>7, <1>10, <2>2, <4>1, <4>3
    <3> QED
      BY <2>2, <3>3, <3>4
  <2> QED
    BY <1>10, <2>1, <2>2
<1> QED
  BY <1>2, <1>3, <1>10, <1>11, <1>12 DEF PlainHolds

-----------------------------------------------------------------------------
(* The spans, where they are in the render                                 *)

\* What is tagged is a sequence of spans.
LEMMA FoundAreSpans ==
    ASSUME FormTypeOK, ScanTypeOK, PartTypeOK
    PROVE  spans \in Seq(FoundSpan) /\ fields \in Seq(FoundSpan) /\ partSpans \in Seq(FoundSpan)
<1>0. {FieldLevel, PartLevel} \subseteq Int /\ {0} \cup DOMAIN Policy \subseteq Rules
  BY TagsAssumption DEF TagsAssumption
<1>1. spans \in Seq(FoundSpan)
  <2> DEFINE S == [start : Nat, end : Nat, level : Int, rule : DOMAIN Policy]
  <2>1. spans \in Seq(S)
    BY DEF ScanTypeOK
  <2>2. S \subseteq FoundSpan
    BY <1>0 DEF FoundSpan
  <2> HIDE DEF S
  <2> QED
    BY <2>1, <2>2
<1>2. fields \in Seq(FoundSpan)
  <2> DEFINE S == [start : Nat, end : Nat, level : {FieldLevel}, rule : {0}]
  <2>1. fields \in Seq(S)
    BY DEF FormTypeOK
  <2>2. S \subseteq FoundSpan
    BY <1>0 DEF FoundSpan
  <2> HIDE DEF S
  <2> QED
    BY <2>1, <2>2
<1>3. partSpans \in Seq(FoundSpan)
  <2> DEFINE S == [start : Nat, end : Nat, level : {PartLevel}, rule : {0}]
  <2>1. partSpans \in Seq(S)
    BY DEF PartTypeOK
  <2>2. S \subseteq FoundSpan
    BY <1>0 DEF FoundSpan
  <2> HIDE DEF S
  <2> QED
    BY <2>1, <2>2
<1> QED
  BY <1>1, <1>2, <1>3

\* A span moved covers what it covered, from where its part begins.
LEMMA MovedCovers ==
    ASSUME NEW y \in FoundSpan, NEW base \in Nat
    PROVE  /\ Moved(y, base) \in Span /\ Moved(y, base).level = y.level
           /\ \A p \in Int : Covers(Moved(y, base), p) <=> Covers(y, p - base)
<1> DEFINE z == [y EXCEPT !.start = @ + base]
           Z == [start : Int, end : Int, level : Int, rule : Rules]
<1>1. z \in Z
  BY DEF FoundSpan
<1> HIDE DEF z
<1>2. [z EXCEPT !.end = @ + base] \in Z
  BY <1>1
<1>3. Moved(y, base) = [z EXCEPT !.end = @ + base]
  BY DEF Moved, z
<1>4. y.start \in Nat /\ y.end \in Nat
  BY DEF FoundSpan
<1>5. /\ Moved(y, base).start = y.start + base /\ Moved(y, base).end = y.end + base
      /\ Moved(y, base).level = y.level
  BY DEF Moved, FoundSpan
<1> QED
  BY <1>2, <1>3, <1>4, <1>5 DEF Span, Levels, Covers

\* Spans moved one by one.
LEMMA MovedAmong ==
    ASSUME NEW s \in Seq(FoundSpan), NEW base \in Nat
    PROVE  /\ [k \in DOMAIN s |-> Moved(s[k], base)] \in Seq(Span)
           /\ \A x : Among([k \in DOMAIN s |-> Moved(s[k], base)], x) <=>
                     \E y : Among(s, y) /\ x = Moved(y, base)
<1> DEFINE n == Len(s)
           u == [k \in DOMAIN s |-> Moved(s[k], base)]
<1>1. n \in Nat /\ DOMAIN s = 1..n /\ \A k \in 1..n : s[k] \in FoundSpan
  OBVIOUS
<1> HIDE DEF n
<1>2. \A k \in 1..n : Moved(s[k], base) \in Span
  BY <1>1, MovedCovers
<1>3. u \in [1..n -> Span] /\ DOMAIN u = 1..n
  BY <1>1, <1>2
<1>4. u \in Seq(Span)
  BY <1>1, <1>3
<1>5. \A x : Among(u, x) <=> \E y : Among(s, y) /\ x = Moved(y, base)
  BY <1>1, <1>3 DEF Among
<1> QED
  BY <1>4, <1>5

\* What is tagged is moved to where the part is in the render.
LEMMA TaggedHolds ==
    ASSUME FormTypeOK, ScanTypeOK, PartTypeOK, FieldBase \in Nat, BodyBase \in Nat
    PROVE  /\ Tagged \in Seq(Span)
           /\ \A x : Among(Tagged, x) <=>
                     \/ \E y : Among(fields, y) /\ x = Moved(y, FieldBase)
                     \/ \E y : (Among(spans, y) \/ Among(partSpans, y)) /\ x = Moved(y, BodyBase)
<1> DEFINE found == spans \o partSpans
           a == [k \in DOMAIN fields |-> Moved(fields[k], FieldBase)]
           b == [k \in DOMAIN found |-> Moved(found[k], BodyBase)]
<1>1. spans \in Seq(FoundSpan) /\ fields \in Seq(FoundSpan) /\ partSpans \in Seq(FoundSpan)
  BY FoundAreSpans
<1>2. found \in Seq(FoundSpan) /\ \A x : Among(found, x) <=> Among(spans, x) \/ Among(partSpans, x)
  BY <1>1, JoinedHolds, JoinedAmong
<1>3. Tagged = a \o b
  BY DEF Tagged
<1> HIDE DEF found
<1>4. a \in Seq(Span) /\ \A x : Among(a, x) <=> \E y : Among(fields, y) /\ x = Moved(y, FieldBase)
  BY <1>1, MovedAmong
<1>5. b \in Seq(Span) /\ \A x : Among(b, x) <=> \E y : Among(found, y) /\ x = Moved(y, BodyBase)
  BY <1>2, MovedAmong
<1> HIDE DEF a, b
<1>6. a \o b \in Seq(Span) /\ \A x : Among(a \o b, x) <=> Among(a, x) \/ Among(b, x)
  BY <1>4, <1>5, JoinedHolds, JoinedAmong
<1>7. Tagged \in Seq(Span) /\ \A x : Among(Tagged, x) <=> Among(a, x) \/ Among(b, x)
  BY <1>3, <1>6
<1> QED
  BY <1>2, <1>4, <1>5, <1>7

\* The spans tagged in a part that is not there cover nothing, and those in the
\* one that is cover what the properties of the scanners say.
LEMMA FieldsHide ==
    ASSUME CaptureInvariant, Scanned, Regular, NEW at \in Int
    PROVE  /\ InField(at) <=> at + 1 \in DOMAIN text /\ InValue(at)
           /\ InPart(at) <=> body = "multipart" /\ at + 1 \in DOMAIN bytes /\ InSecret(at)
<1>1. /\ FormInvariant /\ PartInvariant /\ OnlyItsParts
      /\ FormTypeOK /\ PartTypeOK
  BY DEF CaptureInvariant, FormInvariant, PartInvariant
<1>2. Len(text) \in Nat /\ DOMAIN text = 1..Len(text) /\ fields \in Seq([start : Nat, end : Nat, level : {FieldLevel}, rule : {0}])
  BY <1>1 DEF FormTypeOK
<1>3. Len(bytes) \in Nat /\ DOMAIN bytes = 1..Len(bytes) /\ partSpans \in Seq(PartSpan) /\ pos \in 0..Len(bytes)
      /\ \A k \in DOMAIN partSpans : partSpans[k].end <= pos
  <2>1. bytes \in Seq(Cell)
    BY <1>1, BodyHolds DEF PartTypeOK
  <2>2. partSpans \in Seq(PartSpan) /\ pos \in 0..Len(bytes)
        /\ \A k \in DOMAIN partSpans : partSpans[k].end <= pos
    BY <1>1 DEF PartTypeOK, PartSpan
  <2> QED
    BY <2>1, <2>2
<1>4. InField(at) => at \in 0..(Len(text) - 1)
  <2> SUFFICES ASSUME NEW k \in DOMAIN fields, fields[k].start <= at, at < fields[k].end
               PROVE  at \in 0..(Len(text) - 1)
    BY DEF InField
  <2> DEFINE S == [start : Nat, end : Nat, level : {FieldLevel}, rule : {0}]
  <2>1. fields[k] \in S
    <3>1. fields \in Seq(S)
      BY <1>2
    <3> HIDE DEF S
    <3> QED
      BY <3>1
  <2>2. fields[k].start \in Nat /\ fields[k].end \in Nat
    BY <2>1
  <2>3. fields[k].end <= Len(text)
    BY <1>1 DEF FormInvariant, BehindIsTagged, Behind, Scanned
  <2> QED
    BY <1>2, <2>2, <2>3
<1>5. \A p \in 0..(Len(text) - 1) : InValue(p) <=> InField(p)
  BY <1>1, FormInvariantTags DEF FieldsAreTagged, Scanned
<1>6. at + 1 \in DOMAIN text <=> at \in 0..(Len(text) - 1)
  BY <1>2
<1>7. InPart(at) => at \in 0..(Len(bytes) - 1)
  <2> SUFFICES ASSUME NEW k \in DOMAIN partSpans, partSpans[k].start <= at, at < partSpans[k].end
               PROVE  at \in 0..(Len(bytes) - 1)
    BY DEF InPart
  <2>1. partSpans[k] \in PartSpan
    BY <1>3
  <2>2. partSpans[k].start \in Nat /\ partSpans[k].end \in Nat
    BY <2>1 DEF PartSpan
  <2> QED
    BY <1>3, <2>2
<1>8. at + 1 \in DOMAIN bytes <=> at \in 0..(Len(bytes) - 1)
  BY <1>3
<1>9. InPart(at) <=> body = "multipart" /\ at + 1 \in DOMAIN bytes /\ InSecret(at)
  <2>1. CASE body = "multipart"
    <3>1. \A p \in 0..(Len(bytes) - 1) : InSecret(p) <=> InPart(p)
      BY <1>1, <2>1, PartInvariantTags DEF PartsAreTagged, Scanned
    <3> QED
      BY <1>7, <1>8, <2>1, <3>1
  <2>2. CASE body # "multipart"
    <3>1. Len(bytes) = 0
      BY <1>1, <2>2 DEF OnlyItsParts
    <3> QED
      BY <1>7, <1>8, <2>2, <3>1
  <2> QED
    BY <2>1, <2>2
<1> QED
  BY <1>4, <1>5, <1>6, <1>9

\* The same for the scalars of a body in JSON.
LEMMA ScalarsHide ==
    ASSUME CaptureInvariant, NEW at \in Int
    PROVE  (\E y : Among(spans, y) /\ Covers(y, at) /\ y.level >= maskLevel) <=>
              /\ body = "json" /\ at + 1 \in DOMAIN tokens
              /\ Scalar(at + 1) /\ Plain(at + 1)
              /\ \E r \in FirstMatch(Location(at + 1)) : Policy[r].level >= maskLevel
<1> DEFINE S == [start : Nat, end : Nat, level : Int, rule : DOMAIN Policy]
           t == at + 1
           Hidden == /\ body = "json" /\ t \in DOMAIN tokens
                     /\ Scalar(t) /\ Plain(t)
                     /\ \E r \in FirstMatch(Location(t)) : Policy[r].level >= maskLevel
<1>1. /\ ScanTypeOK /\ SpansAreBehind /\ FirstMatchTags /\ OnlyItsParts
  BY DEF CaptureInvariant, ScanInvariant
<1>2. Len(tokens) \in Nat /\ DOMAIN tokens = 1..Len(tokens) /\ spans \in Seq(S)
  BY <1>1 DEF ScanTypeOK
<1>3. \A k \in DOMAIN spans : /\ spans[k].start \in Nat /\ spans[k].end = spans[k].start + 1
                              /\ spans[k].end <= Len(tokens)
                              /\ spans[k].level = Policy[spans[k].rule].level
  <2> TAKE k \in DOMAIN spans
  <2>1. spans[k] \in S
    <3> HIDE DEF S
    <3> QED
      BY <1>2
  <2>2. spans[k].start \in Nat
    BY <2>1
  <2> QED
    BY <1>1, <2>2 DEF SpansAreBehind
<1> HIDE DEF S
<1>4. t \in Int /\ t - 1 = at
  OBVIOUS
<1>5. \A k \in DOMAIN spans : Covers(spans[k], at) <=> k \in TaggedAt(t)
  <2> TAKE k \in DOMAIN spans
  <2>1. Covers(spans[k], at) <=> spans[k].start = t - 1 /\ spans[k].end = t
    BY <1>3 DEF Covers
  <2> HIDE DEF t
  <2> QED
    BY <2>1 DEF TaggedAt
<1>6. ASSUME NEW y, Among(spans, y), Covers(y, at), y.level >= maskLevel
      PROVE  Hidden
  <2>1. PICK k \in DOMAIN spans : spans[k] = y
    BY <1>6 DEF Among
  <2>2. k \in TaggedAt(t) /\ spans[k].rule \in {spans[l].rule : l \in TaggedAt(t)}
    BY <1>5, <1>6, <2>1
  <2>3. t \in 1..Len(tokens)
    BY <1>2, <1>3, <1>6, <2>1 DEF Covers
  <2> HIDE DEF t
  <2>4. Scalar(t) /\ Plain(t) /\ spans[k].rule \in FirstMatch(Location(t))
    BY <1>1, <1>2, <2>2, <2>3 DEF FirstMatchTags
  <2>5. Policy[spans[k].rule].level >= maskLevel
    BY <1>3, <1>6, <2>1
  <2>6. body = "json"
    <3>1. tokens # <<>>
      BY <1>2, <2>3
    <3> QED
      BY <1>1, <3>1 DEF OnlyItsParts
  <2> QED
    BY <1>2, <2>3, <2>4, <2>5, <2>6
<1>7. ASSUME Hidden
      PROVE  \E y : Among(spans, y) /\ Covers(y, at) /\ y.level >= maskLevel
  <2> HIDE DEF t
  <2>1. PICK r \in FirstMatch(Location(t)) : Policy[r].level >= maskLevel
    BY <1>7
  <2>2. r \in {spans[k].rule : k \in TaggedAt(t)}
    BY <1>1, <1>7 DEF FirstMatchTags
  <2>3. PICK k \in TaggedAt(t) : spans[k].rule = r
    BY <2>2
  <2>4. k \in DOMAIN spans
    BY DEF TaggedAt
  <2>5. Covers(spans[k], at) /\ spans[k].level >= maskLevel
    BY <1>3, <1>5, <2>1, <2>3, <2>4
  <2> QED
    BY <2>4, <2>5 DEF Among
<1> QED
  BY <1>6, <1>7

\* The spans of headers and expressions.
LEMMA OthersAreSpans ==
    ASSUME PlainHolds, NEW found \in Seq(OtherSpans)
    PROVE  found \in Seq(Span)
<1>1. OtherLevels \subseteq Int /\ 0 \in Rules
  BY TagsAssumption DEF TagsAssumption
<1>2. \A at \in Stretches : at[1] \in Int /\ at[2] \in Int
  <2> SUFFICES ASSUME NEW at \in Stretches PROVE at[1] \in Int /\ at[2] \in Int
    OBVIOUS
  <2>1. PICK r \in Regions : \E from \in Bounds(r), to \in Bounds(r) : at = <<from, to>>
    BY DEF Stretches
  <2>2. PICK from \in Bounds(r), to \in Bounds(r) : at = <<from, to>>
    BY <2>1
  <2>3. r[1] \in Int /\ r[2] \in Int
    BY DEF Regions, PlainHolds
  <2>4. \A p \in Bounds(r) : p \in Int
    BY <2>3 DEF Bounds
  <2> QED
    BY <2>2, <2>4
<1>3. OtherSpans \subseteq Span
  BY <1>1, <1>2 DEF OtherSpans, Span, Levels
<1> HIDE DEF OtherSpans
<1> QED
  BY <1>3

\* What a tag of the scanners hides of the render: of scalars, what the first rule
\* that matches says, and no others than those in the spelling expected.
HiddenByTag(p) ==
    \/ /\ At(p).of = "query" \/ (At(p).of = "body" /\ body = "form")
       /\ InValue(At(p).at) /\ FieldLevel >= maskLevel
    \/ /\ At(p).of = "body" /\ body = "json"
       /\ Scalar(At(p).at + 1) /\ Plain(At(p).at + 1)
       /\ \E r \in FirstMatch(Location(At(p).at + 1)) : Policy[r].level >= maskLevel
    \/ /\ At(p).of = "body" /\ body = "multipart"
       /\ InSecret(At(p).at) /\ PartLevel >= maskLevel

\* Among the spans there is one at q that reaches the level.
Reaches(s, q) == \E y : Among(s, y) /\ Covers(y, q) /\ y.level >= maskLevel

\* What is tagged with a level that is hidden, each in its part.
LEMMA TagsReach ==
    ASSUME CaptureInvariant, Scanned, Regular, PlainHolds, NEW p \in 0..(Len(PlainText) - 1)
    PROVE  HiddenByTag(p) <=>
              \/ Reaches(fields, p - FieldBase)
              \/ Reaches(spans, p - BodyBase)
              \/ Reaches(partSpans, p - BodyBase)
<1> DEFINE fp == p - FieldBase
           bp == p - BodyBase
<1>1. /\ FormTypeOK /\ ScanTypeOK /\ PartTypeOK /\ bytes \in Seq(Cell) /\ OnlyItsParts
  BY BodyHolds DEF CaptureInvariant, FormInvariant, ScanInvariant, PartInvariant, PartTypeOK
<1>2. /\ Len(text) \in Nat /\ Len(tokens) \in Nat /\ Len(bytes) \in Nat
      /\ DOMAIN text = 1..Len(text) /\ DOMAIN tokens = 1..Len(tokens)
      /\ DOMAIN bytes = 1..Len(bytes)
  BY <1>1 DEF FormTypeOK, ScanTypeOK
<1>3. /\ QueryBase \in Nat /\ BodyBase \in Nat /\ BodyLen \in Nat /\ FieldBase \in Nat
      /\ Len(PlainText) = BodyBase + BodyLen
      /\ At(p).of = "body" <=> BodyBase <= p
      /\ At(p).of = "body" => At(p).at = bp
      /\ At(p).of = "query" <=> HasQuery /\ QueryBase <= p /\ p < QueryBase + Len(text)
      /\ At(p).of = "query" => At(p).at = p - QueryBase
  BY DEF PlainHolds
<1>4. fp \in Int /\ bp \in Int /\ p \in Int
  BY <1>3
<1>5. Reaches(fields, fp) <=> fp + 1 \in DOMAIN text /\ InValue(fp) /\ FieldLevel >= maskLevel
  <2>1. \A k \in DOMAIN fields : fields[k].level = FieldLevel
    <3> DEFINE S == [start : Nat, end : Nat, level : {FieldLevel}, rule : {0}]
    <3>1. fields \in Seq(S)
      BY <1>1 DEF FormTypeOK
    <3>2. \A y \in S : y.level = FieldLevel
      OBVIOUS
    <3> HIDE DEF S
    <3> QED
      BY <3>1, <3>2
  <2> HIDE DEF fp
  <2>2. Reaches(fields, fp) <=> InField(fp) /\ FieldLevel >= maskLevel
    BY <2>1 DEF Among, InField, Covers, Reaches
  <2>3. InField(fp) <=> fp + 1 \in DOMAIN text /\ InValue(fp)
    BY <1>4, FieldsHide
  <2> QED
    BY <2>2, <2>3
<1>6. Reaches(partSpans, bp) <=>
         body = "multipart" /\ bp + 1 \in DOMAIN bytes /\ InSecret(bp) /\ PartLevel >= maskLevel
  <2>1. \A k \in DOMAIN partSpans : partSpans[k].level = PartLevel
    <3>1. partSpans \in Seq(PartSpan)
      BY <1>1 DEF PartTypeOK, PartSpan
    <3>2. \A y \in PartSpan : y.level = PartLevel
      BY DEF PartSpan
    <3> QED
      BY <3>1, <3>2
  <2> HIDE DEF bp
  <2>2. Reaches(partSpans, bp) <=> InPart(bp) /\ PartLevel >= maskLevel
    BY <2>1 DEF Among, InPart, Covers, Reaches
  <2>3. InPart(bp) <=> body = "multipart" /\ bp + 1 \in DOMAIN bytes /\ InSecret(bp)
    BY <1>4, FieldsHide
  <2> QED
    BY <2>2, <2>3
<1>7. Reaches(spans, bp) <=>
         /\ body = "json" /\ bp + 1 \in DOMAIN tokens
         /\ Scalar(bp + 1) /\ Plain(bp + 1)
         /\ \E r \in FirstMatch(Location(bp + 1)) : Policy[r].level >= maskLevel
  <2> HIDE DEF bp
  <2> QED
    BY <1>4, ScalarsHide DEF Reaches
<1>8. /\ body = "form" => BodyLen = Len(text)
      /\ body = "json" => BodyLen = Len(tokens)
      /\ body = "multipart" => BodyLen = Len(bytes)
  <2>1. tokens = <<>> => Len(tokens) = 0
    OBVIOUS
  <2>2. bytes = <<>> => Len(bytes) = 0
    OBVIOUS
  <2>3. \A x, y \in Nat : x + 0 + 0 + 0 = x /\ 0 + x + 0 + 0 = x /\ 0 + 0 + x + 0 = x
    OBVIOUS
  <2>4. body = "form" => BodyLen = Len(text)
    BY <1>1, <1>2, <2>1, <2>2 DEF OnlyItsParts, BodyLen, Opaque
  <2>5. body = "json" => BodyLen = Len(tokens)
    BY <1>1, <1>2, <2>1, <2>2 DEF OnlyItsParts, BodyLen, Opaque
  <2>6. body = "multipart" => BodyLen = Len(bytes)
    BY <1>1, <1>2, <2>1, <2>2 DEF OnlyItsParts, BodyLen, Opaque
  <2> QED
    BY <2>4, <2>5, <2>6
<1>9. /\ body = "json" => (bp + 1 \in DOMAIN tokens <=> At(p).of = "body")
      /\ body = "multipart" => (bp + 1 \in DOMAIN bytes <=> At(p).of = "body")
  <2>1. p < BodyBase + BodyLen
    BY <1>3
  <2>2. \A n \in Nat : BodyLen = n => (bp + 1 \in 1..n <=> BodyBase <= p)
    BY <1>3, <2>1
  <2> HIDE DEF bp
  <2> QED
    BY <1>2, <1>3, <1>8, <2>2
<1>10. fp + 1 \in DOMAIN text /\ InValue(fp) <=>
          /\ At(p).of = "query" \/ (At(p).of = "body" /\ body = "form")
          /\ InValue(At(p).at)
  <2>1. CASE body = "form"
    <3>1. FieldBase = BodyBase /\ ~HasQuery
      BY <2>1 DEF FieldBase, HasQuery
    <3>2. fp = bp
      BY <3>1
    <3>3. fp + 1 \in DOMAIN text <=> BodyBase <= p
      BY <1>2, <1>3, <1>8, <2>1, <3>1
    <3> HIDE DEF fp, bp
    <3> QED
      BY <1>3, <2>1, <3>1, <3>2, <3>3
  <2>2. CASE body # "form"
    <3>1. FieldBase = QueryBase
      BY <2>2 DEF FieldBase
    <3>2. fp + 1 \in DOMAIN text <=> QueryBase <= p /\ p < QueryBase + Len(text)
      BY <1>2, <1>3, <3>1
    <3>3. text = <<>> => fp + 1 \notin DOMAIN text
      OBVIOUS
    <3>4. HasQuery <=> text # <<>>
      BY <2>2 DEF HasQuery
    <3>5. fp = p - QueryBase
      BY <3>1
    <3> HIDE DEF fp, bp
    <3> QED
      BY <1>3, <2>2, <3>2, <3>3, <3>4, <3>5
  <2> QED
    BY <2>1, <2>2
<1> HIDE DEF fp, bp
<1>11. HiddenByTag(p) <=> Reaches(fields, fp) \/ Reaches(spans, bp) \/ Reaches(partSpans, bp)
  BY <1>3, <1>5, <1>6, <1>7, <1>9, <1>10 DEF HiddenByTag
<1> QED
  BY <1>11 DEF fp, bp

\* What Render is given covers, of the render, what the tags hide.
LEMMA CollectedHides ==
    ASSUME CaptureInvariant, CollectedOK, Regular, PlainHolds, NEW p \in 0..(Len(PlainText) - 1)
    PROVE  Covered(p) <=> maskLevel # 0 /\ (HiddenByOthers(p) \/ HiddenByTag(p))
<1> DEFINE all == others \o Tagged
           fp == p - FieldBase
           bp == p - BodyBase
<1>1. /\ FormTypeOK /\ ScanTypeOK /\ PartTypeOK
  BY DEF CaptureInvariant, FormInvariant, ScanInvariant, PartInvariant
<1>2. FieldBase \in Nat /\ BodyBase \in Nat /\ p \in Int /\ fp \in Int /\ bp \in Int
  BY DEF PlainHolds
<1>3. others \in Seq(Span)
  BY OthersAreSpans DEF CollectedOK
<1>4. /\ Tagged \in Seq(Span)
      /\ \A x : Among(Tagged, x) <=>
                \/ \E y : Among(fields, y) /\ x = Moved(y, FieldBase)
                \/ \E y : (Among(spans, y) \/ Among(partSpans, y)) /\ x = Moved(y, BodyBase)
  BY <1>1, <1>2, TaggedHolds
<1>5. all \in Seq(Span) /\ \A x : Among(all, x) <=> Among(others, x) \/ Among(Tagged, x)
  BY <1>3, <1>4, JoinedHolds, JoinedAmong
<1>6. given = IF maskLevel = 0 THEN <<>> ELSE Reaching(maskLevel, all)
  BY DEF CollectedOK, SensitiveSpans
<1> HIDE DEF all
<1>7. Covered(p) <=> \E x : Among(given, x) /\ Covers(x, p)
  BY DEF Covered, Among
<1>8. CASE maskLevel = 0
  <2>1. given = <<>>
    BY <1>6, <1>8
  <2>2. \A x : ~Among(given, x)
    BY <2>1 DEF Among
  <2> QED
    BY <1>7, <1>8, <2>2
<1>9. CASE maskLevel # 0
  <2>1. \A x : Among(given, x) <=> Among(all, x) /\ x.level >= maskLevel
    <3>1. given = Reaching(maskLevel, all)
      BY <1>6, <1>9
    <3>2. \A x : (\E i \in DOMAIN Reaching(maskLevel, all) : Reaching(maskLevel, all)[i] = x) <=>
                     \E j \in DOMAIN all : all[j] = x /\ x.level >= maskLevel
      BY <1>5, ReachingHolds
    <3> QED
      BY <3>1, <3>2 DEF Among
  <2>2. Covered(p) <=> Reaches(others, p) \/ Reaches(Tagged, p)
    BY <1>5, <1>7, <2>1 DEF Reaches
  <2>3. Reaches(others, p) <=> HiddenByOthers(p)
    BY DEF HiddenByOthers, Among, Reaches
  <2>4. Reaches(Tagged, p) <=> Reaches(fields, fp) \/ Reaches(spans, bp) \/ Reaches(partSpans, bp)
    <3>1. \A y : Among(spans, y) \/ Among(fields, y) \/ Among(partSpans, y) => y \in FoundSpan
      <4>1. spans \in Seq(FoundSpan) /\ fields \in Seq(FoundSpan) /\ partSpans \in Seq(FoundSpan)
        BY <1>1, FoundAreSpans
      <4>2. \A s \in Seq(FoundSpan) : \A y : Among(s, y) => y \in FoundSpan
        BY DEF Among
      <4> QED
        BY <4>1, <4>2
    <3>2. \A y \in FoundSpan :
             /\ Covers(Moved(y, FieldBase), p) <=> Covers(y, fp)
             /\ Moved(y, FieldBase).level = y.level
             /\ Covers(Moved(y, BodyBase), p) <=> Covers(y, bp)
             /\ Moved(y, BodyBase).level = y.level
      BY <1>2, MovedCovers
    <3> HIDE DEF fp, bp
    <3> QED
      BY <1>4, <3>1, <3>2 DEF Reaches
  <2>5. HiddenByTag(p) <=> Reaches(fields, fp) \/ Reaches(spans, bp) \/ Reaches(partSpans, bp)
    BY TagsReach DEF CollectedOK
  <2> HIDE DEF fp, bp
  <2> QED
    BY <1>9, <2>2, <2>3, <2>4, <2>5
<1> QED
  BY <1>8, <1>9

\* What a tag hides the policy hides, and the other way where all rules that match
\* agree and the spelling is the one expected.
LEMMA TagsFollowPolicy ==
    ASSUME NEW p
    PROVE  /\ HiddenByTag(p) => HiddenByField(p)
           /\ HiddenByField(p) /\ ~Unsure(p) => HiddenByTag(p)
<1> DEFINE c == PlainText[p + 1]
           t == c.at + 1
           L == Location(t)
<1>1. At(p) = c
  BY DEF At
<1>2. /\ FirstMatch(L) \subseteq MatchingRules(L)
      /\ MatchingRules(L) # {} => FirstMatch(L) # {}
  BY FirstOfMatching
<1>3. HidingRules(t) = {r \in MatchingRules(L) : Policy[r].level >= maskLevel}
  BY DEF HidingRules
<1>4. (\E r \in FirstMatch(L) : Policy[r].level >= maskLevel) => HidingRules(t) # {}
  BY <1>2, <1>3
<1>5. HidingRules(t) # {} /\ HidingRules(t) = MatchingRules(L) =>
         \E r \in FirstMatch(L) : Policy[r].level >= maskLevel
  BY <1>2, <1>3
<1>6. HiddenByField(p) <=>
         \/ /\ c.of = "query" \/ (c.of = "body" /\ body = "form")
            /\ InValue(c.at) /\ FieldLevel >= maskLevel
         \/ c.of = "body" /\ body = "json" /\ Scalar(t) /\ HidingRules(t) # {}
         \/ c.of = "body" /\ body = "multipart" /\ InSecret(c.at) /\ PartLevel >= maskLevel
  BY DEF HiddenByField
<1>7. Unsure(p) <=> c.of = "body" /\ body = "json" /\ (~Plain(t) \/ HidingRules(t) # MatchingRules(L))
  BY DEF Unsure
<1>8. HiddenByTag(p) <=>
         \/ /\ c.of = "query" \/ (c.of = "body" /\ body = "form")
            /\ InValue(c.at) /\ FieldLevel >= maskLevel
         \/ /\ c.of = "body" /\ body = "json" /\ Scalar(t) /\ Plain(t)
            /\ \E r \in FirstMatch(L) : Policy[r].level >= maskLevel
         \/ c.of = "body" /\ body = "multipart" /\ InSecret(c.at) /\ PartLevel >= maskLevel
  BY <1>1 DEF HiddenByTag
<1> HIDE DEF c, t, L
<1> QED
  BY <1>4, <1>5, <1>6, <1>7, <1>8

\* When Render is done, what the policy hides is masked, and nothing else.
LEMMA CaptureInvariantHides == CaptureInvariant => RenderHidesSensitive
<1> SUFFICES ASSUME CaptureInvariant, stage = "done", Regular, NEW p \in 0..(Len(PlainText) - 1)
             PROVE  /\ Shown(p) /\ maskLevel # 0 =>
                          ~HiddenByOthers(p) /\ (HiddenByField(p) => Unsure(p))
                    /\ ~Shown(p) => maskLevel # 0 /\ (HiddenByOthers(p) \/ HiddenByField(p))
  BY DEF RenderHidesSensitive
<1>1. MaskInvariant /\ CollectedOK
  BY DEF CaptureInvariant
<1>2. PlainHolds
  BY PlainTextHolds, BodyHolds
     DEF CaptureInvariant, FormInvariant, ScanInvariant, PartInvariant, PartTypeOK
<1>3. Shown(p) <=> ~Covered(p)
  BY <1>1, MaskedIsHidden DEF HidesExactlySpans, CollectedOK
<1>4. Covered(p) <=> maskLevel # 0 /\ (HiddenByOthers(p) \/ HiddenByTag(p))
  BY <1>1, <1>2, CollectedHides
<1>5. /\ HiddenByTag(p) => HiddenByField(p)
      /\ HiddenByField(p) /\ ~Unsure(p) => HiddenByTag(p)
  BY TagsFollowPolicy
<1> QED
  BY <1>3, <1>4, <1>5

-----------------------------------------------------------------------------
(* CaptureRequest and Render together                                      *)

\* At the beginning nothing is collected.
LEMMA CaptureInitHolds == CaptureInit => CaptureInvariant
<1> SUFFICES ASSUME CaptureInit
             PROVE  CaptureInvariant
  OBVIOUS
<1>1. FormInvariant /\ ScanInvariant /\ PartInvariant
  BY FormInitHolds, ScanInitHolds, PartInitHolds DEF CaptureInit
<1>2. tokens = <<>>
  BY DEF CaptureInit, ScanInit
<1>3. OnlyItsParts
  BY <1>2 DEF CaptureInit, OnlyItsParts
<1>4. stage = "scan" /\ NothingMasked
  BY DEF CaptureInit
<1> QED
  BY <1>1, <1>3, <1>4 DEF CaptureInvariant

\* Masking may begin with any spans.
LEMMA MaskInitHoldsNext == MaskInit' => MaskInvariant'
  BY MaskInitHolds, PTL

\* The render, the spans and where others may be are of the request alone.
LEMMA RenderStays ==
    ASSUME text' = text, tokens' = tokens, bytes' = bytes, body' = body,
           fields' = fields, spans' = spans, partSpans' = partSpans
    PROVE  PlainText' = PlainText /\ Tagged' = Tagged /\ OtherSpans' = OtherSpans
<1>1. HeadText' = HeadText
  BY DEF HeadText, UpToQuery, QueryPart, HasQuery, Cells
<1>2. BodyLen' = BodyLen
  BY DEF BodyLen
<1>3. Blank' = Blank
  BY <1>2 DEF Blank, Cells
<1>4. PlainText' = PlainText
  BY <1>1, <1>2, <1>3 DEF PlainText, Cells
<1>5. BodyBase' = BodyBase /\ FieldBase' = FieldBase
  BY <1>1, <1>3 DEF BodyBase, FieldBase, QueryBase
<1>6. Tagged' = Tagged
  BY <1>5 DEF Tagged, Moved
<1>7. Regions' = Regions
  BY <1>1, <1>4, <1>5 DEF Regions
<1>8. \A r : Bounds(r)' = Bounds(r)
  BY <1>4, <1>6 DEF Bounds
<1>9. Stretches' = Stretches
  BY <1>7, <1>8 DEF Stretches
<1>10. OtherSpans' = OtherSpans
  BY <1>9 DEF OtherSpans
<1> QED
  BY <1>4, <1>6, <1>10

\* The spans and where they are do not change while they are masked.
LEMMA CollectedStays ==
    ASSUME CollectedOK, UNCHANGED <<scannerVars, given, dataLen, body, maskLevel, others>>
    PROVE  CollectedOK'
<1>1. /\ tokens' = tokens /\ frames' = frames /\ path' = path /\ spans' = spans
      /\ text' = text /\ raw' = raw /\ off' = off /\ fields' = fields
      /\ bytes' = bytes /\ pos' = pos /\ looking' = looking /\ partSpans' = partSpans
      /\ given' = given /\ dataLen' = dataLen /\ body' = body /\ maskLevel' = maskLevel /\ others' = others
  BY DEF scannerVars, scanVars, formVars, partVars
<1>2. PlainText' = PlainText
  BY <1>1, RenderStays
<1>4. Tagged' = Tagged
  BY <1>1, RenderStays
<1>5. OtherSpans' = OtherSpans
  BY <1>1, RenderStays
<1>6. \A s : SensitiveSpans(s)' = SensitiveSpans(s)
  BY <1>1 DEF SensitiveSpans
<1>7. Complete' <=> Complete
  BY <1>1 DEF Complete, Inside, Around, Here, Depth, Count
<1>8. Scanned' <=> Scanned
  BY <1>1, <1>7 DEF Scanned
<1>9. SensitiveSpans(others \o Tagged)' = SensitiveSpans(others \o Tagged)
  BY <1>1, <1>4 DEF SensitiveSpans
<1> QED
  BY <1>1, <1>2, <1>4, <1>5, <1>8, <1>9 DEF CollectedOK

\* While the scanners run, what each holds is kept.
LEMMA ScanKeeps == CaptureInvariant /\ Scan => CaptureInvariant'
<1> SUFFICES ASSUME CaptureInvariant, Scan
             PROVE  CaptureInvariant'
  OBVIOUS
<1>1. stage = "scan" /\ UNCHANGED <<maskVars, body, maskLevel, others>>
  BY DEF Scan
<1>2. stage' = "scan" /\ body' = body /\ (NothingMasked => NothingMasked')
  BY <1>1 DEF maskVars, NothingMasked
<1>3. FormInvariant /\ ScanInvariant /\ PartInvariant /\ OnlyItsParts /\ NothingMasked
  BY <1>1 DEF CaptureInvariant
<1>4. CASE body = "json" /\ ScanNext /\ UNCHANGED <<formVars, partVars>>
  <2>1. FormInvariant' /\ ScanInvariant' /\ PartInvariant'
    BY <1>3, <1>4, FormStutters, ScanNextKeeps, PartStutters
  <2>2. text' = text /\ bytes' = bytes
    BY <1>4 DEF formVars, partVars
  <2>3. OnlyItsParts'
    BY <1>2, <1>3, <1>4, <2>2 DEF OnlyItsParts
  <2> QED
    BY <1>2, <1>3, <2>1, <2>3 DEF CaptureInvariant
<1>5. CASE body = "multipart" /\ PartScanNext /\ UNCHANGED <<scanVars, formVars>>
  <2>1. PartInvariant'
    BY <1>3, <1>5, NextPartKeeps, PartsEndKeeps DEF PartScanNext
  <2>2. FormInvariant' /\ ScanInvariant'
    BY <1>3, <1>5, FormStutters, ScanStutters
  <2>3. text' = text /\ tokens' = tokens
    BY <1>5 DEF formVars, scanVars
  <2>4. OnlyItsParts'
    BY <1>2, <1>3, <1>5, <2>3 DEF OnlyItsParts
  <2> QED
    BY <1>2, <1>3, <2>1, <2>2, <2>4 DEF CaptureInvariant
<1>6. CASE NextPair /\ UNCHANGED <<scanVars, partVars>>
  <2>1. FormInvariant' /\ ScanInvariant' /\ PartInvariant'
    BY <1>3, <1>6, NextPairKeeps, ScanStutters, PartStutters
  <2>2. text' = text /\ tokens' = tokens /\ bytes' = bytes
    BY <1>6 DEF NextPair, scanVars, partVars
  <2>3. OnlyItsParts'
    BY <1>2, <1>3, <2>2 DEF OnlyItsParts
  <2> QED
    BY <1>2, <1>3, <2>1, <2>3 DEF CaptureInvariant
<1> QED
  BY <1>4, <1>5, <1>6 DEF Scan

\* What CaptureRequest collects and classifies is what Render begins with.
LEMMA CollectKeeps == CaptureInvariant /\ Collect => CaptureInvariant'
<1> SUFFICES ASSUME CaptureInvariant, Collect
             PROVE  CaptureInvariant'
  OBVIOUS
<1>1. /\ stage = "scan" /\ Scanned /\ stage' = "sort" /\ dataLen' = Len(PlainText)
      /\ UNCHANGED <<scannerVars, body, maskLevel, sorted, next, merged, applied, prev, out>>
  BY DEF Collect
<1>2. /\ UNCHANGED scanVars /\ UNCHANGED formVars /\ UNCHANGED partVars
      /\ tokens' = tokens /\ frames' = frames /\ path' = path /\ spans' = spans
      /\ text' = text /\ raw' = raw /\ off' = off /\ fields' = fields
      /\ bytes' = bytes /\ pos' = pos /\ looking' = looking /\ partSpans' = partSpans
      /\ body' = body /\ maskLevel' = maskLevel
  BY <1>1 DEF scannerVars, scanVars, formVars, partVars
<1>3. FormInvariant /\ ScanInvariant /\ PartInvariant /\ OnlyItsParts /\ NothingMasked
  BY <1>1 DEF CaptureInvariant
<1>4. FormInvariant' /\ ScanInvariant' /\ PartInvariant' /\ OnlyItsParts'
  BY <1>2, <1>3, FormStutters, ScanStutters, PartStutters DEF OnlyItsParts
<1>5. PlainText' = PlainText
  BY <1>2, RenderStays
<1>6. Tagged' = Tagged /\ OtherSpans' = OtherSpans
  BY <1>2, RenderStays
<1>7. Scanned'
  <2>1. Complete' <=> Complete
    BY <1>2 DEF Complete, Inside, Around, Here, Depth, Count
  <2> QED
    BY <1>1, <1>2, <2>1 DEF Scanned
<1>8. PICK found \in Seq(OtherSpans) :
         others' = found /\ given' = SensitiveSpans(found \o Tagged)
  <2> HIDE DEF OtherSpans, SensitiveSpans, Tagged
  <2>1. PICK n \in 0..MaxOthers : \E found \in [1..n -> OtherSpans] :
           others' = found /\ given' = SensitiveSpans(found \o Tagged)
    BY DEF Collect
  <2>2. MaxOthers \in Nat
    BY HeadAssumption DEF HeadAssumption
  <2>3. [1..n -> OtherSpans] \subseteq Seq(OtherSpans)
    BY <2>2
  <2> QED
    BY <2>1, <2>3
<1>9. CollectedOK'
  <2>1. others' \in Seq(OtherSpans)'
    BY <1>6, <1>8
  <2>2. SensitiveSpans(others \o Tagged)' = SensitiveSpans(found \o Tagged)
    BY <1>2, <1>6, <1>8 DEF SensitiveSpans
  <2> QED
    BY <1>1, <1>5, <1>7, <1>8, <2>1, <2>2 DEF CollectedOK
<1>10. given' \in Seq(Span) /\ dataLen' \in Nat
  <2>1. FormTypeOK /\ ScanTypeOK /\ PartTypeOK /\ bytes \in Seq(Cell)
    BY <1>3, BodyHolds DEF FormInvariant, ScanInvariant, PartInvariant, PartTypeOK
  <2>p. PlainHolds
    BY <2>1, PlainTextHolds
  <2>2. FieldBase \in Nat /\ BodyBase \in Nat /\ Len(PlainText) \in Nat
    BY <2>p DEF PlainHolds
  <2>3. Tagged \in Seq(Span)
    BY <2>1, <2>2, TaggedHolds
  <2>4. found \in Seq(Span)
    BY <1>8, <2>p, OthersAreSpans
  <2>5. found \o Tagged \in Seq(Span)
    BY <2>3, <2>4, JoinedHolds
  <2> DEFINE all == found \o Tagged
  <2>6. Reaching(maskLevel, all) \in Seq(Span)
    <3> HIDE DEF all
    <3>1. all \in Seq(Span)
      BY <2>5 DEF all
    <3> QED
      BY <3>1, ReachingHolds
  <2> QED
    BY <1>1, <1>8, <2>2, <2>6 DEF SensitiveSpans
<1>11. NothingMasked'
  BY <1>1, <1>3 DEF NothingMasked
<1>12. MaskInvariant'
  <2>1. MaskInit'
    BY <1>1, <1>10, <1>11 DEF MaskInit
  <2> QED
    BY <2>1, MaskInitHoldsNext
<1> QED
  BY <1>1, <1>4, <1>9, <1>12 DEF CaptureInvariant

\* Masking keeps what was collected.
LEMMA RenderKeeps == CaptureInvariant /\ Render => CaptureInvariant'
<1> SUFFICES ASSUME CaptureInvariant, Render
             PROVE  CaptureInvariant'
  OBVIOUS
<1>1. MaskNext /\ UNCHANGED <<scannerVars, body, maskLevel, others>>
  BY DEF Render
<1>2. given' = given /\ dataLen' = dataLen /\ stage # "scan" /\ stage' # "scan"
  BY <1>1 DEF MaskNext, Sort, MergeNext, MergeEnds, ApplyNext, ApplyEnds
<1>3. FormInvariant /\ ScanInvariant /\ PartInvariant /\ OnlyItsParts /\ MaskInvariant /\ CollectedOK
  BY <1>2 DEF CaptureInvariant
<1>4. /\ UNCHANGED scanVars /\ UNCHANGED formVars /\ UNCHANGED partVars /\ body' = body
      /\ tokens' = tokens /\ text' = text /\ bytes' = bytes
  BY <1>1 DEF scannerVars, scanVars, formVars, partVars
<1>5. FormInvariant' /\ ScanInvariant' /\ PartInvariant' /\ OnlyItsParts'
  BY <1>3, <1>4, FormStutters, ScanStutters, PartStutters DEF OnlyItsParts
<1>6. MaskInvariant'
  BY <1>1, <1>3, MaskStepKeeps
<1>7. CollectedOK'
  BY <1>1, <1>2, <1>3, CollectedStays
<1> QED
  BY <1>2, <1>5, <1>6, <1>7 DEF CaptureInvariant

\* Nothing changes without a step.
LEMMA CaptureStutters == CaptureInvariant /\ UNCHANGED captureVars => CaptureInvariant'
<1> SUFFICES ASSUME CaptureInvariant, UNCHANGED captureVars
             PROVE  CaptureInvariant'
  OBVIOUS
<1>1. UNCHANGED <<scannerVars, body, maskLevel, others>> /\ UNCHANGED maskVars
  BY DEF captureVars
<1>2. given' = given /\ dataLen' = dataLen /\ stage' = stage
  BY <1>1 DEF maskVars
<1>3. FormInvariant /\ ScanInvariant /\ PartInvariant /\ OnlyItsParts
  BY DEF CaptureInvariant
<1>4. /\ UNCHANGED scanVars /\ UNCHANGED formVars /\ UNCHANGED partVars /\ body' = body
      /\ tokens' = tokens /\ text' = text /\ bytes' = bytes
  BY <1>1 DEF scannerVars, scanVars, formVars, partVars
<1>5. FormInvariant' /\ ScanInvariant' /\ PartInvariant' /\ OnlyItsParts'
  BY <1>3, <1>4, FormStutters, ScanStutters, PartStutters DEF OnlyItsParts
<1>6. stage = "scan" => NothingMasked'
  BY <1>1 DEF CaptureInvariant, NothingMasked, maskVars
<1>7. stage # "scan" => MaskInvariant' /\ CollectedOK'
  BY <1>1, <1>2, MaskStepKeeps, CollectedStays DEF CaptureInvariant
<1> QED
  BY <1>2, <1>5, <1>6, <1>7 DEF CaptureInvariant

\* From the scanners to the render every part keeps to its invariant, and what
\* is masked is what was tagged, where it is in the render.
THEOREM CaptureInvariantHolds == CaptureSpec => []CaptureInvariant
<1>1. CaptureInvariant /\ [CaptureNext]_captureVars => CaptureInvariant'
  BY ScanKeeps, CollectKeeps, RenderKeeps, CaptureStutters DEF CaptureNext
<1> QED
  BY <1>1, CaptureInitHolds, PTL DEF CaptureSpec

\* The scanners tag in the whole capture what they tag alone.
THEOREM CaptureTags == CaptureSpec => [](ScalarsAreTagged /\ FieldsAreTagged /\ PartsAreTagged)
<1>1. CaptureInvariant => ScalarsAreTagged /\ FieldsAreTagged /\ PartsAreTagged
  BY FormInvariantTags, PartInvariantTags, ScanInvariantTags DEF CaptureInvariant
<1> QED
  BY <1>1, CaptureInvariantHolds, PTL

\* And the spans they tag, with the policy's others, are masked as any are.
THEOREM CaptureMasks == CaptureSpec => [](HidesExactlySpans /\ UnionsAreGraded)
<1>1. CaptureInvariant => HidesExactlySpans /\ UnionsAreGraded
  <2>1. CASE stage = "scan"
    BY <2>1 DEF HidesExactlySpans, UnionsAreGraded
  <2>2. CASE stage # "scan"
    BY <2>2, MaskedIsHidden, MaskedIsGraded DEF CaptureInvariant
  <2> QED
    BY <2>1, <2>2
<1> QED
  BY <1>1, CaptureInvariantHolds, PTL

\* "When mask is true every sensitive span is replaced", for any policy, query,
\* body (multipart with CRLF line ends), level and other spans: what a span of another rule or a field makes sensitive is
\* masked, unless rules disagree on it or its spelling is not the one expected, and
\* nothing else ever is.
THEOREM RenderAlwaysHides == CaptureSpec => []RenderHidesSensitive
  BY CaptureInvariantHolds, CaptureInvariantHides, PTL
=============================================================================
