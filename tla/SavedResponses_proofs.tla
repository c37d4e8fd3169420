------------------------ MODULE SavedResponses_proofs ------------------------
(* Theorems about SavedResponses, for any names, statuses and delays. *)
EXTENDS SavedResponses, FiniteSetTheorems, TLAPS

\* An open list is as Load has left it: every name once, in order, the cursor
\* on one of them, and the entries those of the file.
ListIsLoaded ==
    open /\ ~exited =>
        /\ keys \in Sorted(DOMAIN list)
        /\ current \in 0..(Len(keys) - 1)
        /\ DOMAIN list = DOMAIN file.list
        /\ \A n \in DOMAIN list : list[n].status = file.list[n].status

SavedInvariant == TypeOK /\ KeysMatchList /\ ListIsLoaded

\* What a list and a file are, apart from where they are.
Entries(l) == DOMAIN l \subseteq Names /\ \A n \in DOMAIN l : l[n] \in Response
File(f) == f.text \in Texts /\ Entries(f.list)

-----------------------------------------------------------------------------
(* Conversions and sequences                                               *)

LEMMA ConversionsHold ==
    ASSUME NEW r \in Response
    PROVE  /\ Encode(r) \in Response /\ Encode(r).status = r.status
           /\ Decode(r) \in Response /\ Decode(r).status = r.status
<1>1. r.delay \div Millisecond \in Nat
  <2>1. r.delay \in Nat /\ Millisecond \in Nat /\ Millisecond > 0
    BY MillisecondAssumption DEF Response
  <2> QED
    BY <2>1
<1> QED
  BY <1>1 DEF Encode, Decode, Response

LEMMA FormTyped ==
    ASSUME TypeOK, form # BadForm
    PROVE  FromForm \in Response
<1>1. form \in Response /\ Millisecond \in Nat
  BY MillisecondAssumption DEF TypeOK
<1>2. form.delay * Millisecond \in Nat
  BY <1>1 DEF Response
<1> QED
  BY <1>1, <1>2 DEF FromForm, Response

LEMMA SortedHolds ==
    ASSUME NEW S \in SUBSET Names, NEW s \in Sorted(S)
    PROVE  /\ s \in Seq(Names) /\ Len(s) = Cardinality(S) /\ Len(s) \in Nat
           /\ Range(s) = S /\ Ascending(s) /\ (S # {} => Len(s) >= 1)
<1>1. Cardinality(S) \in Nat /\ (S # {} => Cardinality(S) # 0)
  <2>1. IsFiniteSet(S)
    BY NamesAssumption, FS_Subset
  <2> QED
    BY <2>1, FS_CardinalityType, FS_EmptySet
<1>2. s \in [1..Cardinality(S) -> S] /\ Range(s) = S /\ Ascending(s)
  BY DEF Sorted
<1> HIDE DEF Sorted
<1>3. s \in Seq(S) /\ Len(s) = Cardinality(S)
  BY <1>1, <1>2
<1>4. s \in Seq(Names)
  BY <1>3
<1> QED
  BY <1>1, <1>2, <1>3, <1>4

LEMMA ConcatHolds ==
    ASSUME NEW S, NEW p \in Seq(S), NEW q \in Seq(S)
    PROVE  /\ p \o q \in Seq(S) /\ Len(p \o q) = Len(p) + Len(q)
           /\ \A j \in 1..Len(p) : (p \o q)[j] = p[j]
           /\ \A j \in (Len(p) + 1)..(Len(p) + Len(q)) : (p \o q)[j] = q[j - Len(p)]
OBVIOUS

LEMMA InsertAtHolds ==
    ASSUME NEW S, NEW s \in Seq(S), NEW x \in S, NEW k \in 1..(Len(s) + 1)
    PROVE  /\ InsertAt(s, k, x) \in Seq(S)
           /\ Range(InsertAt(s, k, x)) = Range(s) \cup {x}
<1> DEFINE a == SubSeq(s, 1, k - 1)
           b == SubSeq(s, k, Len(s))
           t == InsertAt(s, k, x)
<1>1. /\ a \in Seq(S) /\ Len(a) = k - 1 /\ \A j \in 1..(k - 1) : a[j] = s[j]
  OBVIOUS
<1>2. /\ b \in Seq(S) /\ Len(b) = Len(s) - k + 1
      /\ \A j \in 1..(Len(s) - k + 1) : b[j] = s[k + j - 1]
  OBVIOUS
<1>3. t = a \o <<x>> \o b
  BY DEF InsertAt
<1> HIDE DEF a, b, t
<1>4. /\ a \o <<x>> \in Seq(S) /\ Len(a \o <<x>>) = k
      /\ (a \o <<x>>)[k] = x /\ \A j \in 1..(k - 1) : (a \o <<x>>)[j] = s[j]
  <2> DEFINE u == <<x>>
  <2>1. u \in Seq(S) /\ Len(u) = 1 /\ u[1] = x
    OBVIOUS
  <2> HIDE DEF u
  <2>2. a \in Seq(S) /\ Len(a) = k - 1
    BY <1>1
  <2>3. /\ a \o u \in Seq(S) /\ Len(a \o u) = Len(a) + Len(u)
        /\ \A j \in 1..Len(a) : (a \o u)[j] = a[j]
        /\ \A j \in (Len(a) + 1)..(Len(a) + Len(u)) : (a \o u)[j] = u[j - Len(a)]
    BY <2>1, <2>2, ConcatHolds
  <2>4. Len(a \o u) = k /\ (a \o u)[k] = x
    BY <2>1, <2>2, <2>3
  <2> QED
    BY <1>1, <2>2, <2>3, <2>4 DEF u
<1>5. /\ t \in Seq(S) /\ Len(t) = Len(s) + 1 /\ t[k] = x
      /\ \A j \in 1..(k - 1) : t[j] = s[j]
      /\ \A j \in (k + 1)..(Len(s) + 1) : t[j] = s[j - 1]
  <2> DEFINE p == a \o <<x>>
  <2>0. p \in Seq(S) /\ b \in Seq(S) /\ Len(p) = k /\ Len(b) = Len(s) - k + 1 /\ t = p \o b
    BY <1>2, <1>3, <1>4
  <2> HIDE DEF p
  <2>1. /\ t \in Seq(S) /\ Len(t) = Len(p) + Len(b)
        /\ \A j \in 1..Len(p) : t[j] = p[j]
        /\ \A j \in (Len(p) + 1)..(Len(p) + Len(b)) : t[j] = b[j - Len(p)]
    BY <2>0, ConcatHolds
  <2>2. Len(t) = Len(s) + 1 /\ k \in 1..k /\ \A j \in 1..(k - 1) : j \in 1..k
    BY <2>0, <2>1
  <2>3. ASSUME NEW j \in (k + 1)..(Len(s) + 1)
        PROVE  t[j] = s[j - 1]
    <3>1. j - k \in 1..(Len(s) - k + 1) /\ k + (j - k) - 1 = j - 1
      OBVIOUS
    <3>2. t[j] = b[j - k]
      BY <2>0, <2>1
    <3> QED
      BY <1>2, <3>1, <3>2
  <2> QED
    BY <1>4, <2>0, <2>1, <2>2, <2>3 DEF p
<1>6. \A j \in 1..Len(s) : s[j] \in Range(t)
  <2>1. \A j \in 1..Len(s) : j < k => s[j] = t[j] /\ j \in DOMAIN t
    BY <1>5
  <2>2. \A j \in 1..Len(s) : j >= k => s[j] = t[j + 1] /\ j + 1 \in DOMAIN t
    BY <1>5
  <2> QED
    BY <2>1, <2>2 DEF Range
<1>7. \A j \in 1..Len(t) : t[j] \in Range(s) \cup {x}
  <2>1. \A j \in 1..Len(t) : j < k => t[j] = s[j] /\ j \in DOMAIN s
    BY <1>5
  <2>2. \A j \in 1..Len(t) : j > k => t[j] = s[j - 1] /\ j - 1 \in DOMAIN s
    BY <1>5
  <2> QED
    BY <1>5, <2>1, <2>2 DEF Range
<1>8. x \in Range(t)
  BY <1>5 DEF Range
<1> QED
  BY <1>5, <1>6, <1>7, <1>8 DEF t, Range

\* sort.SearchStrings finds the key that is deleted.
LEMMA WithoutHolds ==
    ASSUME keys \in Seq(Names), Ascending(keys), current \in 0..(Len(keys) - 1)
    PROVE  /\ Without(Selected) \in Seq(Names)
           /\ Range(Without(Selected)) = Range(keys) \ {Selected}
<1> DEFINE c == current + 1
           a == SubSeq(keys, 1, c - 1)
           b == SubSeq(keys, c + 1, Len(keys))
           t == Without(Selected)
<1>1. c \in 1..Len(keys) /\ Selected = keys[c] /\ \A j \in 1..Len(keys) : keys[j] \in Nat
  <2>1. c \in 1..Len(keys)
    OBVIOUS
  <2>2. Selected = keys[c]
    BY DEF Selected
  <2> HIDE DEF c, a, b, t
  <2>3. \A j \in 1..Len(keys) : keys[j] \in Names
    OBVIOUS
  <2> QED
    BY <2>1, <2>2, <2>3, NamesAssumption
<1>2. \A j, k \in 1..Len(keys) : j < k => keys[j] < keys[k]
  BY DEF Ascending
<1>3. t = a \o b
  <2> DEFINE Found(k) == keys[k] >= Selected /\ \A j \in 1..(k - 1) : keys[j] < Selected
  <2>1. c \in DOMAIN keys /\ Found(c)
    BY <1>1, <1>2
  <2>2. \A k \in DOMAIN keys : Found(k) => k = c
    <3>1. \A k \in 1..Len(keys) : k < c => keys[k] < Selected
      BY <1>1, <1>2
    <3>2. \A k \in 1..Len(keys) : k > c => c \in 1..(k - 1) /\ ~(keys[c] < Selected)
      BY <1>1
    <3>3. ASSUME NEW k \in 1..Len(keys), Found(k)
          PROVE  k = c
      <4>1. ~(keys[k] < Selected) /\ keys[k] \in Nat /\ Selected \in Nat
        BY <1>1, <3>3
      <4> QED
        BY <1>1, <3>1, <3>2, <3>3, <4>1
    <3> QED
      BY <3>3
  <2>3. c = CHOOSE k \in DOMAIN keys : Found(k)
    <3> HIDE DEF Found, c
    <3> QED
      BY <2>1, <2>2
  <2> QED
    BY <2>3 DEF Without, RemoveAt
<1>4. /\ a \in Seq(Names) /\ Len(a) = c - 1 /\ \A j \in 1..(c - 1) : a[j] = keys[j]
  <2> HIDE DEF c
  <2> QED
    BY <1>1
<1>5. /\ b \in Seq(Names) /\ Len(b) = Len(keys) - c
      /\ \A j \in 1..(Len(keys) - c) : b[j] = keys[c + j]
  <2> HIDE DEF c
  <2> QED
    BY <1>1
<1> HIDE DEF a, b, t, c
<1>6. /\ t \in Seq(Names) /\ Len(t) = Len(keys) - 1
      /\ \A j \in 1..(c - 1) : t[j] = keys[j]
      /\ \A j \in c..(Len(keys) - 1) : t[j] = keys[j + 1]
  <2>1. /\ t \in Seq(Names) /\ Len(t) = Len(a) + Len(b)
        /\ \A j \in 1..Len(a) : t[j] = a[j]
        /\ \A j \in (Len(a) + 1)..(Len(a) + Len(b)) : t[j] = b[j - Len(a)]
    <3>1. a \in Seq(Names) /\ b \in Seq(Names)
      BY <1>4, <1>5
    <3> QED
      BY <1>3, <3>1, ConcatHolds
  <2>2. Len(t) = Len(keys) - 1
    BY <1>1, <1>4, <1>5, <2>1
  <2>3. ASSUME NEW j \in c..(Len(keys) - 1)
        PROVE  t[j] = keys[j + 1]
    <3>1. j - (c - 1) \in 1..(Len(keys) - c) /\ c + (j - (c - 1)) = j + 1
      BY <1>1
    <3>2. t[j] = b[j - (c - 1)]
      BY <1>1, <1>4, <1>5, <2>1
    <3> QED
      BY <1>5, <3>1, <3>2
  <2> QED
    BY <1>4, <2>1, <2>2, <2>3
<1>7. \A j \in 1..Len(keys) : keys[j] # Selected => keys[j] \in Range(t)
  <2>1. \A j \in 1..Len(keys) : j < c => keys[j] = t[j] /\ j \in DOMAIN t
    BY <1>1, <1>6
  <2>2. \A j \in 1..Len(keys) : j > c => keys[j] = t[j - 1] /\ j - 1 \in DOMAIN t
    BY <1>1, <1>6
  <2> QED
    BY <1>1, <2>1, <2>2 DEF Range
<1>8. \A j \in 1..Len(t) : t[j] \in Range(keys) /\ t[j] # Selected
  <2>1. \A j \in 1..Len(t) : j < c => t[j] = keys[j] /\ j \in DOMAIN keys /\ keys[j] < Selected
    BY <1>1, <1>2, <1>6
  <2>2. \A j \in 1..Len(t) : j >= c => t[j] = keys[j + 1] /\ j + 1 \in DOMAIN keys
                                       /\ keys[j + 1] > Selected
    BY <1>1, <1>2, <1>6
  <2> QED
    BY <1>1, <2>1, <2>2 DEF Range
<1> QED
  BY <1>6, <1>7, <1>8 DEF t, Range

-----------------------------------------------------------------------------
(* Loading and saving                                                      *)

\* A mixture of two lists is a list.
LEMMA MixtureHolds ==
    ASSUME NEW f, NEW l, File(f), Entries(l), NEW m \in Mixtures(f, l)
    PROVE  Entries(m)
<1>1. PICK k \in Names, j \in Names : m = Mixed(f, l, k, j)
  BY DEF Mixtures
<1> DEFINE last == {n \in DOMAIN f.list : n >= j}
           both == {n \in DOMAIN l : n <= k} \cup last
<1>2. m = [n \in both |-> IF n \in last THEN f.list[n] ELSE Encode(l[n])]
  BY <1>1 DEF Mixed
<1>3. ASSUME NEW n \in both
      PROVE  n \in Names /\ m[n] \in Response
  <2>1. CASE n \in last
    BY <1>2, <2>1 DEF File, Entries
  <2>2. CASE n \notin last
    <3>1. n \in DOMAIN l /\ m[n] = Encode(l[n])
      BY <1>2, <2>2
    <3> QED
      BY <3>1, ConversionsHold DEF Entries
  <2> QED
    BY <2>1, <2>2
<1> HIDE DEF both
<1> QED
  BY <1>2, <1>3 DEF Entries

LEMMA SaveHolds ==
    ASSUME NEW f, NEW l, File(f), Entries(l), NEW saved \in SaveOutcomes(f, l)
    PROVE  /\ File(saved.file) /\ saved.error \in BOOLEAN
           /\ ~saved.error => DOMAIN saved.file.list = DOMAIN l
           /\ saved.file.text = "whole" => saved.file = f \/ DOMAIN saved.file.list = DOMAIN l
<1>1. CASE saved = [error |-> FALSE, file |-> [text |-> "whole", list |-> Map(Encode, l)]]
  <2>1. Entries(Map(Encode, l)) /\ DOMAIN Map(Encode, l) = DOMAIN l
    BY ConversionsHold DEF Entries, Map
  <2>2. /\ saved.error = FALSE /\ saved.file.text = "whole"
        /\ saved.file.list = Map(Encode, l)
    BY <1>1
  <2> QED
    BY <2>1, <2>2 DEF File, Texts
<1>2. CASE saved = [error |-> TRUE, file |-> f]
  BY <1>2
<1>3. CASE saved = [error |-> TRUE, file |-> [text |-> "cut", list |-> <<>>]]
  <2>1. saved.error = TRUE /\ saved.file.text = "cut" /\ saved.file.list = <<>>
    BY <1>3
  <2>2. Entries(saved.file.list)
    BY <2>1 DEF Entries
  <2> QED
    BY <2>1, <2>2 DEF File, Texts
<1>4. CASE \E m \in Mixtures(f, l) :
              saved = [error |-> TRUE, file |-> [text |-> "mixed", list |-> m]]
  <2>1. PICK m \in Mixtures(f, l) :
           saved = [error |-> TRUE, file |-> [text |-> "mixed", list |-> m]]
    BY <1>4
  <2>2. saved.error = TRUE /\ saved.file.text = "mixed" /\ saved.file.list = m
    BY <2>1
  <2>3. Entries(m)
    BY MixtureHolds
  <2> QED
    BY <2>2, <2>3 DEF File, Texts
<1> QED
  BY <1>1, <1>2, <1>3, <1>4 DEF SaveOutcomes

LEMMA LoadHolds ==
    ASSUME NEW f, File(f), Load(f)
    PROVE  /\ Entries(list') /\ DOMAIN list' = DOMAIN f.list
           /\ \A n \in DOMAIN list' : list'[n].status = f.list[n].status
           /\ keys' \in Sorted(DOMAIN list') /\ keys' \in Seq(Names)
           /\ Range(keys') = DOMAIN list'
           /\ current' = 0
           /\ DOMAIN f.list # {} => current' \in 0..(Len(keys') - 1)
<1>1. /\ list' = [n \in DOMAIN f.list |-> Decode(f.list[n])]
      /\ keys' \in Sorted(DOMAIN f.list) /\ current' = 0
  BY DEF Load, Map
<1>2. DOMAIN f.list \subseteq Names /\ \A n \in DOMAIN f.list : f.list[n] \in Response
  BY DEF File, Entries
<1>3. /\ Entries(list') /\ DOMAIN list' = DOMAIN f.list
      /\ \A n \in DOMAIN list' : list'[n].status = f.list[n].status
  BY <1>1, <1>2, ConversionsHold DEF Entries
<1>4. /\ keys' \in Seq(Names) /\ Range(keys') = DOMAIN f.list /\ Len(keys') \in Nat
      /\ DOMAIN f.list # {} => Len(keys') >= 1
  BY <1>1, <1>2, SortedHolds
<1>5. DOMAIN f.list # {} => 0 \in 0..(Len(keys') - 1)
  BY <1>4
<1>6. keys' \in Sorted(DOMAIN list')
  BY <1>1, <1>3
<1> HIDE DEF Load
<1> QED
  BY <1>1, <1>3, <1>4, <1>5, <1>6

LEMMA OpenListHolds ==
    ASSUME NEW f, NEW l, NEW ks, File(f), Entries(l), ks \in Seq(Names), Range(ks) = DOMAIN l,
           current \in Nat, OpenList(f, l, ks), file' = f
    PROVE  /\ Entries(list') /\ keys' \in Seq(Names) /\ current' \in Nat /\ open' \in BOOLEAN
           /\ KeysMatchList' /\ ListIsLoaded'
<1>1. CASE f.text # "cut" /\ Load(f) /\ open' = (DOMAIN f.list # {})
  <2>1. /\ Entries(list') /\ keys' \in Seq(Names) /\ current' = 0 /\ Range(keys') = DOMAIN list'
        /\ keys' \in Sorted(DOMAIN list') /\ DOMAIN list' = DOMAIN f.list
        /\ \A n \in DOMAIN list' : list'[n].status = f.list[n].status
        /\ DOMAIN f.list # {} => current' \in 0..(Len(keys') - 1)
    BY <1>1, LoadHolds
  <2>2. open' = (DOMAIN f.list # {}) /\ open' \in BOOLEAN /\ current' \in Nat
    BY <1>1, <2>1
  <2>3. ListIsLoaded'
    BY <2>1, <2>2 DEF ListIsLoaded
  <2> QED
    BY <2>1, <2>2, <2>3 DEF KeysMatchList
<1>2. CASE list' = l /\ keys' = ks /\ open' = FALSE /\ UNCHANGED current
  BY <1>2 DEF KeysMatchList, ListIsLoaded
<1> QED
  BY <1>1, <1>2 DEF OpenList

LEMMA AddHolds ==
    ASSUME TypeOK, KeysMatchList, NEW n \in Names, NEW r \in Response, Add(n, r)
    PROVE  Entries(list') /\ keys' \in Seq(Names) /\ KeysMatchList' /\ DOMAIN list \subseteq DOMAIN list'
<1>1. PICK k \in 1..(Len(keys) + 1) : keys' = InsertAt(keys, k, n)
  BY DEF Add
<1>2. keys' \in Seq(Names) /\ Range(keys') = Range(keys) \cup {n}
  BY <1>1, InsertAtHolds DEF TypeOK
<1>3. list' = [m \in DOMAIN list \cup {n} |-> IF m = n THEN r ELSE list[m]]
  BY DEF Add
<1>4. Entries(list') /\ DOMAIN list' = DOMAIN list \cup {n}
  BY <1>3 DEF TypeOK, Entries
<1> QED
  BY <1>2, <1>4 DEF KeysMatchList

-----------------------------------------------------------------------------
(* The invariant                                                           *)

\* How the types are those of the file, the list and the rest.
LEMMA TypeParts ==
    TypeOK <=> /\ File(file) /\ Entries(list) /\ keys \in Seq(Names) /\ current \in Nat
               /\ resp \in Response /\ form \in Response \cup {BadForm}
               /\ open \in BOOLEAN /\ exited \in BOOLEAN
BY DEF TypeOK, File, Entries

LEMMA InitSaved == Init => SavedInvariant
<1> SUFFICES ASSUME Init PROVE SavedInvariant
  OBVIOUS
<1>1. PICK ns \in SUBSET Names : file.list \in [ns -> [status : Statuses, delay : Delays]]
  BY DEF Init
<1>2. File(file)
  <2>1. file.text \in Texts
    BY DEF Init, Texts
  <2>2. Entries(file.list)
    BY <1>1, DelaysAssumption DEF Entries, Response
  <2> QED
    BY <2>1, <2>2 DEF File
<1>3. resp \in Response
  BY DEF Init, Response
<1>4. Entries(list) /\ Range(keys) = DOMAIN list /\ keys \in Seq(Names)
  BY DEF Init, Entries, Range
<1>5. TypeOK
  BY <1>2, <1>3, <1>4, TypeParts DEF Init
<1> QED
  BY <1>4, <1>5 DEF SavedInvariant, KeysMatchList, ListIsLoaded, Init

\* The entry the cursor is on, while the list takes keys.
LEMMA SelectedHolds ==
    ASSUME SavedInvariant, open, ~exited
    PROVE  /\ Len(keys) \in Nat /\ Len(keys) >= 1 /\ current \in 0..(Len(keys) - 1)
           /\ Selected \in DOMAIN list /\ list[Selected] \in Response
           /\ Ascending(keys)
<1>1. keys \in Seq(Names) /\ current \in 0..(Len(keys) - 1) /\ Range(keys) = DOMAIN list
  BY DEF SavedInvariant, TypeOK, ListIsLoaded, KeysMatchList
<1>2. Selected \in Range(keys)
  BY <1>1 DEF Selected, Range
<1>3. Ascending(keys)
  BY DEF SavedInvariant, ListIsLoaded, Sorted
<1>4. Len(keys) \in Nat /\ Len(keys) >= 1
  BY <1>1
<1> QED
  BY <1>1, <1>2, <1>3, <1>4 DEF SavedInvariant, TypeOK

-----------------------------------------------------------------------------
(* The steps                                                               *)

LEMMA BuilderSteps ==
    ASSUME SavedInvariant, (\E t \in Typed : Edit(t)) \/ UpdateResponse \/ Restore
    PROVE  SavedInvariant'
<1> USE DEF SavedInvariant
<1>1. UNCHANGED <<file, list, keys, current, open, exited>>
  BY DEF Edit, UpdateResponse, Restore
<1>2. resp' \in Response /\ form' \in Response \cup {BadForm}
  <2>1. CASE \E t \in Typed : Edit(t)
    <3>1. Typed \subseteq Response \cup {BadForm}
      BY DelaysAssumption DEF Typed, Response
    <3> QED
      BY <2>1, <3>1 DEF Edit, TypeOK
  <2>2. CASE UpdateResponse
    BY <2>2, FormTyped DEF UpdateResponse, TypeOK
  <2>3. CASE Restore
    BY <2>3, SelectedHolds DEF Restore
  <2> QED
    BY <2>1, <2>2, <2>3
<1>3. TypeOK'
  BY <1>1, <1>2 DEF TypeOK
<1> QED
  BY <1>1, <1>3 DEF KeysMatchList, ListIsLoaded

LEMMA CursorSteps ==
    ASSUME SavedInvariant, Prev \/ NextResponse
    PROVE  SavedInvariant'
<1> USE DEF SavedInvariant
<1>1. open /\ ~exited /\ UNCHANGED <<file, list, keys, open, resp, form, exited>>
  BY DEF Prev, NextResponse
<1>2. Len(keys) \in Nat /\ Len(keys) >= 1 /\ current \in 0..(Len(keys) - 1)
  BY <1>1, SelectedHolds
<1>3. current' \in 0..(Len(keys) - 1)
  <2> DEFINE l == Len(keys)
  <2>1. current' = (current - 1 + l) % l \/ current' = (current + 1) % l
    BY DEF Prev, NextResponse
  <2>2. l \in Nat \ {0} /\ current - 1 + l \in Int /\ current + 1 \in Int
    BY <1>2
  <2> HIDE DEF l
  <2>3. \A x \in Int : x % l \in 0..(l - 1)
    BY <2>2
  <2> QED
    BY <2>1, <2>2, <2>3 DEF l
<1>4. TypeOK'
  BY <1>1, <1>3 DEF TypeOK
<1>5. KeysMatchList' /\ ListIsLoaded'
  BY <1>1, <1>3 DEF KeysMatchList, ListIsLoaded
<1> QED
  BY <1>4, <1>5

LEMMA ToggleStep ==
    ASSUME SavedInvariant, ToggleLoader
    PROVE  SavedInvariant'
<1> USE DEF SavedInvariant
<1>1. UNCHANGED <<file, resp, form, exited>>
  BY DEF ToggleLoader
<1>2. CASE open
  <2>1. open' = FALSE /\ UNCHANGED <<list, keys, current>>
    BY <1>2 DEF ToggleLoader
  <2>2. TypeOK'
    BY <1>1, <2>1 DEF TypeOK
  <2> QED
    BY <2>1, <2>2 DEF KeysMatchList, ListIsLoaded
<1>3. CASE ~open
  <2>1. OpenList(file, list, keys)
    BY <1>3 DEF ToggleLoader
  <2>2. /\ Entries(list') /\ keys' \in Seq(Names) /\ current' \in Nat /\ open' \in BOOLEAN
        /\ KeysMatchList' /\ ListIsLoaded'
    BY <1>1, <2>1, TypeParts, OpenListHolds DEF KeysMatchList
  <2>3. TypeOK'
    BY <1>1, <2>2 DEF TypeOK, Entries
  <2> QED
    BY <2>2, <2>3
<1> QED
  BY <1>2, <1>3

\* Ctrl+s leaves the list closed, so that it owes the file nothing.
LEMMA SaveStep ==
    ASSUME SavedInvariant, NEW n \in Names, SaveResponseAs(n)
    PROVE  /\ SavedInvariant'
           /\ file'.text = "whole" => file' = file \/ DOMAIN list \subseteq DOMAIN file'.list
<1> USE DEF SavedInvariant
<1>1. open' = FALSE /\ UNCHANGED <<current, resp, form, exited>>
  BY DEF SaveResponseAs
<1>2. CASE form = BadForm
  <2>1. UNCHANGED <<file, list, keys>>
    BY <1>2 DEF SaveResponseAs
  <2>2. TypeOK'
    BY <1>1, <2>1 DEF TypeOK
  <2> QED
    BY <1>1, <2>1, <2>2 DEF KeysMatchList, ListIsLoaded
<1>3. CASE form # BadForm
  <2>1. Add(n, FromForm) /\ \E saved \in SaveOutcomes(file, list') : file' = saved.file
    BY <1>3 DEF SaveResponseAs
  <2>2. /\ Entries(list') /\ keys' \in Seq(Names) /\ KeysMatchList'
        /\ DOMAIN list \subseteq DOMAIN list'
    BY <1>3, <2>1, FormTyped, AddHolds
  <2>3. /\ File(file')
        /\ file'.text = "whole" => file' = file \/ DOMAIN file'.list = DOMAIN list'
    BY <2>1, <2>2, TypeParts, SaveHolds
  <2>4. TypeOK'
    BY <1>1, <2>2, <2>3 DEF TypeOK, File, Entries
  <2> QED
    BY <1>1, <2>2, <2>3, <2>4 DEF ListIsLoaded
<1> QED
  BY <1>2, <1>3

LEMMA DeleteStep ==
    ASSUME SavedInvariant, Delete
    PROVE  /\ SavedInvariant'
           /\ file'.text = "whole" => file' = file \/ DOMAIN list \ {Selected} \subseteq DOMAIN file'.list
<1> USE DEF SavedInvariant
<1> DEFINE left == [m \in DOMAIN list \ {Selected} |-> list[m]]
<1>1. open /\ ~exited /\ UNCHANGED <<resp, form>>
  BY DEF Delete, DeleteEntry
<1>2. PICK saved \in SaveOutcomes(file, left) :
         /\ file' = saved.file /\ exited' = saved.error
         /\ IF saved.error
            THEN list' = left /\ keys' = Without(Selected) /\ UNCHANGED <<current, open>>
            ELSE OpenList(saved.file, left, Without(Selected))
  BY DEF Delete, DeleteEntry
<1>3. Entries(left) /\ DOMAIN left = DOMAIN list \ {Selected}
  BY DEF TypeOK, Entries
<1>4. Without(Selected) \in Seq(Names) /\ Range(Without(Selected)) = DOMAIN left
  <2>1. keys \in Seq(Names) /\ Ascending(keys) /\ current \in 0..(Len(keys) - 1)
    BY <1>1, SelectedHolds DEF TypeOK
  <2> QED
    BY <1>3, <2>1, WithoutHolds DEF KeysMatchList
<1> HIDE DEF left
<1>5. /\ File(file') /\ exited' \in BOOLEAN
      /\ file'.text = "whole" => file' = file \/ DOMAIN file'.list = DOMAIN left
  BY <1>2, <1>3, TypeParts, SaveHolds
<1>6. /\ Entries(list') /\ keys' \in Seq(Names) /\ current' \in Nat /\ open' \in BOOLEAN
      /\ KeysMatchList' /\ ListIsLoaded'
  <2>1. CASE saved.error
    BY <1>1, <1>2, <1>3, <1>4, <2>1 DEF TypeOK, KeysMatchList, ListIsLoaded
  <2>2. CASE ~saved.error
    <3>1. OpenList(file', left, Without(Selected)) /\ current \in Nat
      BY <1>2, <2>2 DEF TypeOK
    <3>2. \A f : f = file' => OpenList(f, left, Without(Selected)) /\ File(f)
      BY <1>5, <3>1
    <3> QED
      BY <1>2, <1>3, <1>4, <1>5, <2>2, <3>1, OpenListHolds
  <2> QED
    BY <2>1, <2>2
<1>7. TypeOK'
  BY <1>1, <1>5, <1>6 DEF TypeOK, File, Entries
<1> QED
  BY <1>3, <1>5, <1>6, <1>7

-----------------------------------------------------------------------------
(* Theorems                                                                *)

LEMMA NextSaved ==
    ASSUME SavedInvariant, [Next]_vars
    PROVE  SavedInvariant'
<1>1. CASE (\E t \in Typed : Edit(t)) \/ UpdateResponse \/ Restore
  BY <1>1, BuilderSteps
<1>2. CASE Prev \/ NextResponse
  BY <1>2, CursorSteps
<1>3. CASE ToggleLoader
  BY <1>3, ToggleStep
<1>4. CASE \E n \in Names : SaveResponseAs(n)
  BY <1>4, SaveStep
<1>5. CASE Delete
  BY <1>5, DeleteStep
<1>6. CASE UNCHANGED vars
  <2>1. TypeOK'
    BY <1>6 DEF vars, SavedInvariant, TypeOK
  <2> QED
    BY <1>6, <2>1 DEF vars, SavedInvariant, KeysMatchList, ListIsLoaded
<1> QED
  BY <1>1, <1>2, <1>3, <1>4, <1>5, <1>6 DEF Next

\* Between handlers the list, its keys and the file are related as Load has
\* left them or the list is closed, whatever was typed, saved and deleted, and
\* whichever of the writes and loads failed.
THEOREM SavedInvariantHolds == Spec => []SavedInvariant
<1>1. Init => SavedInvariant
  BY InitSaved
<1>2. SavedInvariant /\ [Next]_vars => SavedInvariant'
  BY NextSaved
<1> QED
  BY <1>1, <1>2, PTL DEF Spec

\* The types of the state.
THEOREM SavedTypeCorrect == Spec => []TypeOK
<1>1. SavedInvariant => TypeOK
  BY DEF SavedInvariant
<1> QED
  BY <1>1, SavedInvariantHolds, PTL

\* Next, Prev, Cur and onDelete never divide by zero, index past the keys or
\* find no response.
THEOREM CursorStaysOnAResponse == Spec => []CursorOnAResponse
<1>1. SavedInvariant => CursorOnAResponse
  BY SelectedHolds DEF CursorOnAResponse
<1> QED
  BY <1>1, SavedInvariantHolds, PTL

\* Add and Del keep List and keys at the same names.
THEOREM KeysStayWithList == Spec => []KeysMatchList
<1>1. SavedInvariant => KeysMatchList
  BY DEF SavedInvariant
<1> QED
  BY <1>1, SavedInvariantHolds, PTL

\* The open list shows what the file holds, each name once.
THEOREM ListShowsFile == Spec => []ShownIsSaved
<1>1. SavedInvariant => ShownIsSaved
  <2> SUFFICES ASSUME SavedInvariant, open, ~exited
               PROVE  /\ DOMAIN list = DOMAIN file.list
                      /\ Len(keys) = Cardinality(DOMAIN list)
                      /\ \A n \in DOMAIN list : list[n].status = file.list[n].status
    BY DEF ShownIsSaved
  <2>1. DOMAIN list \in SUBSET Names /\ keys \in Sorted(DOMAIN list)
    BY DEF SavedInvariant, TypeOK, ListIsLoaded
  <2>2. Len(keys) = Cardinality(DOMAIN list)
    BY <2>1, SortedHolds
  <2> QED
    BY <2>2 DEF SavedInvariant, ListIsLoaded
<1> QED
  BY <1>1, SavedInvariantHolds, PTL

\* With the list open a key takes no entry from the file but the selected one.
THEOREM OnlySelectedIsDeleted == Spec => OnlySelectedGoes
<1> DEFINE Goes == open /\ file'.text = "whole" => DOMAIN file.list \ {Selected} \subseteq DOMAIN file'.list
<1>1. SavedInvariant /\ [Next]_vars => [Goes]_vars
  <2> SUFFICES ASSUME SavedInvariant, Next, open, file'.text = "whole"
               PROVE  DOMAIN file.list \ {Selected} \subseteq DOMAIN file'.list
    OBVIOUS
  <2>1. ~exited
    BY DEF Next, Edit, UpdateResponse, ToggleLoader, SaveResponseAs, Prev, NextResponse, Delete,
           DeleteEntry, Restore
  <2>2. DOMAIN list = DOMAIN file.list
    BY <2>1 DEF SavedInvariant, ListIsLoaded
  <2>3. CASE \/ \E t \in Typed : Edit(t)
             \/ UpdateResponse \/ ToggleLoader \/ Prev \/ NextResponse \/ Restore
    BY <2>3 DEF Edit, UpdateResponse, ToggleLoader, Prev, NextResponse, Restore
  <2>4. CASE \E n \in Names : SaveResponseAs(n)
    BY <2>2, <2>4, SaveStep
  <2>5. CASE Delete
    BY <2>2, <2>5, DeleteStep
  <2> QED
    BY <2>3, <2>4, <2>5 DEF Next
<1> QED
  BY <1>1, SavedInvariantHolds, PTL DEF Spec, OnlySelectedGoes
=============================================================================
