----------------------- MODULE ResponseServing_proofs -----------------------
(* Proofs about ResponseServing, for any requests, responses and files.      *)
EXTENDS ResponseServing, TLAPS

\* What a key handler may do to the heap: it makes a response or none, it
\* leaves all but the one in use as they are, and that one keeps its status.
HeapGrows ==
    /\ heap' \in Seq(Response)
    /\ Len(heap') >= Len(heap)
    /\ \A p \in 1..Len(heap) : p # inUse => heap'[p] = heap[p]
    /\ heap'[inUse].status = heap[inUse].status

LEMMA FromFormType ==
    ASSUME ServingTypeOK, NEW s \in Statuses, NEW i \in Inputs
    PROVE  /\ FromForm(s, i) \in Response
           /\ FromForm(s, i).body.file = heap[inUse].body.file
<1>1. heap[inUse] \in Response
  BY DEF ServingTypeOK
<1>2. heap[inUse].body \in Body
  BY <1>1 DEF Response
<1> QED
  BY <1>2 DEF FromForm, Response, Body

\* Appending to the heap, and changing the body in use.
LEMMA AppendGrows ==
    ASSUME ServingTypeOK, NEW x \in Response, heap' = Append(heap, x)
    PROVE  /\ HeapGrows
           /\ Len(heap') = Len(heap) + 1 /\ heap'[Len(heap')] = x
           /\ \A p \in 1..Len(heap) : heap'[p] = heap[p]
           /\ 1..Len(heap') = 1..Len(heap) \cup {Len(heap')}
<1>1. Len(heap) \in Nat /\ Len(heap') = Len(heap) + 1
  BY DEF ServingTypeOK
<1>2. \A n \in Nat : 1..(n + 1) = 1..n \cup {n + 1}
  OBVIOUS
<1> QED
  BY <1>1, <1>2 DEF ServingTypeOK, HeapGrows

LEMMA PutBodyGrows ==
    ASSUME ServingTypeOK, NEW b \in Body, PutBody(b)
    PROVE  /\ HeapGrows
           /\ Len(heap') = Len(heap) /\ heap'[inUse].body = b
           /\ \A p \in 1..Len(heap) : p # inUse => heap'[p] = heap[p]
<1>1. heap[inUse] \in Response
  BY DEF ServingTypeOK
<1>2. [status |-> heap[inUse].status, body |-> b] \in Response
  BY <1>1 DEF Response
<1> QED
  BY <1>2 DEF ServingTypeOK, HeapGrows, PutBody

\* Opening a file.
LEMMA OpenGrows ==
    ASSUME ServingTypeOK, offsets' = Append(offsets, 0)
    PROVE  /\ offsets' \in Seq(0..Length)
           /\ Len(offsets') = Len(offsets) + 1 /\ offsets'[Len(offsets')] = 0
           /\ \A h \in 1..Len(offsets) : offsets'[h] = offsets[h]
BY LengthAssumption DEF ServingTypeOK

-----------------------------------------------------------------------------
(* The key handlers                                                        *)

\* What each key leaves alone, whatever it does.
KeyFacts ==
    /\ HeapGrows
    /\ inUse' \in 1..Len(heap') /\ listed' \subseteq 1..Len(heap') /\ pressed' \in 0..MaxKeys
    /\ UNCHANGED <<handlerVars, overlapped, failed>>
    /\ offsets' = offsets \/ offsets' = Append(offsets, 0)
    /\ \A p \in 1..Len(heap') : heap'[p].body.file \in 0..Len(offsets')
    /\ heap'[inUse] = heap[inUse] \/ inUse' = inUse
    /\ Note \/ (seen' = seen /\ heap'[inUse] = heap[inUse])
    /\ \/ SetFile
       \/ /\ disturbed' = disturbed
          /\ \A p \in 1..Len(heap) : heap'[p].body.file = heap[p].body.file

LEMMA KeyStep ==
    ASSUME ServingTypeOK, KeyHandler
    PROVE  KeyFacts
<1>0. /\ inUse \in 1..Len(heap) /\ listed \subseteq 1..Len(heap)
      /\ Len(heap) \in Nat /\ Len(offsets) \in Nat
      /\ \A p \in 1..Len(heap) : heap[p].body.file \in 0..Len(offsets)
      /\ heap[inUse] \in Response /\ heap[inUse].body \in Body
  <2>1. heap[inUse] \in Response
    BY DEF ServingTypeOK
  <2> QED
    BY <2>1 DEF ServingTypeOK, Response
<1>1. ASSUME Press
      PROVE  pressed' \in 0..MaxKeys
  BY <1>1, MaxKeysAssumption DEF Press, ServingTypeOK
<1>2. ASSUME NEW s \in Statuses, NEW i \in Inputs, UpdateResponse(s, i)
      PROVE  KeyFacts
  <2>1. /\ Press /\ heap' = Append(heap, FromForm(s, i)) /\ inUse' = Len(heap') /\ Note
        /\ UNCHANGED <<listed, offsets, handlerVars, history>>
    BY <1>2 DEF UpdateResponse
  <2>2. /\ HeapGrows /\ Len(heap') = Len(heap) + 1
        /\ heap'[Len(heap')].body.file = heap[inUse].body.file
        /\ \A p \in 1..Len(heap) : heap'[p] = heap[p]
    BY <2>1, FromFormType, AppendGrows
  <2>3. /\ \A p \in 1..Len(heap') : heap'[p].body.file \in 0..Len(offsets')
        /\ inUse' \in 1..Len(heap') /\ listed' \subseteq 1..Len(heap')
    <3>1. 1..Len(heap') = 1..Len(heap) \cup {Len(heap')}
      BY <2>1, FromFormType, AppendGrows
    <3>2. inUse' \in 1..Len(heap') /\ listed' \subseteq 1..Len(heap')
      BY <1>0, <2>1, <3>1
    <3> QED
      BY <1>0, <2>1, <2>2, <3>1, <3>2
  <2> QED
    BY <1>0, <1>1, <2>1, <2>2, <2>3 DEF KeyFacts, history
<1>3. ASSUME NEW s \in Statuses, NEW i \in Inputs, SaveResponseAs(s, i)
      PROVE  KeyFacts
  <2>1. /\ Press /\ heap' = Append(heap, FromForm(s, i)) /\ listed' = listed \cup {Len(heap')}
        /\ UNCHANGED <<inUse, offsets, handlerVars, seen, history>>
    BY <1>3 DEF SaveResponseAs
  <2>2. /\ HeapGrows /\ Len(heap') = Len(heap) + 1
        /\ heap'[Len(heap')].body.file = heap[inUse].body.file
        /\ \A p \in 1..Len(heap) : heap'[p] = heap[p]
    BY <2>1, FromFormType, AppendGrows
  <2>3. /\ \A p \in 1..Len(heap') : heap'[p].body.file \in 0..Len(offsets')
        /\ inUse' \in 1..Len(heap') /\ listed' \subseteq 1..Len(heap')
    <3>1. 1..Len(heap') = 1..Len(heap) \cup {Len(heap')}
      BY <2>1, FromFormType, AppendGrows
    <3>2. inUse' \in 1..Len(heap') /\ listed' \subseteq 1..Len(heap')
      BY <1>0, <2>1, <3>1
    <3> QED
      BY <1>0, <2>1, <2>2, <3>1, <3>2
  <2> QED
    BY <1>0, <1>1, <2>1, <2>2, <2>3 DEF KeyFacts, history
<1>4. ASSUME NEW s \in Statuses, NEW i \in Inputs, LoadList(s, i)
      PROVE  KeyFacts
  <2> DEFINE x == [status |-> s,
                   body |-> [mode |-> "file", input |-> i, file |-> Len(offsets')]]
  <2>1. /\ Press /\ heap' = Append(heap, x) /\ listed' = {Len(heap')}
        /\ offsets' = Append(offsets, 0)
        /\ UNCHANGED <<inUse, handlerVars, seen, history>>
    BY <1>4 DEF LoadList
  <2>2. Len(offsets') = Len(offsets) + 1
    BY <2>1, OpenGrows
  <2>3. x \in Response
    BY <1>0, <2>2 DEF Response, Body
  <2>4. /\ HeapGrows /\ Len(heap') = Len(heap) + 1
        /\ heap'[Len(heap')].body.file = Len(offsets')
        /\ \A p \in 1..Len(heap) : heap'[p] = heap[p]
    BY <2>1, <2>3, AppendGrows
  <2>5. /\ \A p \in 1..Len(heap') : heap'[p].body.file \in 0..Len(offsets')
        /\ inUse' \in 1..Len(heap') /\ listed' \subseteq 1..Len(heap')
    <3>1. 1..Len(heap') = 1..Len(heap) \cup {Len(heap')}
      BY <2>1, <2>3, AppendGrows
    <3>2. inUse' \in 1..Len(heap') /\ listed' \subseteq 1..Len(heap')
      BY <1>0, <2>1, <3>1
    <3> QED
      BY <1>0, <2>1, <2>2, <2>4, <3>1, <3>2
  <2> QED
    BY <1>0, <1>1, <2>1, <2>4, <2>5 DEF KeyFacts, history
<1>5. ASSUME NEW p \in 1..Len(heap), Restore(p)
      PROVE  KeyFacts
  <2>1. /\ Press /\ inUse' = p /\ Note
        /\ UNCHANGED <<heap, listed, offsets, handlerVars, history>>
    BY <1>5 DEF Restore
  <2>2. HeapGrows
    BY <2>1 DEF HeapGrows, ServingTypeOK
  <2> QED
    BY <1>0, <1>1, <2>1, <2>2 DEF KeyFacts, history
<1>6. CASE SetFile
  <2> DEFINE b == [mode |-> "file", input |-> heap[inUse].body.input, file |-> Len(offsets')]
  <2>1. /\ Press /\ offsets' = Append(offsets, 0) /\ PutBody(b) /\ Note
        /\ UNCHANGED <<inUse, listed, handlerVars, overlapped, failed>>
    BY <1>6 DEF SetFile
  <2>2. Len(offsets') = Len(offsets) + 1
    BY <2>1, OpenGrows
  <2>3. b \in Body /\ b.file = Len(offsets')
    BY <1>0, <2>2 DEF Body
  <2> HIDE DEF b
  <2>4. HeapGrows /\ Len(heap') = Len(heap) /\ heap'[inUse].body = b
        /\ \A p \in 1..Len(heap) : p # inUse => heap'[p] = heap[p]
    BY <2>1, <2>3, PutBodyGrows
  <2>5. pressed' \in 0..MaxKeys /\ inUse' \in 1..Len(heap') /\ listed' \subseteq 1..Len(heap')
    BY <1>0, <1>1, <2>1, <2>4
  <2>6. \A p \in 1..Len(heap') : heap'[p].body.file \in 0..Len(offsets')
    <3>1. \A p \in 1..Len(heap) : p # inUse => heap'[p].body.file \in 0..Len(offsets')
      BY <1>0, <2>2, <2>4
    <3>2. heap'[inUse].body.file \in 0..Len(offsets')
      BY <1>0, <2>2, <2>3, <2>4
    <3> QED
      BY <2>4, <3>1, <3>2
  <2> QED
    BY <1>6, <2>1, <2>4, <2>5, <2>6 DEF KeyFacts
<1>7. CASE NextBodyMode
  <2> DEFINE b == [heap[inUse].body EXCEPT !.mode = IF @ = "input" THEN "file" ELSE "input"]
  <2>1. /\ Press /\ PutBody(b) /\ Note
        /\ UNCHANGED <<inUse, listed, offsets, handlerVars, history>>
    BY <1>7 DEF NextBodyMode
  <2>2. b \in Body /\ b.file = heap[inUse].body.file
    BY <1>0 DEF Body
  <2> HIDE DEF b
  <2>3. HeapGrows /\ Len(heap') = Len(heap) /\ heap'[inUse].body = b
        /\ \A p \in 1..Len(heap) : p # inUse => heap'[p] = heap[p]
    BY <2>1, <2>2, PutBodyGrows
  <2> QED
    BY <1>0, <1>1, <2>1, <2>2, <2>3 DEF KeyFacts, history
<1> QED
  BY <1>2, <1>3, <1>4, <1>5, <1>6, <1>7 DEF KeyHandler

LEMMA ServingTypeStep ==
    ASSUME ServingTypeOK, [ServingNext]_servingVars
    PROVE  ServingTypeOK'
<1>0. /\ heap \in Seq(Response) /\ inUse \in 1..Len(heap) /\ offsets \in Seq(0..Length)
      /\ pc \in [Requests -> {"new", "delayed", "headed", "reading", "rewinding", "answered"}]
      /\ fetched \in [Requests -> 1..Len(heap)]
      /\ status \in [Requests -> Statuses \cup {200}]
      /\ body \in [Requests -> Body]
      /\ \A r \in Requests : Reading(r) => body[r].file \in 1..Len(offsets)
      /\ got \in [Requests -> Seq(1..Length)] /\ seen \in [Requests -> SUBSET Response]
      /\ overlapped \subseteq Requests /\ disturbed \subseteq 1..Len(offsets)
      /\ failed \subseteq Requests
      /\ Len(heap) \in Nat /\ Len(offsets) \in Nat
  BY DEF ServingTypeOK, Handles
<1>1. ASSUME UNCHANGED servingVars
      PROVE  ServingTypeOK'
  BY <1>1
  DEF servingVars, uiVars, handlerVars, history, ServingTypeOK, Handles, Reading
<1>2. ASSUME KeyHandler
      PROVE  ServingTypeOK'
  <2>1. KeyFacts
    BY <1>2, KeyStep
  <2>2. /\ Len(offsets') \in Nat /\ Len(offsets) <= Len(offsets')
        /\ offsets' \in Seq(0..Length)
    BY <1>0, <2>1, OpenGrows DEF KeyFacts
  <2>3. /\ heap' \in Seq(Response) /\ Len(heap') >= Len(heap) /\ Len(heap') \in Nat
    BY <2>1 DEF KeyFacts, HeapGrows
  <2>4. fetched' \in [Requests -> 1..Len(heap')]
    BY <1>0, <2>1, <2>3 DEF KeyFacts, handlerVars
  <2>5. heap'[inUse'] \in Response
    BY <2>1, <2>3 DEF KeyFacts
  <2>6. seen' \in [Requests -> SUBSET Response]
    <3>1. \A r \in Requests : seen[r] \cup {heap'[inUse']} \in SUBSET Response
      BY <1>0, <2>5
    <3>2. CASE Note
      BY <1>0, <3>1, <3>2 DEF Note
    <3> QED
      BY <1>0, <2>1, <3>2 DEF KeyFacts
  <2>7. \A r \in Requests : Reading(r) => body[r].file \in 1..Len(offsets')
    BY <1>0, <2>2
  <2>8. disturbed' \subseteq 1..Len(offsets')
    <3>1. CASE SetFile
      <4>1. /\ Len(offsets') = Len(offsets) + 1
            /\ disturbed' \subseteq disturbed \cup
                  {body[r].file : r \in {q \in Requests : Reading(q)}} \cup {Len(offsets')}
        BY <3>1, OpenGrows DEF SetFile
      <4>2. disturbed \subseteq 1..Len(offsets')
        BY <1>0, <2>2
      <4>3. Len(offsets') \in 1..Len(offsets')
        BY <1>0, <4>1
      <4> QED
        BY <2>7, <4>1, <4>2, <4>3
    <3>2. CASE disturbed' = disturbed
      BY <1>0, <2>2, <3>2
    <3> QED
      BY <2>1, <3>1, <3>2 DEF KeyFacts
  <2> QED
    BY <1>0, <2>1, <2>2, <2>3, <2>4, <2>6, <2>7, <2>8
    DEF KeyFacts, handlerVars, ServingTypeOK, Handles, Reading
<1>3. ASSUME NEW r \in Requests, Handler(r)
      PROVE  ServingTypeOK'
  <2>0. heap[inUse] \in Response /\ heap[fetched[r]] \in Response
    BY <1>0
  <2>1. CASE Fetch(r)
    BY <1>0, <2>0, <2>1 DEF Fetch, ServingTypeOK, uiVars, history, Handles, Reading
  <2>2. CASE WriteHead(r)
    BY <1>0, <2>0, <2>2 DEF WriteHead, Response, ServingTypeOK, uiVars, history, Handles, Reading
  <2>3. CASE BeginPayload(r)
    <3> DEFINE b == heap[fetched[r]].body
               reads == b.mode = "file" /\ b.file # NoFile
    <3>1. /\ body' = [body EXCEPT ![r] = b]
          /\ pc' = [pc EXCEPT ![r] = IF reads THEN "reading" ELSE "answered"]
          /\ overlapped' \subseteq Requests
          /\ UNCHANGED <<uiVars, offsets, fetched, status, got, seen, disturbed, failed>>
      BY <1>0, <2>3 DEF BeginPayload, Readers
    <3>2. b \in Body /\ b.file \in 0..Len(offsets)
      BY <1>0, <2>0 DEF ServingTypeOK, Response
    <3>3. ASSUME NEW q \in Requests, Reading(q)'
          PROVE  body'[q].file \in 1..Len(offsets)
      BY <1>0, <3>1, <3>2, <3>3 DEF Reading, NoFile
    <3> HIDE DEF b, reads
    <3> QED
      BY <1>0, <3>1, <3>2, <3>3 DEF ServingTypeOK, uiVars, Handles
  <2>4. CASE ReadChunk(r)
    <3>1. body[r].file \in 1..Len(offsets)
      BY <1>0, <2>4 DEF ReadChunk, Reading
    <3>2. offsets[body[r].file] \in 0..Length
      <4>1. \A S : \A q \in Seq(S) : \A h \in 1..Len(q) : q[h] \in S
        OBVIOUS
      <4> QED
        BY <1>0, <3>1, <4>1
    <3>3. offsets[body[r].file] < Length
      BY <2>4 DEF ReadChunk
    <3>4. offsets[body[r].file] + 1 \in 1..Length
      BY <3>2, <3>3, LengthAssumption
    <3>5. offsets' \in Seq(0..Length) /\ Len(offsets') = Len(offsets)
      BY <1>0, <2>4, <3>1, <3>4 DEF ReadChunk
    <3>6. Append(got[r], offsets[body[r].file] + 1) \in Seq(1..Length)
      BY <1>0, <3>4
    <3>7. got' \in [Requests -> Seq(1..Length)]
      BY <1>0, <2>4, <3>6 DEF ReadChunk
    <3>8. /\ UNCHANGED <<heap, inUse, listed, pressed, pc, fetched, status, body, seen>>
          /\ UNCHANGED <<overlapped, disturbed, failed>>
      BY <2>4 DEF ReadChunk, uiVars, history
    <3>9. \A q \in Requests : Reading(q)' => body'[q].file \in Handles'
      BY <1>0, <3>5, <3>8 DEF ServingTypeOK, Handles, Reading
    <3> QED
      BY <1>0, <3>5, <3>7, <3>8, <3>9 DEF ServingTypeOK, Handles
  <2>5. CASE ReadEnds(r)
    BY <1>0, <2>5 DEF ReadEnds, ServingTypeOK, uiVars, history, Handles, Reading
  <2>6. CASE Rewind(r)
    <3>1. offsets' \in Seq(0..Length) /\ Len(offsets') = Len(offsets)
      <4> DEFINE f == heap[fetched[r]].body.file
      <4>1. offsets' = [offsets EXCEPT ![f] = 0]
        BY <2>6 DEF Rewind
      <4>2. 0 \in 0..Length /\ f \in Nat
        BY <1>0, <2>0, LengthAssumption DEF Response, Body
      <4> HIDE DEF f
      <4>3. CASE f \in 1..Len(offsets)
        BY <1>0, <4>1, <4>2, <4>3
      <4>4. CASE f \notin 1..Len(offsets)
        <5>1. offsets' = offsets
          BY <1>0, <4>1, <4>4
        <5> QED
          BY <1>0, <5>1
      <4> QED
        BY <4>3, <4>4
    <3> QED
      BY <1>0, <2>6, <3>1 DEF Rewind, ServingTypeOK, uiVars, history, Handles, Reading
  <2>7. CASE ReadFails(r)
    BY <1>0, <2>7 DEF ReadFails, ServingTypeOK, uiVars, Handles, Reading
  <2> QED
    BY <1>3, <2>1, <2>2, <2>3, <2>4, <2>5, <2>6, <2>7 DEF Handler, GoesOn
<1> QED
  BY <1>1, <1>2, <1>3 DEF ServingNext

\* What a request points to has been in use as it is, and so has its answer.
LEMMA SeenStep ==
    ASSUME ServingInvariant, [ServingNext]_servingVars
    PROVE  PointsToSeen' /\ AnswerWasInUse'
<1> USE DEF ServingInvariant
<1>0. /\ ServingTypeOK /\ heap \in Seq(Response) /\ inUse \in 1..Len(heap)
      /\ pc \in [Requests -> {"new", "delayed", "headed", "reading", "rewinding", "answered"}]
      /\ fetched \in [Requests -> 1..Len(heap)] /\ seen \in [Requests -> SUBSET Response]
      /\ status \in [Requests -> Statuses \cup {200}]
      /\ body \in [Requests -> Body] /\ got \in [Requests -> Seq(1..Length)]
  BY DEF ServingTypeOK
<1> USE DEF PointsToSeen, AnswerWasInUse, Reading, Pending
<1>1. CASE UNCHANGED servingVars
  BY <1>1 DEF servingVars, uiVars, handlerVars
<1>2. CASE KeyHandler
  <2>1. KeyFacts
    BY <1>0, <1>2, KeyStep
  <2>2. UNCHANGED <<pc, fetched, status, body, got>>
    BY <2>1 DEF KeyFacts, handlerVars
  <2>3. \A r \in Requests : seen[r] \subseteq seen'[r]
    <3>1. Note \/ seen' = seen
      BY <2>1 DEF KeyFacts
    <3> QED
      BY <3>1 DEF Note
  <2>4. ASSUME NEW r \in Requests, Pending(r)
        PROVE  heap'[fetched[r]] \in seen'[r]
               /\ heap'[fetched[r]].status = heap[fetched[r]].status
    <3>1. CASE heap'[fetched[r]] = heap[fetched[r]]
      BY <2>3, <2>4, <3>1
    <3>2. CASE heap'[fetched[r]] # heap[fetched[r]]
      <4>1. fetched[r] = inUse /\ inUse' = inUse /\ Note
        BY <1>0, <2>1, <3>2 DEF KeyFacts, HeapGrows
      <4> QED
        BY <2>1, <2>4, <4>1 DEF Note, KeyFacts, HeapGrows
    <3> QED
      BY <3>1, <3>2
  <2> QED
    BY <2>2, <2>3, <2>4
<1>3. ASSUME NEW r \in Requests, Handler(r)
      PROVE  PointsToSeen' /\ AnswerWasInUse'
  <2>0. /\ UNCHANGED heap
        /\ \A q \in Requests \ {r} :
              /\ pc'[q] = pc[q] /\ fetched'[q] = fetched[q] /\ status'[q] = status[q]
              /\ body'[q] = body[q] /\ got'[q] = got[q] /\ seen'[q] = seen[q]
    BY <1>0, <1>3
    DEF Handler, GoesOn, Fetch, WriteHead, BeginPayload, ReadChunk, ReadEnds, ReadFails, Rewind, uiVars
  <2>1. CASE Fetch(r)
    BY <1>0, <2>0, <2>1 DEF Fetch
  <2>2. CASE WriteHead(r)
    BY <1>0, <2>0, <2>2 DEF WriteHead
  <2>3. CASE BeginPayload(r)
    <3>1. /\ body'[r] = heap[fetched[r]].body /\ pc[r] = "headed"
          /\ pc'[r] \in {"reading", "answered"}
          /\ UNCHANGED <<status, seen, got>>
      BY <1>0, <2>3 DEF BeginPayload
    <3>2. heap[fetched[r]] \in Response
      BY <1>0
    <3>3. heap[fetched[r]] = [status |-> status[r], body |-> body'[r]]
      BY <3>1, <3>2 DEF Response
    <3>4. PointsToSeen'
      BY <1>0, <2>0, <3>1
    <3>5. [status |-> status'[r], body |-> body'[r]] \in seen'[r]
      BY <2>3, <3>1, <3>3
    <3>6. ASSUME NEW q \in Requests \ {r}, Reading(q)' \/ pc'[q] = "answered"
          PROVE  [status |-> status'[q], body |-> body'[q]] \in seen'[q]
      BY <2>0, <3>6
    <3> QED
      BY <3>4, <3>5, <3>6
  <2>4. CASE ReadChunk(r)
    BY <1>0, <2>0, <2>4 DEF ReadChunk
  <2>5. CASE ReadEnds(r)
    BY <1>0, <2>0, <2>5 DEF ReadEnds
  <2>6. CASE Rewind(r)
    BY <1>0, <2>0, <2>6 DEF Rewind
  <2>7. CASE ReadFails(r)
    BY <1>0, <2>0, <2>7 DEF ReadFails
  <2> QED
    BY <1>3, <2>1, <2>2, <2>3, <2>4, <2>5, <2>6, <2>7 DEF Handler, GoesOn
<1> QED
  BY <1>1, <1>2, <1>3 DEF ServingNext

-----------------------------------------------------------------------------
(* The body files                                                          *)

LEMMA ChunksGrow ==
    /\ Chunks(0) = <<>>
    /\ \A n \in Nat : Append(Chunks(n), n + 1) = Chunks(n + 1)
<1>1. Chunks(0) = <<>>
  BY DEF Chunks
<1>2. ASSUME NEW n \in Nat
      PROVE  Append(Chunks(n), n + 1) = Chunks(n + 1)
  <2>1. Chunks(n) \in Seq(Nat) /\ Len(Chunks(n)) = n
    BY DEF Chunks
  <2>2. /\ Append(Chunks(n), n + 1) \in Seq(Nat)
        /\ Len(Append(Chunks(n), n + 1)) = n + 1
        /\ \A k \in 1..(n + 1) : Append(Chunks(n), n + 1)[k] = k
    BY <2>1 DEF Chunks
  <2>3. Chunks(n + 1) \in Seq(Nat) /\ Len(Chunks(n + 1)) = n + 1
        /\ \A k \in 1..(n + 1) : Chunks(n + 1)[k] = k
    BY DEF Chunks
  <2> HIDE DEF Chunks
  <2> QED
    BY <2>2, <2>3
<1> QED
  BY <1>1, <1>2

FilesInvariant ==
    /\ RestsAtStart /\ SoleReader /\ RewindsItsOwn /\ FileIsSentWhole
    /\ \A r \in Requests : pc[r] = "new" => got[r] = <<>>

LEMMA FilesKeyStep ==
    ASSUME ServingInvariant, KeyHandler
    PROVE  FilesInvariant'
<1> USE DEF ServingInvariant
<1>0. /\ ServingTypeOK /\ inUse \in 1..Len(heap) /\ fetched \in [Requests -> 1..Len(heap)]
      /\ \A r \in Requests : Reading(r) => body[r].file \in 1..Len(offsets)
      /\ Len(offsets) \in Nat
  BY DEF ServingTypeOK, Handles
<1>1. KeyFacts
  BY <1>0, KeyStep
<1>2. UNCHANGED <<pc, fetched, body, got, overlapped, failed>>
  BY <1>1 DEF KeyFacts, handlerVars
<1>3. \A r \in Requests, h \in Nat : Reading(r)' = Reading(r) /\ Readers(h)' = Readers(h)
  BY <1>2 DEF Reading, Readers
<1>4. /\ \A h \in 1..Len(offsets) : offsets'[h] = offsets[h]
      /\ \A h \in 1..Len(offsets') : h \in 1..Len(offsets) \/ offsets'[h] = 0
  <2>1. Len(offsets) \in Nat /\ offsets \in Seq(0..Length)
    BY DEF ServingTypeOK
  <2>2. offsets' = offsets \/ offsets' = Append(offsets, 0)
    BY <1>1 DEF KeyFacts
  <2>3. CASE offsets' = offsets
    BY <2>3
  <2>4. CASE offsets' = Append(offsets, 0)
    BY <2>4, OpenGrows
  <2> QED
    BY <2>2, <2>3, <2>4
<1>5. disturbed \subseteq disturbed'
  BY <1>1 DEF KeyFacts, SetFile
<1>6. RestsAtStart'
  <2> SUFFICES ASSUME NEW h \in 1..Len(offsets'), h \notin disturbed', Readers(h)' = {}
               PROVE  offsets'[h] = 0
    BY DEF RestsAtStart, Handles
  <2>1. h \in Nat
    OBVIOUS
  <2>2. Readers(h) = {} /\ h \notin disturbed
    BY <1>2, <1>5 DEF Readers, Reading
  <2> QED
    BY <1>4, <2>2 DEF RestsAtStart, Handles
<1>7. SoleReader'
  BY <1>0, <1>2, <1>3, <1>4, <1>5 DEF SoleReader, Alone
<1>8. FileIsSentWhole' /\ \A r \in Requests : pc'[r] = "new" => got'[r] = <<>>
  BY <1>2, <1>5 DEF FileIsSentWhole
<1>9. RewindsItsOwn'
  <2> SUFFICES ASSUME NEW r \in Requests, Reading(r),
                      heap'[fetched[r]].body.file # body[r].file
               PROVE  /\ heap'[fetched[r]].body.file \in disturbed'
                      /\ body[r].file \in disturbed'
    BY <1>2, <1>3 DEF RewindsItsOwn
  <2>1. CASE heap'[fetched[r]].body.file = heap[fetched[r]].body.file
    BY <1>5, <2>1 DEF RewindsItsOwn
  <2>2. CASE heap'[fetched[r]].body.file # heap[fetched[r]].body.file
    <3>1. SetFile /\ fetched[r] = inUse
      BY <1>0, <1>1, <2>2 DEF KeyFacts, HeapGrows
    <3>2. heap[inUse] \in Response /\ Len(offsets') \in Nat
      BY <1>0, <3>1, OpenGrows DEF SetFile, ServingTypeOK
    <3> DEFINE b == [mode |-> "file", input |-> heap[inUse].body.input, file |-> Len(offsets')]
    <3>3. b \in Body /\ PutBody(b)
      BY <3>1, <3>2 DEF SetFile, Response, Body
    <3>4. heap'[inUse].body.file = Len(offsets')
      BY <1>0, <3>3, PutBodyGrows
    <3> QED
      BY <3>1, <3>4 DEF SetFile
  <2> QED
    BY <2>1, <2>2
<1> QED
  BY <1>6, <1>7, <1>8, <1>9 DEF FilesInvariant

LEMMA FilesHandlerStep ==
    ASSUME ServingInvariant, NEW r \in Requests, Handler(r)
    PROVE  FilesInvariant'
<1> USE DEF ServingInvariant
<1>0. /\ ServingTypeOK /\ offsets \in Seq(0..Length) /\ Len(offsets) \in Nat
      /\ pc \in [Requests -> {"new", "delayed", "headed", "reading", "rewinding", "answered"}]
      /\ fetched \in [Requests -> 1..Len(heap)]
      /\ body \in [Requests -> Body] /\ got \in [Requests -> Seq(1..Length)]
      /\ \A q \in Requests : Reading(q) => body[q].file \in 1..Len(offsets)
  BY DEF ServingTypeOK, Handles
<1>1. /\ UNCHANGED <<heap, disturbed>>
      /\ \A q \in Requests \ {r} :
            /\ pc'[q] = pc[q] /\ fetched'[q] = fetched[q] /\ body'[q] = body[q]
            /\ got'[q] = got[q] /\ Reading(q)' = Reading(q)
  BY <1>0
  DEF Handler, GoesOn, Fetch, WriteHead, BeginPayload, ReadChunk, ReadEnds, ReadFails, Rewind, uiVars, history,
      Reading
<1>2. CASE Fetch(r) \/ WriteHead(r)
  <2>1. /\ UNCHANGED <<offsets, overlapped, body, got, failed>>
        /\ ~Reading(r) /\ ~Reading(r)' /\ pc[r] # "answered" /\ pc'[r] \in {"delayed", "headed"}
    BY <1>0, <1>2 DEF Fetch, WriteHead, Reading, history
  <2>2. \A h \in Nat : Readers(h)' = Readers(h)
    BY <1>1, <2>1 DEF Readers
  <2>3. RestsAtStart'
    BY <1>0, <1>1, <2>1, <2>2 DEF RestsAtStart, Handles
  <2>4. SoleReader'
    <3>1. \A q \in Requests \ {r} : /\ Reading(q)' = Reading(q) /\ pc'[q] = pc[q]
                                    /\ body'[q] = body[q] /\ got'[q] = got[q]
      BY <1>1
    <3>2. UNCHANGED <<offsets, overlapped, disturbed, failed>> /\ ~Reading(r) /\ ~Reading(r)'
      BY <1>1, <2>1
    <3>3. \A q \in Requests : Reading(q)' => Reading(q) /\ (Alone(q) => Alone(q)')
      BY <3>1, <3>2 DEF Alone
    <3> QED
      BY <3>1, <3>2, <3>3 DEF SoleReader
  <2>5. RewindsItsOwn'
    <3>1. \A q \in Requests \ {r} : /\ Reading(q)' = Reading(q)
                                    /\ fetched'[q] = fetched[q] /\ body'[q] = body[q]
      BY <1>1
    <3>2. UNCHANGED <<heap, disturbed>> /\ ~Reading(r)'
      BY <1>1, <2>1
    <3> QED
      BY <3>1, <3>2 DEF RewindsItsOwn
  <2>6. FileIsSentWhole' /\ \A q \in Requests : pc'[q] = "new" => got'[q] = <<>>
    BY <1>1, <2>1 DEF FileIsSentWhole
  <2> QED
    BY <2>3, <2>4, <2>5, <2>6 DEF FilesInvariant
<1>3. CASE BeginPayload(r)
  <2> DEFINE b == heap[fetched[r]].body
             reads == b.mode = "file" /\ b.file # NoFile
  <2>1. /\ body'[r] = b /\ pc[r] = "headed" /\ got[r] = <<>>
        /\ pc'[r] = (IF reads THEN "reading" ELSE "answered")
        /\ UNCHANGED <<offsets, fetched, got, failed>>
    BY <1>0, <1>3 DEF BeginPayload, PointsToSeen, Pending
  <2>2. overlapped' = IF reads /\ Readers(b.file) # {}
                      THEN overlapped \cup Readers(b.file) \cup {r} ELSE overlapped
    BY <1>3 DEF BeginPayload
  <2>3. ~Reading(r) /\ (Reading(r)' <=> reads)
    BY <2>1 DEF Reading
  <2>4. /\ \A h \in Nat : Readers(h)' = Readers(h) \cup {q \in {r} : reads /\ b.file = h}
        /\ \A h \in Nat : r \notin Readers(h)
    BY <1>1, <2>1, <2>3 DEF Readers
  <2>5. b \in Body /\ b.file \in 0..Len(offsets)
    <3>1. heap[fetched[r]] \in Response /\ fetched[r] \in 1..Len(heap)
      BY <1>0 DEF ServingTypeOK
    <3> QED
      BY <3>1 DEF ServingTypeOK, Response
  <2> HIDE DEF b, reads
  <2>6. RestsAtStart'
    BY <1>0, <1>1, <2>1, <2>4 DEF RestsAtStart, Handles
  <2>7. ASSUME NEW q \in Requests \ overlapped', Reading(q)', body'[q].file \notin disturbed
        PROVE  /\ Alone(q)'
               /\ got'[q] = Chunks(offsets[body'[q].file])
               /\ pc'[q] = "rewinding" /\ q \notin failed' => offsets[body'[q].file] = Length
    <3>1. CASE q = r
      <4>1. reads /\ Readers(b.file) = {} /\ body'[q].file = b.file
        BY <2>1, <2>2, <2>3, <2>7, <3>1
      <4>2. b.file \in 1..Len(offsets)
        BY <2>5, <4>1 DEF reads, NoFile
      <4>3. offsets[b.file] = 0
        BY <2>7, <4>1, <4>2 DEF RestsAtStart, Handles
      <4>4. pc'[q] = "reading"
        BY <2>1, <3>1, <4>1
      <4>5. Alone(q)'
        BY <1>1, <2>1, <3>1, <4>1 DEF Alone, Readers
      <4> QED
        BY <2>1, <3>1, <4>1, <4>3, <4>4, <4>5, ChunksGrow
    <3>2. CASE q # r
      <4>1. Reading(q) /\ body'[q] = body[q] /\ q \notin overlapped /\ got'[q] = got[q]
            /\ pc'[q] = pc[q] /\ body[q].file \in Nat
        BY <1>0, <1>1, <2>2, <2>7, <3>2
      <4>2. q \in Readers(body[q].file)
        BY <4>1 DEF Readers
      <4>3. ~(reads /\ b.file = body[q].file)
        BY <2>2, <2>7, <4>2
      <4>4. /\ Alone(q) /\ got[q] = Chunks(offsets[body[q].file])
            /\ pc[q] = "rewinding" /\ q \notin failed => offsets[body[q].file] = Length
        BY <2>7, <4>1 DEF SoleReader
      <4>5. Alone(q)'
        BY <1>1, <2>1, <2>3, <4>1, <4>3, <4>4 DEF Alone
      <4> QED
        BY <2>1, <4>1, <4>4, <4>5
    <3> QED
      BY <3>1, <3>2
  <2>8. SoleReader'
    BY <1>1, <2>1, <2>7 DEF SoleReader
  <2>9. RewindsItsOwn'
    BY <1>1, <2>1 DEF RewindsItsOwn, b
  <2>10. FileIsSentWhole' /\ \A q \in Requests : pc'[q] = "new" => got'[q] = <<>>
    BY <1>1, <2>1, <2>2 DEF FileIsSentWhole, reads
  <2> QED
    BY <2>6, <2>8, <2>9, <2>10 DEF FilesInvariant
<1>4. CASE ReadChunk(r)
  <2> DEFINE h == body[r].file
  <2>1. /\ pc[r] = "reading" /\ pc'[r] = "reading" /\ body' = body /\ overlapped' = overlapped /\ failed' = failed
        /\ fetched' = fetched /\ Reading(r) /\ Reading(r)' /\ h \in 1..Len(offsets)
        /\ got'[r] = Append(got[r], offsets[h] + 1)
        /\ offsets' = [offsets EXCEPT ![h] = @ + 1]
    BY <1>0, <1>4 DEF ReadChunk, history, Reading
  <2>2. /\ offsets'[h] = offsets[h] + 1 /\ offsets[h] \in Nat /\ Len(offsets') = Len(offsets)
        /\ \A k \in 1..Len(offsets) \ {h} : offsets'[k] = offsets[k]
    <3>1. \A S : \A x \in Seq(S) : \A k \in 1..Len(x) : x[k] \in S
      OBVIOUS
    <3>2. offsets[h] \in 0..Length
      BY <1>0, <2>1, <3>1
    <3> QED
      BY <1>0, <2>1, <3>2, LengthAssumption
  <2> HIDE DEF h
  <2>3. (\A k \in Nat : Readers(k)' = Readers(k)) /\ r \in Readers(h)
    BY <1>1, <2>1 DEF Readers, h
  <2>4. RestsAtStart'
    BY <1>0, <1>1, <2>2, <2>3 DEF RestsAtStart, Handles
  <2>5. ASSUME NEW q \in Requests \ overlapped', Reading(q)', body'[q].file \notin disturbed
        PROVE  /\ Alone(q)'
               /\ got'[q] = Chunks(offsets'[body'[q].file])
               /\ pc'[q] = "rewinding" /\ q \notin failed' => offsets'[body'[q].file] = Length
    <3>1. Reading(q) /\ q \notin overlapped /\ body'[q] = body[q] /\ body[q].file \in 1..Len(offsets)
      BY <1>0, <1>1, <2>1, <2>5
    <3>2. /\ Alone(q)
          /\ got[q] = Chunks(offsets[body[q].file])
          /\ pc[q] = "rewinding" /\ q \notin failed => offsets[body[q].file] = Length
      BY <2>5, <3>1 DEF SoleReader
    <3>3. CASE q = r
      <4>1. got'[q] = Chunks(offsets[h] + 1)
        BY <2>1, <2>2, <3>2, <3>3, ChunksGrow DEF h
      <4>2. Alone(q)'
        BY <1>1, <2>1, <3>2 DEF Alone
      <4> QED
        BY <2>1, <2>2, <3>3, <4>1, <4>2 DEF h
    <3>4. CASE q # r
      <4>1. body[q].file # h
        BY <2>1, <3>2, <3>4 DEF Alone, h
      <4>2. Alone(q)'
        BY <1>1, <2>1, <3>2 DEF Alone
      <4> QED
        BY <1>1, <2>1, <2>2, <3>1, <3>2, <3>4, <4>1, <4>2
    <3> QED
      BY <3>3, <3>4
  <2>6. SoleReader'
    BY <1>1, <2>5 DEF SoleReader
  <2>7. RewindsItsOwn'
    BY <1>1, <2>1 DEF RewindsItsOwn
  <2>8. FileIsSentWhole' /\ \A q \in Requests : pc'[q] = "new" => got'[q] = <<>>
    BY <1>1, <2>1 DEF FileIsSentWhole
  <2> QED
    BY <2>4, <2>6, <2>7, <2>8 DEF FilesInvariant
<1>5. CASE ReadEnds(r)
  <2>1. /\ pc[r] = "reading" /\ pc'[r] = "rewinding" /\ offsets[body[r].file] = Length
        /\ UNCHANGED <<offsets, fetched, body, got, overlapped, failed>>
        /\ Reading(r) /\ Reading(r)'
    BY <1>0, <1>5 DEF ReadEnds, history, Reading
  <2>2. \A k \in Nat : Readers(k)' = Readers(k)
    BY <1>1, <2>1 DEF Readers
  <2>3. RestsAtStart'
    BY <1>0, <1>1, <2>1, <2>2 DEF RestsAtStart, Handles
  <2>a. \A q \in Requests : Reading(q)' <=> Reading(q)
    BY <1>1, <2>1
  <2>4. \A q \in Requests : (Reading(q)' <=> Reading(q)) /\ (Alone(q)' <=> Alone(q))
    BY <2>1, <2>a DEF Alone
  <2>5. SoleReader'
    BY <1>1, <2>1, <2>4 DEF SoleReader
  <2>6. RewindsItsOwn'
    BY <1>1, <2>1 DEF RewindsItsOwn
  <2>7. \A q \in Requests : pc'[q] = "new" => got'[q] = <<>>
    BY <1>1, <2>1
  <2>8. r \notin overlapped /\ body[r].file \notin disturbed => got[r] = Chunks(Length)
    BY <2>1 DEF SoleReader
  <2>9. FileIsSentWhole'
    BY <1>1, <2>1, <2>8, LengthAssumption DEF FileIsSentWhole, Chunks
  <2> QED
    BY <2>3, <2>5, <2>6, <2>7, <2>9 DEF FilesInvariant
<1>7. CASE ReadFails(r)
  <2>1. /\ pc[r] = "reading" /\ pc'[r] = "rewinding" /\ failed' = failed \cup {r}
        /\ UNCHANGED <<offsets, fetched, body, got, overlapped>>
        /\ Reading(r) /\ Reading(r)'
    BY <1>0, <1>7 DEF ReadFails, Reading
  <2>2. \A k \in Nat : Readers(k)' = Readers(k)
    BY <1>1, <2>1 DEF Readers
  <2>3. RestsAtStart'
    BY <1>0, <1>1, <2>1, <2>2 DEF RestsAtStart, Handles
  <2>a. \A q \in Requests : Reading(q)' <=> Reading(q)
    BY <1>1, <2>1
  <2>4. \A q \in Requests : (Reading(q)' <=> Reading(q)) /\ (Alone(q)' <=> Alone(q))
    BY <2>1, <2>a DEF Alone
  <2>5. SoleReader'
    BY <1>1, <2>1, <2>4 DEF SoleReader
  <2>6. RewindsItsOwn'
    BY <1>1, <2>1 DEF RewindsItsOwn
  <2>7. \A q \in Requests : pc'[q] = "new" => got'[q] = <<>>
    BY <1>1, <2>1
  <2>8. r \notin overlapped /\ body[r].file \notin disturbed =>
           \E n \in 0..Length : got[r] = Chunks(n)
    <3>1. offsets[body[r].file] \in 0..Length
      <4>1. \A S : \A x \in Seq(S) : \A k \in 1..Len(x) : x[k] \in S
        OBVIOUS
      <4>2. body[r].file \in 1..Len(offsets)
        BY <1>0, <2>1
      <4> QED
        BY <1>0, <4>1, <4>2
    <3>2. r \notin overlapped /\ body[r].file \notin disturbed =>
             got[r] = Chunks(offsets[body[r].file])
      BY <2>1 DEF SoleReader
    <3> QED
      BY <3>1, <3>2
  <2>9. FileIsSentWhole'
    BY <1>1, <2>1, <2>8 DEF FileIsSentWhole, Chunks
  <2> QED
    BY <2>3, <2>5, <2>6, <2>7, <2>9 DEF FilesInvariant
<1>6. CASE Rewind(r)
  <2> DEFINE f == heap[fetched[r]].body.file
  <2>1. /\ pc[r] = "rewinding" /\ pc'[r] = "answered"
        /\ offsets' = [offsets EXCEPT ![f] = 0]
        /\ UNCHANGED <<fetched, body, got, overlapped, failed>>
        /\ Reading(r) /\ ~Reading(r)'
    BY <1>0, <1>6 DEF Rewind, history, Reading
  <2>2. body[r].file \in 1..Len(offsets) /\ (f # body[r].file => f \in disturbed /\ body[r].file \in disturbed)
    BY <1>0, <2>1 DEF RewindsItsOwn
  <2> HIDE DEF f
  <2>3. /\ Len(offsets') = Len(offsets) /\ \A k \in 1..Len(offsets) \ {f} : offsets'[k] = offsets[k]
        /\ f \in 1..Len(offsets) => offsets'[f] = 0
    BY <1>0, <2>1
  <2>4. /\ \A k \in Nat : Readers(k)' = Readers(k) \ {r}
        /\ \A k \in Nat : r \in Readers(k) <=> k = body[r].file
    BY <1>1, <2>1, <2>2 DEF Readers
  <2>5. RestsAtStart'
    <3> SUFFICES ASSUME NEW k \in 1..Len(offsets), k \notin disturbed, Readers(k) \ {r} = {}
                 PROVE  offsets'[k] = 0
      BY <1>0, <1>1, <2>3, <2>4 DEF RestsAtStart, Handles
    <3>1. CASE r \in Readers(k)
      BY <2>2, <2>3, <2>4, <3>1
    <3>2. CASE r \notin Readers(k)
      BY <2>3, <3>2 DEF RestsAtStart, Handles
    <3> QED
      BY <3>1, <3>2
  <2>6. ASSUME NEW q \in Requests \ overlapped', Reading(q)', body'[q].file \notin disturbed
        PROVE  /\ Alone(q)'
               /\ got'[q] = Chunks(offsets'[body'[q].file])
               /\ pc'[q] = "rewinding" /\ q \notin failed' => offsets'[body'[q].file] = Length
    <3>1. q # r /\ Reading(q) /\ q \notin overlapped /\ body'[q] = body[q]
          /\ body[q].file \in 1..Len(offsets)
      BY <1>0, <1>1, <2>1, <2>6
    <3>2. /\ Alone(q)
          /\ got[q] = Chunks(offsets[body[q].file])
          /\ pc[q] = "rewinding" /\ q \notin failed => offsets[body[q].file] = Length
      BY <2>6, <3>1 DEF SoleReader
    <3>3. body[q].file # body[r].file /\ body[q].file # f
      BY <2>1, <2>2, <2>6, <3>1, <3>2 DEF Alone
    <3>4. Alone(q)'
      BY <1>1, <2>1, <3>1, <3>2 DEF Alone
    <3> QED
      BY <1>1, <2>1, <2>3, <3>1, <3>2, <3>3, <3>4
  <2>7. SoleReader'
    BY <1>1, <2>6 DEF SoleReader
  <2>8. RewindsItsOwn'
    BY <1>1, <2>1 DEF RewindsItsOwn
  <2>9. FileIsSentWhole' /\ \A q \in Requests : pc'[q] = "new" => got'[q] = <<>>
    BY <1>1, <2>1 DEF FileIsSentWhole
  <2> QED
    BY <2>5, <2>7, <2>8, <2>9 DEF FilesInvariant
<1> QED
  BY <1>2, <1>3, <1>4, <1>5, <1>6, <1>7 DEF Handler, GoesOn

-----------------------------------------------------------------------------
(* The theorems                                                            *)

\* The inductive invariant.
THEOREM ServingInvariantHolds == ServingSpec => []ServingInvariant
<1>1. ServingInit => ServingInvariant
  <2> SUFFICES ASSUME ServingInit
               PROVE  ServingInvariant
    OBVIOUS
  <2>1. PICK i \in Inputs :
          heap = <<[status |-> 200, body |-> [mode |-> "input", input |-> i, file |-> NoFile]]>>
    BY DEF ServingInit
  <2>2. heap \in Seq(Response) /\ Len(heap) = 1 /\ heap[1] \in Response /\ heap[1].body.file = 0
    BY <2>1 DEF Response, Body, NoFile
  <2>3. heap[1].status \in Statuses \cup {200} /\ heap[1].body \in Body
    BY <2>2 DEF Response
  <2>4. ServingTypeOK
    BY <2>2, <2>3, MaxKeysAssumption, LengthAssumption
    DEF ServingInit, ServingTypeOK, Handles, Reading
  <2>5. \A r \in Requests : pc[r] = "new" /\ got[r] = <<>>
    BY DEF ServingInit
  <2>6. RestsAtStart
    BY DEF ServingInit, RestsAtStart, Handles
  <2> QED
    BY <2>4, <2>5, <2>6
    DEF ServingInvariant, SoleReader, RewindsItsOwn, PointsToSeen, AnswerWasInUse,
        FileIsSentWhole, Reading, Pending
<1>2. ServingInvariant /\ [ServingNext]_servingVars => ServingInvariant'
  <2> SUFFICES ASSUME ServingInvariant, [ServingNext]_servingVars
               PROVE  ServingInvariant'
    OBVIOUS
  <2>1. ServingTypeOK'
    BY ServingTypeStep DEF ServingInvariant
  <2>2. FilesInvariant'
    <3>1. CASE UNCHANGED servingVars
      BY <3>1
      DEF servingVars, uiVars, handlerVars, history, ServingInvariant, FilesInvariant,
          RestsAtStart, SoleReader, RewindsItsOwn, FileIsSentWhole, Handles, Readers, Reading, Alone
    <3> QED
      BY <3>1, FilesKeyStep, FilesHandlerStep DEF ServingNext
  <2> QED
    BY <2>1, <2>2, SeenStep DEF FilesInvariant, ServingInvariant
<1> QED
  BY <1>1, <1>2, PTL DEF ServingSpec

\* The types of the state.
THEOREM ServingTypeCorrect == ServingSpec => []ServingTypeOK
BY ServingInvariantHolds, PTL DEF ServingInvariant

\* An answer is one response, as it was in use at one moment while its request
\* was pending.
THEOREM AnswersWereInUse == ServingSpec => []AnswerWasInUse
BY ServingInvariantHolds, PTL DEF ServingInvariant

\* A request that read its file alone, and under no SetFile, gets all of it, or
\* what comes before its own failing read; the failing reads of others, and how
\* far they came, do not matter.
THEOREM FilesAreSentWhole == ServingSpec => []FileIsSentWhole
BY ServingInvariantHolds, PTL DEF ServingInvariant
=============================================================================
