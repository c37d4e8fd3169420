----------------------- MODULE RequestInspector_proofs -----------------------
(* Proofs about RequestInspector, for any set of requests and any TTL.      *)
EXTENDS RequestInspector, SequenceTheorems, TLAPS

\* The closures of Display and the timer's closure are different ones.
LEMMA RemaskIsNoContent == Remask \notin Content /\ Remask \in Closures
BY NoRequestAssumption DEF Remask, Content, Closures

\* updateRequest, called with a cursor on a capture, keeps the title and the
\* queue well-typed, only ever adds to the queue, and writes no title but that
\* of its arguments.
LEMMA UpdateRequestFacts ==
    ASSUME NEW reqs \in Seq(Capture), NEW cur \in Nat, cur < Len(reqs),
           NEW id \in Nat, NEW ticks \in Int, TypeOK,
           UpdateRequest(reqs, cur, id, ticks)
    PROVE  /\ title' \in [pos : Nat, total : Nat, mark : Marks]
           /\ pending' \in [Closures -> Nat]
           /\ pending'[Remask] = pending[Remask]
           /\ \/ title' = title
              \/ /\ title'.pos = cur + 1
                 /\ title'.total = Len(reqs)
                 /\ title'.mark = "revealed" => IsRevealed(reqs[cur + 1], id, ticks)
           /\ started => /\ title'.pos = cur + 1
                         /\ title'.total = Len(reqs)
                         /\ title'.mark = "revealed"
                              => IsRevealed(reqs[cur + 1], id, ticks)
<1> DEFINE c == reqs[cur + 1]
           d == [req |-> c.req, masked |-> ~IsRevealed(c, id, ticks)]
<1>1. c \in Capture
  OBVIOUS
<1>2. d \in Content
  BY <1>1 DEF Capture, Content
<1>3. CASE ~started
  <2>1. title' = title /\ pending' = pending
    BY <1>3 DEF UpdateRequest
  <2> QED
    BY <2>1, <1>3 DEF TypeOK
<1>4. CASE started
  <2>1. title' = TitleOf(reqs, cur, IsRevealed(c, id, ticks))
    BY <1>4 DEF UpdateRequest
  <2>2. pending' = [pending EXCEPT ![d] = @ + 1]
    BY <1>4 DEF UpdateRequest, Execute
  <2>3. pending' \in [Closures -> Nat]
    <3>1. pending \in [Closures -> Nat]
      BY DEF TypeOK
    <3>2. d \in Closures
      BY <1>2 DEF Closures
    <3> QED
      BY <2>2, <3>1, <3>2
  <2>4. pending'[Remask] = pending[Remask]
    BY <2>2, <1>2, RemaskIsNoContent DEF TypeOK
  <2>5. /\ title' \in [pos : Nat, total : Nat, mark : Marks]
        /\ title'.pos = cur + 1
        /\ title'.total = Len(reqs)
        /\ title'.mark = "revealed" => IsRevealed(c, id, ticks)
    BY <2>1 DEF TitleOf, Marks
  <2> QED
    BY <2>3, <2>4, <2>5
<1> QED
  BY <1>3, <1>4

-----------------------------------------------------------------------------
\* The initial state satisfies the invariant.
LEMMA InitInvariant == Init => InspectorInvariant
<1> SUFFICES ASSUME Init PROVE InspectorInvariant
  OBVIOUS
<1>1. TypeOK
  <2>1. pending \in [Closures -> Nat]
    BY DEF Init
  <2>2. title \in [pos : Nat, total : Nat, mark : Marks]
    BY DEF Init, NoTitle, Marks
  <2>3. /\ requests \in Seq(Capture) /\ currentRequest \in Nat /\ revealID \in Nat
        /\ left \in 0..RevealTTL
    BY TTLAssumption DEF Init, NoReveal
  <2>4. /\ handler \in [Requests -> Stages] /\ number \in [Requests -> Nat]
        /\ lock \in Requests \cup {NoRequest}
    BY DEF Init, Stages
  <2> QED
    BY <2>1, <2>2, <2>3, <2>4 DEF Init, TypeOK
<1>2. /\ LockHeldByCapture /\ NumberIsNext /\ StoredIsThere /\ LoopNeedsStart
      /\ BlankBeforeStart
  BY NoRequestAssumption
  DEF Init, LockHeldByCapture, NumberIsNext, StoredIsThere, LoopNeedsStart,
     BlankBeforeStart
<1>3. CursorInRange /\ IDsNumberTheHistory /\ GrantIsCurrentOrOvertaken
  BY DEF Init, CursorInRange, IDsNumberTheHistory, GrantIsCurrentOrOvertaken
<1>4. GrantEndIsScheduled /\ TitleTellsTheGrant /\ TitleOfTheCursor
  BY DEF Init, GrantEndIsScheduled, TitleTellsTheGrant, TitleOfTheCursor, NoTitle
<1> QED
  BY <1>1, <1>2, <1>3, <1>4 DEF InspectorInvariant

\* Taking the lock, failing to read the body and numbering the capture leave
\* the history, the grant and the view as they are.
LEMMA BodySteps ==
    ASSUME InspectorInvariant, NEW r \in Requests,
           LockForCapture(r) \/ CaptureFails(r) \/ CaptureRequest(r)
    PROVE  InspectorInvariant'
<1> USE DEF InspectorInvariant
<1>0. UNCHANGED <<started, history, grant, loop, pending, view, audit>>
  BY DEF LockForCapture, CaptureFails, CaptureRequest
<1>1. TypeOK'
  <2>1. handler' \in [Requests -> Stages]
    BY DEF TypeOK, LockForCapture, CaptureFails, CaptureRequest, Advance, Stages
  <2>2. number' \in [Requests -> Nat]
    <3>1. number \in [Requests -> Nat] /\ Len(requests) + 1 \in Nat
      BY DEF TypeOK
    <3>2. number' = number \/ number' = [number EXCEPT ![r] = Len(requests) + 1]
      BY DEF LockForCapture, CaptureFails, CaptureRequest
    <3> QED
      BY <3>1, <3>2
  <2>3. lock' \in Requests \cup {NoRequest}
    BY DEF TypeOK, LockForCapture, CaptureFails, CaptureRequest
  <2> QED
    BY <1>0, <2>1, <2>2, <2>3 DEF TypeOK, history, grant, view
<1>2. LockHeldByCapture'
  BY NoRequestAssumption DEF TypeOK, LockHeldByCapture, LockForCapture, CaptureFails, CaptureRequest,
     Advance
<1>3. NumberIsNext'
  BY <1>0 DEF TypeOK, LockHeldByCapture, NumberIsNext, LockForCapture, CaptureFails, CaptureRequest,
     Advance, history
<1>4. StoredIsThere' /\ LoopNeedsStart' /\ BlankBeforeStart'
  BY <1>0 DEF TypeOK, StoredIsThere, LoopNeedsStart, BlankBeforeStart, view, LockForCapture, CaptureFails,
     CaptureRequest, Advance, history
<1>5. CursorInRange' /\ IDsNumberTheHistory' /\ GrantIsCurrentOrOvertaken'
  BY <1>0 DEF CursorInRange, IDsNumberTheHistory, GrantIsCurrentOrOvertaken, history,
     grant
<1>6. GrantEndIsScheduled'
  BY <1>0 DEF GrantEndIsScheduled, grant
<1>7. TitleOfTheCursor'
  <2>1. \A q \in Requests : handler'[q] # "stored" <=> handler[q] # "stored"
    BY DEF TypeOK, LockForCapture, CaptureFails, CaptureRequest, Advance
  <2> QED
    BY <1>0, <2>1 DEF TitleOfTheCursor, history, view
<1>8. TitleTellsTheGrant'
  <2>1. lock' = NoRequest => \A q \in Requests : handler'[q] # "stored"
    BY <1>1, <1>2, NoRequestAssumption DEF LockHeldByCapture
  <2> QED
    BY <1>0, <1>7, <2>1 DEF TitleTellsTheGrant, TitleOfTheCursor, history, grant, view
<1> QED
  BY <1>1, <1>2, <1>3, <1>4, <1>5, <1>6, <1>7, <1>8

\* Appending: under the lock the number given is still the next one.
LEMMA StoreStep ==
    ASSUME InspectorInvariant, NEW r \in Requests, Store(r)
    PROVE  InspectorInvariant'
<1> USE DEF InspectorInvariant
<1>0. /\ UNCHANGED <<started, number, lock, grant, loop, pending, view, audit>>
      /\ handler[r] = "captured" /\ handler' = [handler EXCEPT ![r] = "stored"]
      /\ requests' = Append(requests, [req |-> r, id |-> number[r]])
      /\ number[r] = Len(requests) + 1
  BY DEF Store, Advance, NumberIsNext
<1>1. TypeOK'
  <2>1. [req |-> r, id |-> number[r]] \in Capture
    BY <1>0 DEF TypeOK, Capture
  <2>2. requests' \in Seq(Capture)
    BY <1>0, <2>1 DEF TypeOK
  <2>3. currentRequest' \in Nat
    BY DEF Store, TypeOK
  <2> QED
    BY <1>0, <2>2, <2>3 DEF TypeOK, Stages, grant, view
<1>2. LockHeldByCapture'
  BY <1>0 DEF TypeOK, LockHeldByCapture
<1>3. NumberIsNext'
  BY <1>0, <1>2 DEF TypeOK, LockHeldByCapture, NumberIsNext
<1>4. Len(requests') = Len(requests) + 1 /\ requests' # <<>>
  BY <1>0 DEF TypeOK
<1>5. StoredIsThere' /\ LoopNeedsStart' /\ BlankBeforeStart'
  BY <1>0, <1>4 DEF StoredIsThere, LoopNeedsStart, BlankBeforeStart, view
<1>6. CursorInRange'
  BY <1>0, <1>4 DEF TypeOK, CursorInRange, Store
<1>7. IDsNumberTheHistory'
  BY <1>0, <1>4 DEF TypeOK, IDsNumberTheHistory
<1>8. GrantIsCurrentOrOvertaken'
  <2>1. /\ revealID' = revealID /\ revealID \in Nat /\ currentRequest \in Nat
        /\ Len(requests) \in Nat /\ Len(requests') = Len(requests) + 1
        /\ currentRequest' = IF currentRequest = Len(requests) - 1
                             THEN currentRequest + 1 ELSE currentRequest
    BY <1>0, <1>4 DEF TypeOK, Store, grant
  <2> QED
    BY <2>1 DEF GrantIsCurrentOrOvertaken
<1>9. GrantEndIsScheduled'
  BY <1>0 DEF GrantEndIsScheduled, grant
<1>10. TitleTellsTheGrant' /\ TitleOfTheCursor'
  <2>1. handler'[r] = "stored" /\ lock' = r
    BY <1>0 DEF TypeOK, LockHeldByCapture
  <2> QED
    BY <1>0, <2>1, NoRequestAssumption
    DEF TitleTellsTheGrant, TitleOfTheCursor, grant, view
<1> QED
  BY <1>1, <1>2, <1>3, <1>5, <1>6, <1>7, <1>8, <1>9, <1>10

\* Showing an arrival: the title becomes that of the cursor and the grant.
LEMMA ShowArrivalStep ==
    ASSUME InspectorInvariant, NEW r \in Requests, ShowArrival(r)
    PROVE  InspectorInvariant'
<1> USE DEF InspectorInvariant
<1>0. /\ UNCHANGED <<started, number, history, grant, loop, screen, audit>>
      /\ handler[r] = "stored" /\ handler' = [handler EXCEPT ![r] = "answered"]
      /\ lock' = NoRequest
      /\ UpdateRequest(requests, currentRequest, revealID, left)
  BY DEF ShowArrival, Advance
<1>1. requests # <<>> /\ currentRequest < Len(requests)
  BY <1>0 DEF StoredIsThere, CursorInRange
<1>2. /\ title' \in [pos : Nat, total : Nat, mark : Marks]
      /\ pending' \in [Closures -> Nat]
      /\ pending'[Remask] = pending[Remask]
      /\ \/ title' = title
         \/ /\ title'.pos = currentRequest + 1
            /\ title'.total = Len(requests)
            /\ title'.mark = "revealed"
                 => IsRevealed(requests[currentRequest + 1], revealID, left)
      /\ started => /\ title'.pos = currentRequest + 1
                    /\ title'.total = Len(requests)
  <2>1. /\ requests \in Seq(Capture) /\ currentRequest \in Nat
        /\ revealID \in Nat /\ left \in Int
    BY TTLAssumption DEF TypeOK
  <2> QED
    BY <1>0, <1>1, <2>1, UpdateRequestFacts
<1>3. TypeOK'
  BY <1>0, <1>2 DEF TypeOK, Stages, history, grant
<1>4. LockHeldByCapture'
  BY <1>0, NoRequestAssumption DEF TypeOK, LockHeldByCapture
<1>5. NumberIsNext' /\ StoredIsThere' /\ LoopNeedsStart' /\ BlankBeforeStart'
  BY <1>0 DEF TypeOK, NumberIsNext, StoredIsThere, LoopNeedsStart,
     BlankBeforeStart, UpdateRequest, history
<1>6. CursorInRange' /\ IDsNumberTheHistory' /\ GrantIsCurrentOrOvertaken'
  BY <1>0 DEF CursorInRange, IDsNumberTheHistory, GrantIsCurrentOrOvertaken, history,
     grant
<1>7. GrantEndIsScheduled'
  BY <1>0, <1>2 DEF GrantEndIsScheduled, grant
<1>8. TitleOfTheCursor' /\ TitleTellsTheGrant'
  <2>1. title'.mark = "revealed" => revealID = title'.pos
    BY <1>1, <1>2
    DEF TypeOK, TitleTellsTheGrant, IsRevealed, IDsNumberTheHistory
  <2>2. title' # NoTitle =>
          title'.pos = currentRequest + 1 /\ title'.total = Len(requests)
    <3>1. CASE started
      BY <3>1, <1>2
    <3>2. CASE ~started
      <4>1. title' = title
        BY <3>2, <1>0 DEF UpdateRequest
      <4> QED
        BY <4>1, <3>2 DEF BlankBeforeStart
    <3> QED
      BY <3>1, <3>2
  <2> QED
    BY <1>0, <2>1, <2>2 DEF TitleTellsTheGrant, TitleOfTheCursor, history, grant
<1> QED
  BY <1>3, <1>4, <1>5, <1>6, <1>7, <1>8

-----------------------------------------------------------------------------
\* The main loop takes an event; the clock and the timer advance.
LEMMA LoopSteps ==
    ASSUME InspectorInvariant,
           \/ Start
           \/ \E k \in Keys : PressKey(k)
           \/ \E c \in Content : RunDisplay(c)
           \/ TakeRemask
           \/ Tick
           \/ FireTimer
    PROVE  InspectorInvariant'
<1> USE DEF InspectorInvariant
<1>0. UNCHANGED <<handler, number, lock, history, revealID, title, audit>>
  BY DEF Start, PressKey, RunDisplay, TakeRemask, Tick, FireTimer, grant, view
<1>1. /\ pending' \in [Closures -> Nat]
      /\ revealID # NoReveal =>
           (timer' \/ pending'[Remask] > 0 \/ loop' = "remask")
  <2>1. CASE \/ Start
             \/ \E k \in Keys : PressKey(k)
             \/ Tick
    BY <2>1 DEF TypeOK, Start, PressKey, Tick, grant, GrantEndIsScheduled
  <2>2. CASE \E c \in Content : RunDisplay(c)
    <3>1. PICK c \in Content : RunDisplay(c)
      BY <2>2
    <3>2. /\ pending[c] > 0 /\ pending' = [pending EXCEPT ![c] = @ - 1]
          /\ UNCHANGED <<loop, grant>>
      BY <3>1 DEF RunDisplay, Take
    <3>3. c # Remask /\ c \in Closures
      BY RemaskIsNoContent DEF Closures
    <3> QED
      BY <3>2, <3>3, RemaskIsNoContent DEF TypeOK, grant, GrantEndIsScheduled
  <2>3. CASE TakeRemask
    BY <2>3, RemaskIsNoContent DEF TypeOK, TakeRemask, Take
  <2>4. CASE FireTimer
    BY <2>4, RemaskIsNoContent DEF TypeOK, FireTimer, Execute
  <2> QED
    BY <2>1, <2>2, <2>3, <2>4
<1>2. TypeOK'
  <2>1. started' \in BOOLEAN /\ timer' \in BOOLEAN /\ screen' \in Content \cup {NoContent}
    BY DEF TypeOK, Start, PressKey, RunDisplay, TakeRemask, Tick, FireTimer, grant, view
  <2>2. loop' \in Keys \cup {"idle", "remask"}
    BY DEF TypeOK, Start, PressKey, RunDisplay, TakeRemask, Tick, FireTimer
  <2>3. left' \in 0..RevealTTL
    BY TTLAssumption DEF TypeOK, Start, PressKey, RunDisplay, TakeRemask, Tick, FireTimer,
       grant
  <2> QED
    BY <1>0, <1>1, <2>1, <2>2, <2>3 DEF TypeOK, history
<1>3. LockHeldByCapture' /\ NumberIsNext' /\ StoredIsThere'
  BY <1>0 DEF LockHeldByCapture, NumberIsNext, StoredIsThere, history
<1>4. LoopNeedsStart' /\ BlankBeforeStart'
  BY <1>0 DEF LoopNeedsStart, BlankBeforeStart, Start, PressKey, RunDisplay, TakeRemask,
     Take, Tick, FireTimer
<1>5. /\ CursorInRange' /\ IDsNumberTheHistory' /\ GrantIsCurrentOrOvertaken'
      /\ GrantEndIsScheduled' /\ TitleTellsTheGrant' /\ TitleOfTheCursor'
  BY <1>0, <1>1 DEF CursorInRange, IDsNumberTheHistory, GrantIsCurrentOrOvertaken,
     GrantEndIsScheduled, TitleTellsTheGrant, TitleOfTheCursor, history
<1> QED
  BY <1>2, <1>3, <1>4, <1>5

\* A handler of the main loop runs only while no goroutine is in AddRequest.
LEMMA HandlerFrame ==
    ASSUME InspectorInvariant, NEW h \in Keys \cup {"remask"}, Enter(h)
    PROVE  /\ started
           /\ loop' \in Keys \cup {"idle", "remask"}
           /\ UNCHANGED <<started, handler, number, lock>>
           /\ title # NoTitle => /\ title.pos = currentRequest + 1
                                 /\ title.total = Len(requests)
           /\ LockHeldByCapture' /\ NumberIsNext' /\ StoredIsThere'
           /\ LoopNeedsStart' /\ BlankBeforeStart'
<1> USE DEF InspectorInvariant
<1>1. h # "idle" /\ loop = h /\ lock = NoRequest /\ loop' = "idle"
      /\ UNCHANGED <<started, handler, number, lock>>
  BY DEF Enter, Keys
<1>2. \A r \in Requests : handler[r] \notin {"reading", "captured", "stored"}
  BY <1>1, NoRequestAssumption DEF LockHeldByCapture
<1>3. started
  BY <1>1 DEF LoopNeedsStart
<1> QED
  BY <1>1, <1>2, <1>3 DEF LockHeldByCapture, NumberIsNext, StoredIsThere, LoopNeedsStart,
     BlankBeforeStart, TitleTellsTheGrant

\* A step that changes nothing but the handler the loop is in, where that is
\* not the closure of the timer or there is no grant.
LEMMA NothingToDo ==
    ASSUME InspectorInvariant, NEW h \in Keys \cup {"remask"}, Enter(h),
           h = "remask" => revealID = NoReveal,
           UNCHANGED <<history, grant, pending, view, audit>>
    PROVE  InspectorInvariant'
<1>1. /\ loop' \in Keys \cup {"idle", "remask"}
      /\ UNCHANGED <<started, handler, number, lock>>
      /\ LockHeldByCapture' /\ NumberIsNext' /\ StoredIsThere'
      /\ LoopNeedsStart' /\ BlankBeforeStart'
  BY HandlerFrame
<1>2. TypeOK'
  BY <1>1 DEF InspectorInvariant, TypeOK, history, grant, view
<1>3. CursorInRange' /\ IDsNumberTheHistory' /\ GrantIsCurrentOrOvertaken'
  BY DEF InspectorInvariant, CursorInRange, IDsNumberTheHistory,
     GrantIsCurrentOrOvertaken, history, grant
<1>4. GrantEndIsScheduled'
  BY DEF InspectorInvariant, GrantEndIsScheduled, grant, Enter
<1>5. TitleTellsTheGrant' /\ TitleOfTheCursor'
  BY <1>1 DEF InspectorInvariant, TitleTellsTheGrant, TitleOfTheCursor, history, grant,
     view
<1> QED
  BY <1>1, <1>2, <1>3, <1>4, <1>5 DEF InspectorInvariant

\* A handler that shows the capture at a cursor, with the grant it has just
\* given or dropped: either there is no grant any more, or it is the grant of
\* the capture shown and its timer is armed.
LEMMA HandlerShows ==
    ASSUME InspectorInvariant, NEW h \in Keys \cup {"remask"}, Enter(h),
           NEW cur \in Nat, cur < Len(requests),
           NEW id \in Nat, NEW ticks \in 0..RevealTTL, timer' \in BOOLEAN,
           id # NoReveal => id = cur + 1 /\ timer',
           requests' = requests, currentRequest' = cur,
           revealID' = id, left' = ticks, screen' = screen, audit' \subseteq Capture,
           UpdateRequest(requests, cur, id, ticks)
    PROVE  InspectorInvariant'
<1>1. /\ loop' \in Keys \cup {"idle", "remask"} /\ started
      /\ UNCHANGED <<started, handler, number, lock>>
      /\ LockHeldByCapture' /\ NumberIsNext' /\ StoredIsThere'
      /\ LoopNeedsStart' /\ BlankBeforeStart'
  BY HandlerFrame
<1>2. /\ title' \in [pos : Nat, total : Nat, mark : Marks]
      /\ pending' \in [Closures -> Nat]
      /\ title'.pos = cur + 1
      /\ title'.total = Len(requests)
      /\ title'.mark = "revealed" => IsRevealed(requests[cur + 1], id, ticks)
  <2>1. requests \in Seq(Capture) /\ ticks \in Int /\ TypeOK
    BY TTLAssumption DEF InspectorInvariant, TypeOK
  <2> QED
    BY <1>1, <2>1, UpdateRequestFacts
<1>3. TypeOK'
  BY <1>1, <1>2 DEF InspectorInvariant, TypeOK
<1>4. CursorInRange' /\ IDsNumberTheHistory'
  BY DEF InspectorInvariant, TypeOK, CursorInRange, IDsNumberTheHistory
<1>5. GrantIsCurrentOrOvertaken' /\ GrantEndIsScheduled'
  BY DEF GrantIsCurrentOrOvertaken, GrantEndIsScheduled
<1>6. TitleTellsTheGrant' /\ TitleOfTheCursor'
  <2>1. title'.mark = "revealed" => id = cur + 1
    BY <1>2 DEF IsRevealed, NoReveal
  <2> QED
    BY <1>2, <2>1 DEF TitleTellsTheGrant, TitleOfTheCursor
<1> QED
  BY <1>1, <1>3, <1>4, <1>5, <1>6 DEF InspectorInvariant

\* prevRequest, nextRequest, resetRequests, revealCurrent and the closure of
\* the reveal timer.
LEMMA HandlerSteps ==
    ASSUME InspectorInvariant, RunHandler
    PROVE  InspectorInvariant'
<1>0. /\ currentRequest \in Nat /\ requests \in Seq(Capture) /\ Len(requests) \in Nat
      /\ requests # <<>> => currentRequest < Len(requests)
      /\ audit \subseteq Capture
  BY DEF InspectorInvariant, TypeOK, CursorInRange
<1>1. ASSUME NEW h \in Keys \cup {"remask"}, Enter(h), NEW cur \in Nat,
             cur < Len(requests), Show(cur)
      PROVE  InspectorInvariant'
  <2>1. /\ requests' = requests /\ currentRequest' = cur /\ revealID' = 0 /\ left' = 0
        /\ timer' \in BOOLEAN /\ screen' = screen /\ audit' \subseteq Capture
        /\ UpdateRequest(requests, cur, 0, 0)
    BY <1>0, <1>1 DEF Show, ClearReveal, NoReveal
  <2>2. 0 \in 0..RevealTTL /\ 0 \in Nat
    BY TTLAssumption
  <2> QED
    BY <1>1, <2>1, <2>2, HandlerShows DEF NoReveal
<1>2. CASE PrevRequest
  <2>1. Enter("prev") /\ "prev" \in Keys \cup {"remask"}
    BY <1>2 DEF PrevRequest, Keys
  <2>2. CASE currentRequest = 0
    BY <1>2, <2>1, <2>2, NothingToDo DEF PrevRequest
  <2>3. CASE currentRequest # 0
    <3>1. Show(currentRequest - 1)
      BY <1>2, <2>3 DEF PrevRequest
    <3>2. currentRequest - 1 \in Nat /\ currentRequest - 1 < Len(requests)
      BY <1>0, <2>3 DEF InspectorInvariant, CursorInRange
    <3> QED
      BY <1>1, <2>1, <3>1, <3>2
  <2> QED
    BY <2>2, <2>3
<1>3. CASE NextRequest
  <2>1. Enter("next") /\ "next" \in Keys \cup {"remask"}
    BY <1>3 DEF NextRequest, Keys
  <2>2. CASE currentRequest >= Len(requests) - 1
    BY <1>3, <2>1, <2>2, NothingToDo DEF NextRequest
  <2>3. CASE ~(currentRequest >= Len(requests) - 1)
    <3>1. Show(currentRequest + 1)
      BY <1>3, <2>3 DEF NextRequest
    <3>2. currentRequest + 1 \in Nat /\ currentRequest + 1 < Len(requests)
      BY <1>0, <2>3
    <3> QED
      BY <1>1, <2>1, <3>1, <3>2
  <2> QED
    BY <2>2, <2>3
<1>4. CASE ResetRequests
  <2>1. /\ requests' = <<>> /\ currentRequest' = 0 /\ revealID' = NoReveal /\ left' = 0
        /\ timer' = FALSE /\ title' = NoTitle /\ screen' = NoContent
        /\ UNCHANGED <<pending, audit>>
    BY <1>4 DEF ResetRequests, ClearReveal
  <2>2. /\ loop' \in Keys \cup {"idle", "remask"}
        /\ UNCHANGED <<started, handler, number, lock>>
        /\ LockHeldByCapture' /\ NumberIsNext' /\ StoredIsThere'
        /\ LoopNeedsStart' /\ BlankBeforeStart'
    <3>1. Enter("reset") /\ "reset" \in Keys \cup {"remask"}
      BY <1>4 DEF ResetRequests, Keys
    <3> QED
      BY <3>1, HandlerFrame
  <2>3. TypeOK'
    <3>1. title' \in [pos : Nat, total : Nat, mark : Marks]
      BY <2>1 DEF NoTitle, Marks
    <3>2. requests' \in Seq(Capture) /\ left' \in 0..RevealTTL /\ revealID' \in Nat
      BY <2>1, TTLAssumption DEF NoReveal
    <3> QED
      BY <2>1, <2>2, <3>1, <3>2 DEF InspectorInvariant, TypeOK
  <2>4. CursorInRange' /\ IDsNumberTheHistory' /\ GrantIsCurrentOrOvertaken'
    BY <2>1 DEF CursorInRange, IDsNumberTheHistory, GrantIsCurrentOrOvertaken
  <2>5. GrantEndIsScheduled' /\ TitleTellsTheGrant' /\ TitleOfTheCursor'
    BY <2>1 DEF GrantEndIsScheduled, TitleTellsTheGrant, TitleOfTheCursor, NoTitle
  <2> QED
    BY <2>2, <2>3, <2>4, <2>5 DEF InspectorInvariant
<1>5. CASE RevealCurrent
  <2>1. Enter("reveal") /\ "reveal" \in Keys \cup {"remask"}
    BY <1>5 DEF RevealCurrent, Keys
  <2>2. CASE requests = <<>> \/ Current.req \notin Sensitive
    BY <1>5, <2>1, <2>2, NothingToDo DEF RevealCurrent
  <2>3. CASE ~(requests = <<>> \/ Current.req \notin Sensitive)
    <3>1. /\ revealID' = Current.id /\ left' = RevealTTL /\ timer' = TRUE
          /\ UpdateRequest(requests, currentRequest, Current.id, RevealTTL)
          /\ UNCHANGED <<history, screen>>
          /\ audit' \in {audit, audit \cup {Current}}
      BY <1>5, <2>3 DEF RevealCurrent
    <3>2. /\ currentRequest < Len(requests) /\ Current \in Capture
          /\ Current.id = currentRequest + 1
      BY <1>0, <2>3 DEF InspectorInvariant, IDsNumberTheHistory, Current
    <3>3. /\ Current.id \in Nat /\ RevealTTL \in 0..RevealTTL
          /\ requests' = requests /\ currentRequest' = currentRequest
          /\ screen' = screen /\ audit' \subseteq Capture
          /\ timer' \in BOOLEAN /\ timer'
      BY <1>0, <3>1, <3>2, TTLAssumption DEF history
    <3> QED
      BY <1>0, <2>1, <3>1, <3>2, <3>3, HandlerShows
  <2> QED
    BY <2>2, <2>3
<1>6. CASE RemaskExpired
  <2>1. Enter("remask") /\ "remask" \in Keys \cup {"remask"}
    BY <1>6 DEF RemaskExpired
  <2>2. CASE revealID = NoReveal
    BY <1>6, <2>1, <2>2, NothingToDo DEF RemaskExpired
  <2>3. CASE revealID # NoReveal
    <3>1. ClearReveal /\ UpdateRequest(requests, currentRequest, NoReveal, 0)
          /\ UNCHANGED <<history, screen, audit>>
      BY <1>6, <2>3 DEF RemaskExpired
    <3>2. Show(currentRequest)
      BY <3>1 DEF Show, history
    <3>3. currentRequest < Len(requests)
      BY <1>0, <2>3
      DEF InspectorInvariant, GrantIsCurrentOrOvertaken, CursorInRange, TypeOK, NoReveal
    <3> QED
      BY <1>0, <1>1, <2>1, <3>2, <3>3
  <2> QED
    BY <2>2, <2>3
<1> QED
  BY <1>2, <1>3, <1>4, <1>5, <1>6 DEF RunHandler

-----------------------------------------------------------------------------
\* Every step preserves the invariant.
LEMMA NextInvariant == InspectorInvariant /\ [Next]_vars => InspectorInvariant'
<1> SUFFICES ASSUME InspectorInvariant, [Next]_vars
             PROVE  InspectorInvariant'
  OBVIOUS
<1>1. CASE \E r \in Requests : HandlerStep(r)
  BY <1>1, BodySteps, StoreStep, ShowArrivalStep DEF HandlerStep
<1>2. CASE \/ Start
           \/ \E k \in Keys : PressKey(k)
           \/ \E c \in Content : RunDisplay(c)
           \/ TakeRemask
           \/ Tick
           \/ FireTimer
  BY <1>2, LoopSteps
<1>3. CASE RunHandler
  BY <1>3, HandlerSteps
<1>4. CASE UNCHANGED vars
  <2>1. UNCHANGED <<started, handler, number, lock, requests, currentRequest, revealID,
                    left, timer, loop, pending, title, screen, audit>>
    BY <1>4 DEF vars, history, grant, view
  <2>2. TypeOK' /\ LockHeldByCapture' /\ NumberIsNext'
    BY <2>1 DEF InspectorInvariant, TypeOK, LockHeldByCapture, NumberIsNext
  <2>3. StoredIsThere' /\ LoopNeedsStart' /\ BlankBeforeStart' /\ CursorInRange'
    BY <2>1 DEF InspectorInvariant, StoredIsThere, LoopNeedsStart, BlankBeforeStart,
       CursorInRange
  <2>4. IDsNumberTheHistory' /\ GrantIsCurrentOrOvertaken' /\ GrantEndIsScheduled'
    BY <2>1 DEF InspectorInvariant, IDsNumberTheHistory, GrantIsCurrentOrOvertaken,
       GrantEndIsScheduled
  <2>5. TitleTellsTheGrant' /\ TitleOfTheCursor'
    BY <2>1 DEF InspectorInvariant, TitleTellsTheGrant, TitleOfTheCursor
  <2> QED
    BY <2>2, <2>3, <2>4, <2>5 DEF InspectorInvariant
<1> QED
  BY <1>1, <1>2, <1>3, <1>4 DEF Next

\* The inductive invariant holds in every reachable state of the inspector,
\* whatever requests arrive and whatever keys are pressed.
THEOREM InspectorIsInvariant == Spec => []InspectorInvariant
<1>1. Init => InspectorInvariant
  BY InitInvariant
<1>2. InspectorInvariant /\ [Next]_vars => InspectorInvariant'
  BY NextInvariant
<1> QED
  BY <1>1, <1>2, PTL DEF Spec

\* The state of the inspector is well-typed.
THEOREM TypeCorrect == Spec => []TypeOK
<1>1. InspectorInvariant => TypeOK
  BY DEF InspectorInvariant
<1> QED
  BY <1>1, InspectorIsInvariant, PTL

\* updateRequest, revealCurrent and the timer's closure never index past the
\* end of ui.requests.
THEOREM CursorStaysInRange == Spec => []CursorInRange
<1>1. InspectorInvariant => CursorInRange
  BY DEF InspectorInvariant
<1> QED
  BY <1>1, InspectorIsInvariant, PTL

\* The IDs isRevealed compares are the positions in the history.
THEOREM IDsAreUnique == Spec => []IDsNumberTheHistory
<1>1. InspectorInvariant => IDsNumberTheHistory
  BY DEF InspectorInvariant
<1> QED
  BY <1>1, InspectorIsInvariant, PTL

\* A grant is for the request on show, or for one that arrivals scrolled away
\* from, and never for one of a history that was reset.
THEOREM GrantIsOnShow == Spec => []GrantIsCurrentOrOvertaken
<1>1. InspectorInvariant => GrantIsCurrentOrOvertaken
  BY DEF InspectorInvariant
<1> QED
  BY <1>1, InspectorIsInvariant, PTL

\* The end of a grant is always under way: a timer, or its closure.
THEOREM GrantIsBounded == Spec => []GrantEndIsScheduled
<1>1. InspectorInvariant => GrantEndIsScheduled
  BY DEF InspectorInvariant
<1> QED
  BY <1>1, InspectorIsInvariant, PTL

\* The title never says REVEALED of a request without a grant.
THEOREM TitleIsTrue == Spec => []TitleTellsTheGrant
<1>1. InspectorInvariant => TitleTellsTheGrant
  BY DEF InspectorInvariant
<1> QED
  BY <1>1, InspectorIsInvariant, PTL

-----------------------------------------------------------------------------
\* The requests of the captures form a sequence, empty when there are none,
\* and appending a capture appends its request.
LEMMA CapturedFacts ==
    ASSUME requests \in Seq(Capture)
    PROVE  /\ Captured \in Seq(Requests)
           /\ Len(Captured) = Len(requests)
           /\ requests = <<>> <=> Captured = <<>>
           /\ \A r \in Requests, n \in Nat \ {0} :
                requests' = Append(requests, [req |-> r, id |-> n])
                  => Captured' = Append(Captured, r)
           /\ requests' = <<>> => Captured' = <<>>
           /\ requests' = requests => Captured' = Captured
<1>1. /\ DOMAIN requests = 1..Len(requests) /\ Len(requests) \in Nat
      /\ \A i \in 1..Len(requests) : requests[i] \in Capture
  OBVIOUS
<1>2. Captured \in Seq(Requests) /\ Len(Captured) = Len(requests)
  BY <1>1, SeqDef DEF Captured, Capture
<1>3. requests = <<>> <=> Captured = <<>>
  BY <1>2
<1>4. ASSUME NEW r \in Requests, NEW n \in Nat \ {0},
             requests' = Append(requests, [req |-> r, id |-> n])
      PROVE  Captured' = Append(Captured, r)
  BY <1>1, <1>2, <1>4 DEF Captured
<1>5. requests' = <<>> => Captured' = <<>>
  BY DEF Captured
<1> QED
  BY <1>2, <1>3, <1>4, <1>5 DEF Captured

\* The initial history is empty, its cursor at 0 and its window closed.
LEMMA InitRefines == Init => History!HistoryInit
BY DEF Init, History!HistoryInit, History!Closed, NoReveal, Captured

\* A step that leaves the history and revealID alone is a stutter of
\* RequestHistory.
LEMMA StutterRefines ==
    ASSUME requests \in Seq(Capture), UNCHANGED <<requests, currentRequest, revealID>>
    PROVE  UNCHANGED History!histVars
BY CapturedFacts DEF History!histVars

\* Showing another request is a move that closes the window; ending the grant
\* on the request shown closes it.
LEMMA ShowRefines ==
    ASSUME InspectorInvariant, NEW cur \in 0..(Len(requests) - 1), Show(cur),
           \/ cur \in {currentRequest - 1, currentRequest + 1}
           \/ cur = currentRequest /\ revealID # NoReveal
    PROVE  History!HistoryNext
<1>1. requests \in Seq(Capture)
  BY DEF InspectorInvariant, TypeOK
<1>2. Captured' = Captured /\ Len(Captured) = Len(requests)
  BY <1>1, CapturedFacts DEF Show
<1>3. currentRequest' = cur /\ revealID' = 0
  BY DEF Show, ClearReveal, NoReveal
<1>4. CASE cur \in {currentRequest - 1, currentRequest + 1}
  <2>1. History!Move
    BY <1>2, <1>3, <1>4 DEF History!Move, History!Closed
  <2> QED
    BY <2>1 DEF History!HistoryNext
<1>5. CASE cur = currentRequest /\ revealID # NoReveal
  <2>1. History!Close
    BY <1>2, <1>3, <1>5 DEF History!Close, History!Closed, NoReveal
  <2> QED
    BY <2>1 DEF History!HistoryNext
<1> QED
  BY <1>4, <1>5

\* Every step of the inspector is a step of RequestHistory or a stutter.
LEMMA NextRefines ==
    InspectorInvariant /\ [Next]_vars => [History!HistoryNext]_(History!histVars)
<1> SUFFICES ASSUME InspectorInvariant, [Next]_vars
             PROVE  [History!HistoryNext]_(History!histVars)
  OBVIOUS
<1>0. /\ requests \in Seq(Capture) /\ Len(requests) \in Nat
      /\ currentRequest \in Nat /\ Len(Captured) = Len(requests)
      /\ requests = <<>> <=> Captured = <<>>
      /\ requests # <<>> => currentRequest < Len(requests)
  <2>1. requests \in Seq(Capture)
    BY DEF InspectorInvariant, TypeOK
  <2> QED
    BY <2>1, CapturedFacts DEF InspectorInvariant, TypeOK, CursorInRange
<1>1. ASSUME NEW r \in Requests, Store(r)
      PROVE  History!HistoryNext
  <2>1. number[r] \in Nat \ {0}
    BY <1>1, <1>0 DEF InspectorInvariant, NumberIsNext, Store, Advance
  <2>2. Captured' = Append(Captured, r)
    BY <1>0, <1>1, <2>1, CapturedFacts DEF Store
  <2>3. History!Arrive(r)
    BY <1>0, <1>1, <2>2 DEF Store, grant, History!Arrive
  <2> QED
    BY <2>3 DEF History!HistoryNext
<1>2. CASE \E r \in Requests : HandlerStep(r) /\ ~Store(r)
  BY <1>0, <1>2, StutterRefines
  DEF HandlerStep, LockForCapture, CaptureFails, CaptureRequest, ShowArrival, history,
      grant
<1>3. CASE \/ Start
           \/ \E k \in Keys : PressKey(k)
           \/ \E c \in Content : RunDisplay(c)
           \/ TakeRemask
           \/ Tick
           \/ FireTimer
  BY <1>0, <1>3, StutterRefines
  DEF Start, PressKey, RunDisplay, TakeRemask, Tick, FireTimer, history, grant
<1>4. CASE PrevRequest
  <2>1. CASE currentRequest = 0
    BY <1>0, <1>4, <2>1, StutterRefines DEF PrevRequest, history, grant
  <2>2. CASE currentRequest # 0
    <3>1. Show(currentRequest - 1)
      BY <1>4, <2>2 DEF PrevRequest
    <3>2. currentRequest - 1 \in 0..(Len(requests) - 1)
      BY <1>0, <2>2 DEF InspectorInvariant, CursorInRange
    <3> QED
      BY <3>1, <3>2, ShowRefines
  <2> QED
    BY <2>1, <2>2
<1>5. CASE NextRequest
  <2>1. CASE currentRequest >= Len(requests) - 1
    BY <1>0, <1>5, <2>1, StutterRefines DEF NextRequest, history, grant
  <2>2. CASE ~(currentRequest >= Len(requests) - 1)
    <3>1. Show(currentRequest + 1)
      BY <1>5, <2>2 DEF NextRequest
    <3>2. currentRequest + 1 \in 0..(Len(requests) - 1)
      BY <1>0, <2>2
    <3> QED
      BY <3>1, <3>2, ShowRefines
  <2> QED
    BY <2>1, <2>2
<1>6. CASE ResetRequests
  <2>1. Captured' = <<>> /\ currentRequest' = 0 /\ revealID' = 0
    BY <1>0, <1>6, CapturedFacts DEF ResetRequests, ClearReveal, NoReveal
  <2>2. History!Clear
    BY <2>1 DEF History!Clear, History!Closed
  <2> QED
    BY <2>2 DEF History!HistoryNext
<1>7. CASE RevealCurrent
  <2>1. CASE requests = <<>> \/ Current.req \notin Sensitive
    BY <1>0, <1>7, <2>1, StutterRefines DEF RevealCurrent, history, grant
  <2>2. CASE ~(requests = <<>> \/ Current.req \notin Sensitive)
    <3>1. revealID' = Current.id /\ UNCHANGED <<requests, currentRequest>>
      BY <1>7, <2>2 DEF RevealCurrent, history
    <3>2. Current.id = currentRequest + 1
      BY <1>0, <2>2 DEF InspectorInvariant, IDsNumberTheHistory, Current
    <3>3. Captured' = Captured
      BY <1>0, <3>1, CapturedFacts
    <3>4. History!Open
      BY <1>0, <2>2, <3>1, <3>2, <3>3 DEF History!Open
    <3> QED
      BY <3>4 DEF History!HistoryNext
  <2> QED
    BY <2>1, <2>2
<1>8. CASE RemaskExpired
  <2>1. CASE revealID = NoReveal
    BY <1>0, <1>8, <2>1, StutterRefines DEF RemaskExpired, history, grant
  <2>2. CASE revealID # NoReveal
    <3>1. Show(currentRequest)
      BY <1>8, <2>2 DEF RemaskExpired, Show, history
    <3>2. currentRequest \in 0..(Len(requests) - 1)
      BY <1>0, <2>2
      DEF InspectorInvariant, GrantIsCurrentOrOvertaken, CursorInRange, TypeOK, NoReveal
    <3> QED
      BY <2>2, <3>1, <3>2, ShowRefines
  <2> QED
    BY <2>1, <2>2
<1>9. CASE UNCHANGED vars
  BY <1>0, <1>9, StutterRefines DEF vars, history, grant
<1> QED
  BY <1>1, <1>2, <1>3, <1>4, <1>5, <1>6, <1>7, <1>8, <1>9
  DEF Next, RunHandler, HandlerStep

\* Behind its lock, queue and timer the inspector behaves as RequestHistory:
\* arrivals follow the tail, and every navigation closes the reveal window.
THEOREM InspectorRefinesHistory == Spec => HistoryRefined
<1>1. Init => History!HistoryInit
  BY InitRefines
<1>2. InspectorInvariant /\ [Next]_vars => [History!HistoryNext]_(History!histVars)
  BY NextRefines
<1> QED
  BY <1>1, <1>2, InspectorIsInvariant, PTL DEF Spec, HistoryRefined, History!HistorySpec


-----------------------------------------------------------------------------
\* The request a grant is for has an event in the audit log.
Audited(r) == \E a \in audit : a.req = r
GrantIsAudited == revealID # NoReveal => Audited(requests[revealID].req)
UnmaskedInvariant == OnlyRevealedIsUnmasked /\ GrantIsAudited

\* Unmasked content comes into the queue for a revealed request only.
LEMMA UnmaskedIsRevealed ==
    ASSUME NEW reqs \in Seq(Capture), NEW cur \in Nat, cur < Len(reqs),
           NEW id \in Nat, NEW ticks \in Int, TypeOK,
           UpdateRequest(reqs, cur, id, ticks),
           NEW c \in Content, ~c.masked, pending'[c] > 0
    PROVE  \/ pending[c] > 0
           \/ c.req = reqs[cur + 1].req /\ id # NoReveal /\ reqs[cur + 1].id = id
<1> DEFINE d == [req |-> reqs[cur + 1].req,
                 masked |-> ~IsRevealed(reqs[cur + 1], id, ticks)]
<1>1. CASE ~started
  BY <1>1 DEF UpdateRequest
<1>2. CASE started /\ c # d
  <2>1. pending' = [pending EXCEPT ![d] = @ + 1]
    BY <1>2 DEF UpdateRequest, Execute
  <2>2. pending'[c] = pending[c]
    BY <2>1, <1>2 DEF TypeOK, Closures
  <2> QED
    BY <2>2
<1>3. CASE c = d
  <2>1. c.req = reqs[cur + 1].req /\ c.masked = ~IsRevealed(reqs[cur + 1], id, ticks)
    BY <1>3
  <2>2. IsRevealed(reqs[cur + 1], id, ticks)
    BY <2>1
  <2> QED
    BY <2>1, <2>2 DEF IsRevealed
<1> QED
  BY <1>1, <1>2, <1>3

\* A handler or an arrival that renders the request at cur, with a grant that
\* is audited, keeps the invariant.
LEMMA RenderKeepsAudited ==
    ASSUME InspectorInvariant, UnmaskedInvariant,
           NEW cur \in Nat, cur < Len(requests), NEW id \in Nat, NEW ticks \in Int,
           UpdateRequest(requests, cur, id, ticks),
           revealID' = id, requests' = requests, screen' = screen, audit \subseteq audit',
           id # NoReveal => \E a \in audit' : a.req = requests[id].req
    PROVE  UnmaskedInvariant'
<1>1. requests \in Seq(Capture) /\ TypeOK /\ IDsNumberTheHistory
  BY DEF InspectorInvariant, TypeOK
<1>2. GrantIsAudited'
  BY DEF GrantIsAudited, Audited
<1>3. OnlyRevealedIsUnmasked'
  <2>1. SUFFICES ASSUME NEW c \in Content, ~c.masked, screen' = c \/ pending'[c] > 0
                 PROVE  \E a \in audit' : a.req = c.req
    BY DEF OnlyRevealedIsUnmasked
  <2>2. CASE screen = c \/ pending[c] > 0
    BY <2>1, <2>2 DEF UnmaskedInvariant, OnlyRevealedIsUnmasked
  <2>3. CASE c.req = requests[cur + 1].req /\ id # NoReveal /\ requests[cur + 1].id = id
    <3>1. requests[cur + 1].id = cur + 1
      BY <1>1 DEF IDsNumberTheHistory
    <3> QED
      BY <2>3, <3>1
  <2>4. pending'[c] > 0 => \/ pending[c] > 0
                           \/ c.req = requests[cur + 1].req /\ id # NoReveal
                              /\ requests[cur + 1].id = id
    BY <1>1, <2>1, UnmaskedIsRevealed
  <2> QED
    BY <2>1, <2>2, <2>3, <2>4
<1> QED
  BY <1>2, <1>3 DEF UnmaskedInvariant

\* So does a step that adds nothing unmasked to the queue or the screen.
LEMMA FrameKeepsAudited ==
    ASSUME UnmaskedInvariant, audit' = audit,
           revealID' = NoReveal \/ (revealID' = revealID /\ requests'[revealID] = requests[revealID]),
           \A c \in Content : pending'[c] > 0 => pending[c] > 0,
           screen' \in {screen, NoContent} \/ (screen' \in Content /\ pending[screen'] > 0)
    PROVE  UnmaskedInvariant'
<1>1. GrantIsAudited'
  BY DEF UnmaskedInvariant, GrantIsAudited, Audited
<1>2. OnlyRevealedIsUnmasked'
  BY NoContentAssumption DEF UnmaskedInvariant, OnlyRevealedIsUnmasked, Content
<1> QED
  BY <1>1, <1>2 DEF UnmaskedInvariant


\* Arrivals: a request appended has no grant, and what is shown for it is what
\* is shown for the one at the cursor.
LEMMA ArrivalKeepsAudited ==
    ASSUME InspectorInvariant, UnmaskedInvariant, NEW r \in Requests, HandlerStep(r)
    PROVE  UnmaskedInvariant'
<1>0. /\ requests \in Seq(Capture) /\ Len(requests) \in Nat /\ revealID \in Nat
      /\ currentRequest \in Nat /\ left \in Int
  BY TTLAssumption DEF InspectorInvariant, TypeOK
<1>1. CASE LockForCapture(r) \/ CaptureFails(r) \/ CaptureRequest(r)
  <2>1. UNCHANGED <<requests, revealID, pending, screen, audit>>
    BY <1>1 DEF LockForCapture, CaptureFails, CaptureRequest, history, grant, view
  <2> QED
    BY <2>1, FrameKeepsAudited
<1>2. CASE Store(r)
  <2>1. /\ UNCHANGED <<revealID, pending, screen, audit>>
        /\ requests' = Append(requests, [req |-> r, id |-> number[r]])
    BY <1>2 DEF Store, grant, view
  <2>2. revealID # NoReveal => revealID \in 1..Len(requests)
    BY <1>0 DEF InspectorInvariant, GrantIsCurrentOrOvertaken, NoReveal
  <2>3. revealID' = NoReveal \/ (revealID' = revealID /\ requests'[revealID] = requests[revealID])
    BY <1>0, <2>1, <2>2
  <2> QED
    BY <2>1, <2>3, FrameKeepsAudited
<1>3. CASE ShowArrival(r)
  <2>1. /\ UpdateRequest(requests, currentRequest, revealID, left)
        /\ UNCHANGED <<requests, revealID, screen, audit>> /\ handler[r] = "stored"
    BY <1>3 DEF ShowArrival, Advance, history, grant
  <2>2. currentRequest < Len(requests)
    BY <1>0, <2>1 DEF InspectorInvariant, StoredIsThere, CursorInRange
  <2>3. revealID # NoReveal => \E a \in audit' : a.req = requests[revealID].req
    BY <2>1 DEF UnmaskedInvariant, GrantIsAudited, Audited
  <2> QED
    BY <1>0, <2>1, <2>2, <2>3, RenderKeepsAudited
<1> QED
  BY <1>1, <1>2, <1>3 DEF HandlerStep

\* Key handlers and the timer's closure: navigation drops the grant, and a
\* reveal is audited in the step that makes it.
LEMMA HandlersKeepAudited ==
    ASSUME AuditOutcomes = {TRUE}, InspectorInvariant, UnmaskedInvariant, RunHandler
    PROVE  UnmaskedInvariant'
<1>0. /\ requests \in Seq(Capture) /\ Len(requests) \in Nat /\ currentRequest \in Nat
      /\ requests # <<>> => currentRequest < Len(requests)
      /\ RevealTTL \in Int /\ NoReveal \in Nat
  BY TTLAssumption DEF InspectorInvariant, TypeOK, CursorInRange, NoReveal
<1>1. ASSUME NEW cur \in Nat, cur < Len(requests), Show(cur)
      PROVE  UnmaskedInvariant'
  <2>1. /\ UpdateRequest(requests, cur, NoReveal, 0) /\ revealID' = NoReveal
        /\ UNCHANGED <<requests, screen, audit>>
    BY <1>1 DEF Show, ClearReveal
  <2> QED
    BY <1>0, <1>1, <2>1, RenderKeepsAudited
<1>2. ASSUME UNCHANGED <<history, grant, pending, view, audit>>
      PROVE  UnmaskedInvariant'
  <2>1. UNCHANGED <<requests, revealID, pending, screen, audit>>
    BY <1>2 DEF history, grant, view
  <2> QED
    BY <2>1, FrameKeepsAudited
<1>3. CASE PrevRequest
  <2>1. CASE currentRequest # 0
    <3>1. Show(currentRequest - 1)
      BY <1>3, <2>1 DEF PrevRequest
    <3>2. currentRequest - 1 \in Nat /\ currentRequest - 1 < Len(requests)
      BY <1>0, <2>1 DEF InspectorInvariant, CursorInRange
    <3> QED
      BY <1>1, <3>1, <3>2
  <2> QED
    BY <1>2, <1>3, <2>1 DEF PrevRequest
<1>4. CASE NextRequest
  <2>1. CASE ~(currentRequest >= Len(requests) - 1)
    <3>1. Show(currentRequest + 1)
      BY <1>4, <2>1 DEF NextRequest
    <3>2. currentRequest + 1 \in Nat /\ currentRequest + 1 < Len(requests)
      BY <1>0, <2>1
    <3> QED
      BY <1>1, <3>1, <3>2
  <2> QED
    BY <1>2, <1>4, <2>1 DEF NextRequest
<1>5. CASE ResetRequests
  <2>1. /\ revealID' = NoReveal /\ screen' = NoContent /\ UNCHANGED <<pending, audit>>
    BY <1>5 DEF ResetRequests, ClearReveal
  <2> QED
    BY <2>1, FrameKeepsAudited
<1>6. CASE RevealCurrent
  <2>1. CASE ~(requests = <<>> \/ Current.req \notin Sensitive)
    <3>1. /\ revealID' = Current.id /\ audit' = audit \cup {Current}
          /\ UpdateRequest(requests, currentRequest, Current.id, RevealTTL)
          /\ UNCHANGED <<requests, screen>>
      BY <1>6, <2>1 DEF RevealCurrent, history
    <3>2. /\ currentRequest < Len(requests) /\ Current.id \in Nat
          /\ Current.id = currentRequest + 1 /\ Current = requests[currentRequest + 1]
      BY <1>0, <2>1 DEF InspectorInvariant, IDsNumberTheHistory, Current
    <3>3. \E a \in audit' : a.req = requests[Current.id].req
      BY <3>1, <3>2
    <3> QED
      BY <1>0, <3>1, <3>2, <3>3, RenderKeepsAudited
  <2> QED
    BY <1>2, <1>6, <2>1 DEF RevealCurrent
<1>7. CASE RemaskExpired
  <2>1. CASE revealID # NoReveal
    <3>1. /\ revealID' = NoReveal /\ UpdateRequest(requests, currentRequest, NoReveal, 0)
          /\ UNCHANGED <<requests, screen, audit>>
      BY <1>7, <2>1 DEF RemaskExpired, ClearReveal, history
    <3>2. currentRequest < Len(requests)
      BY <1>0, <2>1
      DEF InspectorInvariant, GrantIsCurrentOrOvertaken, CursorInRange, TypeOK, NoReveal
    <3> QED
      BY <1>0, <3>1, <3>2, RenderKeepsAudited
  <2> QED
    BY <1>2, <1>7, <2>1 DEF RemaskExpired
<1> QED
  BY <1>3, <1>4, <1>5, <1>6, <1>7 DEF RunHandler

\* Where the audit log can be written, unmasked content is shown, or on its way
\* to the view, of requests only whose reveal is in the log, in whatever order
\* the closures of Display run.
THEOREM UnmaskedIsAudited ==
    ASSUME AuditOutcomes = {TRUE}
    PROVE  Spec => []OnlyRevealedIsUnmasked
<1>1. Init => UnmaskedInvariant
  BY NoContentAssumption
  DEF Init, UnmaskedInvariant, OnlyRevealedIsUnmasked, GrantIsAudited, Closures, Content
<1>2. InspectorInvariant /\ UnmaskedInvariant /\ [Next]_vars => UnmaskedInvariant'
  <2> SUFFICES ASSUME InspectorInvariant, UnmaskedInvariant, [Next]_vars
               PROVE  UnmaskedInvariant'
    OBVIOUS
  <2>1. CASE \E r \in Requests : HandlerStep(r)
    BY <2>1, ArrivalKeepsAudited
  <2>2. CASE RunHandler
    BY <2>2, HandlersKeepAudited
  <2>3. CASE \/ Start \/ Tick \/ UNCHANGED vars
             \/ \E k \in Keys : PressKey(k)
    <3>1. UNCHANGED <<requests, revealID, pending, screen, audit>>
      BY <2>3 DEF Start, Tick, PressKey, vars, history, grant, view
    <3> QED
      BY <3>1, FrameKeepsAudited
  <2>4. CASE FireTimer \/ TakeRemask
    <3>1. /\ UNCHANGED <<requests, revealID, screen, audit>>
          /\ \A c \in Content : pending'[c] = pending[c]
      BY <2>4, RemaskIsNoContent
      DEF FireTimer, TakeRemask, Take, Execute, history, view, grant, InspectorInvariant,
          TypeOK, Closures
    <3> QED
      BY <3>1, FrameKeepsAudited
  <2>5. CASE \E d \in Content : RunDisplay(d)
    <3>1. PICK d \in Content : RunDisplay(d)
      BY <2>5
    <3>2. /\ UNCHANGED <<requests, revealID, audit>> /\ screen' = d /\ pending[d] > 0
          /\ pending' = [pending EXCEPT ![d] = @ - 1]
      BY <3>1 DEF RunDisplay, Take, history, grant
    <3>3. \A c \in Content : pending'[c] > 0 => pending[c] > 0
      BY <3>2 DEF InspectorInvariant, TypeOK, Closures
    <3> QED
      BY <3>2, <3>3, FrameKeepsAudited
  <2> QED
    BY <2>1, <2>2, <2>3, <2>4, <2>5 DEF Next
<1>3. UnmaskedInvariant => OnlyRevealedIsUnmasked
  BY DEF UnmaskedInvariant
<1> QED
  BY <1>1, <1>2, <1>3, InspectorIsInvariant, PTL DEF Spec
=============================================================================
