-------------------------- MODULE RequestInspector --------------------------
(***************************************************************************)
(* The request half of ui.UI: net/http runs one goroutine per request,     *)
(* which captures the request under reqLock; the gocui main loop runs the  *)
(* key handlers and the closures given to Gui.Execute one at a time.  The  *)
(* lock, the reveal grant with its timer, the closures still to be run     *)
(* and what the request view shows are the state.                          *)
(*                                                                         *)
(* Time is kept as the ticks left of the grant: revealUntil is compared    *)
(* with the clock only, and the timer is started with the same duration.   *)
(***************************************************************************)
EXTENDS Integers, Sequences

CONSTANTS
    Requests,      \* the HTTP requests clients send, one goroutine each
    Sensitive,     \* those with at least one span at or above the mask level
    RevealTTL,     \* guard.RevealTTL(), in ticks
    AuditOutcomes, \* may Guard.RecordEvent write the event: subset of BOOLEAN
    NoRequest,     \* no goroutine holds reqLock
    NoContent,     \* the request view is empty
    MaxQueued      \* bound: no key is pressed once a closure waits this often

ASSUME SensitiveAssumption == Sensitive \subseteq Requests
ASSUME TTLAssumption == RevealTTL \in Nat \ {0}
ASSUME AuditAssumption == AuditOutcomes \in (SUBSET BOOLEAN) \ {{}}
ASSUME NoRequestAssumption == NoRequest \notin Requests
ASSUME NoContentAssumption == NoContent \notin [req : Requests, masked : BOOLEAN]
ASSUME MaxQueuedAssumption == MaxQueued \in Nat \ {0}

VARIABLES
    started,        \* Layout has created the views
    handler,        \* progress of each request's goroutine
    number,         \* the ID of the goroutine's capture, 0 before it has one
    lock,           \* the goroutine holding reqLock
    requests,       \* ui.requests: captures, each with the ID it was given
    currentRequest, \* ui.currentRequest, 0-based
    revealID,       \* ui.revealID, NoReveal for ""
    left,           \* ticks until revealUntil
    timer,          \* revealTimer is armed
    loop,           \* the handler the main loop has entered, or "idle"
    pending,        \* closures given to Execute and not run yet, counted
    title,          \* Title of the request view
    screen,         \* content of the request view
    audit           \* request IDs and requests of the reveals written

history == <<requests, currentRequest>>
grant == <<revealID, left, timer>>
view == <<title, screen>>
vars == <<started, handler, number, lock, history, grant, loop, pending, view, audit>>

NoReveal == 0
Capture == [req : Requests, id : Nat \ {0}]
Content == [req : Requests, masked : BOOLEAN]
Remask == [req |-> NoRequest, masked |-> TRUE]
Closures == Content \cup {Remask}
Keys == {"prev", "next", "reset", "reveal"}
Stages == {"new", "reading", "captured", "stored", "answered"}
Marks == {"none", "plain", "masked", "revealed"}
NoTitle == [pos |-> 0, total |-> 0, mark |-> "none"]

Current == requests[currentRequest + 1]

Init ==
    /\ started = FALSE
    /\ handler = [r \in Requests |-> "new"]
    /\ number = [r \in Requests |-> 0]
    /\ lock = NoRequest
    /\ requests = <<>>
    /\ currentRequest = 0
    /\ revealID = NoReveal
    /\ left = 0
    /\ timer = FALSE
    /\ loop = "idle"
    /\ pending = [c \in Closures |-> 0]
    /\ title = NoTitle
    /\ screen = NoContent
    /\ audit = {}

-----------------------------------------------------------------------------
(* Helpers of the handlers                                                 *)

\* Mutant: any request counts as revealed while a grant is held.
IsRevealedForAll(c, id, ticks) == id # NoReveal /\ ticks > 0

\* ui.isRevealed, on the values a handler has just given the grant.
IsRevealed(c, id, ticks) == id # NoReveal /\ c.id = id /\ ticks > 0

\* gocui.Gui.Execute: a goroutine hands the closure to the main loop.
Execute(c) == pending' = [pending EXCEPT ![c] = @ + 1]

TitleOf(reqs, cur, revealed) ==
    [pos   |-> cur + 1,
     total |-> Len(reqs),
     mark  |-> IF reqs[cur + 1].req \notin Sensitive THEN "plain"
               ELSE IF revealed THEN "revealed" ELSE "masked"]

\* ui.updateRequest: the title at once, the content by a queued closure; it
\* fails, and changes nothing, while the request view does not exist.
UpdateRequest(reqs, cur, id, ticks) ==
    LET c        == reqs[cur + 1]
        revealed == IsRevealed(c, id, ticks)
    IN  IF started
        THEN /\ title' = TitleOf(reqs, cur, revealed)
             /\ Execute([req |-> c.req, masked |-> ~revealed])
        ELSE UNCHANGED <<title, pending>>

\* ui.clearReveal.
ClearReveal ==
    /\ revealID' = NoReveal
    /\ left' = 0
    /\ timer' = FALSE

-----------------------------------------------------------------------------
(* HTTP goroutines: ui.AddRequest                                          *)

Advance(r, from, to) ==
    /\ handler[r] = from
    /\ handler' = [handler EXCEPT ![r] = to]

\* Mutant: the lock is not waited for.
LockForCaptureShared(r) ==
    /\ Advance(r, "new", "reading")
    /\ lock' = r
    /\ UNCHANGED <<started, number, history, grant, loop, pending, view, audit>>

\* reqLock is taken before the body of the request is read.
LockForCapture(r) ==
    /\ Advance(r, "new", "reading")
    /\ lock = NoRequest
    /\ lock' = r
    /\ UNCHANGED <<started, number, history, grant, loop, pending, view, audit>>

\* The body cannot be read: the request is not kept.
CaptureFails(r) ==
    /\ Advance(r, "reading", "answered")
    /\ lock' = NoRequest
    /\ UNCHANGED <<started, number, history, grant, loop, pending, view, audit>>

\* Mutant: requests are numbered from 0.
CaptureFromZero(r) ==
    /\ Advance(r, "reading", "captured")
    /\ number' = [number EXCEPT ![r] = Len(requests)]
    /\ UNCHANGED <<started, lock, history, grant, loop, pending, view, audit>>

\* The body is read and classified, and the capture gets its ID.
CaptureRequest(r) ==
    /\ Advance(r, "reading", "captured")
    /\ number' = [number EXCEPT ![r] = Len(requests) + 1]
    /\ UNCHANGED <<started, lock, history, grant, loop, pending, view, audit>>

\* Mutant: the view jumps to every new request.
StoreAlwaysFollows(r) ==
    /\ Advance(r, "captured", "stored")
    /\ requests' = Append(requests, [req |-> r, id |-> number[r]])
    /\ currentRequest' = Len(requests)
    /\ UNCHANGED <<started, number, lock, grant, loop, pending, view, audit>>

\* The cursor follows if it is on the tail; the capture is appended.
Store(r) ==
    /\ Advance(r, "captured", "stored")
    /\ requests' = Append(requests, [req |-> r, id |-> number[r]])
    /\ currentRequest' = IF currentRequest = Len(requests) - 1
                         THEN currentRequest + 1 ELSE currentRequest
    /\ UNCHANGED <<started, number, lock, grant, loop, pending, view, audit>>

\* The capture has been written to the encrypted store, or that has failed;
\* the view is brought up to date and the lock given back.
ShowArrival(r) ==
    /\ Advance(r, "stored", "answered")
    /\ UpdateRequest(requests, currentRequest, revealID, left)
    /\ lock' = NoRequest
    /\ UNCHANGED <<started, number, history, grant, loop, screen, audit>>

-----------------------------------------------------------------------------
(* The main loop                                                           *)

\* MainLoop lays the views out before it takes its first event.
Start ==
    /\ ~started
    /\ started' = TRUE
    /\ UNCHANGED <<handler, number, lock, history, grant, loop, pending, view, audit>>

\* The user is not faster than the queue by more than this bound.
Room == \A c \in Closures : pending[c] < MaxQueued

\* A key press is taken: its handler now waits for reqLock.
PressKey(k) ==
    /\ started
    /\ loop = "idle"
    /\ Room
    /\ loop' = k
    /\ UNCHANGED <<started, handler, number, lock, history, grant, pending, view, audit>>

\* A queued closure is taken; which of them is next is not determined.
Take(c) ==
    /\ started
    /\ loop = "idle"
    /\ pending[c] > 0
    /\ pending' = [pending EXCEPT ![c] = @ - 1]

\* The closure of ui.Display rewrites the view.
RunDisplay(c) ==
    /\ Take(c)
    /\ screen' = c
    /\ UNCHANGED <<started, handler, number, lock, history, grant, loop, title, audit>>

\* The closure of the reveal timer: it now waits for reqLock.
TakeRemask ==
    /\ Take(Remask)
    /\ loop' = "remask"
    /\ UNCHANGED <<started, handler, number, lock, history, grant, view, audit>>

\* The entered handler gets reqLock, runs and returns.
Enter(h) ==
    /\ loop = h
    /\ lock = NoRequest
    /\ loop' = "idle"
    /\ UNCHANGED <<started, handler, number, lock>>

\* Mutant: navigating keeps the grant.
ShowKeepsGrant(cur) ==
    /\ currentRequest' = cur
    /\ UpdateRequest(requests, cur, revealID, left)
    /\ UNCHANGED <<requests, grant, screen, audit>>

\* The part prevRequest and nextRequest share.
Show(cur) ==
    /\ ClearReveal
    /\ currentRequest' = cur
    /\ UpdateRequest(requests, cur, NoReveal, 0)
    /\ UNCHANGED <<requests, screen, audit>>

PrevRequest ==
    /\ Enter("prev")
    /\ IF currentRequest = 0
       THEN UNCHANGED <<history, grant, pending, view, audit>>
       ELSE Show(currentRequest - 1)

NextRequest ==
    /\ Enter("next")
    /\ IF currentRequest >= Len(requests) - 1
       THEN UNCHANGED <<history, grant, pending, view, audit>>
       ELSE Show(currentRequest + 1)

\* Mutant: the cursor survives the reset.
ResetRequestsKeepsCursor ==
    /\ Enter("reset")
    /\ requests' = <<>>
    /\ ClearReveal
    /\ title' = NoTitle
    /\ screen' = NoContent
    /\ UNCHANGED <<currentRequest, pending, audit>>

\* The view is emptied here and now, not by a queued closure.
ResetRequests ==
    /\ Enter("reset")
    /\ requests' = <<>>
    /\ currentRequest' = 0
    /\ ClearReveal
    /\ title' = NoTitle
    /\ screen' = NoContent
    /\ UNCHANGED <<pending, audit>>

\* Mutant: the old timer is stopped after the new one is started.
RevealCurrentStopsLast ==
    /\ Enter("reveal")
    /\ IF requests = <<>> \/ Current.req \notin Sensitive
       THEN UNCHANGED <<history, grant, pending, view, audit>>
       ELSE /\ revealID' = Current.id
            /\ left' = RevealTTL
            /\ timer' = FALSE
            /\ \E written \in AuditOutcomes :
                  audit' = IF written THEN audit \cup {Current} ELSE audit
            /\ UpdateRequest(requests, currentRequest, Current.id, RevealTTL)
            /\ UNCHANGED <<history, screen>>

\* A failure of the audit log is dropped by Guard.RecordEvent.
RevealCurrent ==
    /\ Enter("reveal")
    /\ IF requests = <<>> \/ Current.req \notin Sensitive
       THEN UNCHANGED <<history, grant, pending, view, audit>>
       ELSE /\ revealID' = Current.id
            /\ left' = RevealTTL
            /\ timer' = TRUE
            /\ \E written \in AuditOutcomes :
                  audit' = IF written THEN audit \cup {Current} ELSE audit
            /\ UpdateRequest(requests, currentRequest, Current.id, RevealTTL)
            /\ UNCHANGED <<history, screen>>

\* Mutant: the grant is dropped, the view not rendered again.
RemaskExpiredNoRefresh ==
    /\ Enter("remask")
    /\ IF revealID = NoReveal
       THEN UNCHANGED <<history, grant, pending, view, audit>>
       ELSE /\ ClearReveal
            /\ UNCHANGED <<history, pending, view, audit>>

\* Mutant: the closure gives up when the revealed request is not on show.
RemaskExpiredCurrentOnly ==
    /\ Enter("remask")
    /\ IF revealID = NoReveal \/ Current.id # revealID
       THEN UNCHANGED <<history, grant, pending, view, audit>>
       ELSE /\ ClearReveal
            /\ UpdateRequest(requests, currentRequest, NoReveal, 0)
            /\ UNCHANGED <<history, screen, audit>>

\* The timer's closure does not look which grant it was started for.
RemaskExpired ==
    /\ Enter("remask")
    /\ IF revealID = NoReveal
       THEN UNCHANGED <<history, grant, pending, view, audit>>
       ELSE /\ ClearReveal
            /\ UpdateRequest(requests, currentRequest, NoReveal, 0)
            /\ UNCHANGED <<history, screen, audit>>

-----------------------------------------------------------------------------
(* Time                                                                    *)

Tick ==
    /\ left > 0
    /\ left' = left - 1
    /\ UNCHANGED <<started, handler, number, lock, history, revealID, timer, loop,
                   pending, view, audit>>

\* The timer's goroutine queues the closure; Stop no longer has an effect.
FireTimer ==
    /\ timer
    /\ left = 0
    /\ timer' = FALSE
    /\ Execute(Remask)
    /\ UNCHANGED <<started, handler, number, lock, history, revealID, left, loop,
                   view, audit>>

-----------------------------------------------------------------------------
HandlerStep(r) ==
    \/ LockForCapture(r)
    \/ CaptureFails(r)
    \/ CaptureRequest(r)
    \/ Store(r)
    \/ ShowArrival(r)

RunHandler ==
    PrevRequest \/ NextRequest \/ ResetRequests \/ RevealCurrent \/ RemaskExpired

Next ==
    \/ \E r \in Requests : HandlerStep(r)
    \/ Start
    \/ \E k \in Keys : PressKey(k)
    \/ \E c \in Content : RunDisplay(c)
    \/ TakeRemask
    \/ RunHandler
    \/ Tick
    \/ FireTimer

Spec == Init /\ [][Next]_vars

\* What the runtime gives: clocks advance, timers fire, the main loop starts,
\* a handler waiting for the mutex gets it (sync.Mutex does not starve), and
\* the select of the main loop, with its queue of closures, passes none over.
LoopFairness ==
    /\ WF_vars(Start) /\ WF_vars(Tick) /\ WF_vars(FireTimer)
    /\ SF_vars(RunHandler)
    /\ SF_vars(TakeRemask)
    /\ \A c \in Content : SF_vars(RunDisplay(c))

\* The goroutine of a request whose body is read runs to its end.
HandlerFairness == \A r \in Requests : WF_vars(Store(r)) /\ WF_vars(ShowArrival(r))

\* Clients finish, or abort, the bodies they started to send.
BodyFairness ==
    \A r \in Requests : WF_vars(CaptureFails(r) \/ CaptureRequest(r))

FairSpec == Spec /\ LoopFairness /\ HandlerFairness /\ BodyFairness

-----------------------------------------------------------------------------
(* Properties                                                              *)

\* The types of the state.
TypeOK ==
    /\ started \in BOOLEAN
    /\ handler \in [Requests -> Stages]
    /\ number \in [Requests -> Nat]
    /\ lock \in Requests \cup {NoRequest}
    /\ requests \in Seq(Capture)
    /\ currentRequest \in Nat
    /\ revealID \in Nat
    /\ left \in 0..RevealTTL
    /\ timer \in BOOLEAN
    /\ loop \in Keys \cup {"idle", "remask"}
    /\ pending \in [Closures -> Nat]
    /\ title \in [pos : Nat, total : Nat, mark : Marks]
    /\ screen \in Content \cup {NoContent}
    /\ audit \subseteq Capture

\* updateRequest and revealCurrent index ui.requests[ui.currentRequest] with
\* no check of their own: whatever arrivals, navigation and resets came
\* before, the cursor is on a request, or at 0 when there is none.
CursorInRange ==
    IF requests = <<>> THEN currentRequest = 0 ELSE currentRequest < Len(requests)

\* isRevealed finds the request by its ID alone: no two requests of the
\* history share one, and the ID says where the request is, although IDs
\* start over at every reset while older requests are still being read.
IDsNumberTheHistory == \A i \in DOMAIN requests : requests[i].id = i

\* A grant belongs to the request on show, or to one that arrivals have
\* scrolled away from: no sequence of keys leaves a grant on a request the
\* user has navigated away from, or on one the history no longer holds.
GrantIsCurrentOrOvertaken ==
    revealID # NoReveal =>
        /\ revealID <= Len(requests)
        /\ \/ revealID = currentRequest + 1
           \/ revealID <= currentRequest /\ currentRequest = Len(requests) - 1

\* Every grant has its end under way: its timer runs, or the closure that
\* ends it is queued or has been taken.  This also holds where Stop came too
\* late for an older timer.
GrantEndIsScheduled ==
    revealID # NoReveal =>
        timer \/ pending[Remask] > 0 \/ loop = "remask"

\* The title is written at once, so it never says REVEALED of a request that
\* holds no grant, and, but for the moment an arrival takes under the lock,
\* never shows a position that is not the cursor's.
TitleTellsTheGrant ==
    /\ title.mark = "revealed" => revealID = title.pos
    /\ title # NoTitle /\ lock = NoRequest =>
        title.pos = currentRequest + 1 /\ title.total = Len(requests)

\* Unmasked content, on the screen or on its way there, is of a request whose
\* reveal went to the audit log (runs where the log can be written).
OnlyRevealedIsUnmasked ==
    \A c \in Content :
        (~c.masked /\ (screen = c \/ pending[c] > 0)) =>
            \E a \in audit : a.req = c.req

\* The inductive invariant behind the properties above: the lock is held from
\* before the body is read until the view is up to date, and so a number
\* given under it is still right when the capture is appended.
LockHeldByCapture ==
    \A r \in Requests :
        handler[r] \in {"reading", "captured", "stored"} <=> lock = r
NumberIsNext ==
    \A r \in Requests : handler[r] = "captured" => number[r] = Len(requests) + 1
StoredIsThere ==
    \A r \in Requests : handler[r] = "stored" => requests # <<>>
LoopNeedsStart == loop # "idle" => started
BlankBeforeStart == ~started => title = NoTitle
TitleOfTheCursor ==
    title # NoTitle /\ (\A r \in Requests : handler[r] # "stored") =>
        title.pos = currentRequest + 1 /\ title.total = Len(requests)

InspectorInvariant ==
    /\ TypeOK
    /\ LockHeldByCapture
    /\ NumberIsNext
    /\ StoredIsThere
    /\ LoopNeedsStart
    /\ BlankBeforeStart
    /\ CursorInRange
    /\ IDsNumberTheHistory
    /\ GrantIsCurrentOrOvertaken
    /\ GrantEndIsScheduled
    /\ TitleTellsTheGrant
    /\ TitleOfTheCursor

\* A reveal window ends, unless the user asks for it again and again.
WindowEnds == []<>(revealID = NoReveal) \/ []<>(loop = "reveal")

\* The history, the cursor and the grant behave as RequestHistory says.
Captured == [i \in DOMAIN requests |-> requests[i].req]
History == INSTANCE RequestHistory WITH
    history <- Captured,
    cursor  <- currentRequest,
    window  <- revealID
HistoryRefined == History!HistorySpec

-----------------------------------------------------------------------------
(* What comments and messages of the code say, and the code does not do    *)

\* Nothing is queued and no handler runs.
Settled == loop = "idle" /\ lock = NoRequest /\ \A c \in Closures : pending[c] = 0

\* "only the request identified by revealID is shown unmasked": closures
\* given to Execute may run in another order, and the unmasked one last.
ScreenFollowsGrant ==
    Settled /\ screen # NoContent /\ revealID = NoReveal => screen.masked
=============================================================================
