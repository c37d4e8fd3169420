--------------------------- MODULE ResponseServing ---------------------------
(***************************************************************************)
(* main.NewHandler, Response.Write and Body.Payload: goroutines, one to a  *)
(* request, answer with the response in use, while key handlers put        *)
(* another in use or change its body where it is.  No lock is involved:    *)
(* ui.resp is a pointer, and a body file one os.File, with one offset, for *)
(* every goroutine and every copy of the response.                         *)
(*                                                                         *)
(* Responses and open files are numbered in the order they are made.  A    *)
(* file is Length chunks, read one by one.                                 *)
(***************************************************************************)
EXTENDS Integers, Sequences

CONSTANTS
    Requests,      \* the requests to answer, each once
    Statuses,      \* what a user types into the form: statuses (headers and
    Inputs,        \* delay go with them) and bodies
    Length,        \* the chunks of a body file
    MaxKeys        \* bound: the keys pressed

ASSUME LengthAssumption == Length \in Nat
ASSUME MaxKeysAssumption == MaxKeys \in Nat

VARIABLES
    heap,          \* the responses made so far
    inUse,         \* ui.resp
    listed,        \* the entries of responses.List
    pressed,       \* the keys pressed so far
    offsets,       \* the offsets of the files opened so far
    pc,            \* where the handler of a request is
    fetched,       \* the response it has fetched
    status,        \* the status it has written
    body,          \* the mode, input and file Payload found
    got,           \* the chunks it has read
    seen,          \* the responses in use since it fetched one, as they were
    overlapped,    \* requests that read a file while another one did
    disturbed,     \* files whose response was given another under a reader
    failed         \* requests whose read of a file has failed

uiVars == <<heap, inUse, listed, pressed>>
handlerVars == <<pc, fetched, status, body, got>>
history == <<overlapped, disturbed, failed>>
servingVars == <<uiVars, offsets, handlerVars, seen, history>>

NoFile == 0
Handles == 1..Len(offsets)
Body == [mode : {"input", "file"}, input : Inputs, file : Nat]
Response == [status : Statuses \cup {200}, body : Body]

\* New: the response in use is 200 with a text, and the list is empty.
ServingInit ==
    /\ \E i \in Inputs :
          heap = <<[status |-> 200,
                    body |-> [mode |-> "input", input |-> i, file |-> NoFile]]>>
    /\ inUse = 1
    /\ listed = {}
    /\ pressed = 0
    /\ offsets = <<>>
    /\ pc = [r \in Requests |-> "new"]
    /\ fetched = [r \in Requests |-> 1]
    /\ status = [r \in Requests |-> heap[1].status]
    /\ body = [r \in Requests |-> heap[1].body]
    /\ got = [r \in Requests |-> <<>>]
    /\ seen = [r \in Requests |-> {}]
    /\ overlapped = {}
    /\ disturbed = {}
    /\ failed = {}

Reading(r) == pc[r] \in {"reading", "rewinding"}
Readers(h) == {r \in Requests : Reading(r) /\ body[r].file = h}

\* What is in use after a step has been in use since the pending requests
\* fetched theirs.
Pending(r) == pc[r] \in {"delayed", "headed"}
Note == seen' = [r \in Requests |->
                    IF Pending(r) THEN seen[r] \cup {heap'[inUse']} ELSE seen[r]]

-----------------------------------------------------------------------------
(* The key handlers                                                        *)

Press == pressed < MaxKeys /\ pressed' = pressed + 1

\* currentResponse: what the form says, with the body in use; the text of the
\* body is taken from the form only when it is not that of a file.
FromForm(s, i) ==
    LET b == heap[inUse].body
    IN  [status |-> s, body |-> IF b.mode = "input" THEN [b EXCEPT !.input = i] ELSE b]

\* Ctrl+a, with a form that can be parsed.
UpdateResponse(s, i) ==
    /\ Press
    /\ heap' = Append(heap, FromForm(s, i))
    /\ inUse' = Len(heap')
    /\ UNCHANGED <<listed, offsets, handlerVars, history>>
    /\ Note

\* Ctrl+s: such a response is put in the list.
SaveResponseAs(s, i) ==
    /\ Press
    /\ heap' = Append(heap, FromForm(s, i))
    /\ listed' = listed \cup {Len(heap')}
    /\ UNCHANGED <<inUse, offsets, handlerVars, seen, history>>

\* Ctrl+l: the list is that of the configuration file, here one response with
\* a body file, opened by UnmarshalJSON.
LoadList(s, i) ==
    /\ Press
    /\ offsets' = Append(offsets, 0)
    /\ heap' = Append(heap, [status |-> s,
                             body |-> [mode |-> "file", input |-> i, file |-> Len(offsets')]])
    /\ listed' = {Len(heap')}
    /\ UNCHANGED <<inUse, handlerVars, seen, history>>

\* Enter in the list: the entry itself is put in use.
Restore(p) ==
    /\ Press
    /\ p \in listed
    /\ inUse' = p
    /\ UNCHANGED <<heap, listed, offsets, handlerVars, history>>
    /\ Note

\* The body of the response in use is changed where it is.
PutBody(b) == heap' = [heap EXCEPT ![inUse] = [status |-> @.status, body |-> b]]

\* Body.SetFile (Ctrl+o, a path and Enter).
SetFile ==
    /\ Press
    /\ offsets' = Append(offsets, 0)
    /\ PutBody([mode |-> "file", input |-> heap[inUse].body.input, file |-> Len(offsets')])
    /\ LET under == {r \in Requests : Reading(r) /\ fetched[r] = inUse}
       IN  disturbed' = IF under = {} THEN disturbed
                        ELSE disturbed \cup {body[r].file : r \in under} \cup {Len(offsets')}
    /\ UNCHANGED <<inUse, listed, handlerVars, overlapped, failed>>
    /\ Note

\* Ctrl+b.
NextBodyMode ==
    /\ Press
    /\ PutBody([heap[inUse].body EXCEPT !.mode = IF @ = "input" THEN "file" ELSE "input"])
    /\ UNCHANGED <<inUse, listed, offsets, handlerVars, history>>
    /\ Note

-----------------------------------------------------------------------------
(* The handler                                                             *)

\* The handler takes the pointer, and sleeps.
Fetch(r) ==
    /\ pc[r] = "new"
    /\ pc' = [pc EXCEPT ![r] = "delayed"]
    /\ fetched' = [fetched EXCEPT ![r] = inUse]
    /\ seen' = [seen EXCEPT ![r] = {heap[inUse]}]
    /\ UNCHANGED <<uiVars, offsets, status, body, got, history>>

\* Mutant: the status is that of the response in use after the delay.
WriteHeadInUse(r) ==
    /\ pc[r] = "delayed"
    /\ pc' = [pc EXCEPT ![r] = "headed"]
    /\ status' = [status EXCEPT ![r] = heap[inUse].status]
    /\ UNCHANGED <<uiVars, offsets, fetched, body, got, seen, history>>

\* Response.Write: headers and status of the response it points to.
WriteHead(r) ==
    /\ pc[r] = "delayed"
    /\ pc' = [pc EXCEPT ![r] = "headed"]
    /\ status' = [status EXCEPT ![r] = heap[fetched[r]].status]
    /\ UNCHANGED <<uiVars, offsets, fetched, body, got, seen, history>>

\* Body.Payload: the input, nothing, or a file to read, as the body is now.
BeginPayload(r) ==
    /\ pc[r] = "headed"
    /\ LET b == heap[fetched[r]].body
           reads == b.mode = "file" /\ b.file # NoFile
       IN  /\ body' = [body EXCEPT ![r] = b]
           /\ pc' = [pc EXCEPT ![r] = IF reads THEN "reading" ELSE "answered"]
           /\ overlapped' = IF reads /\ Readers(b.file) # {}
                            THEN overlapped \cup Readers(b.file) \cup {r}
                            ELSE overlapped
    /\ UNCHANGED <<uiVars, offsets, fetched, status, got, seen, disturbed, failed>>

\* ReadAll reads on from the offset of the file.
ReadChunk(r) ==
    LET h == body[r].file
    IN  /\ pc[r] = "reading"
        /\ offsets[h] < Length
        /\ got' = [got EXCEPT ![r] = Append(@, offsets[h] + 1)]
        /\ offsets' = [offsets EXCEPT ![h] = @ + 1]
        /\ UNCHANGED <<uiVars, pc, fetched, status, body, seen, history>>

\* Mutant: it waits for bytes when it has read none.
ReadEndsNonempty(r) ==
    /\ pc[r] = "reading"
    /\ offsets[body[r].file] = Length /\ got[r] # <<>>
    /\ pc' = [pc EXCEPT ![r] = "rewinding"]
    /\ UNCHANGED <<uiVars, offsets, fetched, status, body, got, seen, history>>

\* Until it finds the end.
ReadEnds(r) ==
    /\ pc[r] = "reading"
    /\ offsets[body[r].file] = Length
    /\ pc' = [pc EXCEPT ![r] = "rewinding"]
    /\ UNCHANGED <<uiVars, offsets, fetched, status, body, got, seen, history>>

\* Or a read fails: the error is dropped, and what was read so far is the payload.
ReadFails(r) ==
    /\ pc[r] = "reading"
    /\ pc' = [pc EXCEPT ![r] = "rewinding"]
    /\ failed' = failed \cup {r}
    /\ UNCHANGED <<uiVars, offsets, fetched, status, body, got, seen, overlapped, disturbed>>

\* Mutant: the file is left where the reading of it ended.
RewindForgotten(r) ==
    /\ pc[r] = "rewinding"
    /\ pc' = [pc EXCEPT ![r] = "answered"]
    /\ UNCHANGED <<uiVars, offsets, fetched, status, body, got, seen, history>>

\* The file the response has now is rewound, and the answer written.
Rewind(r) ==
    /\ pc[r] = "rewinding"
    /\ offsets' = [offsets EXCEPT ![heap[fetched[r]].body.file] = 0]
    /\ pc' = [pc EXCEPT ![r] = "answered"]
    /\ UNCHANGED <<uiVars, fetched, status, body, got, seen, history>>

GoesOn(r) ==
    \/ Fetch(r) \/ WriteHead(r) \/ BeginPayload(r)
    \/ ReadChunk(r) \/ ReadEnds(r) \/ Rewind(r)

Handler(r) == GoesOn(r) \/ ReadFails(r)

KeyHandler ==
    \/ \E s \in Statuses, i \in Inputs :
          UpdateResponse(s, i) \/ SaveResponseAs(s, i) \/ LoadList(s, i)
    \/ \E p \in 1..Len(heap) : Restore(p)
    \/ SetFile \/ NextBodyMode

ServingNext == KeyHandler \/ \E r \in Requests : Handler(r)

ServingSpec == ServingInit /\ [][ServingNext]_servingVars

\* Goroutines run; nobody has to press a key, and no read has to fail.
FairServingSpec == ServingSpec /\ \A r \in Requests : WF_servingVars(GoesOn(r))

-----------------------------------------------------------------------------
(* Properties                                                              *)

\* The types of the state.
ServingTypeOK ==
    /\ heap \in Seq(Response)
    /\ inUse \in 1..Len(heap)
    /\ listed \subseteq 1..Len(heap)
    /\ pressed \in 0..MaxKeys
    /\ offsets \in Seq(0..Length)
    /\ \A p \in 1..Len(heap) : heap[p].body.file \in 0..Len(offsets)
    /\ pc \in [Requests -> {"new", "delayed", "headed", "reading", "rewinding", "answered"}]
    /\ fetched \in [Requests -> 1..Len(heap)]
    /\ status \in [Requests -> Statuses \cup {200}]
    /\ body \in [Requests -> Body]
    /\ \A r \in Requests : Reading(r) => body[r].file \in Handles
    /\ got \in [Requests -> Seq(1..Length)]
    /\ seen \in [Requests -> SUBSET Response]
    /\ overlapped \subseteq Requests
    /\ disturbed \subseteq Handles
    /\ failed \subseteq Requests

\* An answer is one response as it was in use at one moment while its request
\* was pending, never the status of one and the body of another, although the
\* body is read long after the status, from a response whose body is changed in
\* place and which may have left and come back.
AnswerWasInUse ==
    \A r \in Requests :
        Reading(r) \/ pc[r] = "answered" =>
            [status |-> status[r], body |-> body[r]] \in seen[r]

\* A body file is sent whole, from its first chunk to its last, to a request
\* that did not read it while another one did, unless the response was given
\* another file under a reader of the one it had: that leaves the old file at
\* its end, and may rewind the new one under the next request.  If its own read
\* failed the request is sent the file up to there, still from the first chunk;
\* that the read of another one failed before makes no difference to it.
Chunks(n) == [k \in 1..n |-> k]
FileIsSentWhole ==
    \A r \in Requests :
        /\ pc[r] \in {"rewinding", "answered"}
        /\ body[r].mode = "file" /\ body[r].file # NoFile
        /\ r \notin overlapped /\ body[r].file \notin disturbed
        => \E n \in 0..Length : got[r] = Chunks(n) /\ (r \notin failed => n = Length)

\* The inductive invariant behind it: a file nobody reads is at its start, a
\* sole reader has read as far as the file's offset, and the file it will
\* rewind is the one it reads, all but for the disturbed ones.
RestsAtStart ==
    \A h \in Handles \ disturbed : Readers(h) = {} => offsets[h] = 0
Alone(r) == \A q \in Requests : Reading(q) /\ body[q].file = body[r].file => q = r
SoleReader ==
    \A r \in Requests \ overlapped :
        Reading(r) /\ body[r].file \notin disturbed =>
            /\ Alone(r)
            /\ got[r] = Chunks(offsets[body[r].file])
            /\ pc[r] = "rewinding" /\ r \notin failed => offsets[body[r].file] = Length
RewindsItsOwn ==
    \A r \in Requests :
        LET h == heap[fetched[r]].body.file
        IN  Reading(r) /\ h # body[r].file => h \in disturbed /\ body[r].file \in disturbed
\* And what a pending request points to has been in use, as it is.
PointsToSeen ==
    \A r \in Requests :
        Pending(r) =>
            /\ heap[fetched[r]] \in seen[r]
            /\ pc[r] = "headed" => status[r] = heap[fetched[r]].status
            /\ got[r] = <<>>

ServingInvariant ==
    /\ ServingTypeOK
    /\ RestsAtStart /\ SoleReader /\ RewindsItsOwn /\ PointsToSeen
    /\ \A r \in Requests : pc[r] = "new" => got[r] = <<>>
    /\ AnswerWasInUse /\ FileIsSentWhole

\* Every request whose AddRequest has returned is answered, however their reads
\* and rewinds of one file mix, since the requests are finitely many.
EveryRequestAnswered == \A r \in Requests : pc[r] = "delayed" ~> pc[r] = "answered"
=============================================================================
