----------------------------- MODULE Guard_proofs -----------------------------
(***************************************************************************)
(* Proofs about AuditLog and about Guard, which it is a part of, for any   *)
(* events, captures, retentions, outcomes of a write and bounds.           *)
(***************************************************************************)
EXTENDS Guard, TLAPS

-----------------------------------------------------------------------------
(* The log by itself                                                       *)

\* The initial state satisfies the invariant: nothing has been logged.
LEMMA AuditInitInvariant == AuditInit => AuditInvariant
<1> SUFFICES ASSUME AuditInit PROVE AuditInvariant
  OBVIOUS
<1>1. AuditTypeOK
  BY RetentionAssumption, BoundsAssumption
  DEF AuditInit, AuditTypeOK, Line, NoLine, Phases
<1>2. HasOwnLine /\ SweepKeeps /\ SweepAddsNothing
  BY DEF AuditInit, HasOwnLine, SweepKeeps, SweepAddsNothing, Due, NoLine
<1> QED
  BY <1>1, <1>2 DEF AuditInvariant

\* What appending an event does: a line reported as written, on a line of its
\* own, is there, and no line goes.
LEMMA AppendFacts ==
    ASSUME AuditTypeOK, NEW e \in Events, NEW outcome \in WriteOutcomes,
           AppendEvent(e, outcome)
    PROVE  /\ lines' \subseteq Line /\ tail' \in Line
           /\ lines \subseteq lines'
           /\ logged' \subseteq logged \cup {e}
           /\ glued \subseteq glued' /\ glued' \subseteq glued \cup {e}
           /\ e \in logged' \ (logged \cup glued') => Own(e) \in lines'
           /\ lines' \ lines \subseteq {[of |-> tail.of \cup {e}, whole |-> TRUE],
                                       [of |-> tail.of \cup {e}, whole |-> FALSE]}
           /\ tail.of \cap logged \subseteq glued /\ e \notin logged
                 => tail'.of \cap logged' \subseteq glued'
           /\ lines' # lines => e \in logged'
           /\ tail # NoLine /\ e \in logged' => e \in glued'
<1> DEFINE line == [of |-> tail.of \cup {e}, whole |-> tail = NoLine /\ outcome # "torn"]
<1>1. line \in Line
  BY DEF AuditTypeOK, Line
<1>2. /\ lines' = IF outcome = "written" THEN lines \cup {line} ELSE lines
      /\ tail' \in {NoLine, tail, line}
      /\ logged' = IF outcome = "written" THEN logged \cup {e} ELSE logged
      /\ glued' = IF tail = NoLine THEN glued ELSE glued \cup {e}
  BY DEF AppendEvent
<1>3. NoLine \in Line
  BY DEF NoLine, Line
<1>4. ASSUME e \in logged' \ (logged \cup glued')
      PROVE  Own(e) \in lines'
  <2>1. outcome = "written" /\ tail = NoLine
    BY <1>2, <1>4
  <2>2. line = Own(e)
    BY <2>1 DEF Own, NoLine
  <2> QED
    BY <1>2, <2>1, <2>2
<1>5. lines' \ lines \subseteq {[of |-> tail.of \cup {e}, whole |-> TRUE],
                              [of |-> tail.of \cup {e}, whole |-> FALSE]}
  BY <1>2
<1>6. ASSUME tail.of \cap logged \subseteq glued, e \notin logged
      PROVE  tail'.of \cap logged' \subseteq glued'
  <2>1. CASE outcome = "written"
    BY <2>1 DEF AppendEvent, NoLine
  <2>2. CASE outcome = "failed"
    BY <1>2, <1>6, <2>2 DEF AppendEvent
  <2>3. CASE outcome \notin {"written", "failed"}
    <3>1. tail' = line /\ logged' = logged
      BY <2>3 DEF AppendEvent
    <3>2. line.of = tail.of \cup {e}
      OBVIOUS
    <3> QED
      BY <1>2, <1>6, <3>1, <3>2
  <2> QED
    BY <2>1, <2>2, <2>3
<1> QED
  BY <1>1, <1>2, <1>3, <1>4, <1>5, <1>6 DEF AuditTypeOK

\* Log: the other events keep their lines, and no sweep runs.
LEMMA LogStep ==
    ASSUME AuditInvariant, NEW e \in Events, Log(e)
    PROVE  AuditInvariant'
<1> USE DEF AuditInvariant
<1>1. PICK outcome \in WriteOutcomes : AppendEvent(e, outcome)
  BY DEF Log
<1>2. /\ phase = "idle" /\ expires[e] = 0
      /\ expires' = [expires EXCEPT ![e] = now + Retention]
      /\ UNCHANGED <<now, sweep, crashes>>
  BY DEF Log
<1>3. /\ lines' \subseteq Line /\ tail' \in Line
      /\ lines \subseteq lines'
      /\ logged' \subseteq logged \cup {e}
      /\ glued \subseteq glued' /\ glued' \subseteq glued \cup {e}
      /\ e \in logged' \ (logged \cup glued') => Own(e) \in lines'
      /\ tail.of \cap logged \subseteq glued /\ e \notin logged
            => tail'.of \cap logged' \subseteq glued'
  BY <1>1, AppendFacts
<1>4. now + Retention \in 0..(MaxTime + Retention) /\ now + Retention > 0
  BY RetentionAssumption, BoundsAssumption DEF AuditTypeOK
<1>5. AuditTypeOK'
  <2>1. expires' \in [Events -> 0..(MaxTime + Retention)]
    BY <1>2, <1>4 DEF AuditTypeOK
  <2>2. (logged \cup glued \subseteq {f \in Events : expires[f] > 0})'
    BY <1>2, <1>3, <1>4 DEF AuditTypeOK
  <2> QED
    BY <1>2, <1>3, <2>1, <2>2 DEF AuditTypeOK, sweep
<1>6. e \notin logged
  BY <1>2 DEF AuditTypeOK
<1>7. HasOwnLine'
  <2> SUFFICES ASSUME NEW f \in Due' PROVE Own(f) \in lines'
    BY DEF HasOwnLine, Own
  <2>1. CASE f = e
    BY <1>3, <1>6, <2>1 DEF Due
  <2>2. CASE f # e
    <3>1. f \in Events /\ expires'[f] = expires[f]
      BY <1>2, <1>5, <2>2 DEF AuditTypeOK, Due
    <3>2. f \in Due
      BY <1>2, <1>3, <2>2, <3>1 DEF Due, Expired
    <3> QED
      BY <1>3, <3>2 DEF HasOwnLine
  <2> QED
    BY <2>1, <2>2
<1>8. SweepKeeps'
  BY <1>2 DEF SweepKeeps, sweep
<1>9. SweepAddsNothing'
  BY <1>2, <1>3, <1>6 DEF SweepAddsNothing, sweep
<1> QED
  BY <1>5, <1>7, <1>8, <1>9

\* Time passes: events fall due no more, and nothing else changes.
LEMMA TickStep ==
    ASSUME AuditInvariant, AuditTick
    PROVE  AuditInvariant'
<1> USE DEF AuditInvariant
<1>1. now' = now + 1 /\ now < MaxTime /\ UNCHANGED <<file, logVars, sweep, crashes>>
  BY DEF AuditTick
<1>2. AuditTypeOK'
  BY <1>1, BoundsAssumption DEF AuditTypeOK, file, logVars, sweep
<1>3. Due' \subseteq Due
  BY <1>1 DEF Due, Expired, logVars, AuditTypeOK
<1>4. HasOwnLine' /\ SweepKeeps'
  BY <1>1, <1>3 DEF HasOwnLine, SweepKeeps, Own, file, sweep
<1>5. SweepAddsNothing'
  BY <1>1 DEF SweepAddsNothing, Scanned, file, logVars, sweep
<1> QED
  BY <1>2, <1>4, <1>5

\* A sweep: what it has decided to keep has the line of every event that is
\* due, from the scan until the log is replaced, and however it ends.
LEMMA SweepStep ==
    ASSUME AuditInvariant,
           Scan \/ WriteTmp \/ WriteTmpFails \/ Rename \/ RenameFails \/ Crash
    PROVE  AuditInvariant'
<1> USE DEF AuditInvariant
<1>1. UNCHANGED <<now, logVars>> /\ Due' = Due
  BY DEF Scan, WriteTmp, WriteTmpFails, Rename, RenameFails, Crash, Due, Expired, logVars
<1>2. CASE Scan
  <2>1. AuditTypeOK'
    BY <1>1, <1>2 DEF Scan, AuditTypeOK, Scanned, Phases, file, logVars
  <2>2. ASSUME NEW e \in Due PROVE Kept(Own(e)) /\ Own(e) \in Scanned
    BY <2>2 DEF Due, Kept, Own, HasOwnLine, Scanned
  <2>3. HasOwnLine' /\ SweepKeeps'
    BY <1>1, <1>2, <2>2 DEF Scan, HasOwnLine, SweepKeeps, Own, file
  <2>4. SweepAddsNothing'
    BY <1>1, <1>2 DEF Scan, SweepAddsNothing, Scanned, file, logVars
  <2> QED
    BY <2>1, <2>3, <2>4
<1>3. CASE WriteTmp \/ WriteTmpFails \/ RenameFails
  <2>1. AuditTypeOK' /\ HasOwnLine' /\ SweepKeeps'
    BY <1>1, <1>3
    DEF WriteTmp, WriteTmpFails, RenameFails, AuditTypeOK, HasOwnLine, SweepKeeps, Own,
        Phases, file, logVars
  <2>2. SweepAddsNothing'
    BY <1>1, <1>3
    DEF WriteTmp, WriteTmpFails, RenameFails, SweepAddsNothing, Scanned, file, logVars
  <2> QED
    BY <2>1, <2>2
<1>4. CASE Rename
  <2>1. AuditTypeOK'
    BY <1>1, <1>4 DEF Rename, AuditTypeOK, Phases, NoLine, Line, logVars
  <2>2. HasOwnLine' /\ SweepKeeps'
    BY <1>1, <1>4 DEF Rename, HasOwnLine, SweepKeeps, Own
  <2>3. SweepAddsNothing'
    BY <1>1, <1>4 DEF Rename, SweepAddsNothing, NoLine
  <2> QED
    BY <2>1, <2>2, <2>3
<1>5. CASE Crash
  <2>1. AuditTypeOK'
    BY <1>1, <1>5, BoundsAssumption DEF Crash, AuditTypeOK, Phases, file, logVars
  <2>2. HasOwnLine' /\ SweepKeeps'
    BY <1>1, <1>5 DEF Crash, HasOwnLine, SweepKeeps, Own, file
  <2>3. SweepAddsNothing'
    BY <1>1, <1>5 DEF Crash, SweepAddsNothing, file, logVars
  <2> QED
    BY <2>1, <2>2, <2>3
<1> QED
  BY <1>2, <1>3, <1>4, <1>5

\* The inductive invariant holds in every reachable state of the log.
THEOREM AuditIsInvariant == AuditSpec => []AuditInvariant
<1>1. AuditInit => AuditInvariant
  BY AuditInitInvariant
<1>2. AuditInvariant /\ [AuditNext]_auditVars => AuditInvariant'
  <2> SUFFICES ASSUME AuditInvariant, [AuditNext]_auditVars
               PROVE  AuditInvariant'
    OBVIOUS
  <2>1. CASE AuditNext
    BY <2>1, LogStep, SweepStep, TickStep DEF AuditNext
  <2>2. CASE UNCHANGED auditVars
    BY <2>2
    DEF auditVars, file, sweep, AuditInvariant, AuditTypeOK, HasOwnLine, SweepKeeps,
        SweepAddsNothing, Scanned, Due, Expired, Own
  <2> QED
    BY <2>1, <2>2
<1> QED
  BY <1>1, <1>2, PTL DEF AuditSpec

\* An event Log reported as written, on a line of its own, can be read until
\* its retention is over, through any sweeps, failures, torn writes and crashes.
THEOREM UnexpiredEventsAreKept == AuditSpec => []UnexpiredIsKept
<1>1. AuditInvariant => UnexpiredIsKept
  <2> SUFFICES ASSUME AuditInvariant, NEW e \in logged \ glued, ~Expired(e)
               PROVE  Readable(e)
    BY DEF UnexpiredIsKept
  <2>1. Own(e) \in Scanned
    BY DEF AuditInvariant, HasOwnLine, Due, Scanned
  <2>2. Own(e).whole /\ e \in Own(e).of
    BY DEF Own
  <2> QED
    BY <2>1, <2>2 DEF Readable
<1> QED
  BY <1>1, AuditIsInvariant, PTL
\* The state of the log is always well-typed.
THEOREM AuditTypeCorrect == AuditSpec => []AuditTypeOK
<1>1. AuditInvariant => AuditTypeOK
  BY DEF AuditInvariant
<1> QED
  BY <1>1, AuditIsInvariant, PTL

\* Log, of an event on a line of its own, is the one step that adds to what is
\* held, and it adds that event alone; every other Log leaves it as it was.
LEMMA LogKeeps ==
    ASSUME AuditInvariant, NEW e \in Events, Log(e)
    PROVE  [R!Next]_(R!vars)
<1> DEFINE item == [item |-> e, expiry |-> expires'[e]]
           before == {f \in logged \ glued : Own(f) \in lines}
           after == {f \in logged' \ glued' : Own(f) \in lines'}
<1> USE DEF AuditInvariant
<1>1. /\ phase = "idle" /\ expires[e] = 0 /\ now' = now
      /\ expires' = [expires EXCEPT ![e] = now + Retention]
  BY DEF Log
<1>2. expires'[e] = now + Retention /\ \A f \in Events \ {e} : expires'[f] = expires[f]
  BY <1>1 DEF AuditTypeOK
<1>3. e \notin logged /\ e \notin glued /\ logged \subseteq Events
  BY <1>1 DEF AuditTypeOK
<1>4. PICK outcome \in WriteOutcomes : AppendEvent(e, outcome)
  BY DEF Log
<1>5. /\ lines \subseteq lines'
      /\ logged' \in {logged, logged \cup {e}}
      /\ glued' \in {glued, glued \cup {e}}
      /\ lines' \ lines \subseteq {[of |-> tail.of \cup {e}, whole |-> TRUE],
                                  [of |-> tail.of \cup {e}, whole |-> FALSE]}
  BY <1>4, AppendFacts DEF AppendEvent
<1>6. ASSUME NEW f \in Events \ {e} PROVE f \in after <=> f \in before
  <2>1. Own(f) \notin lines' \ lines
    BY <1>5, <1>6 DEF Own
  <2> QED
    BY <1>5, <1>6, <2>1
<1>7. after \in {before, before \cup {e}} /\ e \notin before
  <2>1. after \subseteq Events /\ before \subseteq Events
    BY <1>3, <1>5
  <2> QED
    BY <1>3, <1>6, <2>1
<1>8. Held = {[item |-> f, expiry |-> expires[f]] : f \in before}
  BY DEF Held
<1>9. Held' = {[item |-> f, expiry |-> expires'[f]] : f \in after}
  BY DEF Held, Own
<1>10. \A f \in before : expires'[f] = expires[f]
  BY <1>2, <1>3
<1>11. CASE after = before
  BY <1>1, <1>8, <1>9, <1>10, <1>11 DEF R!vars
<1>12. CASE after = before \cup {e}
  <2>1. Held' = Held \cup {item}
    BY <1>8, <1>9, <1>10, <1>12
  <2>2. item \in Held' /\ item.item \in Events /\ item.expiry \in Nat
    BY <1>2, <2>1, RetentionAssumption, BoundsAssumption DEF AuditTypeOK
  <2>3. \A q \in Held : q.item # item.item
    BY <1>7, <1>8
  <2>4. R!Keep
    BY <1>1, <2>1, <2>2, <2>3 DEF R!Keep
  <2> QED
    BY <2>4 DEF R!Next
<1> QED
  BY <1>7, <1>11, <1>12

\* Every other step leaves what is held or takes away what is past its expiry:
\* a rename brings no line that was not there.
LEMMA SweepDrops ==
    ASSUME AuditInvariant,
           Scan \/ WriteTmp \/ WriteTmpFails \/ Rename \/ RenameFails \/ Crash
    PROVE  [R!Next]_(R!vars)
<1> USE DEF AuditInvariant
<1>1. CASE ~Rename
  <2>1. UNCHANGED <<now, lines, expires, logged, glued>>
    BY <1>1 DEF Scan, WriteTmp, WriteTmpFails, RenameFails, Crash, file, logVars
  <2> QED
    BY <2>1 DEF R!vars, Held, Own
<1>2. CASE Rename
  <2>1. /\ phase = "renaming" /\ lines' = tmp
        /\ UNCHANGED <<now, expires, logged, glued>>
    BY <1>2 DEF Rename, logVars
  <2>2. ASSUME NEW f \in logged \ glued, Own(f) \in tmp
        PROVE  Own(f) \in lines
    <3>1. Own(f) \in Scanned
      BY <2>1, <2>2 DEF SweepAddsNothing
    <3>2. Own(f) # tail
      BY <2>2 DEF SweepAddsNothing, Own
    <3> QED
      BY <3>1, <3>2 DEF Scanned
  <2>3. Held' \subseteq Held
    BY <2>1, <2>2 DEF Held, Own
  <2>4. ASSUME NEW r \in Held \ Held' PROVE now > r.expiry
    <3>1. PICK f \in logged \ glued :
             Own(f) \in lines /\ r = [item |-> f, expiry |-> expires[f]]
      BY DEF Held
    <3>2. Own(f) \notin tmp
      BY <2>1, <2>4, <3>1 DEF Held, Own
    <3>3. Expired(f)
      BY <2>1, <3>1, <3>2 DEF SweepKeeps, Due
    <3> QED
      BY <3>1, <3>3 DEF Expired
  <2>5. R!Drop
    BY <2>1, <2>3, <2>4 DEF R!Drop
  <2> QED
    BY <2>5 DEF R!Next
<1> QED
  BY <1>1, <1>2

\* The log implements Retention.
THEOREM AuditRefinesRetention == AuditSpec => AuditRetention
<1>1. AuditInit => R!Init
  BY DEF AuditInit, R!Init, Held
<1>2. AuditInvariant /\ [AuditNext]_auditVars => [R!Next]_(R!vars)
  <2> SUFFICES ASSUME AuditInvariant, [AuditNext]_auditVars
               PROVE  [R!Next]_(R!vars)
    OBVIOUS
  <2>1. ASSUME AuditTick PROVE [R!Next]_(R!vars)
    <3>1. now' = now + 1 /\ Held' = Held
      BY <2>1 DEF AuditTick, Held, Own, file, logVars
    <3> QED
      BY <3>1 DEF R!Next, R!Tick
  <2>2. ASSUME UNCHANGED auditVars PROVE [R!Next]_(R!vars)
    BY <2>2 DEF auditVars, file, R!vars, Held, Own
  <2> QED
    BY <2>1, <2>2, LogKeeps, SweepDrops DEF AuditNext
<1> QED
  BY <1>1, <1>2, AuditIsInvariant, PTL DEF AuditSpec, AuditRetention, R!Spec

-----------------------------------------------------------------------------
(* The log and the store together                                          *)

\* Every step of the program is, for the log and for the store, one of their
\* own steps or none: the two share the clock, the crashes and no file.
LEMMA StepOfBoth ==
    ASSUME [GuardNext]_guardVars
    PROVE  [AuditNext]_auditVars /\ [Store!StoreNext]_(Store!storeVars)
<1> DEFINE audit == [AuditNext]_auditVars
           store == [Store!StoreNext]_(Store!storeVars)
           auditStays == UNCHANGED <<now, crashes, auditState>>
           storeStays == UNCHANGED <<now, crashes, storeState>>
<1>a. auditStays => audit
  BY DEF auditState, auditVars, file, logVars, sweep
<1>s. storeStays => store
  BY DEF storeState, Store!storeVars
<1>1. CASE Start \/ BeginSweep \/ NothingToDrop \/ UNCHANGED guardVars
  <2>1. auditStays /\ storeStays
    BY <1>1
    DEF Start, BeginSweep, NothingToDrop, guardVars, auditVars, auditState, logVars
  <2> QED
    BY <2>1, <1>a, <1>s
<1>2. CASE SweepAuditScans \/ SweepAuditWrites \/ SweepAuditEnds
  <2>1. Scan \/ WriteTmp \/ Rename
    BY <1>2 DEF SweepAuditScans, SweepAuditWrites, SweepAuditEnds
  <2>2. storeStays
    BY <1>2, <2>1
    DEF SweepAuditScans, SweepAuditWrites, SweepAuditEnds, Scan, WriteTmp, Rename
  <2> QED
    BY <2>1, <2>2, <1>s DEF AuditNext
<1>3. CASE SweepFails
  <2>1. WriteTmpFails \/ RenameFails \/ auditStays
    BY <1>3 DEF SweepFails
  <2>2. storeStays
    BY <1>3, <2>1 DEF SweepFails, WriteTmpFails, RenameFails
  <2> QED
    BY <2>1, <2>2, <1>a, <1>s DEF AuditNext
<1>4. ASSUME NEW e \in Events, RecordEvent(e)
      PROVE  audit /\ store
  <2>1. Log(e) /\ storeStays
    BY <1>4 DEF RecordEvent, Log
  <2> QED
    BY <2>1, <1>s DEF AuditNext
<1>5. ASSUME NEW c \in Captures,
             PersistCapture(c) \/ SweepStoreFile(c) \/ SkipStoreFile(c)
      PROVE  audit /\ store
  <2>1. Store!Persist(c) \/ Store!Visit(c) \/ Store!VisitFails(c)
    BY <1>5 DEF PersistCapture, SweepStoreFile, SkipStoreFile
  <2>2. UNCHANGED auditState
    BY <1>5 DEF PersistCapture, SweepStoreFile, SkipStoreFile
  <2>3. UNCHANGED <<now, crashes>>
    BY <2>1
    DEF Store!Persist, Store!Create, Store!Fill, Store!FillFails, Store!Publish,
        Store!PublishFails, Store!Visit, Store!VisitFails, Store!sweepVars
  <2> QED
    BY <2>1, <2>2, <2>3, <1>a DEF Store!StoreNext
<1>6. CASE SweepStoreBegins
  BY <1>6, <1>a DEF SweepStoreBegins, Store!List, Store!StoreNext
<1>7. CASE SweepEnds
  <2>1. CASE auditStays
    BY <1>7, <2>1, <1>a, <1>s DEF SweepEnds
  <2>2. CASE \E e \in SweepEvents : Log(e)
    <3>1. PICK e \in SweepEvents : Log(e)
      BY <2>2
    <3>2. storeStays
      BY <1>7, <3>1 DEF SweepEnds, Log
    <3> QED
      BY <3>1, <3>2, <1>s, SweepEventsAssumption DEF AuditNext
  <2> QED
    BY <1>7, <2>1, <2>2 DEF SweepEnds
<1>8. CASE Stop
  BY <1>8 DEF Stop, AuditNext, Store!StoreNext
<1>9. CASE GuardTick
  <2>1. AuditTick /\ UNCHANGED storeState
    BY <1>9 DEF GuardTick
  <2>2. Store!StoreTick
    BY <2>1 DEF AuditTick, Store!StoreTick, Store!sweepVars, storeState, sweep
  <2> QED
    BY <2>1, <2>2 DEF AuditNext, Store!StoreNext
<1> QED
  BY <1>1, <1>2, <1>3, <1>4, <1>5, <1>6, <1>7, <1>8, <1>9 DEF GuardNext

\* The log and the store of a running program, swept by one goroutine and
\* restarted, behave as AuditLog and CaptureStore specify.
THEOREM GuardImplementsComponents == GuardSpec => ComponentsImplemented
<1>1. GuardInit => AuditInit /\ Store!StoreInit
  BY DEF GuardInit
<1> QED
  BY <1>1, StepOfBoth, PTL DEF GuardSpec, ComponentsImplemented, AuditSpec, Store!StoreSpec

\* So in the program too, an event reported as written on a line of its own
\* can be read until its retention is over.
THEOREM GuardKeepsEvents == GuardSpec => []UnexpiredIsKept
BY GuardImplementsComponents, UnexpiredEventsAreKept, PTL DEF ComponentsImplemented

-----------------------------------------------------------------------------
(* The first sweep                                                         *)

\* An event logged since the program was started is fresh, and so is the line
\* it continues.
LEMMA LogStaysFresh ==
    ASSUME GuardTypeOK, AuditTypeOK, NEW e \in Events, Log(e),
           UNCHANGED startTime, \A line \in Scanned : Fresh(line)
    PROVE  (\A line \in Scanned : Fresh(line))'
<1>1. /\ now \in Nat /\ startTime \in Nat /\ startTime <= now
      /\ expires \in [Events -> Int] /\ tail \in Line /\ lines \subseteq Line
  BY BoundsAssumption, RetentionAssumption DEF GuardTypeOK, AuditTypeOK
<1>2. expires' = [expires EXCEPT ![e] = now + Retention]
  BY DEF Log
<1>3. \A f \in tail.of : expires[f] >= startTime
  BY <1>1 DEF Scanned, Fresh, NoLine
<1>4. ASSUME NEW line \in Scanned'
      PROVE  line \in Scanned \/ line.of = tail.of \cup {e}
  <2>1. PICK outcome \in WriteOutcomes : AppendEvent(e, outcome)
    BY DEF Log
  <2> DEFINE new == [of |-> tail.of \cup {e}, whole |-> tail = NoLine /\ outcome # "torn"]
  <2>2. lines' \subseteq lines \cup {new} /\ tail' \in {NoLine, tail, new}
    <3>1. CASE outcome = "written"
      BY <2>1, <3>1 DEF AppendEvent
    <3>2. CASE outcome = "failed"
      BY <2>1, <3>2 DEF AppendEvent
    <3>3. CASE outcome # "written" /\ outcome # "failed"
      BY <2>1, <3>3 DEF AppendEvent
    <3> QED
      BY <3>1, <3>2, <3>3
  <2>3. line \in lines' \/ (line = tail' /\ line # NoLine)
    BY <1>4 DEF Scanned
  <2>4. line \in lines \/ line = new \/ (line = tail /\ line # NoLine)
    BY <2>2, <2>3
  <2> QED
    BY <2>4 DEF Scanned
<1>5. ASSUME NEW f \in Events, f = e \/ expires[f] >= startTime
      PROVE  expires'[f] >= startTime
  BY <1>1, <1>2, <1>5, RetentionAssumption
<1>6. ASSUME NEW line \in Scanned', NEW f \in line.of
      PROVE  expires'[f] >= startTime
  <2>1. \A l \in Scanned : l.of \subseteq Events
    BY <1>1 DEF Scanned, Line
  <2>2. tail.of \subseteq Events
    BY <1>1 DEF Line
  <2>3. CASE line \in Scanned
    BY <2>1, <2>3, <1>5, <1>6 DEF Fresh
  <2>4. CASE line.of = tail.of \cup {e}
    BY <2>2, <2>4, <1>3, <1>5, <1>6
  <2> QED
    BY <1>4, <2>3, <2>4
<1> QED
  BY <1>6 DEF Fresh

\* The types of the clocks and of the store's expiries are preserved.
LEMMA GuardTypeStep ==
    ASSUME GuardTypeOK, AuditTypeOK, [GuardNext]_guardVars
    PROVE  GuardTypeOK'
<1>1. now \in Nat /\ startTime \in 0..now /\ sweepTime \in Nat
      /\ stamped \in [Captures -> Nat] /\ TTL \in Nat
  BY BoundsAssumption, GuardStoreAssumption DEF GuardTypeOK, AuditTypeOK
<1>2. now' = now \/ now' = now + 1
  BY StepOfBoth
  DEF AuditNext, auditVars, Log, Scan, WriteTmp, WriteTmpFails, Rename, RenameFails,
      Crash, AuditTick
<1>3. startTime' = startTime \/ (startTime' = now /\ now' = now)
  BY DEF GuardNext, guardVars, Start, Stop, GuardTick, RecordEvent, PersistCapture,
      SweepStoreFile, SkipStoreFile, BeginSweep, SweepAuditScans, SweepAuditWrites,
      NothingToDrop, SweepAuditEnds, SweepFails, SweepStoreBegins, SweepEnds
<1>4. sweepTime' = sweepTime \/ sweepTime' = now
  BY StepOfBoth
  DEF Store!StoreNext, Store!storeVars, Store!Persist, Store!Create, Store!Fill,
      Store!FillFails, Store!Publish, Store!PublishFails, Store!Visit, Store!VisitFails,
      Store!List, Store!StoreCrash, Store!StoreTick, Store!sweepVars
<1>5. stamped' = stamped \/ \E c \in Captures, received \in 0..now :
                                stamped' = [stamped EXCEPT ![c] = received + TTL]
  BY StepOfBoth
  DEF Store!StoreNext, Store!storeVars, Store!Persist, Store!Create, Store!Fill,
      Store!FillFails, Store!Publish, Store!PublishFails, Store!Visit, Store!VisitFails,
      Store!List, Store!StoreCrash, Store!StoreTick
<1>6. stamped' \in [Captures -> Nat]
  BY <1>1, <1>5
<1>9. dir \in [Captures -> Store!File]
  BY DEF GuardTypeOK
<1>10. dir' \in [Captures -> Store!File]
  <2>1. CASE UNCHANGED dir
    BY <1>9, <2>1
  <2>2. ASSUME NEW c \in Captures, Store!Persist(c) \/ Store!Visit(c)
        PROVE  dir' \in [Captures -> Store!File]
    <3>1. dir[c] \in Store!File
      BY <1>9
    <3>2. dir' = dir \/ \E f \in Store!File : dir' = [dir EXCEPT ![c] = f]
      BY <2>2, <3>1
      DEF Store!Persist, Store!Create, Store!Fill, Store!FillFails, Store!Publish,
          Store!PublishFails, Store!Visit, Store!Put, Store!File, Store!NoFile
    <3> QED
      BY <1>9, <3>2
  <2> QED
    BY <2>1, <2>2, StepOfBoth
    DEF Store!StoreNext, Store!storeVars, Store!VisitFails, Store!List, Store!StoreCrash,
        Store!StoreTick
<1>7. up' \in {"down", "starting", "running"}
  BY DEF GuardTypeOK, GuardNext, guardVars, Start, Stop, GuardTick, RecordEvent,
      PersistCapture, SweepStoreFile, SkipStoreFile, BeginSweep, SweepAuditScans,
      SweepAuditWrites, NothingToDrop, SweepAuditEnds, SweepFails, SweepStoreBegins,
      SweepEnds
<1>8. startTime' \in 0..now' /\ sweepTime' \in Nat
  BY <1>1, <1>2, <1>3, <1>4
<1> QED
  BY <1>6, <1>7, <1>8, <1>10 DEF GuardTypeOK

\* What the first sweep has come past of the log is fresh, and stays so.
LEMMA SweptLogStep ==
    ASSUME StartInvariant, AuditTypeOK, [GuardNext]_guardVars
    PROVE  SweptLog'
<1> USE DEF StartInvariant, SweptLog
<1>0. /\ now \in Nat /\ startTime \in Nat /\ startTime <= now
      /\ expires \in [Events -> Int] /\ tail \in Line /\ lines \subseteq Line
  BY BoundsAssumption, RetentionAssumption DEF GuardTypeOK, AuditTypeOK
<1>a. ASSUME UNCHANGED <<file, expires, startTime>>
      PROVE  /\ UNCHANGED Scanned
             /\ \A line \in Scanned : Fresh(line)' = Fresh(line)
             /\ \A line \in keep : Fresh(line)' = Fresh(line)
             /\ \A line \in tmp : Fresh(line)' = Fresh(line)
  BY <1>a DEF file, Scanned, Fresh
<1>1. CASE UNCHANGED guardVars
  BY <1>1, <1>a DEF guardVars, auditVars, logVars, sweep, sweepState
<1>2. CASE Start
  BY <1>2, <1>a DEF Start, auditState, logVars, sweep, SweptStore
<1>3. CASE Stop
  BY <1>3 DEF Stop, Crash
<1>4. CASE GuardTick
  BY <1>4, <1>a DEF GuardTick, AuditTick, logVars, sweep, sweepState
<1>5. ASSUME NEW e \in Events, RecordEvent(e)
      PROVE  SweptLog'
  <2>1. /\ Log(e) /\ UNCHANGED <<startTime, stage, up>> /\ up = "running"
        /\ phase = "idle" /\ phase' = "idle"
    BY <1>5 DEF RecordEvent, sweepState, Log, sweep
  <2> QED
    BY <2>1, LogStaysFresh
<1>6. ASSUME NEW c \in Captures,
             PersistCapture(c) \/ SweepStoreFile(c) \/ SkipStoreFile(c)
      PROVE  SweptLog'
  BY <1>6, <1>a
  DEF PersistCapture, SweepStoreFile, SkipStoreFile, auditState, logVars, sweep, sweepState
<1>7. CASE BeginSweep
  BY <1>7, <1>a DEF BeginSweep, auditState, logVars, sweep
<1>8. CASE SweepAuditScans
  <2>1. /\ UNCHANGED <<file, expires, startTime, stage, up>> /\ stage = "audit"
        /\ phase' = "rewriting" /\ keep' = {line \in Scanned : Kept(line)}
    BY <1>8 DEF SweepAuditScans, Scan, logVars, sweepState
  <2>2. ASSUME NEW line \in Scanned, Kept(line)
        PROVE  Fresh(line)
    <3>1. line.of \subseteq Events
      BY <1>0 DEF Scanned, Line
    <3> QED
      BY <1>0, <2>2, <3>1 DEF Kept, Expired, Fresh
  <2> QED
    BY <2>1, <2>2, <1>a
<1>9. CASE SweepAuditWrites
  BY <1>9, <1>a DEF SweepAuditWrites, WriteTmp, logVars, sweepState, Fresh
<1>10. CASE NothingToDrop
  <2>1. ASSUME NEW line \in Scanned
        PROVE  Fresh(line)
    <3>1. line.of \subseteq Events
      BY <1>0 DEF Scanned, Line
    <3> QED
      BY <1>0, <1>10, <3>1 DEF NothingToDrop, Kept, Expired, Fresh
  <2> QED
    BY <1>10, <2>1, <1>a DEF NothingToDrop, auditState, logVars, sweep
<1>11. CASE SweepAuditEnds
  BY <1>11 DEF SweepAuditEnds, Rename, logVars, Scanned, Fresh
<1>12. CASE SweepFails
  <2>1. UNCHANGED <<file, expires, startTime>> /\ phase' = "idle" /\ stage' = "idle"
        /\ (up' = "running" => up = "running")
    BY <1>12 DEF SweepFails, WriteTmpFails, RenameFails, auditState, logVars, sweep
  <2> QED
    BY <2>1, <1>a
<1>13. CASE SweepStoreBegins
  BY <1>13, <1>a DEF SweepStoreBegins, auditState, logVars, sweep
<1>14. CASE SweepEnds
  <2>1. stage = "visit" /\ phase = "idle" /\ stage' = "idle" /\ startTime' = startTime
    BY <1>14 DEF SweepEnds
  <2>2. CASE UNCHANGED auditState
    BY <2>1, <2>2, <1>a DEF auditState, logVars, sweep
  <2>3. CASE \E e \in SweepEvents : Log(e)
    <3>1. PICK e \in SweepEvents : Log(e)
      BY <2>3
    <3>2. phase' = "idle"
      BY <2>1, <3>1 DEF Log, sweep
    <3> QED
      BY <2>1, <3>1, <3>2, LogStaysFresh, SweepEventsAssumption
  <2> QED
    BY <1>14, <2>2, <2>3 DEF SweepEnds
<1> QED
  BY <1>1, <1>2, <1>3, <1>4, <1>5, <1>6, <1>7, <1>8, <1>9, <1>10, <1>11, <1>12, <1>13, <1>14
  DEF GuardNext

\* What the first sweep has come past of the store is fresh, and stays so: a
\* capture is published only by a running program, which stamped it.
LEMMA SweptStoreStep ==
    ASSUME StartInvariant, AuditTypeOK, [GuardNext]_guardVars
    PROVE  SweptStore'
<1> USE DEF StartInvariant, SweptStore
<1>0. /\ now \in Nat /\ startTime \in Nat /\ startTime <= now /\ TTL \in Nat
      /\ stamped \in [Captures -> Nat] /\ sweepTime \in Nat
      /\ NoCapture \notin Captures /\ dir \in [Captures -> Store!File]
  BY BoundsAssumption, GuardStoreAssumption DEF GuardTypeOK, AuditTypeOK
<1> USE DEF FreshFile
<1>1. CASE UNCHANGED guardVars
  <2>1. UNCHANGED <<up, stage, startTime, skipped, dir, stamped, persisting, sweepTime, entries>>
    BY <1>1 DEF guardVars, storeState, sweepState
  <2> QED
    BY <2>1
<1>2. CASE Start
  BY <1>2, <1>0 DEF Start, storeState
<1>3. CASE Stop
  BY <1>3, <1>0 DEF Stop, Store!StoreCrash
<1>4. CASE GuardTick \/ SweepAuditScans \/ SweepAuditWrites \/ SweepAuditEnds \/ BeginSweep
           \/ NothingToDrop \/ \E e \in Events : RecordEvent(e)
  <2>1. UNCHANGED <<storeState, up, startTime, skipped>>
    BY <1>4
    DEF GuardTick, SweepAuditScans, SweepAuditWrites, SweepAuditEnds, BeginSweep,
        NothingToDrop, RecordEvent
  <2>2. stage' \in {stage, "audit", "store"} /\ (stage' # stage => up # "down")
    BY <1>4
    DEF GuardTick, SweepAuditScans, SweepAuditWrites, SweepAuditEnds, BeginSweep,
        NothingToDrop, RecordEvent, sweepState
  <2> QED
    BY <2>1, <2>2 DEF storeState
<1>5. CASE SweepFails
  <2>1. UNCHANGED <<storeState, startTime, skipped>> /\ stage' = "idle"
        /\ up' = IF up = "starting" THEN "down" ELSE up
    BY <1>5 DEF SweepFails
  <2> QED
    BY <2>1 DEF storeState
<1>6. CASE SweepEnds
  BY <1>6 DEF SweepEnds, storeState
<1>7. CASE SweepStoreBegins
  <2>1. /\ UNCHANGED <<up, startTime, skipped, dir, stamped, persisting>>
        /\ sweepTime' = now /\ stage = "store" /\ stage' = "visit"
        /\ entries' = {c \in Captures : dir[c].name = "enc"}
    BY <1>7 DEF SweepStoreBegins, Store!List
  <2>2. \A c \in Captures \ (skipped \cup entries') : FreshFile(c)
    BY <2>1
  <2> QED
    BY <1>0, <2>1, <2>2
<1>8. ASSUME NEW c \in Captures, SweepStoreFile(c) \/ SkipStoreFile(c)
      PROVE  SweptStore'
  <2>1. /\ UNCHANGED <<up, startTime, stamped, persisting, sweepTime, stage>>
        /\ entries' = entries \ {c} /\ stage = "visit"
    BY <1>8
    DEF SweepStoreFile, SkipStoreFile, Store!Visit, Store!VisitFails, sweepState
  <2>2. CASE SkipStoreFile(c)
    <3>1. dir' = dir /\ skipped' = skipped \cup {c}
      BY <2>2 DEF SkipStoreFile, Store!VisitFails
    <3> QED
      BY <2>1, <3>1
  <2>3. CASE SweepStoreFile(c)
    <3>1. /\ skipped' = skipped
          /\ dir' = IF Store!EnvelopeExpired(c) THEN [dir EXCEPT ![c] = Store!NoFile] ELSE dir
      BY <2>3 DEF SweepStoreFile, Store!Visit
    <3>2. dir' = dir \/ dir' = [dir EXCEPT ![c] = Store!NoFile]
      BY <3>1
    <3>3. \A d \in Captures : dir'[d].name = "enc" => dir[d].name = "enc"
      BY <1>0, <3>2 DEF Store!NoFile, Store!File
    <3>4. FreshFile(c)'
      BY <1>0, <2>1, <3>1 DEF Store!EnvelopeExpired, Store!NoFile
    <3> QED
      BY <2>1, <3>1, <3>3, <3>4
  <2> QED
    BY <1>8, <2>2, <2>3
<1>9. ASSUME NEW c \in Captures, PersistCapture(c)
      PROVE  SweptStore'
  <2>1. /\ UNCHANGED <<startTime, up, stage, skipped, sweepTime, entries>> /\ up = "running"
        /\ Store!Persist(c)
    BY <1>9
    DEF PersistCapture, sweepState, Store!Persist, Store!Create, Store!Fill,
        Store!FillFails, Store!Publish, Store!PublishFails, Store!sweepVars
  <2>2. /\ persisting' \in {c, NoCapture}
        /\ \A d \in Captures \ {c} : dir'[d] = dir[d] /\ stamped'[d] = stamped[d]
    BY <1>0, <2>1
    DEF Store!Persist, Store!Create, Store!Fill, Store!FillFails, Store!Publish,
        Store!PublishFails, Store!Put
  <2>3. persisting' = c => stamped'[c] >= startTime
    <3>1. CASE Store!Create(c)
      <4>1. PICK received \in 0..now : stamped' = [stamped EXCEPT ![c] = received + TTL]
        BY <3>1 DEF Store!Create
      <4>2. stamped[c] = 0 /\ stamped'[c] = received + TTL /\ received + TTL > 0
        BY <1>0, <3>1, <4>1, GuardStoreAssumption DEF Store!Create
      <4>3. stamped'[c] >= startTime + TTL
        BY <1>9, <4>2 DEF PersistCapture
      <4>4. startTime \in Nat /\ TTL \in Nat /\ stamped'[c] \in Nat
        BY <1>0, <4>2, GuardStoreAssumption
      <4> QED
        BY <4>3, <4>4
    <3>2. CASE persisting = c /\ stamped' = stamped
      BY <1>0, <2>1, <3>2
    <3> QED
      BY <2>1, <3>1, <3>2
      DEF Store!Persist, Store!Fill, Store!FillFails, Store!Publish, Store!PublishFails
  <2>4. stamped'[c] >= startTime \/ dir'[c].name # "enc"
    BY <1>0, <2>1
    DEF Store!Persist, Store!Create, Store!Fill, Store!FillFails, Store!Publish,
        Store!PublishFails, Store!Put
  <2>5. \A d \in Captures : persisting' = d => d = c
    BY <1>0, <2>2
  <2> QED
    BY <2>1, <2>2, <2>3, <2>4, <2>5
<1> QED
  BY <1>1, <1>2, <1>3, <1>4, <1>5, <1>6, <1>7, <1>8, <1>9 DEF GuardNext

\* "an initial retention sweep": once NewGuard has returned, nothing is left
\* that was past its expiry when the program was started, but for files a sweep
\* could not read.
THEOREM StartEnforces == GuardSpec => []StartEnforcesRetention
<1>1. GuardInit => StartInvariant
  BY GuardStoreAssumption DEF Store!File, Store!NoFile, Scanned, FreshFile, Fresh,
      GuardInit, AuditInit, Store!StoreInit, StartInvariant, GuardTypeOK, SweptLog,
      SweptStore
<1>2. StartInvariant /\ AuditTypeOK /\ [GuardNext]_guardVars => StartInvariant'
  BY GuardTypeStep, SweptLogStep, SweptStoreStep DEF StartInvariant
<1>3. StartInvariant => StartEnforcesRetention
  BY DEF StartInvariant, SweptLog, SweptStore, StartEnforcesRetention
<1>4. GuardSpec => []AuditTypeOK
  BY GuardImplementsComponents, AuditTypeCorrect, PTL DEF ComponentsImplemented
<1> QED
  BY <1>1, <1>2, <1>3, <1>4, PTL DEF GuardSpec
=============================================================================
