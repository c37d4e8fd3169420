-------------------------------- MODULE Guard --------------------------------
(***************************************************************************)
(* security/guard.go: the audit log and the capture store under one        *)
(* maintenance goroutine.  NewGuard sweeps both and fails when that fails; *)
(* StartMaintenance sweeps them again and again, first the log, then the   *)
(* store, and records in the log what it removed; the key handlers log and *)
(* the request goroutines persist beside it.                               *)
(*                                                                         *)
(* The steps are those of AuditLog and CaptureStore; this module says when *)
(* they are taken.                                                         *)
(***************************************************************************)
EXTENDS AuditLog

CONSTANTS
    SweepEvents,   \* the events of SweepNow itself (AuditSweep), each once
    Captures,      \* the captures to persist, each once
    TTL,           \* the store's retention, in ticks
    NoCapture

ASSUME SweepEventsAssumption == SweepEvents \subseteq Events
ASSUME GuardStoreAssumption == TTL \in Nat \ {0} /\ NoCapture \notin Captures

VARIABLES
    dir, stamped, persisting, persisted, removed, sweepTime, entries,
                   \* CaptureStore's, stamped being its expires
    up,            \* the program: not running, in NewGuard, or running
    stage,         \* where SweepNow is
    dropped,       \* it has removed something
    startTime,     \* the clock when the program was started
    skipped        \* the captures a sweep could not read or remove

Store == INSTANCE CaptureStore WITH expires <- stamped

storeState == <<dir, stamped, persisting, persisted, removed, sweepTime, entries>>
auditState == <<file, logVars, sweep>>
sweepState == <<stage, dropped>>
guardVars == <<auditVars, storeState, up, sweepState, startTime, skipped>>

GuardInit ==
    /\ AuditInit
    /\ Store!StoreInit
    /\ up = "down"
    /\ stage = "idle"
    /\ dropped = FALSE
    /\ startTime = 0
    /\ skipped = {}

-----------------------------------------------------------------------------
(* The program                                                             *)

\* NewGuard, up to its sweep.
Start ==
    /\ up = "down"
    /\ up' = "starting"
    /\ startTime' = now
    /\ stage' = "audit"
    /\ dropped' = FALSE
    /\ UNCHANGED <<now, crashes, auditState, storeState, skipped>>

\* Mutant: the log is written without the mutex.
RecordEventUnlocked(e) ==
    /\ up = "running"
    /\ e \notin SweepEvents
    /\ expires[e] = 0
    /\ expires' = [expires EXCEPT ![e] = now + Retention]
    /\ \E outcome \in WriteOutcomes : AppendEvent(e, outcome)
    /\ UNCHANGED <<now, crashes, sweep, storeState, up, sweepState, startTime, skipped>>

\* A key handler logs an event; the mutex keeps it out of the log's sweep.
RecordEvent(e) ==
    /\ up = "running"
    /\ e \notin SweepEvents
    /\ Log(e)
    /\ UNCHANGED <<storeState, up, sweepState, startTime, skipped>>

\* A request goroutine persists its capture, received since the program started.
PersistCapture(c) ==
    /\ up = "running"
    /\ Store!Persist(c)
    /\ stamped'[c] # stamped[c] => stamped'[c] >= startTime + TTL
    /\ UNCHANGED <<auditState, up, sweepState, startTime, skipped>>

\* The program crashes, or main returns, wherever its goroutines are.
Stop ==
    /\ up # "down"
    /\ Crash
    /\ Store!StoreCrash
    /\ up' = "down"
    /\ stage' = "idle"
    /\ UNCHANGED <<dropped, startTime, skipped>>

GuardTick ==
    /\ AuditTick
    /\ UNCHANGED <<storeState, up, sweepState, startTime, skipped>>

-----------------------------------------------------------------------------
(* SweepNow                                                                *)

\* The ticker of StartMaintenance.
BeginSweep ==
    /\ up = "running" /\ stage = "idle"
    /\ stage' = "audit"
    /\ dropped' = FALSE
    /\ UNCHANGED <<now, crashes, auditState, storeState, up, startTime, skipped>>

\* The log has lines to drop.
SweepAuditScans ==
    /\ stage = "audit"
    /\ Scan
    /\ UNCHANGED <<storeState, up, sweepState, startTime, skipped>>

SweepAuditWrites ==
    /\ stage = "audit"
    /\ WriteTmp
    /\ UNCHANGED <<storeState, up, sweepState, startTime, skipped>>

\* Mutant: SweepNow returns when the log has nothing to drop.
NothingToDropReturns ==
    /\ stage = "audit"
    /\ phase = "idle"
    /\ \A line \in Scanned : ~TooLong(line) /\ Kept(line)
    /\ stage' = "idle"
    /\ up' = "running"
    /\ UNCHANGED <<now, crashes, auditState, storeState, dropped, startTime, skipped>>

\* It has none.
NothingToDrop ==
    /\ stage = "audit"
    /\ phase = "idle"
    /\ \A line \in Scanned : ~TooLong(line) /\ Kept(line)
    /\ stage' = "store"
    /\ UNCHANGED <<now, crashes, auditState, storeState, up, dropped, startTime, skipped>>

\* It is replaced.
SweepAuditEnds ==
    /\ stage = "audit"
    /\ Rename
    /\ stage' = "store"
    /\ dropped' = TRUE
    /\ UNCHANGED <<storeState, up, startTime, skipped>>

\* Mutant: NewGuard ignores the error of the sweep.
SweepFailsAndStarts ==
    /\ \/ /\ stage = "audit"
          /\ \/ WriteTmpFails \/ RenameFails
             \/ phase = "idle" /\ UNCHANGED <<now, crashes, auditState>>
       \/ stage = "store" /\ UNCHANGED <<now, crashes, auditState>>
    /\ stage' = "idle"
    /\ up' = "running"
    /\ UNCHANGED <<storeState, dropped, startTime, skipped>>

\* SweepNow returns an error: the log cannot be opened, scanned, rewritten or
\* replaced, or the directory of the store cannot be read.  NewGuard fails.
SweepFails ==
    /\ \/ /\ stage = "audit"
          /\ \/ WriteTmpFails \/ RenameFails
             \/ phase = "idle" /\ UNCHANGED <<now, crashes, auditState>>
       \/ stage = "store" /\ UNCHANGED <<now, crashes, auditState>>
    /\ stage' = "idle"
    /\ up' = IF up = "starting" THEN "down" ELSE up
    /\ UNCHANGED <<storeState, dropped, startTime, skipped>>

SweepStoreBegins ==
    /\ stage = "store"
    /\ Store!List
    /\ stage' = "visit"
    /\ UNCHANGED <<auditState, up, dropped, startTime, skipped>>

\* A file that cannot be read or removed is passed over.
SweepStoreFile(c) ==
    /\ stage = "visit"
    /\ Store!Visit(c)
    /\ dropped' = (dropped \/ removed' # removed)
    /\ UNCHANGED <<auditState, up, stage, startTime, skipped>>

SkipStoreFile(c) ==
    /\ stage = "visit"
    /\ Store!VisitFails(c)
    /\ skipped' = skipped \cup {c}
    /\ UNCHANGED <<auditState, up, sweepState, startTime>>

\* What was removed is recorded, if the log can be written; NewGuard returns.
SweepEnds ==
    /\ stage = "visit" /\ entries = {}
    /\ IF dropped /\ \E e \in SweepEvents : expires[e] = 0
       THEN \E e \in SweepEvents : Log(e)
       ELSE UNCHANGED <<now, crashes, auditState>>
    /\ stage' = "idle"
    /\ up' = "running"
    /\ UNCHANGED <<storeState, dropped, startTime, skipped>>

GuardNext ==
    \/ Start \/ Stop \/ GuardTick
    \/ \E e \in Events : RecordEvent(e)
    \/ \E c \in Captures : PersistCapture(c) \/ SweepStoreFile(c) \/ SkipStoreFile(c)
    \/ BeginSweep \/ SweepAuditScans \/ SweepAuditWrites \/ NothingToDrop
    \/ SweepAuditEnds \/ SweepFails \/ SweepStoreBegins \/ SweepEnds

GuardSpec == GuardInit /\ [][GuardNext]_guardVars

\* The ticker ticks, the goroutine goes on, and neither disk nor file fails for
\* ever; nobody has to start the program.
GuardFairness ==
    /\ WF_guardVars(BeginSweep) /\ WF_guardVars(SweepEnds)
    /\ SF_guardVars(SweepAuditScans) /\ SF_guardVars(SweepAuditWrites)
    /\ SF_guardVars(SweepAuditEnds)
    /\ SF_guardVars(NothingToDrop) /\ SF_guardVars(SweepStoreBegins)
    /\ \A c \in Captures :
          SF_guardVars(SweepStoreFile(c)) /\ WF_guardVars(SkipStoreFile(c))

FairGuardSpec == GuardSpec /\ GuardFairness

-----------------------------------------------------------------------------
(* Properties                                                              *)

\* "an initial retention sweep": once NewGuard has returned, no line of the log
\* and no capture is left that was past its expiry when the program was
\* started, whatever the crash before it left, but for files it cannot read.
Fresh(line) == \A e \in line.of : expires[e] >= startTime
FreshFile(c) == dir[c].name = "enc" => stamped[c] >= startTime

StartEnforcesRetention ==
    up = "running" =>
        /\ \A line \in Scanned : Fresh(line)
        /\ \A c \in Captures \ skipped : FreshFile(c)

\* The inductive invariant behind it: what NewGuard's sweep has come past is
\* fresh, what it is about to put in place of the log is, and nobody persists
\* before it is over.
GuardTypeOK ==
    /\ startTime \in 0..now
    /\ sweepTime \in Nat
    /\ stamped \in [Captures -> Nat]
    /\ dir \in [Captures -> Store!File]
    /\ up \in {"down", "starting", "running"}
SweptLog ==
    /\ up = "running" \/ stage \in {"store", "visit"} =>
          \A line \in Scanned : Fresh(line)
    /\ phase # "idle" => stage = "audit"
    /\ phase = "rewriting" => \A line \in keep : Fresh(line)
    /\ phase = "renaming" => \A line \in tmp : Fresh(line)
SweptStore ==
    /\ up = "running" => \A c \in Captures \ skipped : FreshFile(c)
    /\ stage = "visit" =>
          /\ sweepTime >= startTime
          /\ \A c \in Captures \ (skipped \cup entries) : FreshFile(c)
    /\ persisting # NoCapture => up = "running"
    /\ \A c \in Captures : persisting = c => stamped[c] >= startTime
    /\ up = "down" => stage = "idle"

StartInvariant == GuardTypeOK /\ SweptLog /\ SweptStore

\* Together the log and the store are still what AuditLog and CaptureStore
\* specify: what is proved of each holds with the other, with the maintenance
\* goroutine and with restarts.
ComponentsImplemented == AuditSpec /\ Store!StoreSpec

\* "enforces retention on the audit log and the capture store": a program that
\* goes on running deletes each persisted capture in the end, unless a line
\* too long for the scanner has jammed the log: every sweep then gives up
\* before it comes to the store.
CapturesGoUnlessJammed ==
    \A c \in Captures :
        (c \in persisted /\ now > stamped[c]) ~>
            (dir[c] = Store!NoFile \/ Jammed \/ up # "running")
=============================================================================
