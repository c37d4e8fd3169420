------------------------------ MODULE AuditLog ------------------------------
(***************************************************************************)
(* security/audit.go: the audit log, a file of JSON lines that Log appends *)
(* to and Sweep rewrites through a temporary file.  The program's calls    *)
(* are serialised by the mutex of FileAuditor; nothing serialises a sweep  *)
(* and a crash.                                                            *)
(*                                                                         *)
(* Neither Log nor Sweep looks at the order of the lines, and no two lines *)
(* are alike, so the log is a set of lines, with the last one apart while  *)
(* its newline is missing.                                                 *)
(***************************************************************************)
EXTENDS Integers

CONSTANTS
    Events,        \* the events that may be logged, each once
    Oversized,     \* events whose line is longer than the scanner's buffer
    Retention,     \* FileAuditor.retention, in ticks
    WriteOutcomes, \* what a write of one line may leave behind
    MaxTime,       \* bound: the clock stops here
    MaxCrashes     \* bound: the program crashes this often

Outcomes == {"written", "failed", "torn", "unended"}

ASSUME OversizedAssumption == Oversized \subseteq Events
ASSUME RetentionAssumption == Retention \in Nat \ {0}
ASSUME OutcomesAssumption == WriteOutcomes \subseteq Outcomes
ASSUME BoundsAssumption == MaxTime \in Nat /\ MaxCrashes \in Nat

VARIABLES
    now,           \* the clock
    lines,         \* the lines of the log that end with a newline
    tail,          \* the bytes behind the last newline, NoLine if none
    expires,       \* ExpiresAt of the events logged, 0 before
    logged,        \* the events Log returned nil for
    glued,         \* the events appended behind a line with no newline
    phase,         \* where Sweep is
    keep,          \* the lines it has decided to keep
    tmp,           \* the lines of the temporary file
    crashes        \* crashes so far

file == <<lines, tail>>
sweep == <<phase, keep, tmp>>
auditVars == <<now, file, expires, logged, glued, sweep, crashes>>

logVars == <<expires, logged, glued>>

\* One line: the events with bytes in it, and whether it is one JSON object.
Line == [of : SUBSET Events, whole : BOOLEAN]
NoLine == [of |-> {}, whole |-> FALSE]
Phases == {"idle", "rewriting", "renaming"}

AuditInit ==
    /\ now = 0
    /\ lines = {}
    /\ tail = NoLine
    /\ expires = [e \in Events |-> 0]
    /\ logged = {}
    /\ glued = {}
    /\ phase = "idle"
    /\ keep = {}
    /\ tmp = {}
    /\ crashes = 0

\* The bytes of an event are appended: they continue the last line if that
\* has no newline.
AppendEvent(e, outcome) ==
    LET line == [of |-> tail.of \cup {e}, whole |-> tail = NoLine /\ outcome # "torn"]
    IN  /\ lines' = IF outcome = "written" THEN lines \cup {line} ELSE lines
        /\ tail' = CASE outcome = "written" -> NoLine
                     [] outcome = "failed"  -> tail
                     [] OTHER               -> line
        /\ logged' = IF outcome = "written" THEN logged \cup {e} ELSE logged
        /\ glued' = IF tail = NoLine THEN glued ELSE glued \cup {e}

-----------------------------------------------------------------------------
\* FileAuditor.Log: the event is stamped and its line appended; a write that
\* fails, or a crash in it, leaves nothing, a part of the line, or all of it
\* but the newline.
Log(e) ==
    /\ phase = "idle"
    /\ expires[e] = 0
    /\ expires' = [expires EXCEPT ![e] = now + Retention]
    /\ \E outcome \in WriteOutcomes : AppendEvent(e, outcome)
    /\ UNCHANGED <<now, sweep, crashes>>

\* What a scan of the log finds.
Scanned == lines \cup ({tail} \ {NoLine})

\* The lines a sweep keeps: one JSON object, and not past its expiry.
Expired(e) == now > expires[e]
Kept(line) == line.whole /\ \A e \in line.of : ~Expired(e)
TooLong(line) == line.of \cap Oversized # {}

\* Mutant: only lines that are not JSON are dropped.
ScanKeepsExpired ==
    /\ phase = "idle"
    /\ \A line \in Scanned : ~TooLong(line)
    /\ \E line \in Scanned : ~line.whole
    /\ keep' = {line \in Scanned : line.whole}
    /\ phase' = "rewriting"
    /\ UNCHANGED <<now, file, logVars, tmp, crashes>>

\* Mutant: a line goes at its expiry, not after it.
ScanDropsDue ==
    /\ phase = "idle"
    /\ \A line \in Scanned : ~TooLong(line)
    /\ \E line \in Scanned : ~Kept(line)
    /\ keep' = {line \in Scanned : Kept(line) /\ \A e \in line.of : now # expires[e]}
    /\ phase' = "rewriting"
    /\ UNCHANGED <<now, file, logVars, tmp, crashes>>

\* sweepLocked, reading: it gives up at a line longer than its buffer, and has
\* nothing to do when it would drop nothing.
Scan ==
    /\ phase = "idle"
    /\ \A line \in Scanned : ~TooLong(line)
    /\ \E line \in Scanned : ~Kept(line)
    /\ keep' = {line \in Scanned : Kept(line)}
    /\ phase' = "rewriting"
    /\ UNCHANGED <<now, file, logVars, tmp, crashes>>

\* Mutant: the log itself is truncated and rewritten, in two steps.
WriteTmpInPlace ==
    /\ phase = "rewriting"
    /\ tmp' = keep
    /\ lines' = {}
    /\ tail' = NoLine
    /\ phase' = "renaming"
    /\ UNCHANGED <<now, logVars, keep, crashes>>

\* sweepLocked, writing: the lines kept go to the temporary file.
WriteTmp ==
    /\ phase = "rewriting"
    /\ tmp' = keep
    /\ phase' = "renaming"
    /\ UNCHANGED <<now, file, logVars, keep, crashes>>

\* A write to the temporary file fails: it is removed, the log stays.
WriteTmpFails ==
    /\ phase = "rewriting"
    /\ tmp' = {}
    /\ phase' = "idle"
    /\ UNCHANGED <<now, file, logVars, keep, crashes>>

\* sweepLocked, last: the temporary file takes the place of the log.
Rename ==
    /\ phase = "renaming"
    /\ lines' = tmp
    /\ tail' = NoLine
    /\ tmp' = {}
    /\ phase' = "idle"
    /\ UNCHANGED <<now, logVars, keep, crashes>>

\* The log cannot be replaced: it stays, and so does the temporary file.
RenameFails ==
    /\ phase = "renaming"
    /\ phase' = "idle"
    /\ UNCHANGED <<now, file, logVars, keep, tmp, crashes>>

\* The program stops, in the middle of a sweep with part of the temporary file
\* written or all of it, and is started again.
Crash ==
    /\ crashes < MaxCrashes
    /\ crashes' = crashes + 1
    /\ phase' = "idle"
    /\ tmp' \in {tmp} \cup {part \in SUBSET keep : phase # "idle"}
    /\ UNCHANGED <<now, file, logVars, keep>>

AuditTick ==
    /\ now < MaxTime
    /\ now' = now + 1
    /\ UNCHANGED <<file, logVars, sweep, crashes>>

AuditNext ==
    \/ \E e \in Events : Log(e)
    \/ Scan \/ WriteTmp \/ WriteTmpFails \/ Rename \/ RenameFails \/ Crash
    \/ AuditTick

AuditSpec == AuditInit /\ [][AuditNext]_auditVars

\* StartMaintenance sweeps again and again, a sweep begun goes on, and a disk
\* does not fail for ever.
SweepFairness ==
    /\ SF_auditVars(Scan)
    /\ SF_auditVars(WriteTmp)
    /\ SF_auditVars(Rename)

FairAuditSpec == AuditSpec /\ SweepFairness

-----------------------------------------------------------------------------
(* Properties                                                              *)

\* The types of the state; what Log has reported as written has an expiry.
AuditTypeOK ==
    /\ now \in 0..MaxTime
    /\ lines \subseteq Line
    /\ tail \in Line
    /\ expires \in [Events -> 0..(MaxTime + Retention)]
    /\ logged \cup glued \subseteq {e \in Events : expires[e] > 0}
    /\ phase \in Phases
    /\ keep \subseteq Line
    /\ tmp \subseteq Line
    /\ crashes \in 0..MaxCrashes

\* The event can be read back from the log.
Readable(e) == \E line \in Scanned : line.whole /\ e \in line.of

\* "Sweep drops expired records", and no other: an event Log reported as
\* written, on a line of its own, can be read until its retention is over,
\* through any number of sweeps, failed sweeps, torn writes and crashes.
UnexpiredIsKept == \A e \in logged \ glued : Expired(e) \/ Readable(e)

\* The inductive invariant behind it: such an event has a line of its own, in
\* the log and, while a sweep runs, in what is to replace the log.
Own(e) == [of |-> {e}, whole |-> TRUE]
Due == {e \in logged \ glued : ~Expired(e)}
HasOwnLine == \A e \in Due : Own(e) \in lines
SweepKeeps ==
    \A e \in Due :
        /\ phase = "rewriting" => Own(e) \in keep
        /\ phase = "renaming" => Own(e) \in tmp

\* And a sweep brings nothing back: it keeps what it has scanned, and the line
\* without a newline holds nothing that was reported on a line of its own.
SweepAddsNothing ==
    /\ phase = "rewriting" => keep \subseteq Scanned
    /\ phase = "renaming" => tmp \subseteq Scanned
    /\ tail.of \cap logged \subseteq glued

AuditInvariant ==
    /\ AuditTypeOK
    /\ HasOwnLine
    /\ SweepKeeps
    /\ SweepAddsNothing

\* The log implements Retention for the events reported as written on a line
\* of their own: it holds each from Log on, and a sweep, of however many lines
\* and whatever becomes of it, takes away only what is past its expiry.
Held ==
    {[item |-> e, expiry |-> expires[e]] :
        e \in {f \in logged \ glued : Own(f) \in lines}}
R == INSTANCE Retention WITH Items <- Events, held <- Held
AuditRetention == R!Spec

\* A line the scanner's buffer cannot hold stops every sweep.
Jammed == \E line \in Scanned : TooLong(line)

\* "enforces retention": no byte of an event stays in the log for ever once
\* its retention is over, whatever its line looks like, unless one line is too
\* long for the scanner.
ExpiredGoes ==
    \A e \in Events :
        (expires[e] # 0 /\ Expired(e)) ~>
            (Jammed \/ \A line \in Scanned : e \notin line.of)
=============================================================================
