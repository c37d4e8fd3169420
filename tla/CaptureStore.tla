---------------------------- MODULE CaptureStore ----------------------------
(***************************************************************************)
(* security/capture.go: the directory of envelope-encrypted captures.      *)
(* Persist, called by the request goroutines under reqLock, writes a       *)
(* temporary file and renames it; Sweep, called by the maintenance         *)
(* goroutine with no lock in common, lists the directory and deletes what  *)
(* it finds expired, file by file.  The program may crash anywhere.        *)
(***************************************************************************)
EXTENDS Integers

CONSTANTS
    Captures,      \* the captures to persist, each once
    TTL,           \* Store.ttl, in ticks
    NoCapture,     \* nothing is being persisted
    MaxTime,       \* bound: the clock stops here
    MaxCrashes     \* bound: the program crashes this often

ASSUME StoreTTLAssumption == TTL \in Nat \ {0}
ASSUME NoCaptureAssumption == NoCapture \notin Captures
ASSUME StoreBoundsAssumption == MaxTime \in Nat /\ MaxCrashes \in Nat

VARIABLES
    now,           \* the clock
    dir,           \* the file of each capture: its name and its content
    expires,       \* expiry stamped on its envelope, 0 before
    persisting,    \* the capture a goroutine is persisting
    persisted,     \* the captures Persist returned a path for
    removed,       \* the captures whose file Sweep has deleted
    sweepTime,     \* the clock when the sweep began
    entries,       \* the .enc files a sweep has listed and not visited
    crashes        \* crashes so far

storeVars == <<now, dir, expires, persisting, persisted, removed, sweepTime,
               entries, crashes>>

\* A file: no file, one named *.enc.tmp or one named *.enc, and whether its
\* content is a whole envelope.
File == [name : {"none", "tmp", "enc"}, whole : BOOLEAN]
NoFile == [name |-> "none", whole |-> FALSE]

StoreInit ==
    /\ now = 0
    /\ dir = [c \in Captures |-> NoFile]
    /\ expires = [c \in Captures |-> 0]
    /\ persisting = NoCapture
    /\ persisted = {}
    /\ removed = {}
    /\ sweepTime = 0
    /\ entries = {}
    /\ crashes = 0

sweepVars == <<removed, sweepTime, entries>>

Put(c, name, whole) == dir' = [dir EXCEPT ![c] = [name |-> name, whole |-> whole]]

-----------------------------------------------------------------------------
\* Persist, sealing: the envelope is stamped with the instant its request was
\* received, which may be long ago, and its temporary file opened.
Create(c) ==
    /\ persisting = NoCapture
    /\ expires[c] = 0
    /\ \E received \in 0..now : expires' = [expires EXCEPT ![c] = received + TTL]
    /\ persisting' = c
    /\ Put(c, "tmp", FALSE)
    /\ UNCHANGED <<now, persisted, sweepVars, crashes>>

\* os.WriteFile has written all of the envelope.
Fill(c) ==
    /\ persisting = c
    /\ ~dir[c].whole
    /\ Put(c, dir[c].name, TRUE)
    /\ UNCHANGED <<now, expires, persisting, persisted, sweepVars, crashes>>

\* os.WriteFile fails: Persist returns and the temporary file is left.
FillFails(c) ==
    /\ persisting = c
    /\ ~dir[c].whole
    /\ persisting' = NoCapture
    /\ UNCHANGED <<now, dir, expires, persisted, sweepVars, crashes>>

\* The temporary file gets its final name.
Publish(c) ==
    /\ persisting = c
    /\ dir[c].whole
    /\ Put(c, "enc", TRUE)
    /\ persisting' = NoCapture
    /\ persisted' = persisted \cup {c}
    /\ UNCHANGED <<now, expires, sweepVars, crashes>>

\* Mutant: the error of the rename is not returned.
PublishFailsSilently(c) ==
    /\ persisting = c
    /\ dir[c].whole
    /\ dir' = [dir EXCEPT ![c] = NoFile]
    /\ persisting' = NoCapture
    /\ persisted' = persisted \cup {c}
    /\ UNCHANGED <<now, expires, sweepVars, crashes>>

\* The rename fails: the temporary file is removed.
PublishFails(c) ==
    /\ persisting = c
    /\ dir[c].whole
    /\ dir' = [dir EXCEPT ![c] = NoFile]
    /\ persisting' = NoCapture
    /\ UNCHANGED <<now, expires, persisted, sweepVars, crashes>>

-----------------------------------------------------------------------------
\* Sweep, beginning: the clock is read once and the *.enc files are listed.
List ==
    /\ entries = {}
    /\ entries' = {c \in Captures : dir[c].name = "enc"}
    /\ sweepTime' = now
    /\ UNCHANGED <<now, dir, expires, persisting, persisted, removed, crashes>>

\* EnvelopeExpired: what cannot be parsed counts as expired.
EnvelopeExpired(c) == ~dir[c].whole \/ sweepTime > expires[c]

\* Mutant: Sweep leaves the file of an expired envelope.
VisitKeeps(c) ==
    /\ c \in entries
    /\ entries' = entries \ {c}
    /\ UNCHANGED <<now, dir, expires, persisting, persisted, removed, sweepTime,
                   crashes>>

\* Mutant: an envelope goes at its expiry, not after it.
VisitAtExpiry(c) ==
    /\ c \in entries
    /\ entries' = entries \ {c}
    /\ IF EnvelopeExpired(c) \/ sweepTime = expires[c]
       THEN /\ dir' = [dir EXCEPT ![c] = NoFile]
            /\ removed' = removed \cup {c}
       ELSE UNCHANGED <<dir, removed>>
    /\ UNCHANGED <<now, expires, persisting, persisted, sweepTime, crashes>>

\* Sweep, one file: it is deleted when its envelope has expired.
Visit(c) ==
    /\ c \in entries
    /\ entries' = entries \ {c}
    /\ IF EnvelopeExpired(c)
       THEN /\ dir' = [dir EXCEPT ![c] = NoFile]
            /\ removed' = removed \cup {c}
       ELSE UNCHANGED <<dir, removed>>
    /\ UNCHANGED <<now, expires, persisting, persisted, sweepTime, crashes>>

\* The file cannot be read, or not be removed: the next sweep tries again.
VisitFails(c) ==
    /\ c \in entries
    /\ entries' = entries \ {c}
    /\ UNCHANGED <<now, dir, expires, persisting, persisted, removed, sweepTime,
                   crashes>>

\* The program stops, in the middle of Persist or Sweep, and is started again.
StoreCrash ==
    /\ crashes < MaxCrashes
    /\ crashes' = crashes + 1
    /\ persisting' = NoCapture
    /\ entries' = {}
    /\ UNCHANGED <<now, dir, expires, persisted, removed, sweepTime>>

StoreTick ==
    /\ now < MaxTime
    /\ now' = now + 1
    /\ UNCHANGED <<dir, expires, persisting, persisted, sweepVars, crashes>>

Persist(c) == Create(c) \/ Fill(c) \/ FillFails(c) \/ Publish(c) \/ PublishFails(c)

StoreNext ==
    \/ \E c \in Captures : Persist(c) \/ Visit(c) \/ VisitFails(c)
    \/ List
    \/ StoreCrash
    \/ StoreTick

StoreSpec == StoreInit /\ [][StoreNext]_storeVars

\* Sweeps are started again and again, run to their end, and do not fail to
\* read or remove one file for ever.
StoreFairness ==
    /\ WF_storeVars(List)
    /\ \A c \in Captures :
          /\ SF_storeVars(Visit(c))
          /\ WF_storeVars(Visit(c) \/ VisitFails(c))

FairStoreSpec == StoreSpec /\ StoreFairness

-----------------------------------------------------------------------------
(* Properties                                                              *)

\* The types of the state; a file exists only for an envelope with an expiry.
StoreTypeOK ==
    /\ now \in 0..MaxTime
    /\ dir \in [Captures -> File]
    /\ expires \in [Captures -> 0..(MaxTime + TTL)]
    /\ persisting \in Captures \cup {NoCapture}
    /\ persisted \subseteq {c \in Captures : expires[c] > 0}
    /\ removed \subseteq {c \in Captures : expires[c] > 0}
    /\ sweepTime \in 0..now
    /\ entries \subseteq Captures
    /\ crashes \in 0..MaxCrashes

\* A sweep, running beside Persist and with the clock it began with, deletes
\* no capture before its retention is over: in particular it never takes a
\* capture being written for a malformed one.
NothingGoesEarly == \A c \in removed : now > expires[c]

\* A capture Persist reported is there, whole, until a sweep deletes it, over
\* any crash.
PersistedIsThere ==
    \A c \in persisted : c \in removed \/ dir[c] = [name |-> "enc", whole |-> TRUE]

\* The inductive invariant: what is named *.enc is whole, and what a sweep has
\* listed stays so until it is visited, whatever Persist does meanwhile.
EncIsWhole == \A c \in Captures : dir[c].name = "enc" => dir[c].whole
ListedIsThere == \A c \in entries : dir[c].name = "enc"
PersistingIsTmp == \A c \in Captures : persisting = c => dir[c].name = "tmp"
FileHasExpiry == \A c \in Captures : dir[c] # NoFile => expires[c] > 0

StoreInvariant ==
    /\ StoreTypeOK
    /\ EncIsWhole
    /\ ListedIsThere
    /\ PersistingIsTmp
    /\ FileHasExpiry
    /\ NothingGoesEarly
    /\ PersistedIsThere

\* The store implements Retention for the captures Persist reported: a crash,
\* a failed write or a sweep beside Persist takes away none before its expiry.
Held ==
    {[item |-> c, expiry |-> expires[c]] :
        c \in {d \in persisted : dir[d] = [name |-> "enc", whole |-> TRUE]}}
R == INSTANCE Retention WITH Items <- Captures, held <- Held
StoreRetention == R!Spec

\* A persisted capture whose retention is over is deleted in the end.
ExpiredCaptureGoes ==
    \A c \in Captures :
        (c \in persisted /\ now > expires[c]) ~> (dir[c] = NoFile)
=============================================================================
