------------------------- MODULE CaptureStore_proofs -------------------------
(* Proofs about CaptureStore, for any set of captures, TTL and bounds.      *)
EXTENDS CaptureStore, TLAPS

\* The initial state satisfies the invariant.
LEMMA StoreInitInvariant == StoreInit => StoreInvariant
<1> SUFFICES ASSUME StoreInit PROVE StoreInvariant
  OBVIOUS
<1>1. StoreTypeOK
  <2>1. NoFile \in File
    BY DEF NoFile, File
  <2>2. dir \in [Captures -> File] /\ expires \in [Captures -> 0..(MaxTime + TTL)]
    BY <2>1, StoreTTLAssumption, StoreBoundsAssumption DEF StoreInit
  <2> QED
    BY <2>2, StoreBoundsAssumption DEF StoreInit, StoreTypeOK
<1>2. EncIsWhole /\ ListedIsThere /\ FileHasExpiry
  BY DEF StoreInit, EncIsWhole, ListedIsThere, FileHasExpiry, NoFile
<1>3. PersistingIsTmp /\ NothingGoesEarly /\ PersistedIsThere
  BY NoCaptureAssumption DEF StoreInit, PersistingIsTmp, NothingGoesEarly,
     PersistedIsThere
<1> QED
  BY <1>1, <1>2, <1>3 DEF StoreInvariant

\* Persist's steps: the capture they work on is named *.enc.tmp until it is
\* whole, and no sweep has listed it.
LEMMA PersistSteps ==
    ASSUME StoreInvariant, NEW c \in Captures, Persist(c)
    PROVE  StoreInvariant'
<1> USE DEF StoreInvariant, StoreTypeOK
<1>0. persisting = c => dir[c].name = "tmp" /\ c \notin entries /\ expires[c] > 0
  BY DEF PersistingIsTmp, ListedIsThere, FileHasExpiry, NoFile
<1>00. expires[c] = 0 => c \notin entries /\ c \notin persisted /\ c \notin removed
  BY DEF ListedIsThere, FileHasExpiry, NoFile
<1>1. CASE Create(c)
  <2>0. PICK received \in 0..now : expires' = [expires EXCEPT ![c] = received + TTL]
    BY <1>1 DEF Create
  <2>1. /\ dir' = [dir EXCEPT ![c] = [name |-> "tmp", whole |-> FALSE]]
        /\ expires' = [expires EXCEPT ![c] = received + TTL] /\ persisting' = c
        /\ UNCHANGED <<now, persisted, removed, sweepTime, entries, crashes>>
        /\ c \notin entries /\ c \notin persisted /\ c \notin removed
    BY <1>1, <1>00, <2>0 DEF Create, Put, sweepVars
  <2>2. StoreTypeOK'
    BY <2>1, StoreTTLAssumption, StoreBoundsAssumption DEF File
  <2>3. EncIsWhole' /\ ListedIsThere' /\ FileHasExpiry'
    BY <2>1, <2>2, StoreTTLAssumption DEF EncIsWhole, ListedIsThere, FileHasExpiry
  <2>4. PersistingIsTmp'
    BY <2>1 DEF PersistingIsTmp
  <2>5. NothingGoesEarly' /\ PersistedIsThere'
    BY <2>1 DEF NothingGoesEarly, PersistedIsThere
  <2> QED
    BY <2>2, <2>3, <2>4, <2>5
<1>2. CASE Fill(c)
  <2>1. /\ dir' = [dir EXCEPT ![c] = [name |-> "tmp", whole |-> TRUE]]
        /\ UNCHANGED <<now, expires, persisting, persisted, removed, sweepTime, entries,
                        crashes>>
        /\ c \notin entries /\ dir[c].name = "tmp" /\ expires[c] > 0
    BY <1>2, <1>0 DEF Fill, Put, sweepVars
  <2>2. StoreTypeOK'
    BY <2>1 DEF File
  <2>3. EncIsWhole' /\ ListedIsThere' /\ FileHasExpiry'
    BY <2>1 DEF EncIsWhole, ListedIsThere, FileHasExpiry
  <2>4. PersistingIsTmp' /\ NothingGoesEarly' /\ PersistedIsThere'
    BY <2>1 DEF PersistingIsTmp, NothingGoesEarly, PersistedIsThere
  <2> QED
    BY <2>2, <2>3, <2>4
<1>3. CASE FillFails(c)
  BY <1>3, NoCaptureAssumption
  DEF FillFails, sweepVars, EncIsWhole, ListedIsThere, PersistingIsTmp,
      FileHasExpiry, NothingGoesEarly, PersistedIsThere
<1>4. CASE Publish(c)
  <2>1. /\ dir' = [dir EXCEPT ![c] = [name |-> "enc", whole |-> TRUE]]
        /\ persisting' = NoCapture /\ persisted' = persisted \cup {c}
        /\ UNCHANGED <<now, expires, removed, sweepTime, entries, crashes>>
        /\ c \notin entries /\ expires[c] > 0
    BY <1>4, <1>0 DEF Publish, Put, sweepVars
  <2>2. StoreTypeOK'
    BY <2>1 DEF File
  <2>3. EncIsWhole' /\ ListedIsThere' /\ FileHasExpiry'
    BY <2>1 DEF EncIsWhole, ListedIsThere, FileHasExpiry
  <2>4. PersistingIsTmp' /\ NothingGoesEarly' /\ PersistedIsThere'
    BY <2>1, NoCaptureAssumption DEF PersistingIsTmp, NothingGoesEarly, PersistedIsThere
  <2> QED
    BY <2>2, <2>3, <2>4
<1>5. CASE PublishFails(c)
  <2>1. /\ dir' = [dir EXCEPT ![c] = NoFile] /\ persisting' = NoCapture
        /\ UNCHANGED <<now, expires, persisted, removed, sweepTime, entries, crashes>>
        /\ c \notin entries /\ dir[c].name = "tmp"
    BY <1>5, <1>0 DEF PublishFails, sweepVars
  <2>2. StoreTypeOK'
    BY <2>1 DEF File, NoFile
  <2>3. EncIsWhole' /\ ListedIsThere' /\ FileHasExpiry'
    BY <2>1 DEF EncIsWhole, ListedIsThere, FileHasExpiry, NoFile
  <2>4. PersistingIsTmp' /\ NothingGoesEarly'
    BY <2>1, NoCaptureAssumption DEF PersistingIsTmp, NothingGoesEarly
  <2>5. PersistedIsThere'
    BY <2>1 DEF PersistedIsThere
  <2> QED
    BY <2>2, <2>3, <2>4, <2>5
<1> QED
  BY <1>1, <1>2, <1>3, <1>4, <1>5 DEF Persist

\* Sweep's steps: a listed file is whole, so it is deleted only when the clock
\* the sweep began with, and so the clock now, is past its expiry.
LEMMA SweepSteps ==
    ASSUME StoreInvariant,
           List \/ \E c \in Captures : Visit(c) \/ VisitFails(c)
    PROVE  StoreInvariant'
<1> USE DEF StoreInvariant, StoreTypeOK
<1>1. CASE List
  BY <1>1, StoreBoundsAssumption
  DEF List, EncIsWhole, ListedIsThere, PersistingIsTmp, FileHasExpiry,
      NothingGoesEarly, PersistedIsThere
<1>2. ASSUME NEW c \in Captures, Visit(c)
      PROVE  StoreInvariant'
  <2>1. /\ c \in entries /\ dir[c].name = "enc" /\ dir[c].whole /\ persisting # c
        /\ expires[c] > 0
    BY <1>2
    DEF Visit, ListedIsThere, EncIsWhole, PersistingIsTmp, FileHasExpiry, NoFile
  <2>2. CASE EnvelopeExpired(c)
    <3>1. now > expires[c]
      BY <2>1, <2>2, StoreBoundsAssumption, StoreTTLAssumption DEF EnvelopeExpired
    <3>2. /\ dir' = [dir EXCEPT ![c] = NoFile] /\ removed' = removed \cup {c}
          /\ entries' = entries \ {c}
          /\ UNCHANGED <<now, expires, persisting, persisted, sweepTime, crashes>>
      BY <1>2, <2>2 DEF Visit
    <3>3. StoreTypeOK'
      BY <2>1, <3>2 DEF File, NoFile
    <3>4. EncIsWhole' /\ ListedIsThere' /\ FileHasExpiry'
      BY <3>2 DEF EncIsWhole, ListedIsThere, FileHasExpiry, NoFile
    <3>5. PersistingIsTmp' /\ NothingGoesEarly' /\ PersistedIsThere'
      BY <2>1, <3>1, <3>2 DEF PersistingIsTmp, NothingGoesEarly, PersistedIsThere
    <3> QED
      BY <3>3, <3>4, <3>5
  <2>3. CASE ~EnvelopeExpired(c)
    BY <1>2, <2>3
    DEF Visit, EncIsWhole, ListedIsThere, PersistingIsTmp, FileHasExpiry,
        NothingGoesEarly, PersistedIsThere
  <2> QED
    BY <2>2, <2>3
<1>3. ASSUME NEW c \in Captures, VisitFails(c)
      PROVE  StoreInvariant'
  BY <1>3
  DEF VisitFails, EncIsWhole, ListedIsThere, PersistingIsTmp, FileHasExpiry,
      NothingGoesEarly, PersistedIsThere
<1> QED
  BY <1>1, <1>2, <1>3

\* A crash forgets what was going on and leaves the directory; time passes.
LEMMA CrashAndTick ==
    ASSUME StoreInvariant, StoreCrash \/ StoreTick
    PROVE  StoreInvariant'
BY NoCaptureAssumption, StoreBoundsAssumption, StoreTTLAssumption
DEF StoreInvariant, StoreTypeOK, StoreCrash, StoreTick, sweepVars, EncIsWhole,
    ListedIsThere, PersistingIsTmp, FileHasExpiry, NothingGoesEarly, PersistedIsThere

\* The inductive invariant holds in every reachable state of the store.
THEOREM StoreIsInvariant == StoreSpec => []StoreInvariant
<1>1. StoreInit => StoreInvariant
  BY StoreInitInvariant
<1>2. StoreInvariant /\ [StoreNext]_storeVars => StoreInvariant'
  <2> SUFFICES ASSUME StoreInvariant, [StoreNext]_storeVars
               PROVE  StoreInvariant'
    OBVIOUS
  <2>1. CASE StoreNext
    BY <2>1, PersistSteps, SweepSteps, CrashAndTick DEF StoreNext
  <2>2. CASE UNCHANGED storeVars
    BY <2>2
    DEF storeVars, StoreInvariant, StoreTypeOK, EncIsWhole, ListedIsThere,
        PersistingIsTmp, FileHasExpiry, NothingGoesEarly, PersistedIsThere
  <2> QED
    BY <2>1, <2>2
<1> QED
  BY <1>1, <1>2, PTL DEF StoreSpec

\* Sweep deletes no capture before its retention is over, however its steps
\* and those of Persist interleave, and whatever crashes.
THEOREM SweepIsNeverEarly == StoreSpec => []NothingGoesEarly
<1>1. StoreInvariant => NothingGoesEarly
  BY DEF StoreInvariant
<1> QED
  BY <1>1, StoreIsInvariant, PTL

\* A capture reported as persisted is there, whole, until Sweep deletes it.
THEOREM PersistIsDurable == StoreSpec => []PersistedIsThere
<1>1. StoreInvariant => PersistedIsThere
  BY DEF StoreInvariant
<1> QED
  BY <1>1, StoreIsInvariant, PTL

\* The state of the store is always well-typed.
THEOREM StoreTypeCorrect == StoreSpec => []StoreTypeOK
<1>1. StoreInvariant => StoreTypeOK
  BY DEF StoreInvariant
<1> QED
  BY <1>1, StoreIsInvariant, PTL

Enc == [name |-> "enc", whole |-> TRUE]

\* Persist adds to what is held when it publishes, and then its capture alone:
\* none of its steps touches the file of another.
LEMMA PersistKeeps ==
    ASSUME StoreInvariant, NEW c \in Captures, Persist(c)
    PROVE  [R!Next]_(R!vars)
<1> DEFINE kept == {d \in persisted : dir[d] = Enc}
           item == [item |-> c, expiry |-> expires[c]]
<1> USE DEF StoreInvariant, StoreTypeOK
<1>1. Held = {[item |-> d, expiry |-> expires[d]] : d \in kept} /\ kept \subseteq Captures
  BY DEF Held, Enc
<1>2. CASE Publish(c)
  <2>1. /\ dir' = [dir EXCEPT ![c] = Enc] /\ persisted' = persisted \cup {c}
        /\ UNCHANGED <<now, expires>>
    BY <1>2 DEF Publish, Put, Enc
  <2>2. c \notin kept
    BY <1>2 DEF Publish, PersistingIsTmp, Enc
  <2>3. Held' = Held \cup {item}
    BY <2>1, <1>1 DEF Held, Enc
  <2>4. \A q \in Held : q.item # item.item
    BY <1>1, <2>2
  <2>5. item \in Held' /\ item.item \in Captures /\ item.expiry \in Nat
    BY <2>3, StoreTTLAssumption, StoreBoundsAssumption
  <2>6. R!Keep
    BY <2>1, <2>3, <2>4, <2>5 DEF R!Keep
  <2> QED
    BY <2>6 DEF R!Next
<1>3. CASE ~Publish(c)
  <2>1. /\ persisted' = persisted /\ now' = now
        /\ \A d \in Captures \ {c} : dir'[d] = dir[d] /\ expires'[d] = expires[d]
    BY <1>3 DEF Persist, Create, Fill, FillFails, PublishFails, Put, sweepVars
  <2>2. c \notin kept
    <3>1. persisting = c \/ expires[c] = 0
      BY <1>3 DEF Persist, Create, Fill, FillFails, PublishFails
    <3>2. persisting = c => dir[c] # Enc
      BY DEF PersistingIsTmp, Enc
    <3>3. expires[c] = 0 => c \notin persisted
      OBVIOUS
    <3> QED
      BY <3>1, <3>2, <3>3
  <2>3. dir'[c] # Enc \/ c \notin persisted
    BY <1>3
    DEF Persist, Create, Fill, FillFails, PublishFails, PersistingIsTmp, Put, NoFile, Enc
  <2>4. kept' = kept
    <3>1. persisted \subseteq Captures
      OBVIOUS
    <3>2. \A d \in persisted : dir'[d] = Enc <=> dir[d] = Enc
      BY <2>1, <2>2, <2>3, <3>1
    <3>3. kept' = {d \in persisted : dir'[d] = Enc}
      BY <2>1 DEF Enc
    <3> QED
      BY <3>2, <3>3
  <2>5. Held' = {[item |-> d, expiry |-> expires'[d]] : d \in kept'}
    BY DEF Held, Enc
  <2>6. Held' = Held
    BY <2>1, <2>2, <2>4, <2>5, <1>1
  <2> QED
    BY <2>1, <2>6 DEF R!vars
<1> QED
  BY <1>2, <1>3

\* Sweep takes away what its clock, and so the clock, is past; a crash and the
\* other steps of a sweep leave what is held.
LEMMA SweepDrops ==
    ASSUME StoreInvariant,
           \/ List \/ StoreCrash
           \/ \E c \in Captures : Visit(c) \/ VisitFails(c)
    PROVE  [R!Next]_(R!vars)
<1> USE DEF StoreInvariant, StoreTypeOK
<1>1. CASE UNCHANGED dir
  BY <1>1 DEF List, StoreCrash, Visit, VisitFails, R!vars, Held, sweepVars
<1>2. ASSUME NEW c \in Captures, Visit(c), dir' # dir
      PROVE  [R!Next]_(R!vars)
  <2>1. /\ c \in entries /\ EnvelopeExpired(c) /\ dir' = [dir EXCEPT ![c] = NoFile]
        /\ UNCHANGED <<now, expires, persisted>>
    BY <1>2 DEF Visit
  <2>2. dir[c].whole
    BY <2>1 DEF ListedIsThere, EncIsWhole
  <2>3. now > expires[c]
    BY <2>1, <2>2, StoreBoundsAssumption, StoreTTLAssumption DEF EnvelopeExpired
  <2>4. Held' \subseteq Held
    BY <2>1 DEF Held, NoFile
  <2>5. ASSUME NEW r \in Held \ Held' PROVE now > r.expiry
    <3>1. PICK d \in persisted : /\ dir[d] = Enc
                                /\ r = [item |-> d, expiry |-> expires[d]]
      BY DEF Held, Enc
    <3>2. d = c
      BY <2>1, <2>5, <3>1 DEF Held, Enc
    <3> QED
      BY <2>3, <3>1, <3>2
  <2>6. R!Drop
    BY <2>1, <2>4, <2>5 DEF R!Drop
  <2> QED
    BY <2>6 DEF R!Next
<1> QED
  BY <1>1, <1>2 DEF List, StoreCrash, VisitFails

\* The store implements Retention.
THEOREM StoreRefinesRetention == StoreSpec => StoreRetention
<1>1. StoreInit => R!Init
  BY DEF StoreInit, R!Init, Held
<1>2. StoreInvariant /\ [StoreNext]_storeVars => [R!Next]_(R!vars)
  <2> SUFFICES ASSUME StoreInvariant, [StoreNext]_storeVars
               PROVE  [R!Next]_(R!vars)
    OBVIOUS
  <2>1. ASSUME StoreTick PROVE [R!Next]_(R!vars)
    BY <2>1 DEF StoreTick, Held, R!Next, R!Tick
  <2>2. ASSUME UNCHANGED storeVars PROVE [R!Next]_(R!vars)
    BY <2>2 DEF storeVars, R!vars, Held
  <2> QED
    BY <2>1, <2>2, PersistKeeps, SweepDrops DEF StoreNext
<1> QED
  BY <1>1, <1>2, StoreIsInvariant, PTL DEF StoreSpec, StoreRetention, R!Spec
=============================================================================
