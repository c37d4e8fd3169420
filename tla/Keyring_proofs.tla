---------------------------- MODULE Keyring_proofs ----------------------------
(***************************************************************************)
(* Proofs about Keyring, for any number of programs and any keys.          *)
(***************************************************************************)
EXTENDS Keyring, TLAPS

\* A file that is about to be written is there.
WritersFindFile == \A p \in Programs : stage[p] = "write" => file # Absent

\* The invariant the theorems follow from.
KeyInvariant == KeyTypeOK /\ MakersHaveKeys /\ WritersFindFile /\ OneKey

-----------------------------------------------------------------------------
(* Types                                                                   *)

\* What is written to the file is a part of a drawn key, or all of it.
LEMMA WrittenIsContent ==
    ASSUME KeyTypeOK, MakersHaveKeys, NEW p \in Programs, stage[p] = "write", file # Absent
    PROVE  /\ Parts(kek[p][1]) \subseteq Contents
           /\ Content(kek[p][1], kek[p][2]) \in Contents
           /\ KeyOf(Content(kek[p][1], kek[p][2])) = kek[p]
<1>1. PICK k \in Keys : kek[p] = Whole(k)
  BY DEF MakersHaveKeys
<1>2. kek[p][1] = k /\ kek[p][2] = k
  BY <1>1 DEF Whole
<1> QED
  BY <1>1, <1>2 DEF KeyTypeOK, Content, Contents, Parts, KeyOf, Whole

LEMMA KeyTypeStep ==
    ASSUME KeyTypeOK, MakersHaveKeys, WritersFindFile, [KeyNext]_keyVars
    PROVE  KeyTypeOK' /\ MakersHaveKeys' /\ WritersFindFile'
<1> USE DEF KeyTypeOK, MakersHaveKeys, WritersFindFile
<1>1. \A k \in Keys : Whole(k) \in KEKs
  BY DEF Whole, KEKs
<1>2. ASSUME UNCHANGED keyVars
      PROVE  KeyTypeOK' /\ MakersHaveKeys' /\ WritersFindFile'
  BY <1>2 DEF keyVars
<1>3. ASSUME NEW p \in Programs, UseExplicit(p)
      PROVE  KeyTypeOK' /\ MakersHaveKeys' /\ WritersFindFile'
  <2>1. Whole(EnvKey) \in KEKs
    BY DEF Whole, KEKs
  <2> QED
    BY <1>3, <2>1 DEF UseExplicit, GoesUp
<1>4. ASSUME NEW p \in Programs, Load(p)
      PROVE  KeyTypeOK' /\ MakersHaveKeys' /\ WritersFindFile'
  <2>1. KeyOf(file) \in KEKs
    BY <1>4 DEF Load, Loadable, KeyOf, Contents, KEKs
  <2> QED
    BY <1>4, <2>1 DEF Load, GoesUp
<1>5. ASSUME NEW p \in Programs, FindNone(p)
      PROVE  KeyTypeOK' /\ MakersHaveKeys' /\ WritersFindFile'
  BY <1>1, <1>5 DEF FindNone
<1>6. ASSUME NEW p \in Programs, Create(p)
      PROVE  KeyTypeOK' /\ MakersHaveKeys' /\ WritersFindFile'
  <2>1. Empty # Absent
    BY FileAssumption
  <2> QED
    BY <1>6, <2>1 DEF Create
<1>7. ASSUME NEW p \in Programs, Write(p) \/ WriteFails(p)
      PROVE  KeyTypeOK' /\ MakersHaveKeys' /\ WritersFindFile'
  <2>1. stage[p] = "write" /\ file # Absent
    BY <1>7 DEF Write, WriteFails
  <2>2. Parts(kek[p][1]) \subseteq Contents /\ Content(kek[p][1], kek[p][2]) \in Contents
    BY <2>1, WrittenIsContent
  <2>3. \A c \in Contents : c # Absent
    BY AbsentAssumption
  <2>4. file' \in {Absent, Empty} \cup Contents /\ file' # Absent
    BY <1>7, <2>1, <2>2, <2>3 DEF Write, WriteFails
  <2> QED
    BY <1>7, <2>4 DEF Write, WriteFails, GoesUp, GoesDown
<1>8. ASSUME NEW p \in Programs, Seal(p)
      PROVE  KeyTypeOK' /\ MakersHaveKeys' /\ WritersFindFile'
  BY <1>8 DEF Seal
<1>9. ASSUME NEW p \in Programs, End(p)
      PROVE  KeyTypeOK' /\ MakersHaveKeys' /\ WritersFindFile'
  BY <1>9 DEF End, GoesDown
<1> QED
  BY <1>2, <1>3, <1>4, <1>5, <1>6, <1>7, <1>8, <1>9 DEF KeyNext

-----------------------------------------------------------------------------
(* One key                                                                 *)

LEMMA OneKeyStep ==
    ASSUME KeyTypeOK, MakersHaveKeys, WritersFindFile, OneKey, [KeyNext]_keyVars
    PROVE  OneKey'
<1> SUFFICES ASSUME creations' <= 1
             PROVE  OneKey'
  BY DEF OneKey
<1>1. ASSUME UNCHANGED keyVars PROVE OneKey'
  BY <1>1 DEF keyVars, OneKey, Sealers, Loadable, KeyOf
<1>2. ASSUME NEW p \in Programs, UseExplicit(p) PROVE OneKey'
  BY <1>2 DEF UseExplicit, GoesUp, OneKey, Sealers, Loadable, KeyOf, KeyTypeOK
<1>3. ASSUME NEW p \in Programs, Load(p) PROVE OneKey'
  BY <1>3 DEF Load, GoesUp, OneKey, Sealers, Loadable, KeyOf, KeyTypeOK
<1>4. ASSUME NEW p \in Programs, FindNone(p) PROVE OneKey'
  BY <1>4 DEF FindNone, OneKey, Sealers, Loadable, KeyOf, KeyTypeOK
<1>5. ASSUME NEW p \in Programs, Create(p) PROVE OneKey'
  <2>1. creations = 0 /\ file = Absent /\ creations' = 1
    BY <1>5 DEF Create, OneKey, KeyTypeOK
  <2>2. ~Loadable
    BY <2>1, AbsentAssumption DEF Loadable
  <2>3. \A q \in Programs : stage[q] # "write" /\ q \notin Sealers
    BY <2>1, <2>2 DEF OneKey
  <2>4. \A envelope \in sealed : envelope.source # "file"
    BY <2>1, <2>2 DEF OneKey
  <2>5. \A q \in Programs : (stage'[q] = "write" => q = p) /\ q \notin Sealers'
    BY <1>5, <2>3 DEF Create, Sealers, KeyTypeOK
  <2>6. sealed' = sealed /\ file' = Empty
    BY <1>5 DEF Create
  <2>7. creations' # 0
    BY <2>1
  <2>8. Sealers' = {}
    BY <2>5 DEF Sealers
  <2> QED
    BY <2>1, <2>4, <2>5, <2>6, <2>7, <2>8 DEF OneKey
<1>6. ASSUME NEW p \in Programs, Write(p) \/ WriteFails(p) PROVE OneKey'
  <2>1. /\ stage[p] = "write" /\ file = Empty /\ creations = 1 /\ creations' = 1
        /\ \A q \in Programs : stage[q] = "write" => q = p
    BY <1>6 DEF Write, WriteFails, OneKey, KeyTypeOK
  <2>2. ~Loadable
    BY <2>1, AbsentAssumption DEF Loadable
  <2>3. (\A q \in Programs : q \notin Sealers)
        /\ \A envelope \in sealed : envelope.source # "file"
    BY <2>1, <2>2 DEF OneKey
  <2>4. \A q \in Programs : stage'[q] # "write" /\ (q # p => q \notin Sealers')
    BY <1>6, <2>1, <2>3 DEF Write, WriteFails, GoesUp, GoesDown, Sealers, KeyTypeOK
  <2>5. p \in Sealers' => Write(p)
    BY <1>6 DEF WriteFails, GoesDown, Sealers, KeyTypeOK
  <2>6. Write(p) => Loadable' /\ KeyOf(file)' = kek'[p]
    <3>1. PICK k \in Keys : kek[p] = Whole(k)
      BY <2>1 DEF MakersHaveKeys
    <3>2. kek[p][1] = k /\ kek[p][2] = k /\ k # NoKey
      BY <3>1, NoKeyAssumption DEF Whole
    <3> QED
      BY <3>1, <3>2 DEF Write, Content, Contents, Loadable, KeyOf, Whole
  <2>7. creations' # 0 /\ sealed' = sealed
    BY <1>6, <2>1 DEF Write, WriteFails
  <2> QED
    BY <2>1, <2>3, <2>4, <2>5, <2>6, <2>7 DEF OneKey, Sealers
<1>7. ASSUME NEW p \in Programs, Seal(p) PROVE OneKey'
  <2>1. UNCHANGED <<file, creations, stage, kek, source>>
    BY <1>7 DEF Seal
  <2>2. \A envelope \in sealed' :
           envelope.source = "file" => Loadable /\ KeyOf(file) = envelope.key
    <3>1. source[p] = "file" => p \in Sealers
      BY <1>7 DEF Seal, Sealers
    <3> QED
      BY <1>7, <2>1, <3>1 DEF Seal, OneKey
  <2> QED
    BY <2>1, <2>2 DEF OneKey, Sealers, Loadable, KeyOf
<1>8. ASSUME NEW p \in Programs, End(p) PROVE OneKey'
  BY <1>8 DEF End, GoesDown, OneKey, Sealers, Loadable, KeyOf, KeyTypeOK
<1> QED
  BY <1>1, <1>2, <1>3, <1>4, <1>5, <1>6, <1>7, <1>8 DEF KeyNext


-----------------------------------------------------------------------------
(* The theorems                                                            *)

THEOREM KeyInvariantHolds == KeySpec => []KeyInvariant
<1>1. KeyInit => KeyInvariant
  <2>1. SUFFICES ASSUME KeyInit PROVE KeyInvariant
    OBVIOUS
  <2>2. Whole(NoKey) \in KEKs
    BY DEF Whole, KEKs
  <2>3. KeyTypeOK
    BY <2>1, <2>2 DEF KeyInit, KeyTypeOK
  <2>4. OneKey
    BY <2>1 DEF KeyInit, OneKey, Sealers
  <2> QED
    BY <2>1, <2>3, <2>4 DEF KeyInit, KeyInvariant, MakersHaveKeys, WritersFindFile
<1>2. KeyInvariant /\ [KeyNext]_keyVars => KeyInvariant'
  BY KeyTypeStep, OneKeyStep DEF KeyInvariant
<1> QED
  BY <1>1, <1>2, PTL DEF KeySpec

\* The variables of Keyring keep their types.
THEOREM KeyTypeCorrect == KeySpec => []KeyTypeOK
<1>1. KeyInvariant => KeyTypeOK
  BY DEF KeyInvariant
<1> QED
  BY <1>1, KeyInvariantHolds, PTL

\* Unless two first starts overlap, what is sealed with the key of the file can be
\* opened by every program that has its key from the file, now or later.
THEOREM SealedCanBeOpened == KeySpec => []SealedOpens
<1>1. KeyInvariant => SealedOpens
  BY DEF KeyInvariant, OneKey, SealedOpens, Opens
<1> QED
  BY <1>1, KeyInvariantHolds, PTL

\* A key that is in the file when nobody is about to write it stays there.
THEOREM KeyIsKept == KeySpec => KeyStays
<1>1. KeyTypeOK /\ [KeyNext]_keyVars => (Settled => Settled' /\ file' = file)
  <2>1. SUFFICES ASSUME KeyTypeOK, [KeyNext]_keyVars, Settled
                 PROVE  Settled' /\ file' = file
    OBVIOUS
  <2>2. file # Absent
    BY <2>1, AbsentAssumption DEF Settled, Loadable
  <2>3. ASSUME UNCHANGED keyVars PROVE Settled' /\ file' = file
    BY <2>1, <2>3 DEF keyVars, Settled, Loadable
  <2>4. ASSUME NEW p \in Programs, UseExplicit(p) \/ Load(p) \/ Seal(p) \/ End(p)
        PROVE  Settled' /\ file' = file
    <3>1. file' = file /\ (stage' = stage \/ \E w \in {"up", "down"} : stage' = [stage EXCEPT ![p] = w])
      BY <2>4 DEF UseExplicit, Load, Seal, End, GoesUp, GoesDown
    <3>2. \A q \in Programs : stage'[q] \notin {"create", "write"}
      BY <2>1, <3>1 DEF Settled, KeyTypeOK
    <3> QED
      BY <2>1, <3>1, <3>2 DEF Settled, Loadable
  <2>5. ASSUME NEW p \in Programs, FindNone(p) \/ Create(p) \/ Write(p) \/ WriteFails(p)
        PROVE  FALSE
    BY <2>1, <2>2, <2>5 DEF FindNone, Create, Write, WriteFails, Settled
  <2> QED
    BY <2>1, <2>3, <2>4, <2>5 DEF KeyNext
<1> QED
  BY <1>1, KeyTypeCorrect, PTL DEF KeySpec, KeyStays
=============================================================================
