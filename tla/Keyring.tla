------------------------------- MODULE Keyring -------------------------------
(***************************************************************************)
(* security/envelope.go: LoadOrCreateKeyring and the keys that envelopes   *)
(* are sealed with.  Programs started in the same directory share one key  *)
(* file; the first makes it, with no lock, by os.WriteFile: the file is    *)
(* opened, which empties it, and written.  A program may end anywhere.     *)
(***************************************************************************)
EXTENDS Naturals

CONSTANTS
    Programs,      \* the programs that share the directory
    Keys,          \* the keys rand.Read draws, each once
    EnvKey,        \* the key of HTTPLAB_MASTER_KEY
    NoKey,         \* no key
    Cut,           \* the end of a text of 32 bytes, which is none of a key
    Absent, Empty  \* the key file is not there, or has no content

ASSUME EnvKeyAssumption == EnvKey \notin Keys
ASSUME NoKeyAssumption == NoKey \notin Keys \cup {EnvKey, Cut}
ASSUME CutAssumption == Cut \notin Keys
ASSUME FileAssumption == Absent # Empty

VARIABLES
    file,          \* the key file
    drawn,         \* the keys drawn so far
    creations,     \* how often the file was opened to be written
    stage,         \* where each program is
    kek,           \* Keyring.kek of each
    source,        \* Keyring.source of each
    sealed         \* the envelopes there are: the key of each and its source

keyVars == <<file, drawn, creations, stage, kek, source, sealed>>

\* What is in the file: the first part of a key's text and the rest, of which
\* there may be none, or a part that makes it 32 bytes, or another's.
Content(head, tail) == [head |-> head, tail |-> tail]
Contents == [head : Keys, tail : Keys \cup {NoKey, Cut}]

ASSUME AbsentAssumption == Absent \notin Contents /\ Empty \notin Contents

\* decodeKey: what has the length of a key is one, as base64 text or, when 32
\* bytes of such a text are all there is, as they are.
Loadable == file \in Contents /\ file.tail # NoKey

KeyOf(content) == <<content.head, content.tail>>
Whole(key) == <<key, key>>
KEKs == (Keys \cup {EnvKey, NoKey}) \X (Keys \cup {EnvKey, NoKey, Cut})

KeyInit ==
    /\ file = Absent
    /\ drawn = {}
    /\ creations = 0
    /\ stage = [p \in Programs |-> "down"]
    /\ kek = [p \in Programs |-> Whole(NoKey)]
    /\ source = [p \in Programs |-> "file"]
    /\ sealed = {}

GoesUp(p) == stage' = [stage EXCEPT ![p] = "up"]
GoesDown(p) == stage' = [stage EXCEPT ![p] = "down"]

-----------------------------------------------------------------------------
(* LoadOrCreateKeyring.  A start that only ends in an error leaves all as  *)
(* it is: the explicit key is none, the file cannot be read or decoded.    *)

\* The key is given explicitly.
UseExplicit(p) ==
    /\ stage[p] = "down"
    /\ GoesUp(p)
    /\ kek' = [kek EXCEPT ![p] = Whole(EnvKey)]
    /\ source' = [source EXCEPT ![p] = "env"]
    /\ UNCHANGED <<file, drawn, creations, sealed>>

\* The key is in the file.
Load(p) ==
    /\ stage[p] = "down" /\ Loadable
    /\ GoesUp(p)
    /\ kek' = [kek EXCEPT ![p] = KeyOf(file)]
    /\ source' = [source EXCEPT ![p] = "file"]
    /\ UNCHANGED <<file, drawn, creations, sealed>>

\* Mutant: any error of os.ReadFile is taken for a file that is not there.
FindUnreadable(p) ==
    /\ stage[p] = "down"
    /\ \E k \in Keys \ drawn :
          /\ drawn' = drawn \cup {k}
          /\ kek' = [kek EXCEPT ![p] = Whole(k)]
    /\ stage' = [stage EXCEPT ![p] = "create"]
    /\ source' = [source EXCEPT ![p] = "file"]
    /\ UNCHANGED <<file, creations, sealed>>

\* There is no file: a key is drawn for one.
FindNone(p) ==
    /\ stage[p] = "down" /\ file = Absent
    /\ \E k \in Keys \ drawn :
          /\ drawn' = drawn \cup {k}
          /\ kek' = [kek EXCEPT ![p] = Whole(k)]
    /\ stage' = [stage EXCEPT ![p] = "create"]
    /\ source' = [source EXCEPT ![p] = "file"]
    /\ UNCHANGED <<file, creations, sealed>>

\* os.WriteFile opens the file and empties it, whoever has made it by now.
Create(p) ==
    /\ stage[p] = "create"
    /\ file' = Empty
    /\ creations' = creations + 1
    /\ stage' = [stage EXCEPT ![p] = "write"]
    /\ UNCHANGED <<drawn, kek, source, sealed>>

\* A part of the text, with the rest of what it was written over.
Parts(k) ==
    {Content(k, tail) : tail \in IF file # Empty /\ file.tail \in Keys
                                 THEN {file.tail} ELSE {NoKey, Cut}}

Write(p) ==
    /\ stage[p] = "write"
    /\ file' = Content(kek[p][1], kek[p][2])
    /\ GoesUp(p)
    /\ UNCHANGED <<drawn, creations, kek, source, sealed>>

\* Mutant: the error of os.WriteFile is not looked at.
WriteFailsUnnoticed(p) ==
    /\ stage[p] = "write"
    /\ file' \in {file, Content(kek[p][1], kek[p][2])} \cup Parts(kek[p][1])
    /\ GoesUp(p)
    /\ UNCHANGED <<drawn, creations, kek, source, sealed>>

\* os.WriteFile fails, having written nothing, a part of the key or all of it.
WriteFails(p) ==
    /\ stage[p] = "write"
    /\ file' \in {file, Content(kek[p][1], kek[p][2])} \cup Parts(kek[p][1])
    /\ GoesDown(p)
    /\ UNCHANGED <<drawn, creations, kek, source, sealed>>

-----------------------------------------------------------------------------
\* Keyring.Seal: the key of the payload is wrapped with the KEK.
Seal(p) ==
    /\ stage[p] = "up"
    /\ sealed' = sealed \cup {[key |-> kek[p], source |-> source[p]]}
    /\ UNCHANGED <<file, drawn, creations, stage, kek, source>>

\* Keyring.Open unwraps it with its own KEK, or fails.
Opens(p, envelope) == kek[p] = envelope.key

\* A program ends, or crashes, wherever it is.
End(p) ==
    /\ stage[p] # "down"
    /\ GoesDown(p)
    /\ UNCHANGED <<file, drawn, creations, kek, source, sealed>>

KeyNext ==
    \E p \in Programs :
        \/ UseExplicit(p) \/ Load(p) \/ FindNone(p) \/ Create(p)
        \/ Write(p) \/ WriteFails(p) \/ Seal(p) \/ End(p)

KeySpec == KeyInit /\ [][KeyNext]_keyVars

-----------------------------------------------------------------------------
(* Properties                                                              *)

KeyTypeOK ==
    /\ file \in {Absent, Empty} \cup Contents
    /\ drawn \subseteq Keys
    /\ creations \in Nat
    /\ stage \in [Programs -> {"down", "create", "write", "up"}]
    /\ kek \in [Programs -> KEKs]
    /\ source \in [Programs -> {"env", "file"}]
    /\ sealed \subseteq [key : KEKs, source : {"env", "file"}]

Sealers == {p \in Programs : stage[p] = "up" /\ source[p] = "file"}

\* "a key file ... created ... on first use": as long as no second program has
\* opened the file to write it too, whatever is sealed with a key of the file
\* can be opened by every program up with the file's key, and by those that will
\* load the file, whichever programs end, crash or fail to write in between.
SealedOpens ==
    creations <= 1 =>
        \A envelope \in sealed :
            envelope.source = "file" =>
                /\ Loadable /\ KeyOf(file) = envelope.key
                /\ \A p \in Sealers : Opens(p, envelope)

\* "resolves the KEK in this order": when the file has a key and no program is
\* about to write it, no program will be again and the file keeps the key.
Settled == Loadable /\ \A p \in Programs : stage[p] \notin {"create", "write"}
KeyStays == [][Settled => Settled' /\ file' = file]_keyVars

\* What SealedOpens follows from: the key a program makes a file for was drawn,
\* and up to the second creation there is but one key.
MakersHaveKeys ==
    \A p \in Programs : stage[p] \in {"create", "write"} => \E k \in Keys : kek[p] = Whole(k)
OneKey ==
    creations <= 1 =>
        /\ creations = 0 => file = Absent
        /\ \A p \in Programs : stage[p] = "write" => creations = 1
        /\ \A p, q \in Programs : stage[p] = "write" /\ stage[q] = "write" => p = q
        /\ \A p \in Programs : stage[p] = "write" => file = Empty
        /\ \A p \in Sealers : Loadable /\ KeyOf(file) = kek[p]
        /\ \A envelope \in sealed :
              envelope.source = "file" => Loadable /\ KeyOf(file) = envelope.key
=============================================================================
