--------------------------- MODULE SavedResponses ---------------------------
(***************************************************************************)
(* response.go and the response half of ui.UI: the list of saved           *)
(* responses, the configuration file it is loaded from and saved to, the   *)
(* response in use, and the form the user edits.  All of it is touched by  *)
(* key handlers only, one at a time.                                       *)
(*                                                                         *)
(* A duration is a number of nanoseconds, Millisecond of them to the       *)
(* millisecond.  The views exist throughout (Views covers that they may    *)
(* not); headers and bodies, which follow the status, are left out.        *)
(***************************************************************************)
EXTENDS Integers, Sequences, SequencesExt

CONSTANTS
    Names,         \* names of responses, as numbers in their sort order
    Statuses,      \* status codes NewResponse accepts
    Delays,        \* delays a user types, in milliseconds
    Millisecond,   \* time.Millisecond, scaled down
    MaxKeys        \* bound: nothing is saved once there are this many keys

ASSUME NamesAssumption == Names \subseteq Nat /\ IsFiniteSet(Names)
ASSUME StatusesAssumption == Statuses \subseteq 100..599
ASSUME DelaysAssumption == Delays \subseteq Nat
ASSUME MillisecondAssumption == Millisecond \in Nat \ {0}
ASSUME MaxKeysAssumption == MaxKeys \in Nat \ {0}

VARIABLES
    file,          \* the configuration file
    list,          \* responses.List
    keys,          \* responses.keys
    current,       \* responses.current, 0-based
    open,          \* the popup with the list is open
    resp,          \* ui.resp, the response in use
    form,          \* what the builder's views show
    exited         \* a handler's error has ended the program

vars == <<file, list, keys, current, open, resp, form, exited>>

BadForm == [status |-> 0, delay |-> 0]

Response == [status : Statuses, delay : Nat]
Typed == [status : Statuses, delay : Delays] \cup {BadForm}

\* The file decoded: a function from names to what the JSON says, in the
\* milliseconds its writer meant.  Its text is as one write left it ("whole"),
\* or the beginning of a write with the rest of the text it went over, which
\* the decoder takes for a list of its own ("mixed") or refuses ("cut").
Texts == {"whole", "mixed", "cut"}

Init ==
    /\ file \in [text : {"whole"},
                 list : UNION {[ns -> [status : Statuses, delay : Delays]] :
                               ns \in SUBSET Names}]
    /\ list = <<>>
    /\ keys = <<>>
    /\ current = 0
    /\ open = FALSE
    /\ resp \in [status : Statuses, delay : {0}]
    /\ form = resp
    /\ exited = FALSE

-----------------------------------------------------------------------------
(* Conversions                                                             *)

\* Response.MarshalJSON: the delay is written in whole milliseconds.
Encode(r) == [r EXCEPT !.delay = @ \div Millisecond]

\* Response.UnmarshalJSON: the number is taken for a duration as it is.
Decode(e) == [status |-> e.status, delay |-> e.delay]

\* ui.currentResponse, for a form that can be parsed.
FromForm == [form EXCEPT !.delay = @ * Millisecond]

-----------------------------------------------------------------------------
(* ResponsesList                                                           *)

Map(f(_), m) == [n \in DOMAIN m |-> f(m[n])]

\* sort.Strings of a set of names.
Ascending(s) == \A j, k \in DOMAIN s : j < k => s[j] < s[k]
Sorted(S) == {s \in [1..Cardinality(S) -> S] : Range(s) = S /\ Ascending(s)}

\* Mutant: the cursor stays where it was.
LoadKeepsCursor(f) ==
    /\ list' = Map(Decode, f.list)
    /\ keys' \in Sorted(DOMAIN f.list)
    /\ UNCHANGED current

\* Load: the list is that of the file, and the cursor on its first entry.
Load(f) ==
    /\ list' = Map(Decode, f.list)
    /\ keys' \in Sorted(DOMAIN f.list)
    /\ current' = 0

\* Add: a name that is there already is listed once more.
Add(n, r) ==
    /\ \E k \in 1..(Len(keys) + 1) :
          /\ \A j \in DOMAIN keys : j < k <=> keys[j] <= n
          /\ keys' = InsertAt(keys, k, n)
    /\ list' = [m \in DOMAIN list \cup {n} |-> IF m = n THEN r ELSE list[m]]

\* Mutant: the key after the one deleted goes.
WithoutNext(n) ==
    LET i == CHOOSE k \in DOMAIN keys :
                 keys[k] >= n /\ \A j \in 1..(k - 1) : keys[j] < n
    IN  RemoveAt(keys, IF i < Len(keys) THEN i + 1 ELSE i)

\* Del: the keys without the first that is not less than the name.
Without(n) ==
    LET i == CHOOSE k \in DOMAIN keys :
                 keys[k] >= n /\ \A j \in 1..(k - 1) : keys[j] < n
    IN  RemoveAt(keys, i)

\* The first entries of the new text, in the order of their names, and the
\* last of the old one, which the decoder reads last.
Mixed(f, l, k, j) ==
    LET first == {n \in DOMAIN l : n <= k}
        last == {n \in DOMAIN f.list : n >= j}
    IN  [n \in first \cup last |-> IF n \in last THEN f.list[n] ELSE Encode(l[n])]

Mixtures(f, l) == IF f.text = "cut" THEN {} ELSE {Mixed(f, l, k, j) : k \in Names, j \in Names}

\* What Save leaves behind: the new list (what an older, longer text has
\* after it is never decoded), the old file, or the beginning of the new text
\* over the old one, since the file is not emptied first.
SaveOutcomes(f, l) ==
    {[error |-> FALSE, file |-> [text |-> "whole", list |-> Map(Encode, l)]],
     [error |-> TRUE, file |-> f],
     [error |-> TRUE, file |-> [text |-> "cut", list |-> <<>>]]}
    \cup {[error |-> TRUE, file |-> [text |-> "mixed", list |-> m]] : m \in Mixtures(f, l)}

-----------------------------------------------------------------------------
(* The handlers                                                            *)

\* toggleResponsesLoader with the popup closed: it stays closed when the file,
\* or a body file it names, cannot be read (the list in memory stays), and
\* when the file is empty.
OpenList(f, l, ks) ==
    \/ /\ f.text # "cut"
       /\ Load(f)
       /\ open' = (DOMAIN f.list # {})
    \/ /\ list' = l /\ keys' = ks
       /\ open' = FALSE /\ UNCHANGED current

\* The user edits the builder.
Edit(t) ==
    /\ ~exited
    /\ form' = t
    /\ UNCHANGED <<file, list, keys, current, open, resp, exited>>

\* Ctrl+a, with a form that can be parsed.
UpdateResponse ==
    /\ ~exited
    /\ form # BadForm
    /\ resp' = FromForm
    /\ UNCHANGED <<file, list, keys, current, open, form, exited>>

\* Ctrl+l.
ToggleLoader ==
    /\ ~exited
    /\ IF open
       THEN open' = FALSE /\ UNCHANGED <<list, keys, current>>
       ELSE OpenList(file, list, keys)
    /\ UNCHANGED <<file, resp, form, exited>>

\* Mutant: the list is not closed.
SaveLeavesListOpen(n) ==
    /\ ~exited
    /\ Len(keys) < MaxKeys
    /\ IF form = BadForm
       THEN UNCHANGED <<file, list, keys>>
       ELSE /\ Add(n, FromForm)
            /\ \E saved \in SaveOutcomes(file, list') : file' = saved.file
    /\ UNCHANGED <<current, open, resp, form, exited>>

\* Ctrl+s, a name and Enter.  The list is closed first; the response is added
\* to the list in memory, and the response in use stays what it is.
SaveResponseAs(n) ==
    /\ ~exited
    /\ Len(keys) < MaxKeys
    /\ open' = FALSE
    /\ IF form = BadForm
       THEN UNCHANGED <<file, list, keys>>
       ELSE /\ Add(n, FromForm)
            /\ \E saved \in SaveOutcomes(file, list') : file' = saved.file
    /\ UNCHANGED <<current, resp, form, exited>>

\* Mutant: one before the first is the entry -1.
PrevUnwrapped ==
    /\ ~exited /\ open
    /\ current' = current - 1
    /\ UNCHANGED <<file, list, keys, open, resp, form, exited>>

\* Arrow up and down in the list.
Prev ==
    /\ ~exited /\ open
    /\ current' = (current - 1 + Len(keys)) % Len(keys)
    /\ UNCHANGED <<file, list, keys, open, resp, form, exited>>

NextResponse ==
    /\ ~exited /\ open
    /\ current' = (current + 1) % Len(keys)
    /\ UNCHANGED <<file, list, keys, open, resp, form, exited>>

Selected == keys[current + 1]

\* 'd' in the list: an entry goes, the list is saved, and opened anew from
\* the file; a list that cannot be saved ends the program.
DeleteEntry(n) ==
    /\ ~exited /\ open
    /\ LET left == [m \in DOMAIN list \ {n} |-> list[m]]
       IN  \E saved \in SaveOutcomes(file, left) :
              /\ file' = saved.file
              /\ exited' = saved.error
              /\ IF saved.error
                 THEN /\ list' = left
                      /\ keys' = Without(n)
                      /\ UNCHANGED <<current, open>>
                 ELSE OpenList(saved.file, left, Without(n))
    /\ UNCHANGED <<resp, form>>

\* Mutant: the first entry goes, wherever the cursor is.
DeleteFirst == DeleteEntry(keys[1])

\* The entry is the one the cursor is on.
Delete == DeleteEntry(Selected)

\* Enter in the list: the entry is put in use and shown, its delay as the
\* number of nanoseconds.
Restore ==
    /\ ~exited /\ open
    /\ resp' = list[Selected]
    /\ form' = list[Selected]
    /\ UNCHANGED <<file, list, keys, current, open, exited>>

Next ==
    \/ \E t \in Typed : Edit(t)
    \/ UpdateResponse
    \/ ToggleLoader
    \/ \E n \in Names : SaveResponseAs(n)
    \/ Prev \/ NextResponse \/ Delete \/ Restore

Spec == Init /\ [][Next]_vars

-----------------------------------------------------------------------------
(* Properties                                                              *)

\* The types of the state.
TypeOK ==
    /\ file.text \in Texts
    /\ DOMAIN file.list \subseteq Names
    /\ \A n \in DOMAIN file.list : file.list[n] \in Response
    /\ DOMAIN list \subseteq Names
    /\ \A n \in DOMAIN list : list[n] \in Response
    /\ keys \in Seq(Names)
    /\ current \in Nat
    /\ resp \in Response
    /\ form \in Response \cup {BadForm}
    /\ open \in BOOLEAN /\ exited \in BOOLEAN

\* Next, Prev, Cur and onDelete divide by the number of keys, index them and
\* follow the pointer they find: whenever the popup takes keys, after any
\* sequence of saves over old names, failed loads and deletions, the cursor is
\* on the key of a response.
CursorOnAResponse ==
    open /\ ~exited => current \in 0..(Len(keys) - 1) /\ Selected \in DOMAIN list

\* List and keys hold the same names; Add lists a name twice, Del takes one
\* away, and only Load makes good for it.
KeysMatchList == Range(keys) = DOMAIN list

\* The open list shows what the file holds, each name once, with its status.
ShownIsSaved ==
    open /\ ~exited =>
        /\ DOMAIN list = DOMAIN file.list
        /\ Len(keys) = Cardinality(DOMAIN list)
        /\ \A n \in DOMAIN list : list[n].status = file.list[n].status

\* With the list open, no key takes more from the file than the response the
\* cursor is on, unless a failing write leaves a part.
OnlySelectedGoes ==
    [][open /\ file'.text = "whole"
       => DOMAIN file.list \ {Selected} \subseteq DOMAIN file'.list]_vars

-----------------------------------------------------------------------------
(* What README and the titles of the views say, and the code does not do   *)

\* "HTTPLab uses file to store pre-built responses": a response leaves the
\* file by 'd' only.  The first save of a run writes the list in memory, which
\* nobody has loaded yet, over all of them.
SavingKeepsOthers ==
    [][~open /\ file'.text = "whole" => DOMAIN file.list \subseteq DOMAIN file'.list]_vars
=============================================================================
