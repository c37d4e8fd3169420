------------------------------ MODULE Retention ------------------------------
(***************************************************************************)
(* What the audit log and the capture store both promise: an item that was *)
(* accepted stays until its expiry, whatever fails and whenever the        *)
(* program stops, and only what is past its expiry goes.                   *)
(***************************************************************************)
EXTENDS Integers

CONSTANT Items

VARIABLES
    now,           \* the clock
    held           \* the items held, each with its expiry

vars == <<now, held>>

Init == now = 0 /\ held = {}

\* An item is accepted, once, with an expiry that never changes.
Keep ==
    /\ \E r \in held' :
          /\ r.item \in Items /\ r.expiry \in Nat
          /\ \A q \in held : q.item # r.item
          /\ held' = held \cup {r}
    /\ UNCHANGED now

\* Items past their expiry go, several at a time.
Drop ==
    /\ held' \subseteq held
    /\ \A r \in held \ held' : now > r.expiry
    /\ UNCHANGED now

Tick == now' = now + 1 /\ UNCHANGED held

Next == Keep \/ Drop \/ Tick

Spec == Init /\ [][Next]_vars
=============================================================================
