--------------------------- MODULE RequestHistory ---------------------------
(***************************************************************************)
(* What the request inspector of ui/ui.go promises its user, with every    *)
(* lock, queue, timer and screen left out: a history of captured requests, *)
(* a cursor that follows the tail while it is on it, and at most one open  *)
(* reveal window, opened on the request under the cursor, closed by any    *)
(* navigation.                                                             *)
(***************************************************************************)
EXTENDS Integers, Sequences

CONSTANT Requests      \* the requests clients may send

VARIABLES
    history,           \* the captured requests, oldest first
    cursor,            \* 0-based position of the request shown
    window             \* 1-based position of the revealed request, or Closed

histVars == <<history, cursor, window>>

Closed == 0

HistoryInit ==
    /\ history = <<>>
    /\ cursor = 0
    /\ window = Closed

\* A request joins the history; a cursor on the tail stays on the tail.
Arrive(r) ==
    /\ history' = Append(history, r)
    /\ cursor' = IF cursor = Len(history) - 1 THEN cursor + 1 ELSE cursor
    /\ UNCHANGED window

\* The user moves by one request: the window closes.
Move ==
    /\ cursor' \in {cursor - 1, cursor + 1} \cap 0..(Len(history) - 1)
    /\ window' = Closed
    /\ UNCHANGED history

\* The user clears the history.
Clear ==
    /\ history' = <<>>
    /\ cursor' = 0
    /\ window' = Closed

\* The user reveals the request under the cursor.
Open ==
    /\ history # <<>>
    /\ window' = cursor + 1
    /\ UNCHANGED <<history, cursor>>

\* The window ends by itself.
Close ==
    /\ window # Closed
    /\ window' = Closed
    /\ UNCHANGED <<history, cursor>>

HistoryNext ==
    \/ \E r \in Requests : Arrive(r)
    \/ Move
    \/ Clear
    \/ Open
    \/ Close

HistorySpec == HistoryInit /\ [][HistoryNext]_histVars
=============================================================================
