-------------------------- MODULE MCSavedResponses --------------------------
(* Instances of SavedResponses for TLC. *)
EXTENDS SavedResponses

TwoNames == 1..2
TwoStatuses == {200, 404}
TwoDelays == {0, 1}
=============================================================================
