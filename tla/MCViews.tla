------------------------------- MODULE MCViews -------------------------------
(* Instances of Views for TLC. *)
EXTENDS Views

AnyLoad == LoadOutcomes
AnySave == BOOLEAN
=============================================================================
