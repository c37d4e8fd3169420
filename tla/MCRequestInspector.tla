------------------------- MODULE MCRequestInspector -------------------------
(* Instances of RequestInspector for TLC. *)
EXTENDS RequestInspector

CONSTANTS r1, r2, r3

\* Two requests with sensitive spans and one without.
ThreeRequests == {r1, r2, r3}
TwoRequests == {r1, r2}
TwoSensitive == {r1, r2}
OneSensitive == {r1}

AuditWorks == {TRUE}
=============================================================================
