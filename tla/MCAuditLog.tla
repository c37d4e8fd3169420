------------------------------ MODULE MCAuditLog ------------------------------
(* Instances of AuditLog for TLC. *)
EXTENDS AuditLog

CONSTANTS e1, e2, e3

ThreeEvents == {e1, e2, e3}
OneEvent == {e3}
AnyOutcome == Outcomes
=============================================================================
