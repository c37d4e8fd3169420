------------------------------- MODULE MCGuard -------------------------------
(* Instances of Guard for TLC. *)
EXTENDS Guard

CONSTANTS e1, e2, s1, c1, c2

OneLongEvent == {e2}
SomeEvents == {e1, e2, s1}
TwoEvents == {e2, s1}
OneSweepEvent == {s1}
OneCapture == {c1}
TwoCaptures == {c1, c2}
WrittenOrFailed == {"written", "failed"}
=============================================================================
