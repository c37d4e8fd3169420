---------------------------- MODULE MCCaptureStore ----------------------------
(* Instances of CaptureStore for TLC. *)
EXTENDS CaptureStore

CONSTANTS c1, c2, c3

TwoCaptures == {c1, c2}
ThreeCaptures == {c1, c2, c3}
=============================================================================
