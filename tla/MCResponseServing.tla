-------------------------- MODULE MCResponseServing --------------------------
(* ResponseServing on a small instance: two requests, one body file loaded  *)
(* and one opened, three keys pressed.                                         *)
EXTENDS ResponseServing

CONSTANTS r1, r2, typed
=============================================================================
