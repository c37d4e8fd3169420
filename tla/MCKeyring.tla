------------------------------ MODULE MCKeyring ------------------------------
(* Three programs that share a directory, and keys for three first starts. *)
EXTENDS Keyring, TLC

CONSTANTS p1, p2, p3, k1, k2, k3

MCPrograms == {p1, p2, p3}
MCKeys == {k1, k2, k3}
MCSymmetry == Permutations(MCPrograms) \cup Permutations(MCKeys)
=============================================================================
