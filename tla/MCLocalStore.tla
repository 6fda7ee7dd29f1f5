---------------------------- MODULE MCLocalStore ----------------------------
(* Instances of LocalStore for TLC. *)
EXTENDS LocalStore, TLC

CONSTANTS n1, n2, n3

MCSymmetry == Permutations({n1, n2, n3})
=============================================================================
