-------------------------- MODULE MCConnLifecycle --------------------------
(***************************************************************************)
(* Small instances of ConnLifecycle.                                       *)
(***************************************************************************)
EXTENDS ConnLifecycle, TLC

\* Calls, sessions and adapters are interchangeable (safety runs only).
Symm == Permutations(Calls) \cup Permutations(Sessions) \cup Permutations(Adapters)
=============================================================================
