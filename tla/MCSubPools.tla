----------------------------- MODULE MCSubPools -----------------------------
(* Instances of SubPools for TLC. *)
EXTENDS SubPools
=============================================================================
