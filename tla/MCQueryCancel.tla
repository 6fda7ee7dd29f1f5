---------------------------- MODULE MCQueryCancel ----------------------------
(***************************************************************************)
(* Small instances of QueryCancel: every constant is given in the .cfg.    *)
(***************************************************************************)
EXTENDS QueryCancel

=============================================================================
