--------------------------- MODULE MCKeyMigration ---------------------------
(***************************************************************************)
(* Small instances of KeyMigration.                                        *)
(***************************************************************************)
EXTENDS KeyMigration, TLC

\* Keys are interchangeable.
Symm == Permutations(Keys)
=============================================================================
