----------------------------- MODULE MCTxnBatch -----------------------------
(* Instances of TxnBatch for TLC. *)
EXTENDS TxnBatch

CONSTANTS r1, r2, twin

\* Two rows in opposite orders; one plan ends with a statement that hits two rows.
MCPlans == {<<r1, r2>>, <<r2, r1, twin>>}
=============================================================================
