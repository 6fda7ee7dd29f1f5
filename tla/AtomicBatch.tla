---------------------------- MODULE AtomicBatch ----------------------------
(***************************************************************************)
(* What a batch of row edits promises to the dialog that sent it: all of   *)
(* its edits reach the table in one step or none of them ever does, each   *)
(* changes exactly one row, a success is only reported of a batch that is  *)
(* in the table, and a failure only of one that never will be.  A dry run  *)
(* is a batch that wants nothing.                                          *)
(***************************************************************************)
CONSTANTS Batches, Rows,
  Sole   \* the rows that a statement can single out

VARIABLES
  table,   \* the committed table
  wants,   \* the rows a batch is going to change
  fate,    \* of a batch on the server
  answer   \* what its dialog was told

vars == <<table, wants, fate, answer>>

Init ==
  /\ table = [r \in Rows |-> "stored"]
  /\ wants = [b \in Batches |-> {}]
  /\ fate = [b \in Batches |-> "pending"]
  /\ answer = [b \in Batches |-> "none"]

Ask(b) ==
  /\ wants[b] = {} /\ fate[b] = "pending"
  /\ \E w \in SUBSET Rows : wants' = [wants EXCEPT ![b] = w]
  /\ UNCHANGED <<table, fate, answer>>

Apply(b) ==
  /\ fate[b] = "pending"
  /\ \A r \in wants[b] : r \in Sole /\ table[r] # "absent"
  /\ table' = [r \in Rows |-> IF r \in wants[b] THEN b ELSE table[r]]
  /\ fate' = [fate EXCEPT ![b] = "applied"]
  /\ UNCHANGED <<wants, answer>>

Drop(b) ==
  /\ fate[b] = "pending"
  /\ fate' = [fate EXCEPT ![b] = "dropped"]
  /\ UNCHANGED <<table, wants, answer>>

Succeed(b) ==
  /\ answer[b] = "none"
  /\ fate[b] = "applied" \/ wants[b] = {}
  /\ answer' = [answer EXCEPT ![b] = "ok"]
  /\ UNCHANGED <<table, wants, fate>>

Fail(b) ==
  /\ answer[b] = "none" /\ fate[b] # "applied"
  /\ answer' = [answer EXCEPT ![b] = "failed"]
  /\ fate' = [fate EXCEPT ![b] = "dropped"]
  /\ UNCHANGED <<table, wants>>

\* It was cancelled, or the answer to its COMMIT was lost: either fate.
Doubt(b) ==
  /\ answer[b] = "none"
  /\ answer' = [answer EXCEPT ![b] = "unsure"]
  /\ UNCHANGED <<table, wants, fate>>

\* Another client of the server deletes a row.
Vanish(r) ==
  /\ table' = [table EXCEPT ![r] = "absent"]
  /\ UNCHANGED <<wants, fate, answer>>

Next ==
  \/ \E b \in Batches : Ask(b) \/ Apply(b) \/ Drop(b) \/ Succeed(b) \/ Fail(b) \/ Doubt(b)
  \/ \E r \in Rows : Vanish(r)

Spec == Init /\ [][Next]_vars
=============================================================================
