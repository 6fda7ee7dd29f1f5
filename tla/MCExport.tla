------------------------------ MODULE MCExport ------------------------------
(* Instances of Export for TLC. *)
EXTENDS Export

CONSTANTS file

Order(kind, rows, ends, named, prompt) ==
  [kind |-> kind, target |-> file, rows |-> rows, ends |-> ends, named |-> named, prompt |-> prompt]

\* A grid, a session of two chunks, a text, a dump of one table by an adapter
\* that waits for the token too and one of two tables, without an id, by another.
MCJobs ==
  { Order("grid", 1, {1}, TRUE, FALSE), Order("session", 2, {1, 2}, TRUE, FALSE),
    Order("text", 0, {}, FALSE, FALSE), Order("dump", 3, {3}, TRUE, TRUE),
    Order("dump", 2, {1, 2}, FALSE, FALSE) }
=============================================================================
