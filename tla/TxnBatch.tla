------------------------------ MODULE TxnBatch ------------------------------
(***************************************************************************)
(* execute_query_batch and execute_query_dry_run: the statements of a grid *)
(* commit or of a CSV import, run one after another in a transaction of    *)
(* one of six drivers, with the token that cancels them.  What the drivers *)
(* share is written once; a driver is a record of what they differ in.     *)
(*                                                                         *)
(* Statements are edits (DML).  A DDL statement, which MySQL commits at    *)
(* once, is outside this model.                                            *)
(*                                                                         *)
(* A definition named BUG_... is a plausible mistake in the definition     *)
(* that follows it; the model does not use it.                             *)
(***************************************************************************)
EXTENDS Naturals, Sequences, Functions

CONSTANTS
  Batches,     \* commands that may overlap, each with a transaction of its own
  Rows,
  Duplicated,  \* rows of a table without a key, which a statement hits together with a twin
  Deletable,   \* rows that other clients of the server may delete
  Engines,     \* the drivers a run looks at
  Plans        \* what a batch may be asked to do: the rows of its statements, in order

ASSUME BatchAssumption ==
  /\ Plans \subseteq Seq(Rows) \ {<<>>}
  /\ Duplicated \subseteq Rows /\ Deletable \subseteq Rows
  /\ Batches \cap {"stored", "absent"} = {}

VARIABLES
  driver,   \* of the connection
  table,    \* the committed table: who wrote a row last
  pc,       \* where a command is
  plan,     \* its statements
  mode,     \* "commit" or "dry_run"
  at,       \* the statement it is at
  token,    \* its entry in query_tokens; "fired" once cancel_query has taken it out
  result,   \* what it is going to answer
  srv,      \* its transaction on the server
  wrote     \* the rows written by its open transaction, which are locked

client == <<pc, plan, mode, at, result>>
server == <<table, srv, wrote>>
vars == <<driver, client, token, server>>

-----------------------------------------------------------------------------
(* The drivers *)

\* locks: what a statement waits for: the row, the file, or nothing, where a
\* conflict is an error.  early: the token is looked at before a transaction is
\* opened.  stop: a fired token drops the work at its await, or interrupts the
\* statement of a worker thread.  preview: dry runs are supported.  closes: the
\* connection is closed, and the close can fail, after the transaction ended.
Postgres == [name |-> "postgres", locks |-> "row",  early |-> FALSE, stop |-> "drop",      preview |-> TRUE,  closes |-> FALSE]
Mysql    == [name |-> "mysql",    locks |-> "row",  early |-> FALSE, stop |-> "drop",      preview |-> TRUE,  closes |-> FALSE]
Sqlite   == [name |-> "sqlite",   locks |-> "file", early |-> TRUE,  stop |-> "drop",      preview |-> TRUE,  closes |-> FALSE]
Mssql    == [name |-> "mssql",    locks |-> "row",  early |-> TRUE,  stop |-> "drop",      preview |-> TRUE,  closes |-> FALSE]
Oracle   == [name |-> "oracle",   locks |-> "row",  early |-> TRUE,  stop |-> "drop",      preview |-> TRUE,  closes |-> TRUE]
Duckdb   == [name |-> "duckdb",   locks |-> "none", early |-> FALSE, stop |-> "interrupt", preview |-> FALSE, closes |-> FALSE]

Drivers == {Postgres, Mysql, Sqlite, Mssql, Oracle, Duckdb}

\* Where a command goes with the outcome of its work.
Exit == IF driver.stop = "interrupt" THEN "join" ELSE "leave"

Working == {"open", "stmt", "undo", "end", "close"}

\* The command has let go of its connection.
Orphaned(b) == pc[b] \in {"join", "leave", "over"}

Live(b) == srv[b] \in {"open", "ending"}
Target(b) == plan[b][at[b]]
More(b) == at[b] <= Len(plan[b])
Blocked(b) == \E o \in Batches \ {b} : Live(o) /\ Target(b) \in wrote[o]

\* The rows a statement hits.
Effect(b) ==
  IF table[Target(b)] = "absent" THEN 0
  ELSE IF Target(b) \in Duplicated THEN 2 ELSE 1

\* BUG: rows counted from above only.
BUG_Accepted(b) == mode[b] = "dry_run" \/ Effect(b) <= 1

\* enforce_single_row_effect, which a dry run does not ask.
Accepted(b) == mode[b] = "dry_run" \/ Effect(b) = 1

Typed ==
  /\ driver \in Drivers
  /\ table \in [Rows -> Batches \cup {"stored", "absent"}]
  /\ pc \in [Batches -> {"idle", "resolve", "join", "leave", "over"} \cup Working]
  /\ plan \in [Batches -> Plans \cup {<<>>}]
  /\ mode \in [Batches -> {"none", "commit", "dry_run"}]
  /\ at \in [Batches -> Nat \ {0}]
  /\ token \in [Batches -> {"none", "live", "fired"}]
  /\ result \in [Batches -> {"none", "ok", "failed", "unsure"}]
  /\ srv \in [Batches -> {"none", "open", "ending", "committed", "aborted"}]
  /\ wrote \in [Batches -> SUBSET Rows]

\* A command has an outcome once it is past its work.
Concluded ==
  \A b \in Batches : pc[b] \in {"undo", "close", "join", "leave", "over"} => result[b] # "none"

TypeOK == Typed /\ Concluded

Init ==
  /\ driver \in Drivers /\ driver.name \in Engines
  /\ table = [r \in Rows |-> "stored"]
  /\ pc = [b \in Batches |-> "idle"]
  /\ plan = [b \in Batches |-> <<>>]
  /\ mode = [b \in Batches |-> "none"]
  /\ at = [b \in Batches |-> 1]
  /\ token = [b \in Batches |-> "none"]
  /\ result = [b \in Batches |-> "none"]
  /\ srv = [b \in Batches |-> "none"]
  /\ wrote = [b \in Batches |-> {}]

Goto(b, step) == pc' = [pc EXCEPT ![b] = step]
Conclude(b, outcome, step) ==
  /\ result' = [result EXCEPT ![b] = outcome]
  /\ Goto(b, step)
  /\ UNCHANGED <<plan, mode, at>>

-----------------------------------------------------------------------------
(* The command *)

\* The gates have passed and the input is valid: the token is registered.
Invoke(b) ==
  /\ pc[b] = "idle"
  /\ \E p \in Plans, m \in {"commit", "dry_run"} :
       plan' = [plan EXCEPT ![b] = p] /\ mode' = [mode EXCEPT ![b] = m]
  /\ token' = [token EXCEPT ![b] = "live"]
  /\ Goto(b, "resolve")
  /\ UNCHANGED <<driver, at, result, server>>

\* No adapter, or the probe of its database fails: `?` returns past the release
\* of the token.
Lost(b) ==
  /\ pc[b] = "resolve"
  /\ Conclude(b, "failed", "over")
  /\ UNCHANGED <<driver, token, server>>

\* The statements are not for this engine, or the adapter is on another database
\* than the dialog expects.
Mismatch(b) ==
  /\ pc[b] = "resolve"
  /\ Conclude(b, "failed", "over")
  /\ token' = [token EXCEPT ![b] = "none"]
  /\ UNCHANGED <<driver, server>>

Dispatch(b) ==
  /\ pc[b] = "resolve"
  /\ Goto(b, "open")
  /\ UNCHANGED <<driver, plan, mode, at, result, token, server>>

Leave(b) ==
  /\ pc[b] = "leave"
  /\ Goto(b, "over")
  /\ token' = [token EXCEPT ![b] = "none"]
  /\ UNCHANGED <<driver, plan, mode, at, result, server>>

CancelQuery(b) ==
  /\ token[b] = "live"
  /\ token' = [token EXCEPT ![b] = "fired"]
  /\ UNCHANGED <<driver, client, server>>

-----------------------------------------------------------------------------
(* The work inside a driver *)

TooLate(b) == driver.early /\ token[b] = "fired"

\* The token had fired when the driver was called, or it has no dry run.
Decline(b) ==
  /\ pc[b] = "open"
  /\ \/ TooLate(b) /\ Conclude(b, "unsure", Exit)
     \/ mode[b] = "dry_run" /\ ~driver.preview /\ Conclude(b, "failed", Exit)
  /\ UNCHANGED <<driver, token, server>>

\* A session is lent or dialled and BEGIN is answered; for SQLite it is BEGIN
\* IMMEDIATE, which waits for the file.
Begin(b) ==
  /\ pc[b] = "open" /\ ~TooLate(b)
  /\ mode[b] = "dry_run" => driver.preview
  /\ (driver.locks = "file") => (\A o \in Batches \ {b} : ~Live(o))
  /\ srv' = [srv EXCEPT ![b] = "open"]
  /\ Goto(b, "stmt")
  /\ UNCHANGED <<driver, plan, mode, at, result, token, table, wrote>>

\* A statement the driver refuses, no pool, a dial that fails, a file that stays
\* locked.
BeginFails(b) ==
  /\ pc[b] = "open"
  /\ Conclude(b, "failed", Exit)
  /\ UNCHANGED <<driver, token, server>>

\* A statement is answered, and its count is looked at.
RunStatement(b) ==
  /\ pc[b] = "stmt" /\ More(b) /\ ~Blocked(b)
  /\ wrote' = IF Effect(b) = 0 THEN wrote ELSE [wrote EXCEPT ![b] = @ \cup {Target(b)}]
  /\ IF Accepted(b)
     THEN at' = [at EXCEPT ![b] = @ + 1] /\ UNCHANGED <<pc, plan, mode, result>>
     ELSE Conclude(b, "failed", "undo")
  /\ UNCHANGED <<driver, token, table, srv>>

\* It breaks a constraint, is the victim of a deadlock or of a conflict, is
\* interrupted, or its connection breaks.
StatementFails(b) ==
  /\ pc[b] = "stmt" /\ More(b)
  /\ Conclude(b, "failed", "undo")
  /\ UNCHANGED <<driver, token, server>>

Ended(b, outcome) ==
  /\ srv' = [srv EXCEPT ![b] = outcome]
  /\ wrote' = [wrote EXCEPT ![b] = {}]

\* The rollback after a failed statement; its own failure is ignored.
Undo(b) ==
  /\ pc[b] = "undo"
  /\ Goto(b, Exit)
  /\ \/ Ended(b, "aborted")
     \/ UNCHANGED <<srv, wrote>>
  /\ UNCHANGED <<driver, plan, mode, at, result, token, table>>

\* A dry run ends with a rollback.
Rollback(b) ==
  /\ pc[b] = "stmt" /\ ~More(b) /\ mode[b] = "dry_run"
  /\ \/ /\ Ended(b, "aborted")
        /\ Conclude(b, "ok", IF driver.closes THEN "close" ELSE Exit)
     \/ /\ Conclude(b, "failed", Exit)
        /\ UNCHANGED <<srv, wrote>>
  /\ UNCHANGED <<driver, token, table>>

\* COMMIT is sent.
Commit(b) ==
  /\ pc[b] = "stmt" /\ ~More(b) /\ mode[b] = "commit"
  /\ srv' = [srv EXCEPT ![b] = "ending"]
  /\ Goto(b, "end")
  /\ UNCHANGED <<driver, plan, mode, at, result, token, table, wrote>>

ServerCommits(b) ==
  /\ srv[b] = "ending"
  /\ table' = [r \in Rows |-> IF r \in wrote[b] THEN b ELSE table[r]]
  /\ Ended(b, "committed")
  /\ UNCHANGED <<driver, client, token>>

\* A deferred constraint, or a COMMIT that is lost with its connection.
ServerRefuses(b) ==
  /\ srv[b] = "ending"
  /\ Ended(b, "aborted")
  /\ UNCHANGED <<driver, client, token, table>>

\* BUG: the results are not kept.
BUG_Committed(b) ==
  /\ pc[b] = "end" /\ srv[b] = "committed"
  /\ Goto(b, IF driver.closes THEN "close" ELSE Exit)
  /\ UNCHANGED <<driver, plan, mode, at, result, token, server>>

Committed(b) ==
  /\ pc[b] = "end" /\ srv[b] = "committed"
  /\ Conclude(b, "ok", IF driver.closes THEN "close" ELSE Exit)
  /\ UNCHANGED <<driver, token, server>>

\* COMMIT is answered with an error or not at all; it may have reached the server.
CommitFails(b) ==
  /\ pc[b] = "end"
  /\ Conclude(b, "unsure", Exit)
  /\ UNCHANGED <<driver, token, server>>

\* The connection is closed after the transaction; an error becomes the answer.
Close(b) ==
  /\ pc[b] = "close"
  /\ \E outcome \in {result[b], "unsure"} : Conclude(b, outcome, Exit)
  /\ UNCHANGED <<driver, token, server>>

\* BUG: a statement that is on the wire is waited for.
BUG_Abandon(b) ==
  /\ pc[b] \in Working \ {"stmt"} /\ token[b] = "fired" /\ driver.stop = "drop"
  /\ Conclude(b, "unsure", Exit)
  /\ UNCHANGED <<driver, token, server>>

\* select! takes the branch of the fired token and drops the work where it is.
Abandon(b) ==
  /\ pc[b] \in Working /\ token[b] = "fired" /\ driver.stop = "drop"
  /\ Conclude(b, "unsure", Exit)
  /\ UNCHANGED <<driver, token, server>>

\* finalize_cancelled: a token that has fired makes any outcome a cancelled one.
Join(b) ==
  /\ pc[b] = "join"
  /\ \/ token[b] = "fired" /\ Conclude(b, "unsure", "leave")
     \/ token[b] # "fired" /\ Conclude(b, result[b], "leave")
  /\ UNCHANGED <<driver, token, server>>

-----------------------------------------------------------------------------
(* The server, and its other clients *)

\* The session goes back to its pool, which rolls back what it finds open, or
\* its connection is closed.  A COMMIT may not have been written yet.
Reclaim(b) ==
  /\ Orphaned(b) /\ Live(b)
  /\ Ended(b, "aborted")
  /\ UNCHANGED <<driver, client, token, table>>

Vanish(r) ==
  /\ table[r] # "absent"
  /\ \A b \in Batches : r \notin wrote[b]
  /\ table' = [table EXCEPT ![r] = "absent"]
  /\ UNCHANGED <<driver, client, token, srv, wrote>>

Next ==
  \/ \E b \in Batches :
       \/ Invoke(b) \/ Lost(b) \/ Mismatch(b) \/ Dispatch(b) \/ Leave(b) \/ CancelQuery(b)
       \/ Decline(b) \/ Begin(b) \/ BeginFails(b)
       \/ RunStatement(b) \/ StatementFails(b) \/ Undo(b) \/ Rollback(b)
       \/ Commit(b) \/ ServerCommits(b) \/ ServerRefuses(b) \/ Committed(b) \/ CommitFails(b)
       \/ Close(b) \/ Abandon(b) \/ Join(b) \/ Reclaim(b)
  \/ \E r \in Deletable : Vanish(r)

Spec == Init /\ [][Next]_vars

\* tokio polls a woken task and a command that has its outcome returns.  The server
\* owes no answer.
Fairness(b) == WF_vars(Abandon(b)) /\ WF_vars(Leave(b))

FairSpec == Spec /\ \A b \in Batches : Fairness(b)

-----------------------------------------------------------------------------
(* Properties *)

\* Nothing that is left to happen can commit the transaction of b.
Doomed(b) ==
  \/ srv[b] = "aborted"
  \/ srv[b] \in {"none", "open"} /\ pc[b] \in {"undo", "join", "leave", "over"}

Want(b) == IF mode[b] = "commit" THEN Range(plan[b]) ELSE {}
Fate(b) == IF srv[b] = "committed" THEN "applied" ELSE IF Doomed(b) THEN "dropped" ELSE "pending"
Answer(b) == IF pc[b] = "over" THEN result[b] ELSE "none"

Atomic == INSTANCE AtomicBatch
  WITH wants  <- [b \in Batches |-> Want(b)],
       fate   <- [b \in Batches |-> Fate(b)],
       answer <- [b \in Batches |-> Answer(b)],
       Sole   <- Rows \ Duplicated

\* However batches, cancels, lost answers and other clients interleave, on every
\* driver: a batch is in the table entirely or not at all, a statement that hit
\* no row or two takes the whole batch down, a dry run changes nothing, success
\* means it is in the table and an answer that names a failed statement means it
\* never will be (execute_query_batch: "all-or-nothing").
BatchesAreAtomic == Atomic!Spec

\* A batch that is cancelled returns, whatever its statement waits for, on the
\* drivers that drop their work.
CancelledBatchReturns ==
  \A b \in Batches :
    (pc[b] \in Working /\ token[b] = "fired" /\ driver.stop = "drop") ~> (pc[b] = "over")
=============================================================================
