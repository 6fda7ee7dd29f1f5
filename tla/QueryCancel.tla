---------------------------- MODULE QueryCancel ----------------------------
(***************************************************************************)
(* Running and stopping queries: the commands execute_query and            *)
(* query_table_data with the two registries of AppState they share         *)
(* (query_tokens and query_server_pids), the statements they leave on the  *)
(* server, and the two Stop buttons of the frontend: the one of a query    *)
(* tab (useQueryExecution.ts) and the one of a data grid                   *)
(* (useGridDataLoader.ts, useRdbTableData.ts).                             *)
(*                                                                         *)
(* A run is what one query id stands for: a grid fetch, a statement of a   *)
(* tab or a script whose statements are executed one after another under   *)
(* the same id.  Backends are the server sessions of one pool; a statement *)
(* is represented by its run.                                              *)
(*                                                                         *)
(* A definition named BUG_... is a plausible mistake in the definition     *)
(* that follows it; the model does not use it.                             *)
(***************************************************************************)
EXTENDS Naturals

CONSTANTS
  Runs,        \* query ids
  Grids,       \* the runs of a data grid; the others belong to query tabs
  Scripts,     \* the runs of a tab that hold several statements
  ScriptLength,
  Backends,    \* the sessions of the pool
  NoBackend, NoRun,
  Faults       \* what may go wrong

AllFaults == {"not_connected",   \* no adapter, or one of another paradigm
              "db_mismatch",     \* the adapter is on another database
              "no_pid",          \* the pid probe fails, or the adapter has none
              "sql_error",       \* the adapter or the server refuses a statement
              "kill_err"}        \* the native cancel fails

ASSUME QueryAssumption ==
  /\ NoBackend \notin Backends /\ NoRun \notin Runs
  /\ Grids \subseteq Runs /\ Scripts \subseteq Runs \ Grids
  /\ ScriptLength \in Nat \ {0}
  /\ Faults \subseteq AllFaults

VARIABLES
  pc,       \* where the command in flight is
  stmt,     \* the statement of the run it executes
  result,   \* what it is about to return
  token,    \* query_tokens: is a token registered under the id?
  fired,    \* was the token of the command in flight cancelled?
  conn,     \* the session it has pinned
  sent,     \* a pid in the oneshot channel
  pids,     \* query_server_pids
  server,   \* the run whose statement a session executes
  unread,   \* the run whose answer was cut at the row cap: the session goes on with the rest
  status,   \* what the tab or the grid shows
  stash,    \* the pid the tab has put aside for its Stop button
  stop,     \* where the Stop handler is
  target    \* the pid it is about to cancel

backend == <<pc, stmt, result, token, fired, conn, sent, pids>>
frontend == <<status, stash, stop, target>>
vars == <<backend, server, unread, frontend>>

Results == {"none", "ok", "failed", "rejected", "cancelled", "interrupted"}
Statuses == {"idle", "running", "completed", "error", "cancelled"}

TypeOK ==
  /\ pc \in [Runs -> {"idle", "sent", "acquire", "pinned", "running", "settled", "released",
                      "reply", "over"}]
  /\ stmt \in [Runs -> Nat] /\ \A r \in Runs : stmt[r] <= ScriptLength
  /\ result \in [Runs -> Results]
  /\ token \in [Runs -> BOOLEAN] /\ fired \in [Runs -> BOOLEAN]
  /\ conn \in [Runs -> Backends \cup {NoBackend}]
  /\ sent \in [Runs -> Backends \cup {NoBackend}]
  /\ pids \in [Runs -> Backends \cup {NoBackend}]
  /\ server \in [Backends -> Runs \cup {NoRun}]
  /\ unread \in [Backends -> Runs \cup {NoRun}]
  /\ status \in [Runs -> Statuses]
  /\ stash \in [Runs -> Backends \cup {NoBackend}]
  /\ stop \in [Runs -> {"no", "cancel", "answered", "native", "done"}]
  /\ target \in [Runs -> Backends \cup {NoBackend}]

Init ==
  /\ pc = [r \in Runs |-> "idle"]
  /\ stmt = [r \in Runs |-> 0]
  /\ result = [r \in Runs |-> "none"]
  /\ token = [r \in Runs |-> FALSE]
  /\ fired = [r \in Runs |-> FALSE]
  /\ conn = [r \in Runs |-> NoBackend]
  /\ sent = [r \in Runs |-> NoBackend]
  /\ pids = [r \in Runs |-> NoBackend]
  /\ server = [b \in Backends |-> NoRun]
  /\ unread = [b \in Backends |-> NoRun]
  /\ status = [r \in Runs |-> "idle"]
  /\ stash = [r \in Runs |-> NoBackend]
  /\ stop = [r \in Runs |-> "no"]
  /\ target = [r \in Runs |-> NoBackend]

Length(r) == IF r \in Scripts THEN ScriptLength ELSE 1

-----------------------------------------------------------------------------
(* The command *)

\* The pool lends a session nobody holds and whose last statement has ended, the
\* rows nobody read included: a connection that was dropped is pinged before it is
\* lent again.
Idle(b) == server[b] = NoRun /\ unread[b] = NoRun /\ \A r \in Runs : conn[r] # b

Move(r, at) == pc' = [pc EXCEPT ![r] = at]

\* The command leaves the adapter with `res`, dropping the connection it holds.
Settle(r, res) ==
  /\ Move(r, "settled")
  /\ result' = [result EXCEPT ![r] = res]
  /\ conn' = [conn EXCEPT ![r] = NoBackend]

\* finalize_cancelled, on the path of a tab only.
Finalized(r, res) == IF fired[r] /\ r \notin Grids THEN "cancelled" ELSE res

\* The gates of execute_query are behind it: register_cancel_token.
Register(r) ==
  /\ pc[r] = "sent"
  /\ Move(r, "acquire")
  /\ token' = [token EXCEPT ![r] = TRUE]
  /\ fired' = [fired EXCEPT ![r] = FALSE]
  /\ UNCHANGED <<stmt, result, conn, sent, pids, server, unread, frontend>>

\* A `?` between the registration and the dispatch leaves the token registered.
Reject(r) ==
  /\ pc[r] = "acquire" /\ "not_connected" \in Faults
  /\ Move(r, "reply")
  /\ result' = [result EXCEPT ![r] = "rejected"]
  /\ UNCHANGED <<stmt, token, fired, conn, sent, pids, server, unread, frontend>>

\* ensure_expected_db and the scripting boundary release it.
Refuse(r) ==
  /\ pc[r] = "acquire" /\ "db_mismatch" \in Faults
  /\ Move(r, "reply")
  /\ result' = [result EXCEPT ![r] = "failed"]
  /\ token' = [token EXCEPT ![r] = FALSE]
  /\ UNCHANGED <<stmt, fired, conn, sent, pids, server, unread, frontend>>

\* acquire() and the pid probe of execute_query_tracked.
Pin(r, b) ==
  /\ pc[r] = "acquire" /\ Idle(b)
  /\ Move(r, "pinned")
  /\ conn' = [conn EXCEPT ![r] = b]
  /\ \/ sent' = [sent EXCEPT ![r] = b]
     \/ "no_pid" \in Faults /\ UNCHANGED sent
  /\ UNCHANGED <<stmt, result, token, fired, pids, server, unread, frontend>>

\* acquire_timeout, or an error before the statement is sent: of the metadata
\* queries, of the checks on the statement.
NotStarted(r) ==
  /\ \/ pc[r] = "acquire" /\ \A b \in Backends : ~Idle(b)
     \/ pc[r] \in {"acquire", "pinned"} /\ "sql_error" \in Faults
  /\ Settle(r, IF pc[r] = "pinned" THEN Finalized(r, "failed") ELSE "failed")
  /\ UNCHANGED <<stmt, token, fired, sent, pids, server, unread, frontend>>

\* The statement goes to the session whose pid was sent, even when the token
\* has fired: select! polls its branches in any order.
Start(r) ==
  /\ pc[r] = "pinned"
  /\ Move(r, "running")
  /\ server' = [server EXCEPT ![conn[r]] = r]
  /\ UNCHANGED <<stmt, result, token, fired, conn, sent, pids, unread, frontend>>

\* The other branch of select!: the future and its connection are dropped, the
\* statement stays on the server.  A tab does not look at the token before it
\* has a session, a grid does.
Listening(r) ==
  IF r \in Grids THEN {"acquire", "pinned", "running"} ELSE {"pinned", "running"}
BUG_Cancelled(r) ==
  /\ fired[r] /\ pc[r] = "pinned"
  /\ Settle(r, "cancelled")
  /\ UNCHANGED <<stmt, token, fired, sent, pids, server, unread, frontend>>
Cancelled(r) ==
  /\ fired[r] /\ pc[r] \in Listening(r)
  /\ Settle(r, "cancelled")
  /\ UNCHANGED <<stmt, token, fired, sent, pids, server, unread, frontend>>

SqlError == IF "sql_error" \in Faults THEN {"failed"} ELSE {}
\* The statement has ended or was refused; or the row cap cut its answer, which is
\* a success to the caller while the session still executes it. The pages of a grid
\* are limited by the statement itself.
Finish(r) ==
  /\ pc[r] = "running" /\ server[conn[r]] = r
  /\ \E res \in {"ok"} \cup SqlError :
       /\ Settle(r, Finalized(r, res))
       /\ \/ UNCHANGED unread
          \/ res = "ok" /\ r \notin Grids /\ unread' = [unread EXCEPT ![conn[r]] = r]
  /\ server' = [server EXCEPT ![conn[r]] = NoRun]
  /\ UNCHANGED <<stmt, token, fired, sent, pids, frontend>>

\* The statement was cancelled on the server.
Interrupted(r) ==
  /\ pc[r] = "running" /\ server[conn[r]] # r
  /\ Settle(r, Finalized(r, "interrupted"))
  /\ UNCHANGED <<stmt, token, fired, sent, pids, server, unread, frontend>>

\* The other half of the join!, which it waits for.
RecordPid(r) ==
  /\ sent[r] # NoBackend
  /\ pids' = [pids EXCEPT ![r] = sent[r]]
  /\ sent' = [sent EXCEPT ![r] = NoBackend]
  /\ UNCHANGED <<pc, stmt, result, token, fired, conn, server, unread, frontend>>

\* release_cancel_token.
BUG_Release(r) ==
  /\ pc[r] = "settled"
  /\ Move(r, "released")
  /\ token' = [token EXCEPT ![r] = FALSE]
  /\ UNCHANGED <<stmt, result, fired, conn, sent, pids, server, unread, frontend>>
Release(r) ==
  /\ pc[r] = "settled" /\ sent[r] = NoBackend
  /\ Move(r, "released")
  /\ token' = [token EXCEPT ![r] = FALSE]
  /\ UNCHANGED <<stmt, result, fired, conn, sent, pids, server, unread, frontend>>

BUG_Forget(r) ==
  /\ pc[r] = "released"
  /\ Move(r, "reply")
  /\ UNCHANGED <<stmt, result, token, fired, conn, sent, pids, server, unread, frontend>>
Forget(r) ==
  /\ pc[r] = "released"
  /\ Move(r, "reply")
  /\ pids' = [pids EXCEPT ![r] = NoBackend]
  /\ fired' = [fired EXCEPT ![r] = FALSE]
  /\ UNCHANGED <<stmt, result, token, conn, sent, server, unread, frontend>>

\* The statement of a dropped connection ends by itself, and so does one whose
\* rows are no longer read.
Drain(b) ==
  /\ server[b] # NoRun \/ unread[b] # NoRun
  /\ \A r \in Runs : conn[r] # b
  /\ server' = [server EXCEPT ![b] = NoRun]
  /\ unread' = [unread EXCEPT ![b] = NoRun]
  /\ UNCHANGED <<backend, frontend>>

-----------------------------------------------------------------------------
(* The tab and the grid *)

Submit(r) ==
  /\ pc[r] = "idle"
  /\ Move(r, "sent")
  /\ stmt' = [stmt EXCEPT ![r] = 1]
  /\ status' = [status EXCEPT ![r] = "running"]
  /\ UNCHANGED <<result, token, fired, conn, sent, pids, server, unread, stash, stop, target>>

\* A script goes on after a success and only then.
BUG_SubmitNext(r) ==
  /\ pc[r] = "reply" /\ result[r] = "ok" /\ stmt[r] <= Length(r)
  /\ Move(r, "sent")
  /\ stmt' = [stmt EXCEPT ![r] = @ + 1]
  /\ result' = [result EXCEPT ![r] = "none"]
  /\ UNCHANGED <<token, fired, conn, sent, pids, server, unread, frontend>>
BUG_SubmitNextAnyway(r) ==
  /\ pc[r] = "reply" /\ stmt[r] < Length(r)
  /\ Move(r, "sent")
  /\ stmt' = [stmt EXCEPT ![r] = @ + 1]
  /\ result' = [result EXCEPT ![r] = "none"]
  /\ UNCHANGED <<token, fired, conn, sent, pids, server, unread, frontend>>
SubmitNext(r) ==
  /\ pc[r] = "reply" /\ result[r] = "ok" /\ stmt[r] < Length(r)
  /\ Move(r, "sent")
  /\ stmt' = [stmt EXCEPT ![r] = @ + 1]
  /\ result' = [result EXCEPT ![r] = "none"]
  /\ UNCHANGED <<token, fired, conn, sent, pids, server, unread, frontend>>

\* A tab takes an interruption for a cancellation (isQueryCancellationMessage)
\* and shows a script that got somewhere as completed.
Shown(r) ==
  CASE result[r] = "ok" \/ (result[r] \in {"failed", "rejected"} /\ stmt[r] > 1) -> "completed"
    [] result[r] \in {"cancelled", "interrupted"} /\ r \notin Grids -> "cancelled"
    [] OTHER -> "error"

\* A grid that was stopped ignores the answer (isStale).
Answered(r) ==
  /\ pc[r] = "reply" /\ ~(result[r] = "ok" /\ stmt[r] < Length(r))
  /\ Move(r, "over")
  /\ status' = [status EXCEPT ![r] = IF @ = "running" THEN Shown(r) ELSE @]
  /\ stash' = [stash EXCEPT ![r] = NoBackend]
  /\ UNCHANGED <<stmt, result, token, fired, conn, sent, pids, server, unread, stop, target>>

\* The effect of a running tab: get_query_server_pid, once per query id.
StashPid(r) ==
  /\ r \notin Grids /\ status[r] = "running"
  /\ stash[r] = NoBackend /\ pids[r] # NoBackend
  /\ stash' = [stash EXCEPT ![r] = pids[r]]
  /\ UNCHANGED <<backend, server, unread, status, stop, target>>

-----------------------------------------------------------------------------
(* Stop *)

\* handleExecute on a running tab; handleCancelRefetch, after which the grid no
\* longer waits.  A tab that goes on running can be stopped again.
ClickStop(r) ==
  /\ status[r] = "running" /\ stop[r] \in {"no", "done"}
  /\ stop' = [stop EXCEPT ![r] = "cancel"]
  /\ status' = [status EXCEPT ![r] = IF r \in Grids THEN "cancelled" ELSE @]
  /\ UNCHANGED <<backend, server, unread, stash, target>>

\* cancel_query; NotFound when no token is registered, which Stop ignores.
CancelQuery(r) ==
  /\ stop[r] = "cancel"
  /\ stop' = [stop EXCEPT ![r] = "answered"]
  /\ fired' = [fired EXCEPT ![r] = @ \/ token[r]]
  /\ token' = [token EXCEPT ![r] = FALSE]
  /\ UNCHANGED <<pc, stmt, result, conn, sent, pids, server, unread, status, stash, target>>

\* readRunningServerPid for a tab, whose pid goes with its running state;
\* getQueryServerPid for a grid, which polls for a second: it finds a pid that is on
\* its way, and nothing when the command still waits for a session or has returned.
PidToCancel(r) ==
  IF r \in Grids THEN pids[r] ELSE IF status[r] = "running" THEN stash[r] ELSE NoBackend
ReadPid(r) ==
  /\ stop[r] = "answered"
  /\ r \in Grids => sent[r] = NoBackend
  /\ target' = [target EXCEPT ![r] = PidToCancel(r)]
  /\ stop' = [stop EXCEPT ![r] = IF PidToCancel(r) = NoBackend THEN "done" ELSE "native"]
  /\ UNCHANGED <<backend, server, unread, status, stash>>

\* cancel_query_native: pg_cancel_backend aborts what the session executes now.
NativeCancel(r) ==
  /\ stop[r] = "native"
  /\ stop' = [stop EXCEPT ![r] = "done"]
  /\ target' = [target EXCEPT ![r] = NoBackend]
  /\ \/ /\ server' = [server EXCEPT ![target[r]] = NoRun]
        /\ unread' = [unread EXCEPT ![target[r]] = NoRun]
     \/ "kill_err" \in Faults /\ UNCHANGED <<server, unread>>
  /\ UNCHANGED <<backend, status, stash>>

-----------------------------------------------------------------------------

Command(r) ==
  \/ Register(r) \/ Reject(r) \/ Refuse(r) \/ NotStarted(r) \/ \E b \in Backends : Pin(r, b)
  \/ Start(r) \/ Cancelled(r) \/ Interrupted(r) \/ RecordPid(r) \/ Release(r) \/ Forget(r)
View(r) == Submit(r) \/ SubmitNext(r) \/ Answered(r) \/ StashPid(r)
Stop(r) == ClickStop(r) \/ CancelQuery(r) \/ ReadPid(r) \/ NativeCancel(r)

Next ==
  \/ \E r \in Runs : Command(r) \/ Finish(r) \/ View(r) \/ Stop(r)
  \/ \E b \in Backends : Drain(b)

Spec == Init /\ [][Next]_vars

\* tokio polls a command that waits for a session or whose token has fired; a
\* statement may take for ever, and nobody has to press a button.
GoesOn(r) == NotStarted(r) \/ Cancelled(r) \/ \E b \in Backends : Pin(r, b)
Fairness(r) == WF_vars(GoesOn(r))
FairSpec == Spec /\ \A r \in Runs : Fairness(r)

-----------------------------------------------------------------------------
(* Safety *)

\* Between two commands of a run its id is in neither registry, except for the
\* token a rejected command leaves behind.
RegistriesCleared ==
  \A r \in Runs : pc[r] \in {"idle", "sent", "reply", "over"} =>
    /\ pids[r] = NoBackend /\ sent[r] = NoBackend
    /\ token[r] => result[r] = "rejected"

\* The pid recorded for a run is that of the session which executes the statement
\* it waits for or was stopped at, from one statement of a script to the next,
\* while the one before may go on in another session after a cut at the row cap.
RecordedPidIsOwn ==
  \A r \in Runs, b \in Backends : server[b] = r => pids[r] \in {b, NoBackend}

\* A run has one statement on the server besides those whose answer was cut at the
\* row cap, the one that was cancelled under it included; and a session that still
\* executes a cut one executes nothing else and is lent to nobody.
OneStatementPerRun ==
  /\ \A b, c \in Backends : server[b] = server[c] /\ server[b] # NoRun => b = c
  /\ \A b \in Backends : unread[b] # NoRun =>
       unread[b] \notin Grids /\ server[b] = NoRun /\ \A r \in Runs : conn[r] # b

\* Seen from the tab: whoever stops, kills or refuses what, a script waits for one
\* statement at a time and sends the next only after a success was reported, which
\* is the end of the statement except at the row cap; a failure leaves nothing on
\* the server, and nothing is cancelled unless Stop was pressed.
State(r) ==
  CASE pc[r] = "idle" -> "idle"
    [] pc[r] \in {"sent", "acquire", "pinned"} -> "waits"
    [] pc[r] = "running" -> "works"
    [] OTHER -> result[r]
Script == INSTANCE ScriptRun WITH
  Size <- [r \in Runs |-> Length(r)],
  state <- [r \in Runs |-> State(r)],
  at <- stmt,
  busy <- {r \in Runs : \E b \in Backends : server[b] = r},
  trailing <- {r \in Runs : \E b \in Backends : unread[b] = r},
  stopped <- {r \in Runs : stop[r] # "no"}

RunsScripts == Script!Spec

InAdapter(r) == pc[r] \in {"acquire", "pinned", "running"}

\* Liveness: the command whose token has fired returns, although its statement
\* may never end and the pool may be exhausted.
FiredCommandReturns ==
  \A r \in Runs : fired[r] /\ InAdapter(r) ~> ~InAdapter(r)

\* When Stop finds no session to cancel on, none executes a statement of the run.
NoPidNoStatement ==
  [][\A r \in Runs : stop[r] = "answered" /\ stop'[r] = "done" =>
                      \A b \in Backends : server[b] # r]_vars

\* When Stop has run its course, the run sends no further statement.
StopTakesHold ==
  [][\A r \in Runs, b \in Backends : stop[r] = "done" /\ server'[b] = r => server[b] = r]_vars

=============================================================================
