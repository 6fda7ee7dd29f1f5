# table-view in TLA+

table-view is a desktop database client: a Tauri application whose Rust backend
(`src/src-tauri`) holds the connections, the secrets and the running queries, and
whose React frontend (`src/src`) shows them in a launcher window and one workspace
window per connection. This directory holds TLA+ models of the parts of it where
several actors share state or where a crash can fall between two writes, the
configurations that model-check them with TLC, and proofs of their main
properties, checked by TLAPS.

Paths below are relative to the repository root `src/`; `core/` stands for
`src-tauri/table-view-core/src/` and `commands/` for `src-tauri/src/commands/`.

## 1. Inventory

| Component | State | Operations | Interacts with | What is hard |
|---|---|---|---|---|
| Connection life cycle (`commands/connection.rs`, `connection/crud.rs`, `connection/session.rs`) | `active_connections`, `keep_alive_handles`, `ssh_tunnels`, `connection_status`, `connection_guards` of `AppState` | `connect`, `disconnect`, key-value `SELECT`, the keep-alive loop with its reconnect | every command clones its adapter from the registry; status events go to all windows | tasks aborted at an await, writes outside the guard, early returns |
| Master key and secrets (`core/storage/key_migration.rs`, `storage/mod.rs`, `storage/crypto.rs`) | keyring entry, `.key` file, `connections.json`, its backup, the key in memory | boot paths A, B, C and the rekey; load, save, delete | `connect` reads secrets, the dialog saves them | crashes between writes, a keyring that comes, goes and lies |
| Running and stopping queries (`commands/rdb/query.rs`, `commands/cancel_query.rs`, `core/db/postgres/queries.rs`; the query tab and the grid in `src/`) | `query_tokens`, `query_server_pids`, sessions lent by the pool, the tab's status and stashed pid | `execute_query`, `query_table_data`, `cancel_query`, `get_query_server_pid`, `cancel_query_native`, the Stop buttons | adapters, sub-pools, the server | Stop at any moment, pids of sessions that are lent again, scripts |
| Sub-pools of PostgreSQL and MySQL (`core/db/postgres/connection.rs`, `core/db/mysql/connection.rs`) | `PgPoolState`: config, pools, order of use, database in use | `connect_pool`, `switch_active_db`, `active_pool`, `disconnect_pool` | every query; `disconnect` | a dial between two critical sections, the cap, `close()` that waits |
| Cross-window events (`src-tauri/src/events.rs`, `src/lib/events/stateChanged.ts`) | a version per (domain, entity), `lastApplied` of each window | emit, dispatch: echo, duplicate, gap | all mutating commands, all stores | versions taken under a lock and sent outside it |
| Status of connections in each window (`src/features/connection/store.ts`, `src/lib/zustand-ipc-bridge.ts`) | a status map per window | apply an event, refetch, boot snapshot | connection life cycle, events | late, lost and reordered events |
| Batches of row edits and dry runs (`commands/rdb/query.rs`, the batch functions of six drivers in `core/db/`) | the token in `query_tokens`, a transaction on the server with its row locks | `execute_query_batch`, `execute_query_dry_run`, `cancel_query` | the grid's commit dialog, CSV import, other batches and clients on the same rows | a cancel or a broken connection that meets COMMIT, locks in opposite orders, rollbacks that are never sent |
| Exports (`commands/export/`, `src/lib/tauri/export.ts`, the row streams of five drivers) | sessions with a temporary file each, the channel between adapter and writer, `query_tokens` | grid in one command, begin / chunk / finish / abort, text, schema dump | `cancel_query`, windows that close, the file system | a stop at any point, an error in any of several commands, files and tokens left behind, power loss around the rename |
| Local store `state.db` (`core/storage/local.rs`, `corrupt_recovery.rs`, `ssh_pins.rs`, `commands/sqlite_pool.rs`) | the file, its write-ahead log, the backups, the shared pool | `open_pool`: probe, open, health check, quarantine, retry | every persist command, the host-key lookups of SSH tunnels | a crash or an error between two renames, two callers at once, backup names that repeat |
| Mirror of the user's data in SQLite (`commands/persist_*.rs`, `core/storage/reconcile.rs`) | a file and a table per domain | dual write, reconciliation at boot | events, snapshot | one of two writes fails |
| First boot (`import_legacy.rs`, `guard.rs`, `snapshot.rs`) | import state in `state.db` | import, guard, snapshot | all persist commands | a crash inside the import |

Without state that outlives a call, or pure input and output, and therefore left
out: parsers, dialect adapters, import, history, Safe Mode, window management,
tab affinity, the SSH byte forwarding, the React presentation and `tvw`.
`PROJECT.json` gives the reason for each, and lists the hazards with their lines.

What makes each modelled component correct:

* **Connection**: whatever overlaps, no tunnel or ping loop is leaked, and no server
  session except by the `abort()` of a task that has one in its hands; the status tells
  what the registry holds; every command returns.
* **Master key**: no secret is ever sealed with a key that is stored nowhere; the key a
  save seals with opens what the store holds; a key that was exposed on disk opens
  nothing once discarded; a save is atomic.
* **Queries**: the registries hold nothing of a finished query; a recorded pid is that of
  the session which executes the statement in turn; the server does nothing for a run
  besides that statement and the rest of answers cut at the row cap; a stopped command
  returns.
* **Sub-pools**: cache, order of use and database in use agree; the cap holds; no
  pool stays open that nobody will close, except that of a switch which the disconnect
  overtook.
* **Batches**: all edits of a batch reach the table or none does, and the answer says
  which; a cancelled batch returns.
* **Exports**: the file shows its old content or one whole export, and the answer says
  which; a failed export leaves no temporary file and no token; a stopped one returns.
* **Local store**: no database of the user is replaced or thrown away by a recovery, and
  none is opened with the write-ahead log of another.

## 2. Modules and how they correspond to the code

For each component `X` there is a specification `X.tla`, an instance for TLC
`MCX.tla` (symmetry sets), configurations `X_*.cfg`, and `X_proofs.tla`, which
extends `X` and `TLAPS`. `PROJECT.json` maps each definition to the lines it
models. In every specification a definition named `BUG_...` is a plausible mistake
in the definition below it, which the model does not use: putting it in the place
of that definition makes the property violated that is meant to catch it.

**ConnLifecycle.** No operation reads another connection's entry, so one connection
id is modelled and each map of `AppState` is a variable. A process is a command
(`Calls`) or a keep-alive task (`Sessions`, which also name the SSH tunnel of the
same `connect`). A step runs from one point where another task can look to the
next: an await, a lock, or, for a task on another worker thread, a map access.
`abort()` drops a suspended task at once and marks a running one in `aborted`; the mark
takes effect at its next await. `open` holds the adapters that are connected and whose
`disconnect()` has not completed: one that is dropped with its task stays there, in
nobody's hands (`Leaked`), until the server notices (`ServerReaps`, external). The guard
is a mutex; the keep-alive loop writes `Error` without it, the key-value switch writes
`Connected` without it, and `reconnect_swap` takes it and holds it through either
`disconnect()`, at whose await an abort can cut it (`SwapCancelled`).

**KeyMigration.** Four durable variables (`keyring`, `disk`, `doc`, `bak`) and the
volatile state of the process. A secret is represented by the key that seals it, so
a document is a function from secret fields to keys. Each durable write is a step
of its own, the process can stop before any of them (`Stop`), and a removal may fail,
that of the backup as well. Which of the faults can happen is the world (`faults`) of a
behaviour, one of `Worlds`. `Load`, `Save` with its two renames, and the on-demand disk
key complete the boot paths.

**QueryCancel.** A *run* is what one query id stands for: a grid fetch, a statement of a
tab, or a script whose statements are sent one after another under one id. The command
passes registration, gates, the pinning of a session, the pid probe, the statement, and
the removal of its pid and token; the pid travels through a one-shot channel that
another future drains. A statement whose client left stays in `server` until the server
ends it. A statement of a tab whose answer was cut at the row cap is a success to the
command, and the session goes on with it in `unread`: the driver lends no session before
it has answered a ping, so it executes nothing else meanwhile, but the next statement of
the script may start in another one. The frontend part is the status, the stashed pid
and the Stop handler of the tab and of the grid, which differ in when they ask for the
pid.

**SubPools.** `switch_active_db` is two critical sections with a dial between them
and a `close()` after them; `Hit` and `Miss` are the first, `RaceResolved` and
`Install` the second. `close()` is two steps as in sqlx: it refuses new acquires at
once and returns when the lent sessions are back. Commands clone the current pool
and acquire from it. The two adapters share this logic line by line. A switch that was
dialling when the adapter was disconnected installs its pool all the same; such a pool is
`Leaked`, since nobody drains that cache again.

**TxnBatch.** What the six drivers share is written once, and a driver is a record of
what they differ in: what a statement waits for (a row, the file, nothing), whether the
token is looked at before the transaction is opened, whether a fired token drops the
work or interrupts it, whether a dry run exists, whether the connection is closed
afterwards and that may fail. Client and server are apart: `Commit` sends, the server
commits or refuses, and the answer arrives, is lost, or is no longer waited for. A
transaction whose client left may be `Reclaim`ed by a rollback; nothing says when. Other
clients delete rows (`Vanish`), and a row of a table without a key has a twin, so that a
statement may hit none or two.

**Export.** One command of the grid, the text or the dump is a chain of awaits; a session
is three commands with the window between them. A file is the number of its pieces
(preamble, rows, epilogue); a dump is produced by the adapter (`Ask`, `Send`) and
written by the command (`Drain`) with a bounded channel between. `Fsync` and `Rename`
are steps, and `PowerLoss` leaves of a file that was not synced any part.

**LocalStore.** A database is a number that it keeps when its file is renamed. The file
in place, its log, the backup names and their logs are variables; each rename, and the
creation of the empty file that reserves a name, is a step. The process may end
between any two (`Exit`), any rename and any check may fail, and two callers run
`open_pool` side by side: the `OnceCell` behind `get_or_init_pool`, and a host-key
lookup, which calls `open_pool` itself.

### What the components promise

Seven abstract specifications say in a page what the rest of the program may rely on,
and a detailed specification implements each under a refinement mapping:

| Abstract | Detailed | The promise |
|---|---|---|
| `ConnService` | `ConnLifecycle!ActsAsService` | connects and disconnects take effect one at a time; `Connected` and `Disconnected` are recorded only when true |
| `AtomicStore` | `KeyMigration!SavesAreAtomic` | what a load returns changes only when a save publishes all of its document |
| `ScriptRun` | `QueryCancel!RunsScripts` | a script waits for one statement at a time and sends them in order, the next after a success was reported, which is the end of the statement unless its answer was cut (`trailing`); a failure is told of none that is still there, a cancellation only after a Stop |
| `LruCache` | `SubPools!CachesLikeLru` | however many switches dial at once, the pools form a least-recently-used cache of `Cap` entries whose newest is the database in use |
| `AtomicBatch` | `TxnBatch!BatchesAreAtomic` | all edits or none, each of one row; success and failure are reported truthfully |
| `WholeFile` | `Export!ExportsReplaceWhole` | a file shows its old content or one whole export; the answer says which |
| `Archive` | `LocalStore!NothingThrownAway` | a damaged database makes room for a new one, and none is replaced or thrown away |

The components are checked apart: they share no variable, only the adapter
handle that one hands to the other. A query holds its adapter by a clone, so a
disconnect cannot take it away during a call; `QueryCancel` represents a missing
adapter as a fault, and `SubPools` has commands that outlive the pool they use.
`TxnBatch` and `Export` register and release their tokens in the same `query_tokens`;
ids are unique, so they do not meet there.

## 3. What is checked

Twelve runs. Those that pass (states are distinct states):

| Run | Instance | States | Shows |
|---|---|---|---|
| `conn_safety` | 2 commands, 3 keep-alive tasks, 4 adapters, SSH, key-value switch, a driver whose disconnect may fail | 530,013 | no session is leaked but by an abort, no tunnel, no ping loop (`OnlyAbortsLeak`, `NoLeakedTunnel`, `OnePingLoop`), `Disconnected` means empty maps, `Connecting` does not stick, a disconnect leaves nothing |
| `conn_liveness` | 2 commands, 2 tasks, 2 adapters, a SQL engine | 79,965 | commands return, superseded tasks end, `Connected` has a pool, a torn-down connection stays down; the whole implements `ConnService` |
| `keys` | 3 fields of which the migration covers 2, 6 keys, six worlds of faults in one run | 52,146 | no orphaned secret where the code promises it, discarded keys open nothing, sessions run on the right key, the key a save seals with opens what a load returns; the files implement `AtomicStore` |
| `queries` | a script of 2 statements and a grid, 2 sessions, every fault | 1,052,293 | clean registries, own pids, one statement in turn and nothing after a cut one in its session; a stopped command returns; implements `ScriptRun` |
| `sub_pools` | 3 databases, 2 switches, 1 command, cap 2 | 425,023 | the cap holds, the database in use is usable, no pool is leaked but by a switch that a disconnect overtook; implements `LruCache`; a switch waits for nothing but a statement on the pool it evicted |
| `batches` | 2 batches over 3 rows in opposite orders, 5 drivers | 426,265 | implements `AtomicBatch`; a cancelled batch returns |
| `export_files` | 2 exports of any sort to one file, a channel of 2, one power loss | 754,204 | implements `WholeFile`; nothing is left behind; a stopped export returns |
| `store_boots` | any number of boots, 3 databases, 3 backup names, 2 callers | 4,613,873 | implements `Archive`; a lone caller never meets a foreign log |

The worlds of `keys` are sets of faults that a behaviour fixes at its start: a keyring
that comes and goes, or one that stays, with failing writes and removals and crashes
inside a boot; a steady keyring with torn saves; a keyring that is reset between boots,
whole ones or cut short; all of it. The properties that hold only in some worlds name
them (`Steady`, `Orderly`, and the premise of `SecretsStored`).

Those that TLC refutes. Each states what a comment or a test of the repository says:

* `keys_ssh`: `NoOrphan` with an SSH secret. `SECRET_FIELDS` names two of the four
  fields that a save encrypts; a rekey leaves the others under the discarded key.
* `keys_window`: `NoOrphan` with a crash between the two renames of a save. The
  boot that rekeys sees no document, skips the backup, and drops the key it needs.
* `queries_script`: `StopTakesHold`. A Stop that finds no token, because it is early
  or falls between two statements of a script, is answered NotFound and forgotten;
  the next statement is sent.
* `queries_grid`: `NoPidNoStatement`. The grid fires the token before it asks for the
  pid; the command it releases removes the pid, so the scan is never cancelled.

### Seen while modelling

Behaviour of the code that the models show or leave room for, beside those four runs:

* An `abort()` leaks what #1100 says must not be leaked. `connection.rs:269-272` and
  `session.rs:113` say that an adapter dropped without `disconnect()` leaks its server
  session, and each displaced or fresh one is disconnected; but a keep-alive task that
  waits for the guard with the adapter it has dialled is aborted there by the
  `disconnect` or `connect` that holds the guard, and drops it. TLC refutes `Leaked = {}`
  with a ping that fails, a redial that succeeds, and a `disconnect` that takes the guard
  first. The second way is an abort at the await of the `disconnect()` in
  `reconnect_swap`. `OnlyAbortsLeak` says that there is no third.
* The row cap ends the reading and not the statement (`postgres/queries.rs:500-503`,
  `662-666`): `execute_query` answers Ok, and a script sends its next statement, in
  another session if the first is not yet drained. A statement that changes rows and
  returns many of them, a `WITH` with an `INSERT ... RETURNING`, can then overlap the next
  of its script. `OneStatementPerRun` and `ScriptRun` say what is left of the order.
* A switch that has dialled when `disconnect_pool` drains the adapter installs its pool
  into it (`postgres/connection.rs:294-331` does not look at the config again), where
  nobody closes it. `OnlyOvertakenSwitchesLeak` says that no other step leaks a pool.
* `SealsMatch` has a premise: TLC refutes it with a keyring that comes and goes, a read
  that fails or a torn save, and with a reset keyring when a boot may also be cut short or
  a `.key` may survive its deletion. The rekey that was put off then leaves secrets under
  one key while the session, or the `.key` that is left over, seals with another.
* A key-value database switch records `Connected` without the guard
  (`commands/kv.rs:60`, `commands/meta.rs:124`). With `KvSwitch = TRUE` TLC refutes
  `TornDownStaysDown`: `SELECT` is answered, a disconnect completes, and `Connected` is
  recorded for a connection without an adapter.
* Every SSH host-key lookup runs `open_pool`, recovery included (`ssh_pins.rs:13`),
  although `local.rs:122-124` says that the quarantine "runs once at boot". With two
  callers `NoForeignLog` fails without its premise and the shared pool may lose its file
  to a backup name; no database is lost. A probe that cannot read the file counts as
  damage.
* A program that ends between the rename of the log and that of the file leaves the file
  without its log; when the header is intact the next boot opens it so, and the changes
  of the log stay in the backup.
* A COMMIT whose answer is lost is an error to the backend (`commit failed`, in the model
  the answer `unsure`, of which `AtomicBatch` promises nothing), and the grid shows every
  error as "all changes rolled back" (`useRawQueryGridEdit.ts:408`), also when the server
  has committed; a CSV import that is retried then inserts its rows twice. Oracle reports
  an error of `close` after a successful COMMIT (`oracle/runtime.rs:324-327`).
* The `?` at `commands/rdb/query.rs:350` and `357` return with the token registered.
* MySQL commits at a DDL statement, also in a dry run that is said to roll back
  (`mysql/queries.rs:1001-1004`, `query.rs:540-548`); batches with DDL are not modelled.
* A window that closes in the middle of a chunked export leaves session, token and
  temporary file until the program ends. Schema dumps of the user interface pass no
  export id and cannot be stopped, a Stop ahead of the registration is lost, and each
  table of a dump takes the database that is active at that moment
  (`export/mod.rs:662`).
* `execute_query` probes the expected database and dispatches the statement in two
  awaits (`query.rs:208`), a limit that its comment records.

### Bounds and why they suffice

* Two commands and up to three keep-alive tasks: the hazards of the connection are a
  command against a command, a command against a task, and a superseded task against
  its successor's command. The third task and the fourth adapter let an aborted task lose its
  adapter while its successor dials one; the liveness run has two tasks and two adapters,
  one registered and one dialled, since when none is free a dial can only fail, which
  those properties allow for. `MaxRetries = 1` reaches both the retry and the give-up;
  the counter only decides between the two. The identities of adapters and sessions
  are reused once nobody refers to them, so histories are unbounded.
* Keys are reused likewise when nothing is sealed with them and nothing stores them.
  Six are one more than the files, the keyring and a session ever tell apart, so a boot
  that has to mint a key always finds a new one; a seventh adds no state up to
  symmetry (TLC finds the same 52,146 with seven). The boots and saves of a history are
  unbounded. Two covered fields give mixed documents, and the third, which the migration
  does not know, shows that what is promised of the covered ones does not depend on it.
* A script of two statements has a gap between statements and a last one; two
  sessions let one be lent to the other run while the first is being cancelled. A run
  is not restarted: a new query gets a new id.
* A cap of 2 with 3 databases and 2 switches makes both miss below the cap and
  install at it, and evict each other's database. Six pool identities are enough for
  two cached, two held by switches, and two draining or cloned; when none is free a
  dial can only fail.
* Two batches over two rows in opposite orders make the cycle of locks; the third row is
  the twin. The driver named `mysql` is not an instance of its own because its record
  differs from that of PostgreSQL in the name only. Each batch runs once: a retry is
  another batch.
* Two exports to one file make one replace the other's. Jobs are a grid, a session of two
  chunks, a text, a dump of one table of three batches, one more than the channel holds,
  on a driver that waits for the token too, and a dump of two tables, without an id, on
  one that does not.
  `MaxLosses = 1`: a second power loss meets the same states as the first.
* Three databases are the one that was there and the two that one call can create (its
  one retry), and with two callers each can quarantine the other's. Three names let
  three files be set aside. The boots, damages and ends of the program are unbounded. A
  call that needs a fourth database stops, as on a full disk. The second caller stands
  for any host-key lookup; one after another is unbounded.
* Deadlock is checked in `ConnLifecycle` and `KeyMigration`. Queries, batches and exports
  end, an adapter is not connected twice, and a store that needs a database beyond the
  bound stays, so the other five really stop.

### Fairness

Only what the code relies on. `ConnLifecycle`: an await on a driver ends, since
dials, pings and closes run under timeouts, so each command and task in progress is
weakly fair; tokio's mutex queues waiters in order, so a waiter is strongly fair.
No command is ever issued out of fairness. `QueryCancel`: a command that waits for a session
or whose token has fired is polled, and that is all; a statement may run for ever, the
server need not end one whose client left or whose rows are not read, and nobody need
press Stop. `SubPools`: a switch that can go on is
polled, a dial succeeds or fails; a command need never return its session, which is
why `SwitchReturns` has its exception: `switch_active_db` does hang while the pool it
evicted runs a statement, although the database in use has changed. `TxnBatch`: a woken
task is polled and a command that has its outcome returns; the server owes nothing, no
answer to a statement or a COMMIT and no rollback of what a dropped command left, and rows
may stay locked, so `CancelledBatchReturns` rests on the token alone. `Export`: the tasks
of a command are polled and a window that is open makes the next call of its session; the
server owes no rows, nothing has to fail and nobody has to press Stop, which
`StoppedExportReturns` takes as its premise; a `select!` whose token has fired takes that
arm before it has served the other one for ever, since a stream is finite
(`WF_vars(Interrupt(e))`). `LocalStore` states no liveness and assumes no
fairness.

## 4. What is proved

TLAPS proves the following for every value of the constants that satisfies the named
assumption of the module, which asks only that the null values are not identities,
and of numbers that they are numbers of the sort the code has. `SubPools` asks for a
finite set of databases and a cap of at least two (the code has 8): with a cap of one
the only cached database is the protected one, and the cache would overflow.

A checked invariant is not inductive by itself; each proof strengthens it in layers,
one lemma per layer with one step per action, and the last step of each theorem is
temporal. Each property of a passing run is stated by a theorem; the hypotheses of a
theorem are in its statement or in that of the property.

### Safety

* **ConnLifecycle_proofs.** `Typing` adds that a connect under way has its session and
  that a live task has not failed too often. `Registry` adds who holds the guard
  (`Owner`), what the maps hold at each point of a disconnect (`Cleared`) and of a
  connect (`Raising`): from it follow `DisconnectedIsClean`, `AdapterHasHandle`,
  `SinglePingLoop`, `ConnectingEnds`, and `GuardNeverStranded`: wherever a task is
  aborted, the guard is held by a process that is using it and by one at a time.
  `Tunnels` names the owner of each tunnel: `TunnelsOwned`, `DisconnectCleansUp`.
  `Adopted` names the one owner of each adapter in somebody's hands, and that it is
  open; an adapter then leaves its owner's hands by a `disconnect()` or by an abort:
  `NoOtherLeak`. `PoolBehindStatus` gives `ConnectedIsUsable`, under the hypotheses
  `~KvSwitch` and `~CloseCanFail`, and `TornDownStays` needs `~KvSwitch`: without them
  TLC refutes both. `OnlyAnEarlierSwitchRevives` says what remains on a key-value
  engine: the one step that can turn `Disconnected` into `Connected` is the record of a
  switch that was sent before the disconnect. `ImplementsService`, under `~KvSwitch`,
  takes each step to one step of `ConnService` or a stutter, with `PoolHeld`: the
  registered pool is one of the pools. `LiveHasHandle` is proved and not a run's
  property, since the tasks' other invariants rest on it.
* **KeyMigration_proofs.** `Typing`, with the anchor a rekey holds; `Retiring`, that the document
  is under the keyring's key before the other is touched, which gives
  `RetiredKeyIsDead` under any faults. `Preserved`: all that a load or save can
  turn the files into has its covered secrets under stored keys (`Kept`), and a session
  seals with such a key. With `OneSeal`, below, they give
  `SecretsSurvive`: every secret in steady executions, also under torn saves, and every
  secret that the migration covers where boots are cut short and any call fails, as
  long as saves are not torn and no keyring is reset. Neither restriction can go:
  `keys_ssh` has a secret that is not covered, `keys_window` a torn save. `OneKey`:
  where no boot is cut short and no removal fails, `.key` and keyring entry exist together
  only while one is migrated into the other, and a session runs on the key there is;
  `OneSeal`: in steady executions nothing is sealed with any other. `SessionsOpen`
  rests on both. `SavesKeepOneKey` is `SealsMatch`, by a separate invariant for each half of
  its premise: `Matched` where boots may be cut short, `Opened` where the keyring may be
  reset. `FilesImplementStore` (with `Shaped`: only a
  document that holds connections holds secrets, and the backup goes only while there is
  a document) shows that the document and its backup act as one store.
* **QueryCancel_proofs.** `Held`: a session is held by the one command that is in the adapter
  with it. `Left`: a statement on the server belongs to that holder or was left behind
  by a run that sends no other, and a session with an answer nobody reads is held by none
  and executes nothing else. `Recorded`: a pid, in the channel or in the registry,
  is that of the session held or left. `Registered`: which tokens may remain. They
  give `IdsAreReleased`, `PidsAreOwn`, `StatementsOneByOne`. With `Pressed` (a token has
  fired, or a statement was taken from under its command, only after a Stop) they give
  `ScriptsRunInOrder`, the refinement of `ScriptRun`. `StopInTimeEndsTheScript` is what does hold
  of a Stop where `queries_script` refutes the promise of the comment: once the token of a
  command has fired in the adapter, the run sends no later statement (`Ending`).
* **SubPools_proofs.** Lemmas about the order of use (what `Without`, `Used` and
  `Target` return for any sequence of distinct names) come first. `Owned`: who holds
  which pool, that a pool being closed is nobody else's, and that an open pool is cached,
  held by its switch or drained (`Accounted`). `Blank`: nothing before
  the connect, nothing draining before the disconnect. `Ordered`: the order matches
  the cache, which bounds it. They give `OrderMatchesCache`, `CapHolds`,
  `DatabaseInUseIsUsable`, `InUseIsNotEvicted`, `PoolsAreOwned` (of the steps that open,
  move or drop a pool only the install of an overtaken switch leaks one), and
  `SubPoolsAreAnLruCache`: the two critical sections of each switch, with any other steps
  between them, are one step of `LruCache` or none.
* **TxnBatch_proofs.** `Typed` and `Concluded`: what an answer says of the transaction.
  `Locks`: which transaction holds which row, on drivers that lock rows, the file or
  nothing; of it `NoDirtyWrites` is a part. `Course`: what the command knows of its
  transaction. `Covered`: a transaction on its way to COMMIT has written the rows of all its
  statements, each once. They give `BatchesImplementAtomic`, for every driver, any batches,
  rows and plans. Two consequences are proved of `AtomicBatch` alone and carried over by the
  refinement: `BatchesDoNotMix` (`Ledger`: of two batches that edit the same two rows the table
  never shows one in the first and the other in the second) and `AnswersAreFinal` (a
  batch whose failure was answered shows in no row, then or ever).
* **Export_proofs.** `Sizes`: how many pieces a place has written. `Tidied`: what is still
  held there. `Results`: the verdict against the place. `Named`: a target names an export
  that succeeded, whose file is whole and synced. They give `NothingLeft`,
  `ExportsKeepPromise`, `TargetsAreWhole` (after every step, power losses included) and,
  from `WholeFile`, `DroppedNeverShows`.
* **LocalStore_proofs.** `Typed`. `Claimed`: a name that a quarantine took is reserved by
  its empty file and nobody else's, which is what keeps a rename from replacing a
  database. `Numbered`: a created database is none of the old ones. `Alone`: what a lone
  caller finds at each point. They give `LogsStayWithTheirFile` and
  `StoreImplementsArchive`, and, with any number of callers, `EveryDatabaseIsSomewhere` (in
  `state.db` or under one backup name, and under one only) and `BackupsAreFinal`. For a lone
  caller `RewindOverwritesNothing`: the way back of a failed quarantine, which renames
  without looking, finds the place of the log empty.

### Liveness

The six liveness properties are proved in the form

    FairSpec /\ []GuardsSuffice => Property

Weak and strong fairness are the real ones; `tlapm` cannot look into `ENABLED`, so
`GuardsSuffice`, in each of the five modules, states the one thing the proof needs of it: an
action of that component can be taken, and changes something, in a state in which its
guard holds. That is a fact about the model and about no scheduling: it holds of every
type-correct state by the form of the actions, which are conjunctions of guards and
assignments. TLC evaluates `ENABLED`: with `GuardsSuffice` as an invariant of a module that
extends `MCX` and `X_proofs` it finds no exception in any reachable state of the
instances of `conn_liveness`, `queries`, `sub_pools`, `batches` and `export_files`. TLC checks
the properties themselves, on those instances, without the premise.

What the proofs add to the runs is the argument why each wait ends, for any number of
processes, statements, rows and databases. Each is a rank: a number, bounded by a constant,
of the steps that are left, which the component's own steps lower and nobody else raises.
No induction over data is used, and where the code's loops are as long as the data the
argument says why they end early.

* `EveryCommandReturns` (`CommandsReturn`). A command with the guard is at most six awaits
  from its return (`Todo`). The guard itself comes free: whoever holds it (`Owner`) is such a
  command or a swap, and under strong fairness a waiter is served although others
  keep asking.
* `EverySupersededTaskEnds` (`SupersededTaskEnds`). A task that lost its place is marked
  (`OustedIsAborted`, with `AbortedRuns`: the mark stays only on a task between two awaits)
  and reaches its next await in at most three steps (`Steps`).
* `FiredCommandsReturn`. A fired command may still pin a session, start its statement and
  have its pid recorded, each once (`Ahead`); then only the cancelled arm is left to it.
* `SwitchesReturn`. A switch waits for its dial, which ends, and for the statement on the
  pool it evicted, which is the exception that the property names.
* `CancelledBatchesReturn`. On drivers that drop their work a fired token is enough,
  although the server answers nothing.
* `StoppedExportsReturn`. A stopped export enters no further table and no place twice
  (`Ahead`, with `Streamed`: only a dump has tables), thirteen places at most, however many
  rows and tables it has.

Only model-checked is what `GuardsSuffice` states. No module has a recursive operator.

## 5. What the models leave out

* ConnLifecycle: the emitted status events, the length of sleeps, and the CRUD
  commands that touch no registry map.
* KeyMigration: the quarantine of a corrupt document, groups, the write-only sentinel
  file, the content of ciphertexts (AES-GCM is what makes "opens" a relation between
  keys), two processes at once (the application is single-instance).
* QueryCancel: explain commands, which have the same token life cycle and no pid; the
  Mongo comment tag; MySQL's text of an interruption; the check of the expected database
  is a fault, because its race with a switch is a documented limit of the code.
* SubPools: a reconnect of the same adapter, which the code never does, the limit of
  sessions per pool (in `QueryCancel`), TLS and connect options, `test()`, `ping` and the
  short-lived pool of the native cancel, the MySQL version that is read at the connect.
* TxnBatch: DDL, the read-only batches of SQLite, the gates ahead of the command, the
  values written, and when the rows of a dropped transaction are unlocked: its rollback is
  best effort in the code (`postgres/queries.rs:847`), and the rest is up to driver and
  server.
* Export: content, formats and quoting; the collision of temporary names, which hold the
  process id and the nanoseconds; errors of `remove_file`, which the code ignores; the
  sync of the directory (a rename is durable); panics of blocking tasks.
* LocalStore: what the tables hold; the `-shm` file, which SQLite rebuilds and which moves
  with the log; the order in which names are tried (any free one); file modes; the flag
  behind the recovery toast.

### Not modelled

* **Cross-window events and the status in each window.** Read and given up: a receiver that
  registers no `onGapDetected` (settings, theme) never repairs a lost event, an own echo
  raises `lastApplied` unseen (`stateChanged.ts:238`), a snapshot of version 0 drops
  what was buffered, and refetches may be answered out of order. The code promises no
  last state that a model could hold it to, and a model of what it does would only
  restate it.
* **Dual writes and their reconciliation.** `persist_connection` and
  `reconcile_pending_domains`, the two halves whose interplay matters, have no caller in
  the program.
* **Import, history, first boot.** One SQL transaction each.
* **Adapters, parsers, Safe Mode, tvw.** The bulk of the source: some hundred thousand
  lines that translate one request into the dialect of a driver, or parse text, without
  state that outlives the call, each covered by unit tests on its inputs. A model of them
  would be a transliteration. The map therefore covers a small share of all lines: those in
  which several actors share state or a failure can fall between two steps.
* **Windows.** Calls into the window system, whose state is not the program's.

## 6. Plan

Done: the seven components above, in the order of what a failure costs the user, each
with its abstract promise where it has one. What would come next:

1. `QueryCancel` with `SubPools`: a switch between the probe of the expected database and
   the dispatch, and between two tables of a dump. The code promises nothing there yet;
   the model is worth its states once it does.
2. `ConnLifecycle` with two connection ids and the delete of a profile while it is
   connected, and the shared pool and the SSH lookup of `LocalStore` as part of a
   connect.
3. A query that holds its adapter by a clone while the connection is replaced, as one
   model: the two parts are proved apart, and what they share is the handle alone.

## 7. Running

    tlc -workers 2 -config SubPools_switches.cfg MCSubPools
    tlapm SubPools_proofs.tla

Each run takes at most about three minutes on two cores, each proof module a few
minutes.
