---------------------------- MODULE ConnLifecycle ----------------------------
(***************************************************************************)
(* The life of ONE saved connection in the backend: the `connect` and      *)
(* `disconnect` commands, the key-value database switch, and the           *)
(* keep-alive tasks that `connect` spawns, over the registry maps of       *)
(* `AppState` (active_connections, keep_alive_handles, ssh_tunnels,        *)
(* connection_status and connection_guards).  All of these maps are keyed  *)
(* by connection id and no operation reads another id's entry, so one id   *)
(* is modelled and each map is the entry of that id, `Nobody` when absent. *)
(*                                                                         *)
(* A process is a command invocation (Calls) or a keep-alive task          *)
(* (Sessions).  A step is what runs between two points where another task  *)
(* can observe the state; a program counter names the await or the piece   *)
(* of running code the process is at.  `abort()` on a tokio task drops it  *)
(* at once when it is suspended, and at its next suspension when another   *)
(* worker thread is running it: `aborted` holds the tasks of the second    *)
(* kind.                                                                   *)
(*                                                                         *)
(* A definition named BUG_... is a plausible mistake in the definition     *)
(* that follows it; the model does not use it.                             *)
(***************************************************************************)
EXTENDS Naturals

CONSTANTS
  Calls,         \* command invocations that may be in flight together
  Sessions,      \* what one `connect` creates: an SSH tunnel and a keep-alive task
  Adapters,      \* driver instances (one `make_adapter` result each)
  Nobody,        \* no process, no session, no adapter
  MaxRetries,    \* `max_retries` of keep_alive_loop (3 in the code)
  SshEnabled,    \* the saved config asks for an SSH tunnel
  KvSwitch,      \* the engine is Redis or Valkey, whose database can be switched
  CloseCanFail   \* the engine's `disconnect()` can return Err (Oracle)

ASSUME ConnAssumption ==
  /\ Nobody \notin Calls \cup Sessions \cup Adapters
  /\ Calls \cap Sessions = {}
  /\ MaxRetries \in Nat
  /\ {SshEnabled, KvSwitch, CloseCanFail} \subseteq BOOLEAN

VARIABLES
  guard,      \* holder of the connection_guard of this id
  adapter,    \* active_connections entry
  handle,     \* keep_alive_handles entry (the task, by its session)
  tunnel,     \* ssh_tunnels entry
  status,     \* connection_status entry, "Absent" before the first write
  open,       \* adapters that were connected and whose disconnect() has not completed
  listening,  \* sessions whose SSH tunnel is up
  pc,         \* where each process is
  sess,       \* the session a connect call is building
  taken,      \* the predecessor tunnel a connect call took out of the map
  new,        \* adapter a process dialled and has not installed
  old,        \* adapter a process took out of the map and is disconnecting
  aborted,    \* running keep-alive tasks whose abort() is pending
  failures    \* consecutive_failures of each keep-alive task

maps == <<adapter, handle, tunnel>>
vars == <<guard, adapter, handle, tunnel, status, open, listening, pc, sess,
          taken, new, old, aborted, failures>>

Procs == Calls \cup Sessions

Statuses == {"Absent", "Connecting", "Connected", "Disconnected", "Error"}

\* A connect call that holds the guard, from `Connecting` to its return.
ConnectPcs == {"tunnel", "dial", "spawn", "install", "retire", "publish"}
\* A disconnect call that holds the guard.
DisconnectPcs == {"close", "settle"}
CallPcs == {"idle", "connectWait", "disconnectWait", "select", "record"}
             \cup ConnectPcs \cup DisconnectPcs

\* A keep-alive task at an await, where abort() drops it on the spot.
Suspended == {"sleep", "ping", "backoff", "swapWait"}
\* A keep-alive task between two awaits, on some worker thread; "displace" and
\* "discard" are the awaits of a disconnect() in reconnect_swap, reached only
\* with the guard held.
Running == {"lost", "emitLost", "failed", "emitFailed", "dialed", "displace",
            "discard", "emitConnected"}
TaskPcs == {"off"} \cup Suspended \cup Running

TypeOK ==
  /\ guard \in Procs \cup {Nobody}
  /\ adapter \in Adapters \cup {Nobody}
  /\ handle \in Sessions \cup {Nobody}
  /\ tunnel \in Sessions \cup {Nobody}
  /\ status \in Statuses
  /\ open \subseteq Adapters
  /\ listening \subseteq Sessions
  /\ pc \in [Procs -> CallPcs \cup TaskPcs]
  /\ \A c \in Calls : pc[c] \in CallPcs
  /\ \A s \in Sessions : pc[s] \in TaskPcs
  /\ sess \in [Calls -> Sessions \cup {Nobody}]
  /\ taken \in [Calls -> Sessions \cup {Nobody}]
  /\ new \in [Procs -> Adapters \cup {Nobody}]
  /\ old \in [Procs -> Adapters \cup {Nobody}]
  /\ aborted \subseteq Sessions
  /\ failures \in [Sessions -> 0..(MaxRetries + 1)]

Init ==
  /\ guard = Nobody
  /\ adapter = Nobody /\ handle = Nobody /\ tunnel = Nobody
  /\ status = "Absent"
  /\ open = {} /\ listening = {}
  /\ pc = [p \in Procs |-> IF p \in Calls THEN "idle" ELSE "off"]
  /\ sess = [c \in Calls |-> Nobody]
  /\ taken = [c \in Calls |-> Nobody]
  /\ new = [p \in Procs |-> Nobody]
  /\ old = [p \in Procs |-> Nobody]
  /\ aborted = {}
  /\ failures = [s \in Sessions |-> 0]

-----------------------------------------------------------------------------
(* Helpers *)

Goto(p, label) == pc' = [pc EXCEPT ![p] = label]

\* The adapters that are registered or in a process' hands.
Held ==
  ({adapter} \cup {new[p] : p \in Procs} \cup {old[p] : p \in Procs}) \ {Nobody}

\* A connected adapter that was dropped without a disconnect() and that nobody
\* can disconnect any more.
Leaked == open \ Held

\* Identities nothing refers to any more; a new adapter or session takes one.
FreshAdapters == Adapters \ (open \cup Held)
FreshSessions ==
  {s \in Sessions : /\ pc[s] = "off"
                    /\ s \notin listening \cup {handle, tunnel}
                    /\ \A c \in Calls : s \notin {sess[c], taken[c]}}

\* The task whose handle leaves the map is aborted.
BUG_DetachesTask == {}
Abortees == {handle}

\* The effect of abort(): a suspended task is dropped together with the adapter
\* it dialled, on which nobody calls disconnect(); a running one is only marked.
AbortDrops == Abortees \cap {s \in Sessions : pc[s] \in Suspended}
AbortMarks == Abortees \cap {s \in Sessions : pc[s] \in Running}
\* What the registered task and the aborting call `c` look like afterwards.
AbortTask(c, label) ==
  /\ pc' = [p \in Procs |-> CASE p = c -> label
                              [] p \in AbortDrops -> "off"
                              [] OTHER -> pc[p]]
  /\ new' = [p \in Procs |-> IF p \in AbortDrops THEN Nobody ELSE new[p]]

\* `p` puts adapter `a` (or nothing) into the map and keeps what it displaces...
BUG_ForgetDisplaced(p, a) == adapter' = a /\ UNCHANGED old
Displace(p, a) ==
  /\ adapter' = a
  /\ old' = [old EXCEPT ![p] = adapter]

\* ... to disconnect it later.
BUG_HangUpUnderGuard(p) ==
  /\ guard = Nobody
  /\ open' = open \ {old[p]}
  /\ old' = [old EXCEPT ![p] = Nobody]
HangUp(p) ==
  /\ open' = open \ {old[p]}
  /\ old' = [old EXCEPT ![p] = Nobody]

\* A running task reaches its next await: there a pending abort ends it.
Suspend(s, label) ==
  /\ Goto(s, IF s \in aborted THEN "off" ELSE label)
  /\ aborted' = aborted \ {s}

-----------------------------------------------------------------------------
(* connect *)

ConnectCall(c) ==
  /\ pc[c] = "idle"
  /\ Goto(c, "connectWait")
  /\ UNCHANGED <<guard, maps, status, open, listening, sess, taken, new, old, aborted, failures>>

\* The guard is taken, the config does not load or has no such id, and the
\* call returns before it has written a status.
ConnectRejected(c) ==
  /\ pc[c] = "connectWait" /\ guard = Nobody
  /\ Goto(c, "idle")
  /\ UNCHANGED <<guard, maps, status, open, listening, sess, taken, new, old, aborted, failures>>

ConnectBegin(c) ==
  /\ pc[c] = "connectWait" /\ guard = Nobody
  /\ guard' = c
  /\ status' = "Connecting"
  /\ \E s \in FreshSessions : sess' = [sess EXCEPT ![c] = s]
  /\ Goto(c, IF SshEnabled THEN "tunnel" ELSE "dial")
  /\ UNCHANGED <<maps, open, listening, taken, new, old, aborted, failures>>

TunnelOpened(c) ==
  /\ pc[c] = "tunnel"
  /\ listening' = listening \cup {sess[c]}
  /\ Goto(c, "dial")
  /\ UNCHANGED <<guard, maps, status, open, sess, taken, new, old, aborted, failures>>

BUG_ConnectFailedEarly(c) ==
  /\ pc[c] \in {"tunnel", "dial"}
  /\ listening' = listening \ {sess[c]}
  /\ guard' = Nobody
  /\ sess' = [sess EXCEPT ![c] = Nobody]
  /\ Goto(c, "idle")
  /\ UNCHANGED <<maps, status, open, taken, new, old, aborted, failures>>

\* The tunnel, the factory or the driver refuses: close what was opened,
\* record Error, return.  A predecessor connection stays installed.
ConnectFailed(c) ==
  /\ pc[c] \in {"tunnel", "dial"}
  /\ listening' = listening \ {sess[c]}
  /\ status' = "Error"
  /\ guard' = Nobody
  /\ sess' = [sess EXCEPT ![c] = Nobody]
  /\ Goto(c, "idle")
  /\ UNCHANGED <<maps, open, taken, new, old, aborted, failures>>

DialOk(c) ==
  /\ pc[c] = "dial"
  /\ \E a \in FreshAdapters : /\ new' = [new EXCEPT ![c] = a]
                              /\ open' = open \cup {a}
  /\ Goto(c, "spawn")
  /\ UNCHANGED <<guard, maps, status, listening, sess, taken, old, aborted, failures>>

\* Spawn the keep-alive task, swap it into keep_alive_handles, abort the
\* task it displaces.
InstallHandle(c) ==
  /\ pc[c] = "spawn"
  /\ pc' = [p \in Procs |-> CASE p = c -> "install"
                              [] p = sess[c] -> "sleep"
                              [] p \in AbortDrops -> "off"
                              [] OTHER -> pc[p]]
  /\ new' = [p \in Procs |-> IF p \in AbortDrops THEN Nobody ELSE new[p]]
  /\ aborted' = (aborted \cup AbortMarks) \ {sess[c]}
  /\ failures' = [failures EXCEPT ![sess[c]] = 0]
  /\ handle' = sess[c]
  /\ UNCHANGED <<guard, adapter, tunnel, status, open, listening, sess, taken, old>>

BUG_LeaveTunnel(c) == UNCHANGED <<taken, tunnel>>
TakeTunnel(c) ==
  /\ taken' = [taken EXCEPT ![c] = tunnel]
  /\ tunnel' = Nobody

InstallAdapter(c) ==
  /\ pc[c] = "install"
  /\ TakeTunnel(c)
  /\ Displace(c, new[c])
  /\ new' = [new EXCEPT ![c] = Nobody]
  /\ Goto(c, "retire")
  /\ UNCHANGED <<guard, handle, status, open, listening, sess, aborted, failures>>

\* Disconnect the predecessor (a failure is only logged), close its tunnel,
\* register the new one.
RetirePredecessor(c) ==
  /\ pc[c] = "retire"
  /\ HangUp(c)
  /\ listening' = listening \ {taken[c]}
  /\ taken' = [taken EXCEPT ![c] = Nobody]
  /\ tunnel' = IF SshEnabled THEN sess[c] ELSE tunnel
  /\ Goto(c, "publish")
  /\ UNCHANGED <<guard, adapter, handle, status, sess, new, aborted, failures>>

ConnectDone(c) ==
  /\ pc[c] = "publish"
  /\ status' = "Connected"
  /\ guard' = Nobody
  /\ sess' = [sess EXCEPT ![c] = Nobody]
  /\ Goto(c, "idle")
  /\ UNCHANGED <<maps, open, listening, taken, new, old, aborted, failures>>

-----------------------------------------------------------------------------
(* disconnect *)

DisconnectCall(c) ==
  /\ pc[c] = "idle"
  /\ Goto(c, "disconnectWait")
  /\ UNCHANGED <<guard, maps, status, open, listening, sess, taken, new, old, aborted, failures>>

\* Take the handle out and abort it, then take the adapter out.
DisconnectBegin(c) ==
  /\ pc[c] = "disconnectWait" /\ guard = Nobody
  /\ guard' = c
  /\ AbortTask(c, "close")
  /\ aborted' = aborted \cup AbortMarks
  /\ handle' = Nobody
  /\ Displace(c, Nobody)
  /\ UNCHANGED <<tunnel, status, open, listening, sess, taken, failures>>

BUG_KeepTunnelEntry(c) ==
  /\ HangUp(c)
  /\ listening' = listening \ {tunnel}
  /\ UNCHANGED tunnel
CloseAdapter(c) ==
  /\ HangUp(c)
  /\ listening' = listening \ {tunnel}
  /\ tunnel' = Nobody

CloseOk(c) ==
  /\ pc[c] = "close"
  /\ CloseAdapter(c)
  /\ Goto(c, "settle")
  /\ UNCHANGED <<guard, adapter, handle, status, sess, taken, new, aborted, failures>>

BUG_CloseFailedEarly(c) ==
  /\ pc[c] = "close" /\ CloseCanFail /\ old[c] # Nobody
  /\ HangUp(c)
  /\ guard' = Nobody
  /\ Goto(c, "idle")
  /\ UNCHANGED <<maps, listening, status, sess, taken, new, aborted, failures>>

\* The driver reports an error: the tunnel is still closed, and the command
\* returns the error without recording Disconnected.
CloseFailed(c) ==
  /\ pc[c] = "close" /\ CloseCanFail /\ old[c] # Nobody
  /\ CloseAdapter(c)
  /\ guard' = Nobody
  /\ Goto(c, "idle")
  /\ UNCHANGED <<adapter, handle, status, sess, taken, new, aborted, failures>>

BUG_DisconnectDoneSilently(c) ==
  /\ pc[c] = "settle"
  /\ guard' = Nobody
  /\ Goto(c, "idle")
  /\ UNCHANGED <<maps, status, open, listening, sess, taken, new, old, aborted, failures>>

DisconnectDone(c) ==
  /\ pc[c] = "settle"
  /\ status' = "Disconnected"
  /\ guard' = Nobody
  /\ Goto(c, "idle")
  /\ UNCHANGED <<maps, open, listening, sess, taken, new, old, aborted, failures>>

-----------------------------------------------------------------------------
(* switch_kv_database, and the Kv arm of switch_active_db: resolve the       *)
(* adapter, await SELECT, then record Connected.  No guard is taken.         *)

SwitchCall(c) ==
  /\ pc[c] = "idle" /\ KvSwitch /\ adapter # Nobody
  /\ Goto(c, "select")
  /\ UNCHANGED <<guard, maps, status, open, listening, sess, taken, new, old, aborted, failures>>

SwitchReply(c) ==
  /\ pc[c] = "select"
  /\ \/ Goto(c, "record")
     \/ Goto(c, "idle")
  /\ UNCHANGED <<guard, maps, status, open, listening, sess, taken, new, old, aborted, failures>>

SwitchRecord(c) ==
  /\ pc[c] = "record"
  /\ status' = "Connected"
  /\ Goto(c, "idle")
  /\ UNCHANGED <<guard, maps, open, listening, sess, taken, new, old, aborted, failures>>

-----------------------------------------------------------------------------
(* keep_alive_loop and reconnect_swap *)

Wake(s) ==
  /\ pc[s] = "sleep"
  /\ Goto(s, IF adapter = Nobody THEN "off" ELSE "ping")
  /\ UNCHANGED <<guard, maps, status, open, listening, sess, taken, new, old, aborted, failures>>

PingOk(s) ==
  /\ pc[s] = "ping"
  /\ failures' = [failures EXCEPT ![s] = 0]
  /\ Goto(s, "sleep")
  /\ UNCHANGED <<guard, maps, status, open, listening, sess, taken, new, old, aborted>>

PingFailed(s) ==
  /\ pc[s] = "ping"
  /\ Goto(s, "lost")
  /\ UNCHANGED <<guard, maps, status, open, listening, sess, taken, new, old, aborted, failures>>

\* The Error write takes no guard.
MarkLost(s) ==
  /\ pc[s] = "lost"
  /\ status' = "Error"
  /\ Goto(s, "emitLost")
  /\ UNCHANGED <<guard, maps, open, listening, sess, taken, new, old, aborted, failures>>

BUG_GivesUpLate(n) == n > MaxRetries + 1
GivesUp(n) == n > MaxRetries

\* Emit, count the failure, and back off or give up.
EmitLost(s) ==
  /\ pc[s] = "emitLost"
  /\ failures' = [failures EXCEPT ![s] = @ + 1]
  /\ Suspend(s, IF GivesUp(failures[s] + 1) THEN "off" ELSE "backoff")
  /\ UNCHANGED <<guard, maps, status, open, listening, sess, taken, new, old>>

\* The reconnect dials the rewritten config, through its own session's tunnel.
RedialOk(s) ==
  /\ pc[s] = "backoff"
  /\ SshEnabled => s \in listening
  /\ \E a \in FreshAdapters : /\ new' = [new EXCEPT ![s] = a]
                              /\ open' = open \cup {a}
  /\ Goto(s, "dialed")
  /\ UNCHANGED <<guard, maps, status, listening, sess, taken, old, aborted, failures>>

RedialFailed(s) ==
  /\ pc[s] = "backoff"
  /\ Goto(s, "failed")
  /\ UNCHANGED <<guard, maps, status, open, listening, sess, taken, new, old, aborted, failures>>

MarkFailed(s) ==
  /\ pc[s] = "failed"
  /\ status' = "Error"
  /\ Goto(s, "emitFailed")
  /\ UNCHANGED <<guard, maps, open, listening, sess, taken, new, old, aborted, failures>>

EmitFailed(s) ==
  /\ pc[s] = "emitFailed"
  /\ Suspend(s, "sleep")
  /\ UNCHANGED <<guard, maps, status, open, listening, sess, taken, new, old, failures>>

\* The guard is held by someone else: the task suspends, and a pending abort
\* drops it together with the adapter it dialled, which stays connected.
SwapBlocked(s) ==
  /\ pc[s] = "dialed" /\ guard # Nobody
  /\ Suspend(s, "swapWait")
  /\ new' = IF s \in aborted THEN [new EXCEPT ![s] = Nobody] ELSE new
  /\ UNCHANGED <<guard, maps, status, open, listening, sess, taken, old, failures>>

\* reconnect_swap takes the absence of a handle for a teardown.
BUG_NeverTornDown == FALSE
TornDown == handle = Nobody

\* A disconnect has torn the connection down meanwhile: the fresh adapter is
\* disconnected under the guard...
SwapAbandoned(s) ==
  /\ pc[s] \in {"dialed", "swapWait"} /\ guard = Nobody
  /\ TornDown
  /\ guard' = s
  /\ Goto(s, "discard")
  /\ UNCHANGED <<maps, status, open, listening, sess, taken, new, old, aborted, failures>>

\* ... and the loop ends.
SwapDiscarded(s) ==
  /\ pc[s] = "discard"
  /\ open' = open \ {new[s]}
  /\ new' = [new EXCEPT ![s] = Nobody]
  /\ guard' = Nobody
  /\ aborted' = aborted \ {s}
  /\ Goto(s, "off")
  /\ UNCHANGED <<maps, status, listening, sess, taken, old, failures>>

SwapInstalled(s) ==
  /\ pc[s] \in {"dialed", "swapWait"} /\ guard = Nobody
  /\ ~TornDown
  /\ guard' = s
  /\ Displace(s, new[s])
  /\ new' = [new EXCEPT ![s] = Nobody]
  /\ Goto(s, "displace")
  /\ UNCHANGED <<handle, tunnel, status, open, listening, sess, taken, aborted, failures>>

\* The displaced adapter is disconnected, Connected is recorded, and the guard
\* is released; the event is emitted only after that.
SwapDone(s) ==
  /\ pc[s] = "displace"
  /\ HangUp(s)
  /\ status' = "Connected"
  /\ guard' = Nobody
  /\ Goto(s, "emitConnected")
  /\ UNCHANGED <<maps, listening, sess, taken, new, aborted, failures>>

\* A task aborted before it took the guard is dropped at the await of either
\* disconnect(), which is cut short, and before it records a status.
SwapCancelled(s) ==
  /\ pc[s] \in {"displace", "discard"} /\ s \in aborted
  /\ new' = [new EXCEPT ![s] = Nobody]
  /\ old' = [old EXCEPT ![s] = Nobody]
  /\ guard' = Nobody
  /\ aborted' = aborted \ {s}
  /\ Goto(s, "off")
  /\ UNCHANGED <<maps, status, open, listening, sess, taken, failures>>

EmitConnected(s) ==
  /\ pc[s] = "emitConnected"
  /\ failures' = [failures EXCEPT ![s] = 0]
  /\ Suspend(s, "sleep")
  /\ UNCHANGED <<guard, maps, status, open, listening, sess, taken, new, old>>

-----------------------------------------------------------------------------
(* The server (external) *)

\* The server notices that the sockets of a dropped adapter are gone and ends
\* its session; when it does is nothing the code controls.
ServerReaps(a) ==
  /\ a \in Leaked
  /\ open' = open \ {a}
  /\ UNCHANGED <<guard, maps, status, listening, pc, sess, taken, new, old, aborted, failures>>

-----------------------------------------------------------------------------

Request(c) == ConnectCall(c) \/ DisconnectCall(c) \/ SwitchCall(c)
ConnectEnter(c) == ConnectRejected(c) \/ ConnectBegin(c)
ConnectStep(c) ==
  \/ TunnelOpened(c) \/ ConnectFailed(c) \/ DialOk(c) \/ InstallHandle(c)
  \/ InstallAdapter(c) \/ RetirePredecessor(c) \/ ConnectDone(c)
DisconnectStep(c) == CloseOk(c) \/ CloseFailed(c) \/ DisconnectDone(c)
SwitchStep(c) == SwitchReply(c) \/ SwitchRecord(c)
SwapEnter(s) == SwapAbandoned(s) \/ SwapInstalled(s)
TaskStep(s) ==
  \/ Wake(s) \/ PingOk(s) \/ PingFailed(s) \/ MarkLost(s) \/ EmitLost(s)
  \/ RedialOk(s) \/ RedialFailed(s) \/ MarkFailed(s) \/ EmitFailed(s)
  \/ SwapBlocked(s) \/ SwapDiscarded(s) \/ SwapDone(s) \/ SwapCancelled(s)
  \/ EmitConnected(s)

Next ==
  \/ \E c \in Calls : \/ Request(c) \/ ConnectEnter(c) \/ ConnectStep(c)
                      \/ DisconnectBegin(c) \/ DisconnectStep(c) \/ SwitchStep(c)
  \/ \E s \in Sessions : TaskStep(s) \/ SwapEnter(s)
  \/ \E a \in Adapters : ServerReaps(a)

Spec == Init /\ [][Next]_vars

\* Every await ends: drivers dial, ping and close under timeouts, and tokio
\* polls every ready task.  tokio's Mutex queues its waiters in order, so a
\* process that waits for the guard is served although others keep asking for
\* it (strong fairness).  Nothing makes a user issue commands.
CallFairness(c) ==
  /\ WF_vars(ConnectStep(c) \/ DisconnectStep(c) \/ SwitchStep(c))
  /\ SF_vars(ConnectEnter(c) \/ DisconnectBegin(c))
TaskFairness(s) == WF_vars(TaskStep(s)) /\ SF_vars(SwapEnter(s))
Fairness == (\A c \in Calls : CallFairness(c)) /\ (\A s \in Sessions : TaskFairness(s))

FairSpec == Spec /\ Fairness

-----------------------------------------------------------------------------
(* Safety *)

\* A connection reported Disconnected has nothing registered: no adapter, no
\* keep-alive task and no tunnel, and no reconnect puts one back (#1560).
TornDownClean ==
  status = "Disconnected" => adapter = Nobody /\ handle = Nobody /\ tunnel = Nobody

\* The one way to lose a connected adapter is an abort() that finds a keep-alive
\* task with an adapter in its hands, at the wait for the guard or at a
\* disconnect(): the task ends and its adapters are dropped, the leak #1100
\* names.  A double connect, a failed dial or disconnect, and a reconnect that
\* overlaps either leak nothing, and no adapter is disconnected while it is
\* registered or about to be.
CutShort(s) ==
  /\ pc[s] # "off" /\ pc'[s] = "off"
  /\ \/ s \in aborted
     \/ handle = s /\ handle' # s
OnlyAbortsLeak ==
  [][/\ Held' \subseteq open'
     /\ \A a \in Leaked' \ Leaked :
          \E s \in Sessions : CutShort(s) /\ a \in {new[s], old[s]}]_vars

\* Every tunnel that is up is registered, being installed, or being closed.
NoLeakedTunnel ==
  listening \subseteq {tunnel} \cup {sess[c] : c \in Calls} \cup {taken[c] : c \in Calls}

\* A keep-alive task that will run again is the registered one: there are
\* never two ping loops for one connection.
OnePingLoop ==
  \A s \in Sessions : pc[s] # "off" /\ s \notin aborted => handle = s

\* A registered adapter has a registered keep-alive handle, the one
\* `disconnect` aborts and `reconnect_swap` reads as its liveness signal.
LiveHasHandle == adapter # Nobody => handle # Nobody

\* Outside a connect call the status is never Connecting: every path that
\* recorded it, early returns included, records its outcome (Q14).
NotStuckConnecting == status = "Connecting" => guard \in Calls /\ pc[guard] \in ConnectPcs

\* When a disconnect call returns, with success or with the driver's error,
\* nothing of the connection is left registered or listening.
DisconnectLeavesNothing ==
  [][\A c \in Calls :
       pc[c] \in DisconnectPcs /\ pc'[c] = "idle" =>
         /\ adapter' = Nobody /\ handle' = Nobody /\ tunnel' = Nobody
         /\ listening' = {}]_vars

\* Connected means a pool is registered, whenever no command or swap is in
\* the middle of changing it.
ConnectedHasPool == guard = Nobody /\ status = "Connected" => adapter # Nobody

\* A connection that was torn down is never flipped back to Connected except
\* through a connect.
TornDownStaysDown == [][status = "Disconnected" => status' # "Connected"]_status

\* For an engine without a database switch the maps and the guard implement a
\* ConnService: overlapping commands, reconnects and aborted tasks look like
\* connects and disconnects that take effect one at a time.
Asked == guard \in Calls /\ pc[guard] \in ConnectPcs
Wanted == handle # Nobody
Service == INSTANCE ConnService WITH
  Pools <- Adapters, NoPool <- Nobody, asked <- Asked, wanted <- Wanted, pool <- adapter
ActsAsService == Service!Spec

-----------------------------------------------------------------------------
(* Liveness *)

\* Every command returns: no holder keeps the guard for ever, whatever is
\* aborted while it waits for it or holds it.
CommandsReturn == \A c \in Calls : pc[c] # "idle" ~> pc[c] = "idle"

\* A keep-alive task that is no longer the registered one comes to an end.
SupersededTaskEnds == \A s \in Sessions : handle # s ~> (pc[s] = "off" \/ handle = s)

=============================================================================
