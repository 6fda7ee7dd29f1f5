------------------------------ MODULE SubPools ------------------------------
(***************************************************************************)
(* The sub-pools of a PostgreSQL or MySQL adapter: one pool of sessions    *)
(* per database, cached up to a cap with the least recently used one       *)
(* evicted, the calls of switch_active_db that overlap on it, the queries  *)
(* that take a handle of the current pool, and the disconnect.  A switch   *)
(* that misses the cache dials a pool between two critical sections of the *)
(* adapter's lock.                                                         *)
(*                                                                         *)
(* A definition named BUG_... is a plausible mistake in the definition     *)
(* that follows it; the model does not use it.                             *)
(***************************************************************************)
EXTENDS Naturals, Sequences, FiniteSets

CONSTANTS
  DBs,         \* names of databases
  Switchers,   \* calls of switch_active_db that may overlap
  Queries,     \* commands that may overlap
  Pools,       \* identities of pools; the bound on pools alive at a time
  Cap,         \* PG_SUBPOOL_CAP, MYSQL_SUBPOOL_CAP
  NoDb, NoPool

ASSUME PoolAssumption ==
  /\ NoDb \notin DBs /\ NoPool \notin Pools
  /\ IsFiniteSet(DBs)
  /\ Cap \in Nat /\ Cap >= 2

VARIABLES
  phase,    \* of the adapter; its config is stored while "live"
  pools,    \* the cache
  lru,      \* lru_order, oldest first
  current,  \* current_db
  pc,       \* where a switch is
  want,     \* the database it switches to
  held,     \* the pool it dialled, or has to close
  handle,   \* the pool a command has cloned
  running,  \* has the command acquired a session of it?
  drained,  \* the pools disconnect_pool has to close
  open      \* the pools that nobody has called close on

adapter == <<phase, pools, lru, current>>
switchers == <<pc, want, held>>
queries == <<handle, running>>
vars == <<adapter, switchers, queries, drained, open>>

Cached == {d \in DBs : pools[d] # NoPool}

TypeOK ==
  /\ phase \in {"new", "live", "gone"}
  /\ pools \in [DBs -> Pools \cup {NoPool}]
  /\ lru \in Seq(DBs)
  /\ current \in DBs \cup {NoDb}
  /\ pc \in [Switchers -> {"idle", "dial", "dialled", "evicted", "closing"}]
  /\ want \in [Switchers -> DBs \cup {NoDb}]
  /\ held \in [Switchers -> Pools \cup {NoPool}]
  /\ handle \in [Queries -> Pools \cup {NoPool}]
  /\ running \in [Queries -> BOOLEAN]
  /\ drained \subseteq Pools
  /\ open \subseteq Pools

Init ==
  /\ phase = "new"
  /\ pools = [d \in DBs |-> NoPool]
  /\ lru = << >>
  /\ current = NoDb
  /\ pc = [s \in Switchers |-> "idle"]
  /\ want = [s \in Switchers |-> NoDb]
  /\ held = [s \in Switchers |-> NoPool]
  /\ handle = [q \in Queries |-> NoPool]
  /\ running = [q \in Queries |-> FALSE]
  /\ drained = {}
  /\ open = {}

\* An identity that stands for no pool any more.
Free(p) ==
  /\ p \notin open \cup drained
  /\ \A d \in DBs : pools[d] # p
  /\ \A s \in Switchers : held[s] # p
  /\ \A q \in Queries : handle[q] # p
Fresh == CHOOSE p \in Pools : Free(p)
CanDial == \E p \in Pools : Free(p)

\* close() refuses whoever asks for a session from now on and then waits for
\* those that were lent.
Busy(p) == \E q \in Queries : handle[q] = p /\ running[q]

-----------------------------------------------------------------------------
(* The order of use *)

\* retain: the names are unique, so at most one goes.
Without(names, d) ==
  IF \E i \in DOMAIN names : names[i] = d
  THEN LET k == CHOOSE i \in DOMAIN names : names[i] = d
       IN  [i \in 1 .. Len(names) - 1 |-> IF i < k THEN names[i] ELSE names[i + 1]]
  ELSE names

\* push_back after retain.
BUG_Used(names, d) == names
Used(names, d) == Append(Without(names, d), d)

\* select_eviction_target: the oldest that is not `kept`; NoDb when there is none.
Target(names, kept) ==
  IF \E i \in DOMAIN names : names[i] # kept
  THEN names[CHOOSE i \in DOMAIN names :
               names[i] # kept /\ \A j \in DOMAIN names : j < i => names[j] = kept]
  ELSE NoDb

-----------------------------------------------------------------------------
(* connect_pool and disconnect_pool, once in the life of an adapter *)

Connect(d) ==
  /\ phase = "new" /\ CanDial
  /\ phase' = "live"
  /\ pools' = [pools EXCEPT ![d] = Fresh]
  /\ lru' = Append(lru, d)
  /\ current' = d
  /\ open' = open \cup {Fresh}
  /\ UNCHANGED <<switchers, queries, drained>>

BUG_Disconnect ==
  /\ phase = "live"
  /\ phase' = "gone"
  /\ drained' = {pools[d] : d \in Cached}
  /\ pools' = [d \in DBs |-> NoPool]
  /\ lru' = << >>
  /\ UNCHANGED <<current, switchers, queries, open>>
Disconnect ==
  /\ phase = "live"
  /\ phase' = "gone"
  /\ drained' = {pools[d] : d \in Cached}
  /\ pools' = [d \in DBs |-> NoPool]
  /\ lru' = << >>
  /\ current' = NoDb
  /\ UNCHANGED <<switchers, queries, open>>

\* The drained pools are closed one after another.
DrainClose(p) ==
  /\ p \in drained \cap open /\ drained \subseteq open
  /\ open' = open \ {p}
  /\ UNCHANGED <<adapter, switchers, queries, drained>>

DrainClosed(p) ==
  /\ p \in drained \ open /\ ~Busy(p)
  /\ drained' = drained \ {p}
  /\ UNCHANGED <<adapter, switchers, queries, open>>

-----------------------------------------------------------------------------
(* switch_active_db *)

\* The first critical section: a hit is promoted, a miss copies the config.
Hit(s, d) ==
  /\ pc[s] = "idle" /\ pools[d] # NoPool
  /\ current' = d
  /\ lru' = Used(lru, d)
  /\ UNCHANGED <<phase, pools, switchers, queries, drained, open>>

Miss(s, d) ==
  /\ pc[s] = "idle" /\ pools[d] = NoPool /\ phase = "live"
  /\ pc' = [pc EXCEPT ![s] = "dial"]
  /\ want' = [want EXCEPT ![s] = d]
  /\ UNCHANGED <<adapter, held, queries, drained, open>>

Dialled(s) ==
  /\ pc[s] = "dial" /\ CanDial
  /\ pc' = [pc EXCEPT ![s] = "dialled"]
  /\ held' = [held EXCEPT ![s] = Fresh]
  /\ open' = open \cup {Fresh}
  /\ UNCHANGED <<adapter, want, queries, drained>>

DialFailed(s) ==
  /\ pc[s] = "dial"
  /\ pc' = [pc EXCEPT ![s] = "idle"]
  /\ want' = [want EXCEPT ![s] = NoDb]
  /\ UNCHANGED <<adapter, held, queries, drained, open>>

\* The second critical section, when another switch has installed the database
\* meanwhile: the new pool has to be closed.
RaceResolved(s) ==
  /\ pc[s] = "dialled" /\ pools[want[s]] # NoPool
  /\ pc' = [pc EXCEPT ![s] = "evicted"]
  /\ current' = want[s]
  /\ lru' = Used(lru, want[s])
  /\ want' = [want EXCEPT ![s] = NoDb]
  /\ UNCHANGED <<phase, pools, held, queries, drained, open>>

\* Otherwise the new pool is installed, over the cap in the place of the oldest
\* one that is not in use.
BUG_Evictee(s) ==
  IF Cardinality(Cached) > Cap
  THEN Target(lru, IF current = NoDb THEN want[s] ELSE current)
  ELSE NoDb
Evictee(s) ==
  IF Cardinality(Cached) >= Cap
  THEN Target(lru, IF current = NoDb THEN want[s] ELSE current)
  ELSE NoDb
Evicted(s) == IF Evictee(s) = NoDb THEN NoPool ELSE pools[Evictee(s)]

BUG_Install(s) ==
  /\ pc[s] = "dialled"
  /\ pools' = [d \in DBs |-> IF d = want[s] THEN held[s]
                             ELSE IF d = Evictee(s) THEN NoPool ELSE pools[d]]
  /\ lru' = Append(IF Evictee(s) = NoDb THEN lru ELSE Without(lru, Evictee(s)), want[s])
  /\ current' = want[s]
  /\ held' = [held EXCEPT ![s] = Evicted(s)]
  /\ pc' = [pc EXCEPT ![s] = IF Evicted(s) = NoPool THEN "idle" ELSE "evicted"]
  /\ want' = [want EXCEPT ![s] = NoDb]
  /\ UNCHANGED <<phase, queries, drained, open>>
BUG_InstallPushesCurrent(s) ==
  /\ pc[s] = "dialled" /\ pools[want[s]] = NoPool
  /\ pools' = [d \in DBs |-> IF d = want[s] THEN held[s]
                             ELSE IF d = Evictee(s) THEN NoPool ELSE pools[d]]
  /\ lru' = Append(IF Evictee(s) = NoDb THEN lru ELSE Without(lru, Evictee(s)), current)
  /\ current' = want[s]
  /\ held' = [held EXCEPT ![s] = Evicted(s)]
  /\ pc' = [pc EXCEPT ![s] = IF Evicted(s) = NoPool THEN "idle" ELSE "evicted"]
  /\ want' = [want EXCEPT ![s] = NoDb]
  /\ UNCHANGED <<phase, queries, drained, open>>
Install(s) ==
  /\ pc[s] = "dialled" /\ pools[want[s]] = NoPool
  /\ pools' = [d \in DBs |-> IF d = want[s] THEN held[s]
                             ELSE IF d = Evictee(s) THEN NoPool ELSE pools[d]]
  /\ lru' = Append(IF Evictee(s) = NoDb THEN lru ELSE Without(lru, Evictee(s)), want[s])
  /\ current' = want[s]
  /\ held' = [held EXCEPT ![s] = Evicted(s)]
  /\ pc' = [pc EXCEPT ![s] = IF Evicted(s) = NoPool THEN "idle" ELSE "evicted"]
  /\ want' = [want EXCEPT ![s] = NoDb]
  /\ UNCHANGED <<phase, queries, drained, open>>

\* Out of the lock: close() of the evicted or the superfluous pool.
Close(s) ==
  /\ pc[s] = "evicted"
  /\ pc' = [pc EXCEPT ![s] = "closing"]
  /\ open' = open \ {held[s]}
  /\ UNCHANGED <<adapter, want, held, queries, drained>>

BUG_Closed(s) ==
  /\ pc[s] = "closing" /\ \A q \in Queries : handle[q] # held[s]
  /\ pc' = [pc EXCEPT ![s] = "idle"]
  /\ held' = [held EXCEPT ![s] = NoPool]
  /\ UNCHANGED <<adapter, want, queries, drained, open>>
Closed(s) ==
  /\ pc[s] = "closing" /\ ~Busy(held[s])
  /\ pc' = [pc EXCEPT ![s] = "idle"]
  /\ held' = [held EXCEPT ![s] = NoPool]
  /\ UNCHANGED <<adapter, want, queries, drained, open>>

-----------------------------------------------------------------------------
(* A command that uses the current database *)

\* active_pool.
Resolve(q) ==
  /\ handle[q] = NoPool /\ current # NoDb /\ pools[current] # NoPool
  /\ handle' = [handle EXCEPT ![q] = pools[current]]
  /\ UNCHANGED <<adapter, switchers, running, drained, open>>

\* acquire() on the handle.
Acquire(q) ==
  /\ handle[q] \in open /\ ~running[q]
  /\ running' = [running EXCEPT ![q] = TRUE]
  /\ UNCHANGED <<adapter, switchers, handle, drained, open>>

\* The command returns: its statement has ended, or acquire() was refused.
Return(q) ==
  /\ handle[q] # NoPool /\ (running[q] \/ handle[q] \notin open)
  /\ handle' = [handle EXCEPT ![q] = NoPool]
  /\ running' = [running EXCEPT ![q] = FALSE]
  /\ UNCHANGED <<adapter, switchers, drained, open>>

-----------------------------------------------------------------------------

Switch(s) ==
  \/ Dialled(s) \/ DialFailed(s) \/ RaceResolved(s) \/ Install(s) \/ Close(s) \/ Closed(s)

Next ==
  \/ \E d \in DBs : Connect(d)
  \/ Disconnect
  \/ \E p \in Pools : DrainClose(p) \/ DrainClosed(p)
  \/ \E s \in Switchers, d \in DBs : Hit(s, d) \/ Miss(s, d)
  \/ \E s \in Switchers : Switch(s)
  \/ \E q \in Queries : Resolve(q) \/ Acquire(q) \/ Return(q)

Spec == Init /\ [][Next]_vars

\* connect_with gives up after its timeout and tokio polls a switch that can go
\* on; a statement may take for ever.
Fairness(s) == WF_vars(Switch(s))
FairSpec == Spec /\ \A s \in Switchers : Fairness(s)

-----------------------------------------------------------------------------

\* lru_order names each cached database once and no other, and the database in
\* use is the newest.
LruMatches ==
  /\ \A i, j \in DOMAIN lru : lru[i] = lru[j] => i = j
  /\ \A d \in DBs : d \in Cached <=> \E i \in DOMAIN lru : lru[i] = d
  /\ current # NoDb => lru # << >> /\ lru[Len(lru)] = current

\* However many switches miss at once, the cache stays within its cap.
CacheBounded == Cardinality(Cached) <= Cap

\* The database in use has a pool, and every cached pool is open and serves one
\* database.
CurrentUsable ==
  /\ current # NoDb => current \in Cached
  /\ \A d \in Cached : pools[d] \in open
  /\ \A c, d \in Cached : pools[c] = pools[d] => c = d

\* The pools that are open with nobody to close them: not cached in an adapter a
\* disconnect will drain, not with a switch that installs or closes it, not drained.
Leaked ==
  {p \in open :
     /\ phase = "gone" \/ \A d \in DBs : pools[d] # p
     /\ \A s \in Switchers : held[s] = p => pc[s] \notin {"dialled", "evicted"}
     /\ p \notin drained}

\* A switch that comes back from its dial does not look whether the adapter was
\* disconnected meanwhile, and installs its pool for nobody to close.  No other step
\* leaks a pool, and all that is ever leaked is in the cache of the adapter that is
\* gone, never more than its cap.
OnlyOvertakenSwitchesLeak ==
  [][/\ Leaked' \subseteq {pools'[d] : d \in DBs}
     /\ \A p \in Leaked' \ Leaked :
          phase = "gone" /\ \E s \in Switchers : pc[s] = "dialled" /\ held[s] = p]_vars

\* A switch does not evict the database that was in use when it came to install
\* its own.
EvictionSparesCurrent ==
  [][\A d \in Cached : phase' = "live" /\ pools'[d] = NoPool => d # current]_vars

\* Seen from its users the cache is a plain LRU cache: a switch, however long its
\* dial took and whoever raced it, admits or promotes its database in one step, at
\* the cap in the place of the one used longest ago, and no other.
Lru == INSTANCE LruCache WITH
  Keys <- DBs,
  Values <- Pools,
  NoKey <- NoDb,
  order <- [i \in 1 .. Len(lru) |-> <<lru[i], pools[lru[i]]>>],
  inUse <- current

CachesLikeLru == Lru!Spec

\* Liveness: a switch returns, unless it waits for a statement that runs on the
\* pool it evicted.
SwitchReturns ==
  \A s \in Switchers : pc[s] # "idle" ~> (pc[s] = "idle" \/ Busy(held[s]))

=============================================================================
