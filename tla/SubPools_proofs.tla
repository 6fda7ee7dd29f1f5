-------------------------- MODULE SubPools_proofs --------------------------
(***************************************************************************)
(* Proofs about SubPools, for every set of databases, switches, queries    *)
(* and pools and every cap of at least two.                                *)
(*                                                                         *)
(* The invariant is built in layers: typing; Owned, who holds which pool;  *)
(* LruMatches, the order of use against the cache; CacheBounded, which     *)
(* rests on both.  From it follow the refinement of LruCache and, on the   *)
(* premise GuardsSuffice, that a switch returns.                           *)
(***************************************************************************)
EXTENDS SubPools, TLAPS, FiniteSetTheorems, FunctionTheorems

-----------------------------------------------------------------------------
(* The operators *)

LEMMA FreshIsFree ==
  ASSUME CanDial
  PROVE  Fresh \in Pools /\ Free(Fresh)
BY DEF CanDial, Fresh

\* What retain leaves: a sequence of the same names in the same number of copies,
\* one of `d` less.
LEMMA WithoutType ==
  ASSUME NEW S, NEW names \in Seq(S), NEW d
  PROVE  Without(names, d) \in Seq(S)
<1>1. CASE \E i \in DOMAIN names : names[i] = d
  <2> DEFINE k == CHOOSE i \in DOMAIN names : names[i] = d
             w == [i \in 1 .. Len(names) - 1 |-> IF i < k THEN names[i] ELSE names[i + 1]]
  <2>1. Len(names) \in Nat \ {0}
    BY <1>1
  <2>2. \A i \in 1 .. Len(names) - 1 : w[i] \in S
    BY <2>1
  <2>3. w \in [1 .. Len(names) - 1 -> S]
    BY <2>2
  <2>4. w \in Seq(S)
    <3>1. Len(names) - 1 \in Nat
      BY <2>1
    <3> HIDE DEF w
    <3> QED  BY <2>3, <3>1
  <2> QED  BY <1>1, <2>4 DEF Without
<1>2. CASE ~\E i \in DOMAIN names : names[i] = d
  BY <1>2 DEF Without
<1> QED  BY <1>1, <1>2

\* A sequence that names nothing twice.
Unique(names) == \A i, j \in DOMAIN names : names[i] = names[j] => i = j
Names(names) == {names[i] : i \in DOMAIN names}

LEMMA WithoutNames ==
  ASSUME NEW S, NEW names \in Seq(S), NEW d, Unique(names)
  PROVE  /\ Unique(Without(names, d))
         /\ Names(Without(names, d)) = Names(names) \ {d}
<1>1. CASE \E i \in DOMAIN names : names[i] = d
  <2> DEFINE k == CHOOSE i \in DOMAIN names : names[i] = d
             n == Len(names)
             w == [i \in 1 .. n - 1 |-> IF i < k THEN names[i] ELSE names[i + 1]]
  <2>1. n \in Nat \ {0} /\ DOMAIN names = 1 .. n /\ k \in 1 .. n /\ names[k] = d
    BY <1>1
  <2>2. w = Without(names, d)
    BY <1>1 DEF Without
  <2>3. \A i \in 1 .. n : names[i] = d => i = k
    BY <2>1 DEF Unique
  <2>4. DOMAIN w = 1 .. n - 1 /\ \A i \in 1 .. n - 1 : w[i] = IF i < k THEN names[i] ELSE names[i + 1]
    OBVIOUS
  <2> HIDE DEF k, w, n
  <2>5. Unique(w)
    <3> SUFFICES ASSUME NEW i \in 1 .. n - 1, NEW j \in 1 .. n - 1, w[i] = w[j]
                 PROVE  i = j
      BY <2>4 DEF Unique
    <3> DEFINE at(x) == IF x < k THEN x ELSE x + 1
    <3>1. at(i) \in 1 .. n /\ at(j) \in 1 .. n
      BY <2>1
    <3>2. names[at(i)] = names[at(j)]
      BY <2>4
    <3>3. at(i) = at(j)
      BY <2>1, <3>1, <3>2 DEF Unique
    <3> QED  BY <2>1, <3>3
  <2>6. ASSUME NEW i \in 1 .. n - 1 PROVE w[i] \in Names(names) \ {d}
    BY <2>1, <2>3, <2>4 DEF Names
  <2>7. ASSUME NEW i \in 1 .. n, names[i] # d PROVE names[i] \in Names(w)
    <3>1. CASE i < k
      <4>1. i \in 1 .. n - 1 /\ w[i] = names[i]
        BY <3>1, <2>1, <2>4
      <4> QED  BY <4>1, <2>4 DEF Names
    <3>2. CASE i > k
      <4>1. i - 1 \in 1 .. n - 1 /\ w[i - 1] = names[i]
        BY <3>2, <2>1, <2>4
      <4> QED  BY <4>1, <2>4 DEF Names
    <3> QED  BY <2>1, <2>7, <3>1, <3>2
  <2>8. Names(w) = Names(names) \ {d}
    BY <2>1, <2>4, <2>6, <2>7 DEF Names
  <2> QED  BY <2>2, <2>5, <2>8
<1>2. CASE ~\E i \in DOMAIN names : names[i] = d
  BY <1>2 DEF Without, Names
<1> QED  BY <1>1, <1>2

LEMMA AppendNames ==
  ASSUME NEW S, NEW names \in Seq(S), NEW d \in S, Unique(names), d \notin Names(names)
  PROVE  /\ Append(names, d) \in Seq(S)
         /\ Unique(Append(names, d))
         /\ Names(Append(names, d)) = Names(names) \cup {d}
         /\ Append(names, d) # << >>
         /\ Append(names, d)[Len(Append(names, d))] = d
<1> DEFINE a == Append(names, d)
<1>1. a \in Seq(S) /\ Len(a) = Len(names) + 1
  OBVIOUS
<1>2. DOMAIN a = 1 .. Len(names) + 1 /\ DOMAIN names = 1 .. Len(names) /\ Len(names) \in Nat
  OBVIOUS
<1>3. \A i \in 1 .. Len(names) : a[i] = names[i]
  OBVIOUS
<1>4. a[Len(names) + 1] = d
  OBVIOUS
<1> HIDE DEF a
<1>5. Unique(a)
  BY <1>2, <1>3, <1>4 DEF Unique, Names
<1>6. Names(a) = Names(names) \cup {d}
  <2>1. ASSUME NEW i \in 1 .. Len(names) + 1 PROVE a[i] \in Names(names) \cup {d}
    BY <1>2, <1>3, <1>4 DEF Names
  <2>2. ASSUME NEW i \in 1 .. Len(names) PROVE names[i] \in Names(a)
    BY <1>2, <1>3 DEF Names
  <2>3. d \in Names(a)
    BY <1>2, <1>4 DEF Names
  <2> QED  BY <1>2, <2>1, <2>2, <2>3 DEF Names
<1>7. a # << >>
  BY <1>1, <1>2
<1> QED  BY <1>1, <1>2, <1>4, <1>5, <1>6, <1>7 DEF a

LEMMA UsedNames ==
  ASSUME NEW S, NEW names \in Seq(S), NEW d \in S, Unique(names)
  PROVE  /\ Used(names, d) \in Seq(S)
         /\ Unique(Used(names, d))
         /\ Names(Used(names, d)) = Names(names) \cup {d}
         /\ Used(names, d) # << >>
         /\ Used(names, d)[Len(Used(names, d))] = d
<1>1. Without(names, d) \in Seq(S)
  BY WithoutType
<1>2. Unique(Without(names, d)) /\ Names(Without(names, d)) = Names(names) \ {d}
  BY WithoutNames
<1> QED  BY <1>1, <1>2, AppendNames DEF Used

\* select_eviction_target returns one of the names, and never the kept one; when
\* the names are unique and another one exists, it finds one.
LEMMA TargetNames ==
  ASSUME NEW S, NEW names \in Seq(S), NEW kept, Unique(names),
         \E d \in Names(names) : d # kept
  PROVE  Target(names, kept) \in Names(names) \ {kept}
<1> DEFINE First(i) == names[i] # kept /\ \A j \in DOMAIN names : j < i => names[j] = kept
<1>1. DOMAIN names = 1 .. Len(names) /\ Len(names) \in Nat
  OBVIOUS
<1>2. PICK i \in DOMAIN names : names[i] # kept
  BY DEF Names
<1>3. \E k \in DOMAIN names : First(k)
  <2>1. CASE names[1] # kept
    BY <1>1, <1>2, <2>1
  <2>2. CASE names[1] = kept
    <3>1. 2 \in DOMAIN names /\ names[2] # kept
      BY <1>1, <1>2, <2>2 DEF Unique
    <3>2. First(2)
      BY <1>1, <2>2, <3>1
    <3> QED  BY <3>1, <3>2
  <2> QED  BY <2>1, <2>2
<1>4. First(CHOOSE k \in DOMAIN names : First(k)) /\ (CHOOSE k \in DOMAIN names : First(k)) \in DOMAIN names
  BY <1>3
<1>5. Target(names, kept) = names[CHOOSE k \in DOMAIN names : First(k)]
  BY <1>2 DEF Target
<1> QED  BY <1>4, <1>5 DEF Names

-----------------------------------------------------------------------------
(* The invariant *)

\* An open pool is in the cache of the adapter, live or gone, or somebody is about to
\* install or close it.
Accounted ==
  \A p \in open :
    \/ \E d \in DBs : pools[d] = p
    \/ \E s \in Switchers : held[s] = p /\ pc[s] \in {"dialled", "evicted"}
    \/ p \in drained

\* Who holds which pool.  A switch that comes back from its dial holds an open
\* pool of its own; one that closes a pool, a pool nobody can get any more.
Owned ==
  /\ \A s \in Switchers :
       /\ pc[s] \in {"idle", "dial"} => held[s] = NoPool
       /\ pc[s] \in {"dialled", "evicted"} => held[s] \in open
       /\ pc[s] = "closing" => held[s] \in Pools \ open
       /\ pc[s] \in {"dial", "dialled"} => want[s] \in DBs
       /\ \A d \in DBs : held[s] = pools[d] => held[s] = NoPool
       /\ held[s] \notin drained
       /\ \A t \in Switchers : held[s] = held[t] /\ held[s] # NoPool => s = t
  /\ \A d \in DBs : pools[d] \notin drained
  /\ CurrentUsable
  /\ Accounted

\* Before it is connected the adapter has nothing, and it drains its pools only
\* once it is gone.
Blank ==
  /\ phase = "new" => Cached = {} /\ lru = << >> /\ current = NoDb
  /\ phase # "gone" => drained = {}
  /\ \A s \in Switchers : phase = "new" => pc[s] = "idle"

-----------------------------------------------------------------------------
(* Typing *)

LEMMA LruNames ==
  ASSUME TypeOK
  PROVE  LruMatches <=> /\ Unique(lru) /\ Names(lru) = Cached
                        /\ current # NoDb => lru # << >> /\ lru[Len(lru)] = current
<1>1. \A i \in DOMAIN lru : lru[i] \in DBs
  BY DEF TypeOK
<1>2. Names(lru) = Cached <=> \A d \in DBs : d \in Cached <=> \E i \in DOMAIN lru : lru[i] = d
  BY <1>1 DEF Names, Cached
<1> QED  BY <1>2 DEF LruMatches, Unique

\* A switch evicts nothing or a cached database other than its own and than the
\* one in use; at the cap it always finds one.
LEMMA EvicteeFacts ==
  ASSUME TypeOK, LruMatches, CurrentUsable, NEW s \in Switchers, pc[s] = "dialled", want[s] \in DBs,
         pools[want[s]] = NoPool
  PROVE  /\ Evictee(s) \in Cached \cup {NoDb}
         /\ Evictee(s) \notin {want[s], current} \/ Evictee(s) = NoDb
         /\ Evictee(s) = NoDb => Cardinality(Cached) < Cap
         /\ Evictee(s) = NoDb => Evicted(s) = NoPool
         /\ Evictee(s) # NoDb => Evicted(s) = pools[Evictee(s)] /\ Evicted(s) \in Pools
<1> DEFINE kept == IF current = NoDb THEN want[s] ELSE current
<1>1. lru \in Seq(DBs) /\ Unique(lru) /\ Names(lru) = Cached
  BY LruNames DEF TypeOK
<1>2. Cached \subseteq DBs /\ NoDb \notin Cached /\ IsFiniteSet(Cached) /\ Cardinality(Cached) \in Nat
  <2>1. Cached \subseteq DBs
    BY DEF Cached
  <2> QED  BY <2>1, PoolAssumption, FS_Subset, FS_CardinalityType
<1>3. want[s] \notin Cached
  BY DEF Cached
<1>4. CASE Cardinality(Cached) >= Cap
  <2>1. \E d \in Cached : d # kept
    <3> SUFFICES ASSUME Cached \subseteq {kept} PROVE FALSE
      OBVIOUS
    <3> HIDE DEF kept
    <3>0. IsFiniteSet({kept}) /\ Cardinality({kept}) = 1
      BY FS_Singleton
    <3>1. Cardinality(Cached) <= 1
      BY <3>0, FS_Subset
    <3> QED  BY <3>1, <1>2, <1>4, PoolAssumption
  <2>2. Target(lru, kept) \in Cached \ {kept}
    BY <1>1, <2>1, TargetNames
  <2>3. Evictee(s) = Target(lru, kept)
    BY <1>4 DEF Evictee
  <2>4. Evictee(s) \in Cached /\ Evictee(s) # kept
    BY <2>2, <2>3
  <2>5. Evicted(s) = pools[Evictee(s)]
    BY <2>4, <1>2 DEF Evicted
  <2>6. pools[Evictee(s)] \in Pools
    BY <2>4 DEF Cached, TypeOK
  <2> QED  BY <1>2, <1>3, <2>4, <2>5, <2>6, PoolAssumption
<1>5. CASE ~(Cardinality(Cached) >= Cap)
  BY <1>2, <1>5, PoolAssumption DEF Evictee, Evicted
<1> QED  BY <1>4, <1>5

LEMMA SwitchTyped ==
  ASSUME TypeOK, LruMatches, Owned, NEW s \in Switchers, Switch(s)
  PROVE  TypeOK'
<1> USE DEF adapter, switchers, queries
<1>1. CASE Dialled(s)
  BY <1>1, FreshIsFree DEF TypeOK, Dialled
<1>2. CASE DialFailed(s)
  BY <1>2 DEF TypeOK, DialFailed
<1>3. CASE RaceResolved(s)
  <2>1. want[s] \in DBs
    BY <1>3 DEF RaceResolved, Owned
  <2>2. Used(lru, want[s]) \in Seq(DBs)
    BY <2>1, UsedNames, LruNames DEF TypeOK
  <2> QED  BY <1>3, <2>1, <2>2 DEF TypeOK, RaceResolved
<1>4. CASE Install(s)
  <2>1. want[s] \in DBs /\ held[s] \in Pools
    BY <1>4 DEF Install, Owned, TypeOK
  <2>2. Evicted(s) \in Pools \cup {NoPool}
    BY <1>4, <2>1, EvicteeFacts DEF Install, Owned
  <2>3. lru' \in Seq(DBs)
    <3>1. Without(lru, Evictee(s)) \in Seq(DBs)
      BY WithoutType DEF TypeOK
    <3> QED  BY <1>4, <2>1, <3>1 DEF Install, TypeOK
  <2> QED  BY <1>4, <2>1, <2>2, <2>3 DEF TypeOK, Install
<1>5. CASE Close(s)
  BY <1>5 DEF TypeOK, Close
<1>6. CASE Closed(s)
  BY <1>6 DEF TypeOK, Closed
<1> QED  BY <1>1, <1>2, <1>3, <1>4, <1>5, <1>6 DEF Switch

LEMMA NextTyped ==
  ASSUME TypeOK, LruMatches, Owned, [Next]_vars
  PROVE  TypeOK'
<1> USE DEF adapter, switchers, queries
<1>1. ASSUME NEW d \in DBs, Connect(d) PROVE TypeOK'
  BY <1>1, FreshIsFree DEF TypeOK, Connect
<1>2. CASE Disconnect
  BY <1>2 DEF TypeOK, Disconnect, Cached
<1>3. ASSUME NEW p \in Pools, DrainClose(p) \/ DrainClosed(p) PROVE TypeOK'
  BY <1>3 DEF TypeOK, DrainClose, DrainClosed
<1>4. ASSUME NEW s \in Switchers, NEW d \in DBs, Hit(s, d) PROVE TypeOK'
  <2>1. Used(lru, d) \in Seq(DBs)
    BY UsedNames, LruNames DEF TypeOK
  <2> QED  BY <1>4, <2>1 DEF TypeOK, Hit
<1>5. ASSUME NEW s \in Switchers, NEW d \in DBs, Miss(s, d) PROVE TypeOK'
  BY <1>5 DEF TypeOK, Miss
<1>6. ASSUME NEW q \in Queries, Resolve(q) \/ Acquire(q) \/ Return(q) PROVE TypeOK'
  BY <1>6 DEF TypeOK, Resolve, Acquire, Return
<1>7. CASE UNCHANGED vars
  BY <1>7 DEF TypeOK, vars
<1> QED  BY <1>1, <1>2, <1>3, <1>4, <1>5, <1>6, <1>7, SwitchTyped DEF Next

-----------------------------------------------------------------------------
(* Who holds which pool *)

LEMMA InstallOwned ==
  ASSUME TypeOK, LruMatches, Owned, NEW s \in Switchers, Install(s)
  PROVE  Owned'
<1>1. /\ pc[s] = "dialled" /\ pools[want[s]] = NoPool
      /\ want[s] \in DBs /\ held[s] \in open /\ held[s] \in Pools
  BY DEF Install, Owned, TypeOK
<1>2. /\ current' = want[s] /\ want' = [want EXCEPT ![s] = NoDb]
      /\ UNCHANGED <<drained, open>>
  BY DEF Install
<1>3. CASE Evictee(s) = NoDb
  <2>1. Evicted(s) = NoPool
    BY <1>1, <1>3, EvicteeFacts DEF Owned
  <2>2. pools' = [pools EXCEPT ![want[s]] = held[s]]
    <3>1. \A d \in DBs : d # Evictee(s)
      BY <1>3, PoolAssumption
    <3> QED  BY <1>1, <3>1 DEF Install, TypeOK
  <2>3. held' = [held EXCEPT ![s] = NoPool] /\ pc' = [pc EXCEPT ![s] = "idle"]
    BY <2>1 DEF Install
  <2> QED
    BY <1>1, <1>2, <2>2, <2>3, PoolAssumption
    DEF Owned, TypeOK, CurrentUsable, Accounted, Cached
<1>4. CASE Evictee(s) # NoDb
  <2> DEFINE e == Evictee(s)
  <2>1. e \in DBs /\ e # want[s] /\ Evicted(s) = pools[e] /\ pools[e] \in Pools
    BY <1>1, <1>4, EvicteeFacts DEF Owned, Cached
  <2>2. /\ pools' = [pools EXCEPT ![want[s]] = held[s], ![e] = NoPool]
        /\ held' = [held EXCEPT ![s] = pools[e]] /\ pc' = [pc EXCEPT ![s] = "evicted"]
    BY <1>1, <2>1, PoolAssumption DEF Install, TypeOK
  <2> HIDE DEF e
  <2>3. pools'[e] = NoPool /\ pools'[want[s]] = held[s]
        /\ \A d \in DBs \ {e, want[s]} : pools'[d] = pools[d]
    BY <1>1, <2>1, <2>2 DEF TypeOK
  <2>4. held'[s] = pools[e] /\ \A t \in Switchers \ {s} : held'[t] = held[t]
    BY <2>2 DEF TypeOK
  <2>5. pools[e] \in open /\ pools[e] # held[s] /\ \A d \in DBs \ {e} : pools[d] # pools[e]
    BY <1>1, <2>1, PoolAssumption DEF Owned, CurrentUsable, Cached, TypeOK
  <2>6. CurrentUsable'
    <3>1. \A d \in DBs : held[s] # pools[d] \/ held[s] = NoPool
      BY DEF Owned
    <3>2. held[s] # NoPool
      BY <1>1, PoolAssumption
    <3>3. Cached' = (Cached \ {e}) \cup {want[s]}
      BY <1>1, <2>1, <2>3, <3>2 DEF Cached
    <3>4. \A d \in Cached' : pools'[d] \in open'
      BY <1>1, <1>2, <2>3, <3>3 DEF Owned, CurrentUsable, Cached
    <3>5. \A c, d \in Cached' : pools'[c] = pools'[d] => c = d
      BY <1>1, <2>3, <3>1, <3>2, <3>3 DEF Owned, CurrentUsable, Cached
    <3> QED  BY <1>2, <3>3, <3>4, <3>5 DEF CurrentUsable
  <2>7. Accounted'
    <3> SUFFICES ASSUME NEW p \in open
                 PROVE  \/ \E d \in DBs : pools'[d] = p
                        \/ \E t \in Switchers : held'[t] = p /\ pc'[t] \in {"dialled", "evicted"}
                        \/ p \in drained
      BY <1>2 DEF Accounted
    <3>1. CASE p = pools[e]
      BY <2>2, <2>4, <3>1 DEF TypeOK
    <3>2. CASE p = held[s]
      BY <1>1, <2>3, <3>2
    <3>3. CASE p \notin {pools[e], held[s]}
      <4>1. CASE \E d \in DBs : pools[d] = p
        BY <1>1, <2>3, <3>3, <4>1, PoolAssumption DEF TypeOK, Owned
      <4>2. CASE \E t \in Switchers : held[t] = p /\ pc[t] \in {"dialled", "evicted"}
        BY <2>2, <2>4, <3>3, <4>2 DEF TypeOK
      <4> QED  BY <4>1, <4>2 DEF Owned, Accounted
    <3> QED  BY <3>1, <3>2, <3>3
  <2>8. \A t \in Switchers : held'[t] \notin drained'
    BY <1>2, <2>1, <2>4 DEF Owned
  <2>9. \A d \in DBs : pools'[d] \notin drained'
    BY <1>1, <1>2, <2>3, PoolAssumption DEF Owned, TypeOK
  <2>10. ASSUME NEW t \in Switchers
         PROVE  /\ pc'[t] \in {"idle", "dial"} => held'[t] = NoPool
                /\ pc'[t] \in {"dialled", "evicted"} => held'[t] \in open'
                /\ pc'[t] = "closing" => held'[t] \in Pools \ open'
                /\ pc'[t] \in {"dial", "dialled"} => want'[t] \in DBs
    BY <1>2, <2>1, <2>2, <2>4, <2>5 DEF Owned, TypeOK
  <2>11. ASSUME NEW t \in Switchers, NEW d \in DBs, held'[t] = pools'[d]
         PROVE  held'[t] = NoPool
    BY <1>1, <2>1, <2>3, <2>4, <2>5, <2>11, PoolAssumption DEF Owned, TypeOK
  <2>12. ASSUME NEW t \in Switchers, NEW u \in Switchers, held'[t] = held'[u], held'[t] # NoPool
         PROVE  t = u
    <3>1. \A v \in Switchers : held[v] # pools[e]
      BY <2>1, PoolAssumption DEF Owned
    <3>2. \A v, x \in Switchers : held[v] = held[x] /\ held[v] # NoPool => v = x
      BY DEF Owned
    <3> QED  BY <2>4, <2>12, <3>1, <3>2
  <2> QED  BY <2>6, <2>7, <2>8, <2>9, <2>10, <2>11, <2>12 DEF Owned
<1> QED  BY <1>3, <1>4

LEMMA SwitchOwned ==
  ASSUME TypeOK, LruMatches, Owned, NEW s \in Switchers, Switch(s)
  PROVE  Owned'
<1>4. CASE Install(s)
  BY <1>4, InstallOwned
<1> USE PoolAssumption DEF adapter, switchers, queries, Owned, TypeOK, CurrentUsable, Accounted, Cached
<1>1. CASE Dialled(s)
  BY <1>1, FreshIsFree DEF Dialled, Free
<1>2. CASE DialFailed(s)
  BY <1>2 DEF DialFailed
<1>3. CASE RaceResolved(s)
  BY <1>3 DEF RaceResolved
<1>5. CASE Close(s)
  BY <1>5 DEF Close
<1>6. CASE Closed(s)
  BY <1>6 DEF Closed
<1> QED  BY <1>1, <1>2, <1>3, <1>4, <1>5, <1>6 DEF Switch

LEMMA NextOwned ==
  ASSUME TypeOK, LruMatches, Owned, Blank, [Next]_vars
  PROVE  Owned'
<1> USE PoolAssumption DEF adapter, switchers, queries, Owned, TypeOK, CurrentUsable, Accounted, Cached
<1>1. ASSUME NEW d \in DBs, Connect(d) PROVE Owned'
  BY <1>1, FreshIsFree DEF Connect, Blank, Free
<1>2. CASE Disconnect
  <2>1. drained = {} /\ drained' = {pools[d] : d \in Cached} /\ Cached' = {} /\ current' = NoDb
    BY <1>2 DEF Disconnect, Blank
  <2> QED  BY <1>2, <2>1 DEF Disconnect
<1>3. ASSUME NEW p \in Pools, DrainClose(p) PROVE Owned'
  BY <1>3 DEF DrainClose
<1>4. ASSUME NEW p \in Pools, DrainClosed(p) PROVE Owned'
  BY <1>4 DEF DrainClosed
<1>5. ASSUME NEW s \in Switchers, NEW d \in DBs, Hit(s, d) PROVE Owned'
  BY <1>5 DEF Hit
<1>6. ASSUME NEW s \in Switchers, NEW d \in DBs, Miss(s, d) PROVE Owned'
  BY <1>6 DEF Miss
<1>7. ASSUME NEW q \in Queries, Resolve(q) \/ Acquire(q) \/ Return(q) PROVE Owned'
  BY <1>7 DEF Resolve, Acquire, Return
<1>8. CASE UNCHANGED vars
  BY <1>8 DEF vars
<1> QED  BY <1>1, <1>2, <1>3, <1>4, <1>5, <1>6, <1>7, <1>8, SwitchOwned DEF Next

LEMMA NextBlank ==
  ASSUME TypeOK, Blank, [Next]_vars
  PROVE  Blank'
<1> USE DEF adapter, switchers, queries, Blank, TypeOK, Cached
<1>1. ASSUME NEW s \in Switchers, Switch(s) PROVE Blank'
  BY <1>1 DEF Switch, Dialled, DialFailed, RaceResolved, Install, Close, Closed
<1>2. ASSUME NEW s \in Switchers, NEW d \in DBs, Hit(s, d) \/ Miss(s, d) PROVE Blank'
  BY <1>2 DEF Hit, Miss
<1>3. ASSUME NEW d \in DBs, Connect(d) PROVE Blank'
  BY <1>3 DEF Connect
<1>4. CASE Disconnect
  BY <1>4 DEF Disconnect
<1>5. ASSUME NEW p \in Pools, DrainClose(p) \/ DrainClosed(p) PROVE Blank'
  BY <1>5 DEF DrainClose, DrainClosed
<1>6. ASSUME NEW q \in Queries, Resolve(q) \/ Acquire(q) \/ Return(q) PROVE Blank'
  BY <1>6 DEF Resolve, Acquire, Return
<1>7. CASE UNCHANGED vars
  BY <1>7 DEF vars
<1> QED  BY <1>1, <1>2, <1>3, <1>4, <1>5, <1>6, <1>7 DEF Next

-----------------------------------------------------------------------------
(* The order of use and the cap *)

Ordered == LruMatches /\ CacheBounded

\* What an installation does to the cache and to the names.
LEMMA InstallCache ==
  ASSUME TypeOK, LruMatches, Owned, NEW s \in Switchers, Install(s)
  PROVE  /\ want[s] \in DBs \ Cached
         /\ Evictee(s) \in Cached \cup {NoDb}
         /\ Evictee(s) = NoDb => Cardinality(Cached) < Cap
         /\ Cached' = (Cached \ {Evictee(s)}) \cup {want[s]}
         /\ lru' = Append(IF Evictee(s) = NoDb THEN lru ELSE Without(lru, Evictee(s)), want[s])
<1>1. pc[s] = "dialled" /\ want[s] \in DBs /\ pools[want[s]] = NoPool /\ held[s] \in Pools
  BY DEF Install, Owned, TypeOK
<1>2. Evictee(s) \in Cached \cup {NoDb} /\ (Evictee(s) = NoDb => Cardinality(Cached) < Cap)
  BY <1>1, EvicteeFacts DEF Owned
<1>3. \A d \in DBs : pools'[d] = IF d = want[s] THEN held[s]
                              ELSE IF d = Evictee(s) THEN NoPool ELSE pools[d]
  BY DEF Install
<1>4. Cached' = (Cached \ {Evictee(s)}) \cup {want[s]}
  BY <1>1, <1>3, PoolAssumption DEF Cached
<1> QED  BY <1>1, <1>2, <1>4 DEF Install, Cached

LEMMA InstallOrdered ==
  ASSUME TypeOK, TypeOK', Ordered, Owned, NEW s \in Switchers, Install(s)
  PROVE  Ordered'
<1>1. lru \in Seq(DBs) /\ Unique(lru) /\ Names(lru) = Cached
  BY LruNames DEF Ordered, TypeOK
<1> DEFINE e == Evictee(s)
           left == IF e = NoDb THEN lru ELSE Without(lru, e)
<1>2. /\ want[s] \in DBs \ Cached /\ e \in Cached \cup {NoDb}
      /\ Cached' = (Cached \ {e}) \cup {want[s]} /\ lru' = Append(left, want[s])
      /\ e = NoDb => Cardinality(Cached) < Cap
  BY InstallCache DEF Ordered
<1>3. left \in Seq(DBs) /\ Unique(left) /\ Names(left) = Cached \ {e}
  <2>1. NoDb \notin Cached
    BY PoolAssumption DEF Cached
  <2> QED  BY <1>1, <2>1, WithoutType, WithoutNames
<1> HIDE DEF left, e
<1>4. /\ Unique(lru') /\ Names(lru') = Cached'
      /\ lru' # << >> /\ lru'[Len(lru')] = want[s]
  BY <1>2, <1>3, AppendNames
<1>5. current' = want[s]
  BY DEF Install
<1>6. LruMatches'
  <2>1. \A i \in DOMAIN lru' : lru'[i] \in DBs
    BY DEF TypeOK
  <2> QED  BY <1>4, <1>5, <2>1 DEF LruMatches, Unique, Names, Cached
<1>7. CacheBounded'
  <2>1. IsFiniteSet(Cached) /\ Cardinality(Cached) \in Nat
    <3>1. Cached \subseteq DBs
      BY DEF Cached
    <3> QED  BY <3>1, PoolAssumption, FS_Subset, FS_CardinalityType
  <2>2. IsFiniteSet(Cached \ {e})
        /\ Cardinality(Cached \ {e}) = IF e \in Cached THEN Cardinality(Cached) - 1 ELSE Cardinality(Cached)
    BY <2>1, FS_RemoveElement
  <2>3. Cardinality(Cached') = Cardinality(Cached \ {e}) + 1
    BY <1>2, <2>2, FS_AddElement
  <2>4. Cardinality(Cached \ {e}) < Cap
    BY <1>2, <2>1, <2>2, PoolAssumption DEF Ordered, CacheBounded
  <2> QED  BY <2>1, <2>2, <2>3, <2>4, PoolAssumption DEF CacheBounded
<1> QED  BY <1>6, <1>7 DEF Ordered

\* A promotion leaves the cache as it is and the order in step with it.
LEMMA PromotionOrdered ==
  ASSUME TypeOK, TypeOK', Ordered, NEW d \in Cached, UNCHANGED pools, lru' = Used(lru, d), current' = d
  PROVE  Ordered'
<1>1. lru \in Seq(DBs) /\ Unique(lru) /\ Names(lru) = Cached
  BY LruNames DEF Ordered, TypeOK
<1>2. d \in DBs /\ Cached' = Cached
  BY DEF Cached
<1>3. /\ Unique(lru') /\ Names(lru') = Cached'
      /\ lru' # << >> /\ lru'[Len(lru')] = d
  <2>1. /\ Unique(Used(lru, d))
        /\ Names(Used(lru, d)) = Names(lru) \cup {d}
        /\ Used(lru, d) # << >> /\ Used(lru, d)[Len(Used(lru, d))] = d
    <3>1. lru \in Seq(DBs) /\ d \in DBs /\ Unique(lru)
      BY <1>1, <1>2
    <3> QED  BY ONLY <3>1, UsedNames
  <2>2. Names(lru) \cup {d} = Cached'
    BY <1>1, <1>2
  <2>3. Unique(lru') <=> Unique(Used(lru, d))
    BY DEF Unique
  <2>4. Names(lru') = Names(Used(lru, d))
    BY DEF Names
  <2> QED  BY <2>1, <2>2, <2>3, <2>4
<1>4. \A i \in DOMAIN lru' : lru'[i] \in DBs
  BY DEF TypeOK
<1> QED  BY <1>2, <1>3, <1>4 DEF Ordered, LruMatches, CacheBounded, Unique, Names, Cached

LEMMA ConnectOrdered ==
  ASSUME TypeOK, TypeOK', Ordered, Blank, NEW d \in DBs, Connect(d)
  PROVE  Ordered'
<1>1. Cached = {} /\ lru = << >>
  BY DEF Connect, Blank
<1>2. Fresh \in Pools
  BY FreshIsFree DEF Connect
<1>3. Cached' = {d}
  BY <1>1, <1>2, PoolAssumption DEF Connect, Cached, TypeOK
<1>4. lru' = <<d>> /\ current' = d
  BY <1>1 DEF Connect
<1>5. CacheBounded'
  <2>1. Cardinality({d}) = 1
    BY FS_Singleton
  <2>2. Cardinality(Cached') = 1
    BY <1>3, <2>1
  <2> QED  BY <2>2, PoolAssumption DEF CacheBounded
<1>6. LruMatches'
  BY <1>3, <1>4, PoolAssumption DEF LruMatches
<1> QED  BY <1>5, <1>6 DEF Ordered

LEMMA DisconnectOrdered ==
  ASSUME Disconnect
  PROVE  Ordered'
<1>1. Cached' = {} /\ lru' = << >> /\ current' = NoDb
  BY DEF Disconnect, Cached
<1>2. CacheBounded'
  BY <1>1, FS_EmptySet, PoolAssumption DEF CacheBounded
<1>3. LruMatches'
  BY <1>1 DEF LruMatches
<1> QED  BY <1>2, <1>3 DEF Ordered

LEMMA NextOrdered ==
  ASSUME TypeOK, TypeOK', Ordered, Owned, Blank, [Next]_vars
  PROVE  Ordered'
<1>1. ASSUME UNCHANGED <<pools, lru, current>> PROVE Ordered'
  BY <1>1 DEF Ordered, LruMatches, CacheBounded, Cached
<1>2. ASSUME NEW s \in Switchers, Switch(s) PROVE Ordered'
  <2>1. CASE RaceResolved(s)
    <3>1. want[s] \in Cached
      BY <2>1 DEF RaceResolved, Owned, Cached
    <3> QED  BY <2>1, <3>1, PromotionOrdered DEF RaceResolved
  <2>2. CASE Install(s)
    BY <2>2, InstallOrdered
  <2>3. CASE Dialled(s) \/ DialFailed(s) \/ Close(s) \/ Closed(s)
    BY <1>1, <2>3 DEF Dialled, DialFailed, Close, Closed, adapter
  <2> QED  BY <1>2, <2>1, <2>2, <2>3 DEF Switch
<1>3. ASSUME NEW s \in Switchers, NEW d \in DBs, Hit(s, d) PROVE Ordered'
  <2>1. d \in Cached
    BY <1>3 DEF Hit, Cached
  <2> QED  BY <1>3, <2>1, PromotionOrdered DEF Hit
<1>4. ASSUME NEW s \in Switchers, NEW d \in DBs, Miss(s, d) PROVE Ordered'
  BY <1>1, <1>4 DEF Miss, adapter
<1>5. ASSUME NEW p \in Pools, DrainClose(p) \/ DrainClosed(p) PROVE Ordered'
  BY <1>1, <1>5 DEF DrainClose, DrainClosed, adapter
<1>6. ASSUME NEW q \in Queries, Resolve(q) \/ Acquire(q) \/ Return(q) PROVE Ordered'
  BY <1>1, <1>6 DEF Resolve, Acquire, Return, adapter
<1>7. CASE UNCHANGED vars
  BY <1>1, <1>7 DEF vars, adapter
<1> QED  BY <1>2, <1>3, <1>4, <1>5, <1>6, <1>7, ConnectOrdered, DisconnectOrdered DEF Next

-----------------------------------------------------------------------------
(* The theorems *)

Inv == TypeOK /\ Blank /\ Owned /\ Ordered

LEMMA InvInitial == Init => Inv
<1> SUFFICES ASSUME Init PROVE Inv
  OBVIOUS
<1>1. TypeOK
  BY DEF Init, TypeOK
<1>2. Cached = {}
  BY DEF Init, Cached
<1>3. Blank
  BY <1>2 DEF Init, Blank
<1>4. Owned
  BY <1>2 DEF Init, Owned, CurrentUsable, Accounted
<1>5. Ordered
  BY <1>2, FS_EmptySet, PoolAssumption DEF Init, Ordered, LruMatches, CacheBounded
<1> QED  BY <1>1, <1>3, <1>4, <1>5 DEF Inv

LEMMA InvInductive == Inv /\ [Next]_vars => Inv'
<1> SUFFICES ASSUME Inv, [Next]_vars PROVE Inv'
  OBVIOUS
<1>1. LruMatches
  BY DEF Inv, Ordered
<1>2. TypeOK'
  BY <1>1, NextTyped DEF Inv
<1>3. Blank'
  BY NextBlank DEF Inv
<1>4. Owned'
  BY <1>1, NextOwned DEF Inv
<1>5. Ordered'
  BY <1>2, NextOrdered DEF Inv
<1> QED  BY <1>2, <1>3, <1>4, <1>5 DEF Inv

\* Everything the invariant says holds in every state of the specification.
THEOREM Invariance == Spec => []Inv
BY InvInitial, InvInductive, PTL DEF Spec

\* The cache, the order of use, the switches and the commands stay within their
\* types.
THEOREM TypeCorrect == Spec => []TypeOK
<1>1. Inv => TypeOK  BY DEF Inv
<1> QED  BY <1>1, Invariance, PTL

\* lru_order names every cached database once, and the one in use last.
THEOREM OrderMatchesCache == Spec => []LruMatches
<1>1. Inv => LruMatches  BY DEF Inv, Ordered
<1> QED  BY <1>1, Invariance, PTL

\* Any number of switches that miss at once leave the cache within its cap.
THEOREM CapHolds == Spec => []CacheBounded
<1>1. Inv => CacheBounded  BY DEF Inv, Ordered
<1> QED  BY <1>1, Invariance, PTL

\* A command that resolves the database in use always finds an open pool.
THEOREM DatabaseInUseIsUsable == Spec => []CurrentUsable
<1>1. Inv => CurrentUsable  BY DEF Inv, Owned
<1> QED  BY <1>1, Invariance, PTL

\* A pool is left open with nobody to close it only by a switch whose dial was
\* overtaken by the disconnect, and it lies in the cache of the adapter that is gone.
THEOREM PoolsAreOwned == Spec => OnlyOvertakenSwitchesLeak
<1> DEFINE Lies == Leaked \subseteq {pools[d] : d \in DBs}
           Overtaken(p) == phase = "gone" /\ \E s \in Switchers : pc[s] = "dialled" /\ held[s] = p
           Left == \A p \in Leaked' \ Leaked : Overtaken(p)
<1>1. Inv => Lies
  BY DEF Inv, Owned, Accounted, Leaked
<1>2. Inv /\ Inv' /\ [Next]_vars => [Left]_vars
  <2> SUFFICES ASSUME Inv, Inv', Next, NEW p \in Leaked', p \notin Leaked
               PROVE  Overtaken(p)
    OBVIOUS
  <2>1. PICK d \in DBs : pools'[d] = p
    BY DEF Inv, Owned, Accounted, Leaked
  <2>2. p \in open' /\ p \in Pools /\ phase' = "gone"
    BY <2>1 DEF Leaked, Inv, TypeOK
  <2>3. CASE pools[d] = p
    <3>1. phase = "gone"
      <4>1. ~Disconnect
        BY <2>1, <2>2, PoolAssumption DEF Disconnect
      <4> QED
        BY <2>2, <4>1
        DEF Next, Switch, Connect, Dialled, DialFailed, RaceResolved, Install, Close, Closed, Hit, Miss,
            DrainClose, DrainClosed, Resolve, Acquire, Return, adapter
    <3>2. p \in open /\ p \notin drained
      BY <2>2, <2>3, PoolAssumption DEF Inv, Owned, CurrentUsable, Cached
    <3>3. \A s \in Switchers : held[s] # p
      BY <2>2, <2>3, PoolAssumption DEF Inv, Owned
    <3> QED  BY <3>1, <3>2, <3>3 DEF Leaked
  <2>4. CASE pools[d] # p
    <3>1. PICK s \in Switchers : Install(s)
      BY <2>1, <2>2, <2>4, PoolAssumption
      DEF Next, Switch, Connect, Disconnect, Dialled, DialFailed, RaceResolved, Close, Closed, Hit, Miss,
          DrainClose, DrainClosed, Resolve, Acquire, Return, adapter, Inv, TypeOK
    <3>2. pc[s] = "dialled" /\ phase = "gone"
      BY <2>2, <3>1 DEF Install
    <3>3. held[s] = p
      BY <2>1, <2>2, <2>4, <3>1, PoolAssumption DEF Install, Inv, TypeOK
    <3> QED  BY <3>2, <3>3
  <2> QED  BY <2>3, <2>4
<1>3. Lies' /\ [Left]_vars /\ [Next]_vars =>
        [Leaked' \subseteq {pools'[d] : d \in DBs} /\ Left]_vars
  OBVIOUS
<1> QED  BY <1>1, <1>2, <1>3, Invariance, PTL DEF Spec, OnlyOvertakenSwitchesLeak

\* Only a disconnect takes the pool of the database in use away.
THEOREM InUseIsNotEvicted == Spec => EvictionSparesCurrent
<1> DEFINE Spared == \A d \in Cached : phase' = "live" /\ pools'[d] = NoPool => d # current
<1>1. Inv /\ [Next]_vars => [Spared]_vars
  <2> SUFFICES ASSUME Inv, Next, NEW d \in Cached, phase' = "live", pools'[d] = NoPool
               PROVE  d # current
    OBVIOUS
  <2>1. d \in DBs /\ pools[d] # NoPool
    BY DEF Cached
  <2>2. ASSUME NEW s \in Switchers, Install(s) PROVE d # current
    <3>1. pc[s] = "dialled" /\ want[s] \in DBs /\ pools[want[s]] = NoPool /\ held[s] \in Pools
      BY <2>2 DEF Install, Inv, Owned, TypeOK
    <3>2. d = Evictee(s)
      BY <2>1, <2>2, <3>1, PoolAssumption DEF Install
    <3>3. Evictee(s) # NoDb
      BY <2>1, <3>2, PoolAssumption
    <3> QED  BY <3>1, <3>2, <3>3, EvicteeFacts DEF Inv, Owned, Ordered
  <2>3. ASSUME NEW c \in DBs, Connect(c) PROVE FALSE
    BY <2>1, <2>3 DEF Connect, Inv, Blank
  <2>4. ~Disconnect
    BY DEF Disconnect
  <2>5. CASE UNCHANGED pools
    BY <2>1, <2>5
  <2> QED
    BY <2>2, <2>3, <2>4, <2>5
    DEF Next, Switch, Dialled, DialFailed, RaceResolved, Close, Closed, Hit, Miss, DrainClose, DrainClosed,
        Resolve, Acquire, Return, adapter
<1> QED  BY <1>1, Invariance, PTL DEF Spec, EvictionSparesCurrent

-----------------------------------------------------------------------------
(* The cache is an LRU cache *)

\* What LruCache sees of an order of names and of a cache.
Entries(names, P) == [i \in 1 .. Len(names) |-> <<names[i], P[names[i]]>>]

LEMMA EntriesType ==
  ASSUME NEW S, NEW names \in Seq(S), NEW P
  PROVE  /\ Len(Entries(names, P)) = Len(names)
         /\ DOMAIN Entries(names, P) = 1 .. Len(names)
         /\ Entries(names, P) \in Seq({<<names[i], P[names[i]]>> : i \in 1 .. Len(names)})
<1> DEFINE T == {<<names[i], P[names[i]]>> : i \in 1 .. Len(names)}
<1>1. Len(names) \in Nat
  OBVIOUS
<1>2. Entries(names, P) \in [1 .. Len(names) -> T]
  BY DEF Entries
<1> HIDE DEF T
<1>3. Entries(names, P) \in Seq(T) /\ Len(Entries(names, P)) = Len(names)
  BY <1>1, <1>2
<1> QED  BY <1>2, <1>3 DEF T

LEMMA EntriesOfAppend ==
  ASSUME NEW S, NEW names \in Seq(S), NEW d \in S, NEW P
  PROVE  Entries(Append(names, d), P) = Append(Entries(names, P), <<d, P[d]>>)
<1> DEFINE n == Len(names)
           left == Entries(Append(names, d), P)
           right == Append(Entries(names, P), <<d, P[d]>>)
<1>1. n \in Nat /\ Len(Append(names, d)) = n + 1 /\ Append(names, d) \in Seq(S)
  OBVIOUS
<1>2. /\ Append(names, d)[n + 1] = d
      /\ \A i \in 1 .. n : Append(names, d)[i] = names[i]
  OBVIOUS
<1>3. left = [i \in 1 .. n + 1 |-> IF i = n + 1 THEN <<d, P[d]>> ELSE <<names[i], P[names[i]]>>]
  BY <1>1, <1>2 DEF Entries
<1>4. right = [i \in 1 .. n + 1 |-> IF i = n + 1 THEN <<d, P[d]>> ELSE Entries(names, P)[i]]
  <2> DEFINE E == Entries(names, P)
  <2>1. E \in Seq({<<names[i], P[names[i]]>> : i \in 1 .. Len(names)}) /\ Len(E) = n
    BY EntriesType
  <2> HIDE DEF E
  <2>2. Append(E, <<d, P[d]>>) = [i \in 1 .. Len(E) + 1 |-> IF i = Len(E) + 1 THEN <<d, P[d]>> ELSE E[i]]
    BY <2>1
  <2> QED  BY <2>1, <2>2 DEF E
<1>5. \A i \in 1 .. n : Entries(names, P)[i] = <<names[i], P[names[i]]>>
  BY DEF Entries
<1> HIDE DEF n, left, right
<1>6. \A i \in 1 .. n + 1 : i # n + 1 => i \in 1 .. n
  BY <1>1
<1> QED  BY <1>3, <1>4, <1>5, <1>6 DEF left, right

\* Of a name that stands at k, retain leaves the names before and after it.
LEMMA WithoutShape ==
  ASSUME NEW S, NEW names \in Seq(S), Unique(names), NEW k \in 1 .. Len(names)
  PROVE  Without(names, names[k])
           = [i \in 1 .. Len(names) - 1 |-> IF i < k THEN names[i] ELSE names[i + 1]]
<1>1. DOMAIN names = 1 .. Len(names)
  OBVIOUS
<1>2. (CHOOSE i \in DOMAIN names : names[i] = names[k]) = k
  BY <1>1 DEF Unique
<1> QED  BY <1>1, <1>2 DEF Without

LEMMA EntriesOfWithout ==
  ASSUME NEW S, NEW names \in Seq(S), Unique(names), NEW k \in 1 .. Len(names), NEW P
  PROVE  Entries(Without(names, names[k]), P)
           = [i \in 1 .. Len(Entries(names, P)) - 1 |->
                IF i < k THEN Entries(names, P)[i] ELSE Entries(names, P)[i + 1]]
<1> DEFINE n == Len(names)
           w == Without(names, names[k])
<1>1. n \in Nat \ {0}
  OBVIOUS
<1>2. w = [i \in 1 .. n - 1 |-> IF i < k THEN names[i] ELSE names[i + 1]]
  BY WithoutShape
<1>3. Len(w) = n - 1
  <2>1. w \in [1 .. n - 1 -> S]
    BY <1>1, <1>2
  <2>2. n - 1 \in Nat
    BY <1>1
  <2> HIDE DEF w, n
  <2> QED  BY <2>1, <2>2
<1>4. Len(Entries(names, P)) = n
  BY EntriesType
<1>5. \A i \in 1 .. n : Entries(names, P)[i] = <<names[i], P[names[i]]>>
  BY DEF Entries
<1> HIDE DEF w, n
<1>6. Entries(w, P) = [i \in 1 .. n - 1 |-> <<w[i], P[w[i]]>>]
  BY <1>3 DEF Entries
<1>7. \A i \in 1 .. n - 1 :
        <<w[i], P[w[i]]>> = IF i < k THEN Entries(names, P)[i] ELSE Entries(names, P)[i + 1]
  BY <1>1, <1>2, <1>5
<1> QED  BY <1>4, <1>6, <1>7 DEF w

LEMMA EntriesAgree ==
  ASSUME NEW S, NEW names \in Seq(S), NEW P, NEW R, \A d \in Names(names) : P[d] = R[d]
  PROVE  Entries(names, P) = Entries(names, R)
BY DEF Entries, Names

\* The order of use is as long as the cache is large.
LEMMA OrderLength ==
  ASSUME TypeOK, LruMatches
  PROVE  Len(lru) \in Nat /\ Cardinality(Cached) = Len(lru)
<1>1. lru \in Seq(DBs) /\ Unique(lru) /\ Names(lru) = Cached
  BY LruNames DEF TypeOK
<1>2. DOMAIN lru = 1 .. Len(lru) /\ Len(lru) \in Nat /\ lru \in [1 .. Len(lru) -> Cached]
  BY <1>1 DEF Names
<1>3. lru \in Bijection(1 .. Len(lru), Cached)
  <2>1. \A a, b \in 1 .. Len(lru) : lru[a] = lru[b] => a = b
    BY <1>1, <1>2 DEF Unique
  <2>2. \A t \in Cached : \E i \in 1 .. Len(lru) : lru[i] = t
    BY <1>1, <1>2 DEF Names
  <2> QED  BY <1>2, <2>1, <2>2, Fun_IsBij
<1>4. ExistsBijection(1 .. Len(lru), Cached)
  BY <1>3, Fun_ExistsBij
<1> QED  BY <1>2, <1>4, FS_CountingElements

\* The database in use is the newest, so the oldest other one is the oldest.
LEMMA EvicteeIsOldest ==
  ASSUME TypeOK, Ordered, Owned, NEW s \in Switchers, Install(s), Evictee(s) # NoDb
  PROVE  Len(lru) = Cap /\ 1 \in 1 .. Len(lru) /\ Evictee(s) = lru[1]
<1> DEFINE kept == IF current = NoDb THEN want[s] ELSE current
<1>1. Cardinality(Cached) = Len(lru) /\ Len(lru) \in Nat
  BY OrderLength DEF Ordered
<1>2. Len(lru) = Cap /\ Evictee(s) = Target(lru, kept)
  BY <1>1, PoolAssumption DEF Evictee, Ordered, CacheBounded
<1>3. lru \in Seq(DBs) /\ Unique(lru) /\ Names(lru) = Cached /\ DOMAIN lru = 1 .. Len(lru)
  BY LruNames DEF Ordered, TypeOK
<1>4. 1 \in 1 .. Len(lru) /\ Len(lru) # 1
  BY <1>1, <1>2, PoolAssumption
<1>5. lru[1] # kept
  <2>1. CASE current = NoDb
    BY <1>3, <1>4, <2>1, InstallCache DEF Names, Ordered
  <2>2. CASE current # NoDb
    <3>1. lru[Len(lru)] = current /\ Len(lru) \in 1 .. Len(lru)
      BY <1>1, <1>4, <2>2 DEF Ordered, LruMatches
    <3> QED  BY <1>3, <1>4, <2>2, <3>1 DEF Unique
  <2> QED  BY <2>1, <2>2
<1> HIDE DEF kept
<1>6. (CHOOSE i \in DOMAIN lru : lru[i] # kept /\ \A j \in DOMAIN lru : j < i => lru[j] = kept) = 1
  <2>1. \A i \in 1 .. Len(lru) : (\A j \in 1 .. Len(lru) : j < i => lru[j] = kept) => i = 1
    BY <1>1, <1>4, <1>5
  <2>2. \A j \in 1 .. Len(lru) : ~(j < 1)
    BY <1>1
  <2> QED  BY <1>3, <1>4, <1>5, <2>1, <2>2
<1>7. Target(lru, kept) = lru[1]
  BY <1>3, <1>4, <1>5, <1>6 DEF Target
<1> QED  BY <1>2, <1>4, <1>7

Order == Entries(lru, pools)

LEMMA OrderFacts ==
  ASSUME TypeOK
  PROVE  /\ Lru!vars = <<Order, current>>
         /\ Len(Order) = Len(lru) /\ DOMAIN Order = 1 .. Len(lru)
         /\ \A i \in 1 .. Len(lru) : Order[i] = <<lru[i], pools[lru[i]]>>
<1>1. lru \in Seq(DBs)
  BY DEF TypeOK
<1>2. Len(Order) = Len(lru) /\ DOMAIN Order = 1 .. Len(lru)
  BY <1>1, EntriesType DEF Order
<1> QED  BY <1>2 DEF Order, Entries, Lru!vars

\* An entry leaves the order as its name leaves lru_order.
LEMMA ButIsWithout ==
  ASSUME TypeOK, LruMatches, NEW k \in 1 .. Len(lru)
  PROVE  Lru!But(k) = Entries(Without(lru, lru[k]), pools)
<1>1. lru \in Seq(DBs) /\ Unique(lru)
  BY LruNames DEF TypeOK
<1>2. Lru!But(k) = [i \in 1 .. Len(Order) - 1 |-> IF i < k THEN Order[i] ELSE Order[i + 1]]
  BY DEF Lru!But, Order, Entries
<1> QED  BY <1>1, <1>2, EntriesOfWithout DEF Order

LEMMA PromotionRefines ==
  ASSUME TypeOK, Ordered, NEW d \in Cached, UNCHANGED pools, lru' = Used(lru, d), current' = d
  PROVE  Lru!Next
<1>1. lru \in Seq(DBs) /\ Unique(lru) /\ Names(lru) = Cached /\ DOMAIN lru = 1 .. Len(lru)
  BY LruNames DEF Ordered, TypeOK
<1>2. PICK k \in 1 .. Len(lru) : lru[k] = d
  BY <1>1 DEF Names
<1>3. Without(lru, d) \in Seq(DBs) /\ d \in DBs
  BY <1>1, WithoutType DEF Cached
<1>4. Order' = Append(Entries(Without(lru, d), pools), <<d, pools[d]>>)
  BY <1>3, EntriesOfAppend DEF Order, Used
<1>5. Order[k] = <<d, pools[d]>> /\ Len(Order) = Len(lru)
  BY <1>2, OrderFacts
<1>6. Lru!But(k) = Entries(Without(lru, d), pools)
  BY <1>2, ButIsWithout DEF Ordered
<1>7. Order' = Append(Lru!But(k), Order[k]) /\ current' = Order[k][1]
  BY <1>4, <1>5, <1>6
<1>8. Lru!Promote(k)
  BY <1>7 DEF Lru!Promote, Lru!Use, Order, Entries
<1> QED  BY <1>2, <1>5, <1>8 DEF Lru!Next, Order, Entries

LEMMA InstallRefines ==
  ASSUME TypeOK, TypeOK', Ordered, Owned, NEW s \in Switchers, Install(s)
  PROVE  Lru!Next
<1>d. PICK d \in DBs : d = want[s]
  BY InstallCache DEF Ordered
<1>p. PICK p \in Pools : p = held[s]
  BY PoolAssumption DEF Install, Owned, TypeOK
<1> DEFINE e == Evictee(s)
           left == IF e = NoDb THEN lru ELSE Without(lru, e)
<1>1. /\ d \in DBs \ Cached /\ e \in Cached \cup {NoDb} /\ lru' = Append(left, d) /\ current' = d
      /\ e = NoDb => Cardinality(Cached) < Cap
  BY <1>d, InstallCache DEF Ordered, Install
<1>2. \A c \in DBs : pools[c] # p
  BY <1>p, PoolAssumption DEF Install, Owned, TypeOK
<1>3. lru \in Seq(DBs) /\ Unique(lru) /\ Names(lru) = Cached /\ DOMAIN lru = 1 .. Len(lru)
  BY LruNames DEF Ordered, TypeOK
<1>4. left \in Seq(DBs) /\ Unique(left) /\ Names(left) = Cached \ {e}
  <2>1. NoDb \notin Cached
    BY PoolAssumption DEF Cached
  <2> QED  BY <1>1, <1>3, <2>1, WithoutType, WithoutNames
<1>5. pools'[d] = p /\ \A c \in DBs \ {d, e} : pools'[c] = pools[c]
  BY <1>1, <1>d, <1>p DEF Install
<1>6. Order' = Append(Entries(left, pools), <<d, p>>)
  <2>1. Entries(left, pools') = Entries(left, pools)
    <3>1. \A c \in Names(left) : pools'[c] = pools[c]
      BY <1>1, <1>4, <1>5 DEF Cached
    <3> HIDE DEF left
    <3> QED  BY <1>4, <3>1, EntriesAgree
  <2>2. Entries(Append(left, d), pools') = Append(Entries(left, pools'), <<d, pools'[d]>>)
    <3> HIDE DEF left
    <3> QED  BY <1>1, <1>4, EntriesOfAppend
  <2> QED  BY <1>1, <1>5, <2>1, <2>2 DEF Order
<1>7. Lru!New(d, p)
  <2>1. \A i \in 1 .. Len(lru) : lru[i] \in Cached /\ lru[i] \in DBs
    BY <1>3 DEF Names, Cached
  <2>2. \A i \in 1 .. Len(Order) : Order[i][1] # d /\ Order[i][2] # p
    BY <1>1, <1>2, <2>1, OrderFacts
  <2> QED  BY <2>2 DEF Lru!New, Order, Entries
<1>8. Len(Order) = Len(lru) /\ Cardinality(Cached) = Len(lru)
  BY OrderFacts, OrderLength DEF Ordered
<1>9. CASE e = NoDb
  <2>1. Order' = Append(Order, <<d, p>>) /\ Len(Order) < Cap
    BY <1>1, <1>6, <1>8, <1>9 DEF Order
  <2>2. Lru!Admit(d, p)
    BY <1>1, <1>7, <2>1 DEF Lru!Admit, Lru!Use, Order, Entries
  <2>3. \E k \in DBs, v \in Pools : Lru!Admit(k, v) \/ Lru!Replace(k, v)
    BY <2>2
  <2> QED  BY <2>3 DEF Lru!Next
<1>10. CASE e # NoDb
  <2>1. Len(lru) = Cap /\ 1 \in 1 .. Len(lru) /\ e = lru[1]
    BY <1>10, EvicteeIsOldest
  <2>2. Lru!But(1) = Entries(left, pools)
    BY <1>10, <2>1, ButIsWithout DEF Ordered
  <2>3. Order' = Append(Lru!But(1), <<d, p>>) /\ Len(Order) = Cap
    BY <1>6, <1>8, <2>1, <2>2
  <2>4. Lru!Replace(d, p)
    BY <1>1, <1>7, <2>3 DEF Lru!Replace, Lru!Use, Order, Entries
  <2>5. \E k \in DBs, v \in Pools : Lru!Admit(k, v) \/ Lru!Replace(k, v)
    BY <2>4
  <2> QED  BY <2>5 DEF Lru!Next
<1> QED  BY <1>9, <1>10

LEMMA ConnectRefines ==
  ASSUME TypeOK, TypeOK', Ordered, Blank, NEW d \in DBs, Connect(d)
  PROVE  Lru!Next
<1>p. PICK p \in Pools : p = Fresh
  BY FreshIsFree DEF Connect
<1>1. lru = << >> /\ lru' = Append(lru, d) /\ current' = d /\ pools'[d] = p
  BY <1>p DEF Connect, Blank, TypeOK
<1>2. Order = << >> /\ Len(Order) = 0
  BY <1>1 DEF Order, Entries
<1>3. Order' = Append(Order, <<d, p>>)
  <2>1. << >> \in Seq(DBs)
    OBVIOUS
  <2>2. Order' = Append(Entries(<< >>, pools'), <<d, p>>)
    BY <1>1, <2>1, EntriesOfAppend DEF Order
  <2>3. Entries(<< >>, pools') = << >>
    BY DEF Entries
  <2> QED  BY <1>2, <2>2, <2>3
<1>4. Lru!New(d, p) /\ 0 < Cap
  BY <1>1, PoolAssumption DEF Lru!New
<1>5. Lru!Admit(d, p)
  BY <1>1, <1>2, <1>3, <1>4 DEF Lru!Admit, Lru!Use, Order, Entries
<1>6. \E k \in DBs, v \in Pools : Lru!Admit(k, v) \/ Lru!Replace(k, v)
  BY <1>5
<1> QED  BY <1>6 DEF Lru!Next

LEMMA LruStep ==
  ASSUME Inv, Inv', [Next]_vars
  PROVE  [Lru!Next]_(Lru!vars)
<1> USE DEF Inv
<1>1. ASSUME UNCHANGED <<pools, lru, current>> PROVE UNCHANGED Lru!vars
  BY <1>1 DEF Lru!vars
<1>2. ASSUME NEW s \in Switchers, Switch(s) PROVE [Lru!Next]_(Lru!vars)
  <2>1. CASE RaceResolved(s)
    <3>1. want[s] \in Cached
      BY <2>1 DEF RaceResolved, Owned, Cached
    <3> QED  BY <2>1, <3>1, PromotionRefines DEF RaceResolved
  <2>2. CASE Install(s)
    BY <2>2, InstallRefines
  <2>3. CASE Dialled(s) \/ DialFailed(s) \/ Close(s) \/ Closed(s)
    BY <1>1, <2>3 DEF Dialled, DialFailed, Close, Closed, adapter
  <2> QED  BY <1>2, <2>1, <2>2, <2>3 DEF Switch
<1>3. ASSUME NEW s \in Switchers, NEW d \in DBs, Hit(s, d) PROVE Lru!Next
  <2>1. d \in Cached
    BY <1>3 DEF Hit, Cached
  <2> QED  BY <1>3, <2>1, PromotionRefines DEF Hit
<1>4. ASSUME NEW s \in Switchers, NEW d \in DBs, Miss(s, d) PROVE [Lru!Next]_(Lru!vars)
  BY <1>1, <1>4 DEF Miss, adapter
<1>5. ASSUME NEW p \in Pools, DrainClose(p) \/ DrainClosed(p) PROVE [Lru!Next]_(Lru!vars)
  BY <1>1, <1>5 DEF DrainClose, DrainClosed, adapter
<1>6. ASSUME NEW q \in Queries, Resolve(q) \/ Acquire(q) \/ Return(q) PROVE [Lru!Next]_(Lru!vars)
  BY <1>1, <1>6 DEF Resolve, Acquire, Return, adapter
<1>7. CASE UNCHANGED vars
  BY <1>1, <1>7 DEF vars, adapter
<1>8. CASE Disconnect
  <2>1. lru' = << >> /\ current' = NoDb
    BY <1>8 DEF Disconnect
  <2>2. Lru!Clear
    BY <2>1 DEF Lru!Clear
  <2> QED  BY <2>2 DEF Lru!Next
<1> QED  BY <1>2, <1>3, <1>4, <1>5, <1>6, <1>7, <1>8, ConnectRefines DEF Next

\* Whatever the dials of the switches overlap with, the users of the adapter see
\* the steps of a least-recently-used cache and no others: one pool per database,
\* the database in use the newest, at the cap the oldest one dropped.
THEOREM SubPoolsAreAnLruCache == Spec => CachesLikeLru
<1>1. Init => Lru!Init
  BY DEF Init, Lru!Init
<1>2. Inv /\ Inv' /\ [Next]_vars => [Lru!Next]_(Lru!vars)
  BY LruStep
<1> QED  BY <1>1, <1>2, Invariance, PTL DEF Spec, CachesLikeLru, Lru!Spec

-----------------------------------------------------------------------------
(* A switch returns *)

\* The provers know nothing of ENABLED: what they are told is that a switch can go
\* on where a guard of its actions holds.
CanGoOn(s) == ENABLED <<Switch(s)>>_vars
GuardsSuffice ==
  \A s \in Switchers :
    \/ pc[s] \in {"dial", "dialled", "evicted"}
    \/ pc[s] = "closing" /\ ~Busy(held[s])
    => CanGoOn(s)

\* Its own steps lead on, and nobody else moves it.
LEMMA SwitchAdvances ==
  ASSUME TypeOK, NEW s \in Switchers, Switch(s)
  PROVE  /\ pc[s] = "dial" => pc'[s] \in {"dialled", "idle"}
         /\ pc[s] = "dialled" => pc'[s] \in {"evicted", "idle"}
         /\ pc[s] = "evicted" => pc'[s] = "closing"
         /\ pc[s] = "closing" => pc'[s] = "idle"
BY DEF TypeOK, Switch, Dialled, DialFailed, RaceResolved, Install, Close, Closed

LEMMA OthersLeaveIt ==
  ASSUME TypeOK, NEW s \in Switchers, pc[s] # "idle", [Next]_vars, ~Switch(s)
  PROVE  pc'[s] = pc[s]
<1> USE DEF TypeOK
<1>1. ASSUME NEW t \in Switchers, Switch(t) PROVE pc'[s] = pc[s]
  <2>1. t # s
    BY <1>1
  <2> QED
    BY <1>1, <2>1 DEF Switch, Dialled, DialFailed, RaceResolved, Install, Close, Closed
<1>2. ASSUME NEW t \in Switchers, NEW d \in DBs, Hit(t, d) \/ Miss(t, d) PROVE pc'[s] = pc[s]
  BY <1>2 DEF Hit, Miss, switchers
<1>3. ASSUME NEW d \in DBs, Connect(d) PROVE pc'[s] = pc[s]
  BY <1>3 DEF Connect, switchers
<1>4. CASE Disconnect
  BY <1>4 DEF Disconnect, switchers
<1>5. ASSUME NEW p \in Pools, DrainClose(p) \/ DrainClosed(p) PROVE pc'[s] = pc[s]
  BY <1>5 DEF DrainClose, DrainClosed, switchers
<1>6. ASSUME NEW q \in Queries, Resolve(q) \/ Acquire(q) \/ Return(q) PROVE pc'[s] = pc[s]
  BY <1>6 DEF Resolve, Acquire, Return, switchers
<1>7. CASE UNCHANGED vars
  BY <1>7 DEF vars, switchers
<1> QED  BY <1>1, <1>2, <1>3, <1>4, <1>5, <1>6, <1>7 DEF Next

\* Any number of switches, databases and queries: a switch comes to its end, or to
\* the close of a pool on which a statement still runs.
THEOREM SwitchesReturn == FairSpec /\ []GuardsSuffice => SwitchReturns
<1>1. ASSUME NEW s \in Switchers
      PROVE  FairSpec /\ []GuardsSuffice => (pc[s] # "idle" ~> (pc[s] = "idle" \/ Busy(held[s])))
  <2> DEFINE Dialling == pc[s] = "dial"
             HasPool == pc[s] = "dialled"
             ToClose == pc[s] = "evicted"
             Waits == pc[s] = "closing"
             Away == pc[s] # "idle"
             Returned == pc[s] = "idle"
             Held == Busy(held[s])
  <2>1. FairSpec => Spec /\ Fairness(s)
    BY DEF FairSpec
  <2>2. GuardsSuffice => /\ Dialling \/ HasPool \/ ToClose => CanGoOn(s)
                         /\ Waits /\ ~Held => CanGoOn(s)
    BY DEF GuardsSuffice
  <2>3. TypeOK /\ Away => Dialling \/ HasPool \/ ToClose \/ Waits
    BY DEF TypeOK
  <2>4. TypeOK /\ [Next]_vars => /\ Dialling => Dialling' \/ HasPool' \/ Returned'
                                 /\ HasPool => HasPool' \/ ToClose' \/ Returned'
                                 /\ ToClose => ToClose' \/ Waits'
                                 /\ Waits => Waits' \/ Returned'
    BY SwitchAdvances, OthersLeaveIt
  <2>5. TypeOK /\ <<Switch(s)>>_vars => /\ Dialling => HasPool' \/ Returned'
                                        /\ HasPool => ToClose' \/ Returned'
                                        /\ ToClose => Waits'
                                        /\ Waits => Returned'
    BY SwitchAdvances
  <2> HIDE DEF Dialling, HasPool, ToClose, Waits, Away, Returned, Held
  <2>6. FairSpec /\ []GuardsSuffice => (Away ~> (Returned \/ Held))
    BY <2>1, <2>2, <2>3, <2>4, <2>5, TypeCorrect, PTL DEF Spec, Fairness, CanGoOn
  <2> QED  BY <2>6 DEF Away, Returned, Held
<1> QED  BY <1>1 DEF SwitchReturns

=============================================================================
