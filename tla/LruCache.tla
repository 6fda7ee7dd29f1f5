------------------------------ MODULE LruCache ------------------------------
(***************************************************************************)
(* What the cache of sub-pools promises to the queries that use it: it is  *)
(* a least-recently-used cache.  Every step below is one step: however     *)
(* many switches dial at once, nobody sees a cache between them.           *)
(***************************************************************************)
EXTENDS Naturals, Sequences

CONSTANTS Keys, Values, Cap, NoKey

VARIABLES
  order,  \* <<key, value>> entries, the least recently used first
  inUse   \* the key that queries are served from

vars == <<order, inUse>>

Init == order = << >> /\ inUse = NoKey

\* The entries but the i-th.
But(i) == [j \in 1 .. Len(order) - 1 |-> IF j < i THEN order[j] ELSE order[j + 1]]

\* The newest entry is the one in use.
Use(entries, e) ==
  /\ order' = Append(entries, e)
  /\ inUse' = e[1]

\* The key is in the cache.
Promote(i) == Use(But(i), order[i])

\* It is not, and neither is its value: one value per key and one key per value.
New(k, v) == \A i \in 1 .. Len(order) : order[i][1] # k /\ order[i][2] # v

Admit(k, v) ==
  /\ New(k, v) /\ Len(order) < Cap
  /\ Use(order, <<k, v>>)

\* A full cache makes room by dropping the entry that was used longest ago.
Replace(k, v) ==
  /\ New(k, v) /\ Len(order) = Cap
  /\ Use(But(1), <<k, v>>)

Clear == order' = << >> /\ inUse' = NoKey

Next ==
  \/ \E i \in 1 .. Len(order) : Promote(i)
  \/ \E k \in Keys, v \in Values : Admit(k, v) \/ Replace(k, v)
  \/ Clear

Spec == Init /\ [][Next]_vars
=============================================================================
