---------------------------- MODULE ConnService ----------------------------
(***************************************************************************)
(* What the backend promises about one connection to the rest of the       *)
(* program: connects and disconnects take effect one at a time, a pool is  *)
(* only there while somebody wants the connection up, and Connected and    *)
(* Disconnected are recorded only when they are true.                      *)
(***************************************************************************)
CONSTANTS Pools, NoPool

VARIABLES
  asked,   \* a connect is under way
  wanted,  \* nobody has torn the connection down since it was brought up
  pool,    \* the registered pool
  status   \* the recorded status

vars == <<asked, wanted, pool, status>>

Init == ~asked /\ ~wanted /\ pool = NoPool /\ status = "Absent"

\* A connect begins, on a connection that may be up.
Ask ==
  /\ ~asked /\ asked' = TRUE
  /\ status' = "Connecting"
  /\ UNCHANGED <<wanted, pool>>

\* It fails: a pool that was there stays.
Refuse ==
  /\ asked /\ asked' = FALSE
  /\ status' = "Error"
  /\ UNCHANGED <<wanted, pool>>

\* It succeeds, first with the intention, then with the pool.
Arm ==
  /\ asked /\ wanted' = TRUE
  /\ UNCHANGED <<asked, pool, status>>

\* A pool comes in, of a connect or of a reconnect, in the place of another.
Raise ==
  /\ wanted /\ status # "Disconnected"
  /\ pool' \in Pools
  /\ UNCHANGED <<asked, wanted, status>>

Confirm ==
  /\ wanted /\ pool # NoPool
  /\ status' = "Connected"
  /\ asked' = FALSE
  /\ UNCHANGED <<wanted, pool>>

\* A ping or a redial failed, of this connection or of one it has replaced.
Fault ==
  /\ status' = "Error"
  /\ UNCHANGED <<asked, wanted, pool>>

\* A disconnect: the intention and the pool go together, then it is recorded.
Abandon ==
  /\ ~asked /\ wanted' = FALSE /\ pool' = NoPool
  /\ UNCHANGED <<asked, status>>

Settle ==
  /\ ~asked /\ ~wanted /\ pool = NoPool
  /\ status' = "Disconnected"
  /\ UNCHANGED <<asked, wanted, pool>>

Next == Ask \/ Refuse \/ Arm \/ Raise \/ Confirm \/ Fault \/ Abandon \/ Settle

Spec == Init /\ [][Next]_vars
=============================================================================
