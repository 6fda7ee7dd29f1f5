----------------------------- MODULE ScriptRun -----------------------------
(***************************************************************************)
(* What running a script promises to whoever sent it, whatever is stopped, *)
(* killed or refused meanwhile: it waits for one statement at a time and   *)
(* sends them in order, the next one only after the one before was         *)
(* reported a success; a failure is told of no statement that is still on  *)
(* the server, a cancellation only after somebody pressed Stop.            *)
(*                                                                         *)
(* A success is not the end of the statement: when the answer was cut at   *)
(* the row cap the server goes on with it, and that is all it may be doing *)
(* for the run besides the statement in turn.                              *)
(*                                                                         *)
(* A single statement is a script of one.                                  *)
(***************************************************************************)
EXTENDS Naturals

CONSTANTS
  Runs,
  Size   \* the number of statements of a run

VARIABLES
  state,     \* of the statement in turn: waits, works, or what came of it
  at,        \* its number
  busy,      \* the runs with a statement on the server, in turn or cancelled
  trailing,  \* the runs with one there whose answer was cut
  stopped    \* the runs whose Stop was pressed

vars == <<state, at, busy, trailing, stopped>>

Init ==
  /\ state = [r \in Runs |-> "idle"]
  /\ at = [r \in Runs |-> 0]
  /\ busy = {}
  /\ trailing = {}
  /\ stopped = {}

Turns(r, s) == state' = [state EXCEPT ![r] = s]

Ask(r) ==
  /\ state[r] = "idle"
  /\ Turns(r, "waits")
  /\ at' = [at EXCEPT ![r] = 1]
  /\ UNCHANGED <<busy, trailing, stopped>>

Send(r) ==
  /\ state[r] = "waits" /\ r \notin busy
  /\ Turns(r, "works")
  /\ busy' = busy \cup {r}
  /\ UNCHANGED <<at, trailing, stopped>>

Succeed(r) ==
  /\ state[r] = "works" /\ r \in busy
  /\ Turns(r, "ok")
  /\ busy' = busy \ {r}
  /\ trailing' \in {trailing, trailing \cup {r}}
  /\ UNCHANGED <<at, stopped>>

Continue(r) ==
  /\ state[r] = "ok" /\ r \notin busy /\ at[r] < Size[r]
  /\ Turns(r, "waits")
  /\ at' = [at EXCEPT ![r] = @ + 1]
  /\ UNCHANGED <<busy, trailing, stopped>>

\* Refused before it was sent, or failed on the server.
Fail(r) ==
  /\ state[r] \in {"waits", "works"}
  /\ \E s \in {"failed", "rejected"} : Turns(r, s)
  /\ state[r] = "waits" => r \notin busy
  /\ busy' = busy \ {r}
  /\ UNCHANGED <<at, trailing, stopped>>

\* The statement may stay on the server.
Cancel(r) ==
  /\ state[r] \in {"waits", "works"} /\ r \in stopped
  /\ Turns(r, "cancelled")
  /\ \/ UNCHANGED <<busy, trailing>>
     \/ busy' = busy \ {r} /\ trailing' \in {trailing, trailing \cup (busy \cap {r})}
  /\ UNCHANGED <<at, stopped>>

\* A kill took the statement from under the run.
Interrupt(r) ==
  /\ state[r] = "works" /\ r \notin busy
  /\ Turns(r, "interrupted")
  /\ UNCHANGED <<at, busy, trailing, stopped>>

\* Nobody loses a statement he works on unless somebody pressed Stop.
Leave(r) ==
  /\ r \in busy /\ (state[r] = "works" => stopped # {})
  /\ busy' = busy \ {r}
  /\ UNCHANGED <<state, at, trailing, stopped>>

\* The server is done with what it was never asked for.
End(r) ==
  /\ r \in trailing
  /\ trailing' = trailing \ {r}
  /\ UNCHANGED <<state, at, busy, stopped>>

Stop(r) ==
  /\ stopped' = stopped \cup {r}
  /\ UNCHANGED <<state, at, busy, trailing>>

Next ==
  \E r \in Runs :
    \/ Ask(r) \/ Send(r) \/ Succeed(r) \/ Continue(r)
    \/ Fail(r) \/ Cancel(r) \/ Interrupt(r) \/ Leave(r) \/ End(r) \/ Stop(r)

Spec == Init /\ [][Next]_vars
=============================================================================
