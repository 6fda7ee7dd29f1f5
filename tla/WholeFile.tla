----------------------------- MODULE WholeFile -----------------------------
(***************************************************************************)
(* What an export promises about the file the user picked: the file shows  *)
(* what it held before or one export from its first byte to its last, a    *)
(* success is reported of an export that is in place, and a failure, a     *)
(* cancellation or a crash of one that never will be.                      *)
(***************************************************************************)
CONSTANTS Exports, Targets,
  Old   \* what a file held before any export

VARIABLES
  file,    \* the export that each file shows
  fate,    \* of an export: still open, landed in its file, or dropped
  answer   \* what its caller was told

vars == <<file, fate, answer>>

Init ==
  /\ file = [t \in Targets |-> Old]
  /\ fate = [e \in Exports |-> "open"]
  /\ answer = [e \in Exports |-> "none"]

Land(e, t) ==
  /\ fate[e] = "open"
  /\ file' = [file EXCEPT ![t] = e]
  /\ fate' = [fate EXCEPT ![e] = "landed"]
  /\ UNCHANGED answer

\* One export fails or is cancelled, or a crash takes several.
Drop(S) ==
  /\ \A e \in S : fate[e] = "open"
  /\ fate' = [e \in Exports |-> IF e \in S THEN "dropped" ELSE fate[e]]
  /\ UNCHANGED <<file, answer>>

Answer(e) ==
  /\ answer[e] = "none" /\ fate[e] # "open"
  /\ answer' = [answer EXCEPT ![e] = IF fate[e] = "landed" THEN "done" ELSE "failed"]
  /\ UNCHANGED <<file, fate>>

\* A path that cannot be exported to is refused at once.
Refuse(e) ==
  /\ answer[e] = "none" /\ fate[e] = "open"
  /\ fate' = [fate EXCEPT ![e] = "dropped"]
  /\ answer' = [answer EXCEPT ![e] = "failed"]
  /\ UNCHANGED file

Next ==
  \/ \E e \in Exports : Answer(e) \/ Refuse(e) \/ \E t \in Targets : Land(e, t)
  \/ \E S \in SUBSET Exports : Drop(S)

Spec == Init /\ [][Next]_vars
=============================================================================
