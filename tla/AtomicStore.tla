---------------------------- MODULE AtomicStore ----------------------------
(***************************************************************************)
(* What the store of the saved connections promises to the rest of the     *)
(* program, whatever happens to keys, files and the process: there is one  *)
(* saved content; a save prepares a new one and either publishes all of it *)
(* or leaves the old one; nothing else changes what is saved.              *)
(***************************************************************************)
CONSTANT Contents   \* what may be saved

VARIABLES
  saved,   \* the content a load returns
  draft    \* what the save in progress is going to publish: at most one

vars == <<saved, draft>>

Init == saved \in Contents /\ draft = {}

Prepare ==
  /\ draft = {}
  /\ \E c \in Contents : draft' = {c}
  /\ UNCHANGED saved

Publish ==
  /\ draft # {}
  /\ saved' \in draft
  /\ draft' = {}

\* The save fails or the process dies.
Discard ==
  /\ draft # {}
  /\ draft' = {}
  /\ UNCHANGED saved

Next == Prepare \/ Publish \/ Discard

Spec == Init /\ [][Next]_vars
=============================================================================
