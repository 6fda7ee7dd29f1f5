------------------------------ MODULE Archive ------------------------------
(***************************************************************************)
(* What the recovery of the local store promises: a damaged database makes *)
(* room for a new one, and no database is ever replaced or thrown away.    *)
(***************************************************************************)
CONSTANTS Databases, None

VARIABLES
  current,   \* the database under its proper name, or None
  kept       \* the databases set aside

vars == <<current, kept>>

Init == current \in Databases \union {None} /\ kept = {}

Create(d) ==
  /\ current = None /\ d \notin kept
  /\ current' = d
  /\ UNCHANGED kept

SetAside ==
  /\ current # None
  /\ current' = None
  /\ kept' = kept \union {current}

Next == SetAside \/ \E d \in Databases : Create(d)

Spec == Init /\ [][Next]_vars
=============================================================================
