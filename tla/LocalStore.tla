----------------------------- MODULE LocalStore -----------------------------
(***************************************************************************)
(* Opening state.db, the SQLite store of the application: a file that      *)
(* looks damaged, or whose migration and health check end in an error, is  *)
(* quarantined under a backup name and a fresh one is created.  open_pool  *)
(* is called by the shared pool of the process, which tries again at the   *)
(* next command when it failed, and by every lookup of an SSH host key,    *)
(* which uses a pool of its own for one statement.                         *)
(*                                                                         *)
(* A database is a number, from the file's creation on.  A file that was   *)
(* moved stays the file of the pool that has it open, whereas SQLite finds *)
(* the write-ahead log by its name.  The -shm file, which SQLite rebuilds, *)
(* moves with the log and is left out, and so are the DID_RECOVER flag,    *)
(* which only feeds a toast, and the file modes.                           *)
(***************************************************************************)
EXTENDS Naturals, FiniteSets

CONSTANTS
  Openers,       \* the callers of open_pool
  Shared,        \* the one behind get_or_init_pool
  Names,         \* the backup names that can be tried
  None, Blank,   \* no file; the empty file that reserves a name
  MaxDatabases   \* bound: databases ever created

Databases == 1..MaxDatabases

ASSUME OpenersAssumption == Shared \in Openers
ASSUME NullAssumption == {None, Blank} \intersect (Databases \union Names) = {} /\ None # Blank
ASSUME BoundAssumption == MaxDatabases \in Nat

VARIABLES
  callers,   \* who opens the store in this history
  live,      \* the database in state.db, or None
  log,       \* the database whose log is in state.db-wal, or None
  aside,     \* the file under each backup name
  logs,      \* the log beside each backup name
  health,    \* of a database: "empty" until its first page is written
  made,      \* databases created so far
  pc,        \* where a call of open_pool stands
  again,     \* the calls that have failed a health check and retry
  claim,     \* the backup name a quarantine has taken
  moved,     \* the quarantines that have moved the log
  pool       \* the database a call has open

diskVars == <<live, log, aside, logs, health, made>>
callVars == <<pc, again, claim, moved, pool>>
vars == <<callers, diskVars, callVars>>

Places == {"idle", "probing", "claiming", "claimed", "moving", "undoing", "returning",
           "opening", "starting", "checking", "open"}
Quarantining == {"claimed", "moving", "undoing", "returning"}
Connected == {"starting", "checking", "open"}

Init ==
  /\ callers \in {S \in SUBSET Openers : Shared \in S}
  /\ made \in {0, 1} /\ made <= MaxDatabases
  /\ live = IF made = 0 THEN None ELSE 1
  /\ log \in {None, live}
  /\ aside = [n \in Names |-> None] /\ logs = [n \in Names |-> None]
  /\ health \in {[d \in Databases |-> h] : h \in {"good", "header", "body"}}
  /\ pc = [o \in Openers |-> "idle"]
  /\ again = {} /\ moved = {}
  /\ claim = [o \in Openers |-> None]
  /\ pool = [o \in Openers |-> None]

Goto(o, place) == pc' = [pc EXCEPT ![o] = place]

(***************************************************************************)
(* open_pool.                                                              *)
(***************************************************************************)
\* A file that is not there needs no probe.
Call(o) ==
  /\ o \in callers /\ pc[o] = "idle"
  /\ Goto(o, IF live = None THEN "opening" ELSE "probing")
  /\ UNCHANGED <<callers, diskVars, again, claim, moved, pool>>

\* The probe reads the size of the file and its first bytes.
Damaged == live # None /\ health[live] \in {"empty", "header"}

ProbePasses(o) ==
  /\ pc[o] = "probing" /\ live # None /\ ~Damaged
  /\ Goto(o, "opening")
  /\ UNCHANGED <<callers, diskVars, again, claim, moved, pool>>

\* The file is damaged, cannot be read, or was moved away by another call.
ProbeFails(o) ==
  /\ pc[o] = "probing"
  /\ Goto(o, "claiming")
  /\ UNCHANGED <<callers, diskVars, again, claim, moved, pool>>

Open(o) ==
  /\ pc[o] = "opening"
  /\ Goto(o, "starting")
  /\ IF live # None
     THEN /\ pool' = [pool EXCEPT ![o] = live]
          /\ UNCHANGED <<live, health, made>>
     ELSE /\ made + 1 \in Databases
          /\ made' = made + 1 /\ live' = made + 1
          /\ health' = [health EXCEPT ![made + 1] = "empty"]
          /\ pool' = [pool EXCEPT ![o] = made + 1]
  /\ UNCHANGED <<callers, log, aside, logs, again, claim, moved>>

\* The journal mode: writes the first page of a new file and opens the log.
Start(o) ==
  /\ pc[o] = "starting"
  /\ Goto(o, "checking")
  /\ health' = IF health[pool[o]] = "empty" THEN [health EXCEPT ![pool[o]] = "good"] ELSE health
  /\ log' = IF log = None THEN pool[o] ELSE log
  /\ UNCHANGED <<callers, live, aside, logs, made, again, claim, moved, pool>>

Healthy(o) ==
  /\ pc[o] = "checking" /\ health[pool[o]] = "good"
  /\ Goto(o, "open")
  /\ again' = again \ {o}
  /\ UNCHANGED <<callers, diskVars, claim, moved, pool>>

\* The last connection to a database may delete its log when it is closed.
Disconnect(o) ==
  /\ pool' = [pool EXCEPT ![o] = None]
  /\ \/ log' = log
     \/ /\ log = pool[o] /\ \A p \in Openers \ {o} : pool[p] # log
        /\ log' = None

\* An error of a lock or of a migration, which leaves the file alone.
Refused(o) ==
  /\ pc[o] \in {"opening", "starting", "checking"}
  /\ Goto(o, "idle")
  /\ again' = again \ {o}
  /\ Disconnect(o)
  /\ UNCHANGED <<callers, live, aside, logs, health, made, claim, moved>>

\* Any other error, of a damaged database or not: one quarantine, one retry.
CheckFails(o) ==
  /\ pc[o] \in {"opening", "starting", "checking"}
  /\ IF o \in again
     THEN Goto(o, "idle") /\ again' = again \ {o}
     ELSE Goto(o, "claiming") /\ again' = again \union {o}
  /\ Disconnect(o)
  /\ UNCHANGED <<callers, live, aside, logs, health, made, claim, moved>>

\* A host-key lookup drops its pool after its statement.
Close(o) ==
  /\ o # Shared /\ pc[o] = "open"
  /\ Goto(o, "idle")
  /\ Disconnect(o)
  /\ UNCHANGED <<callers, live, aside, logs, health, made, again, claim, moved>>

(***************************************************************************)
(* quarantine: take a free name, move the log, move the file; a step that  *)
(* fails takes the others back.                                            *)
(***************************************************************************)
Taking(o, n) ==
  /\ Goto(o, "claimed")
  /\ aside' = [aside EXCEPT ![n] = Blank]
  /\ claim' = [claim EXCEPT ![o] = n]
  /\ UNCHANGED <<callers, live, log, logs, health, made, again, moved, pool>>

BUG_Claim(o) == pc[o] = "claiming" /\ \E n \in Names : Taking(o, n)

Claim(o) == pc[o] = "claiming" /\ \E n \in Names : aside[n] = None /\ Taking(o, n)

\* No name is free, or none can be created.
ClaimFails(o) ==
  /\ pc[o] = "claiming"
  /\ Goto(o, "idle")
  /\ again' = again \ {o}
  /\ UNCHANGED <<callers, diskVars, claim, moved, pool>>

BUG_MoveLog(o) ==
  /\ pc[o] = "claimed"
  /\ Goto(o, "moving")
  /\ UNCHANGED <<callers, diskVars, again, claim, moved, pool>>

MoveLog(o) ==
  /\ pc[o] = "claimed"
  /\ Goto(o, "moving")
  /\ IF log = None
     THEN UNCHANGED <<log, logs, moved>>
     ELSE /\ logs' = [logs EXCEPT ![claim[o]] = log]
          /\ log' = None
          /\ moved' = moved \union {o}
  /\ UNCHANGED <<callers, live, aside, health, made, again, claim, pool>>

MoveFile(o) ==
  /\ pc[o] = "moving" /\ live # None
  /\ Goto(o, "opening")
  /\ aside' = [aside EXCEPT ![claim[o]] = live]
  /\ live' = None
  /\ claim' = [claim EXCEPT ![o] = None]
  /\ moved' = moved \ {o}
  /\ UNCHANGED <<callers, log, logs, health, made, again, pool>>

\* A rename fails: always when another call has moved the file away.
MoveFails(o) ==
  /\ pc[o] \in {"claimed", "moving"}
  /\ Goto(o, "undoing")
  /\ UNCHANGED <<callers, diskVars, again, claim, moved, pool>>

\* The log goes back over whatever lies there, unless that fails too.
Rewind(o) ==
  /\ pc[o] = "undoing"
  /\ Goto(o, "returning")
  /\ moved' = moved \ {o}
  /\ \/ UNCHANGED <<log, logs>>
     \/ /\ o \in moved /\ logs[claim[o]] # None
        /\ log' = logs[claim[o]]
        /\ logs' = [logs EXCEPT ![claim[o]] = None]
  /\ UNCHANGED <<callers, live, aside, health, made, again, claim, pool>>

GiveBack(o) ==
  /\ pc[o] = "returning"
  /\ Goto(o, "idle")
  /\ aside' = [aside EXCEPT ![claim[o]] = None]
  /\ claim' = [claim EXCEPT ![o] = None]
  /\ again' = again \ {o}
  /\ UNCHANGED <<callers, live, log, logs, health, made, moved, pool>>

(***************************************************************************)
(* The world: the file is damaged, the program ends at any point.          *)
(***************************************************************************)
Damage ==
  /\ live # None /\ health[live] = "good"
  /\ \E h \in {"header", "body"} : health' = [health EXCEPT ![live] = h]
  /\ UNCHANGED <<callers, live, log, aside, logs, made, callVars>>

Exit ==
  /\ pc' = [o \in Openers |-> "idle"]
  /\ again' = {} /\ moved' = {}
  /\ claim' = [o \in Openers |-> None]
  /\ pool' = [o \in Openers |-> None]
  /\ UNCHANGED <<callers, diskVars>>

Next ==
  \/ \E o \in Openers :
       \/ Call(o) \/ ProbePasses(o) \/ ProbeFails(o) \/ Open(o) \/ Start(o) \/ Healthy(o)
       \/ Refused(o) \/ CheckFails(o) \/ Close(o)
       \/ Claim(o) \/ ClaimFails(o) \/ MoveLog(o) \/ MoveFile(o)
       \/ MoveFails(o) \/ Rewind(o) \/ GiveBack(o)
  \/ Damage \/ Exit

Spec == Init /\ [][Next]_vars

(***************************************************************************)
(* Properties.                                                             *)
(***************************************************************************)

\* Types; a name that a quarantine has taken is reserved by its empty file and
\* taken by no other (claim_quarantine_path).
TypeOK ==
  /\ callers \subseteq Openers
  /\ live \in Databases \union {None} /\ log \in Databases \union {None}
  /\ aside \in [Names -> Databases \union {None, Blank}]
  /\ logs \in [Names -> Databases \union {None}]
  /\ health \in [Databases -> {"empty", "good", "header", "body"}]
  /\ made \in 0..MaxDatabases
  /\ pc \in [Openers -> Places]
  /\ again \subseteq Openers /\ moved \subseteq Openers
  /\ claim \in [Openers -> Names \union {None}]
  /\ pool \in [Openers -> Databases \union {None}]
  /\ \A o \in Openers :
       /\ claim[o] # None <=> pc[o] \in Quarantining
       /\ claim[o] # None => aside[claim[o]] = Blank
       /\ \A p \in Openers \ {o} : claim[o] # None => claim[p] # claim[o]

\* Every database that was ever in state.db is there or under a backup name,
\* whatever fails and whoever else opens the store (quarantine).
Store == INSTANCE Archive WITH
  current <- live, kept <- {aside[n] : n \in Names} \ {None, Blank}

NothingThrownAway == Store!Spec

\* As long as the shared pool alone opens the store, state.db never lies beside
\* the log of another database, which SQLite would replay into it (issue #1095).
NoForeignLog ==
  callers = {Shared} => log \in {None, live}
=============================================================================
