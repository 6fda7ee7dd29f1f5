-------------------------- MODULE LocalStore_proofs --------------------------
(***************************************************************************)
(* What holds of the local store for any callers, backup names and number  *)
(* of databases.  Typed adds to the types that a connected call has a      *)
(* database open; Claimed says which names are reserved and for whom,      *)
(* Numbered that a new database is none of the old ones, and Alone what a  *)
(* caller that nobody interferes with finds at each point.  The last part  *)
(* says where every database is to be found, and what is never replaced.   *)
(***************************************************************************)
EXTENDS LocalStore, TLAPS

Typed ==
  /\ callers \subseteq Openers
  /\ live \in Databases \union {None} /\ log \in Databases \union {None}
  /\ aside \in [Names -> Databases \union {None, Blank}]
  /\ logs \in [Names -> Databases \union {None}]
  /\ health \in [Databases -> {"empty", "good", "header", "body"}]
  /\ made \in 0..MaxDatabases
  /\ pc \in [Openers -> Places]
  /\ again \subseteq Openers /\ moved \subseteq Openers
  /\ claim \in [Openers -> Names \union {None}]
  /\ pool \in [Openers -> Databases \union {None}]
  /\ \A o \in Openers : pc[o] \in Connected => pool[o] \in Databases

Claimed ==
  \A o \in Openers :
    /\ claim[o] # None <=> pc[o] \in Quarantining
    /\ claim[o] # None => aside[claim[o]] = Blank
    /\ \A p \in Openers \ {o} : claim[o] # None => claim[p] # claim[o]

Numbered ==
  /\ live # None => live <= made
  /\ \A n \in Names : aside[n] \in Databases => aside[n] <= made

Alone ==
  callers = {Shared} =>
    /\ log \in {None, live}
    /\ \A o \in Openers \ {Shared} : pc[o] = "idle"
    /\ pc[Shared] \in Connected => pool[Shared] = live
    /\ pc[Shared] = "moving" => log = None
    /\ Shared \in moved => /\ pc[Shared] \in {"moving", "undoing"}
                           /\ log = None /\ live # None
                           /\ logs[claim[Shared]] = live

Inv == Typed /\ Claimed /\ Numbered /\ Alone

LEMMA Apart ==
  /\ None \notin Databases /\ Blank \notin Databases /\ None \notin Names /\ None # Blank
  /\ Databases \subseteq Nat
BY NullAssumption, BoundAssumption DEF Databases

LEMMA InvInit == Init => Inv
<1> SUFFICES ASSUME Init PROVE Inv
  OBVIOUS
<1> USE Apart, BoundAssumption, OpenersAssumption
<1>1. made \in 0..MaxDatabases /\ live \in Databases \union {None} /\ (live # None => live <= made)
  BY DEF Init, Databases
<1>2. Typed
  BY <1>1 DEF Init, Typed, Places, Connected
<1>3. Claimed
  BY DEF Init, Claimed, Quarantining
<1>4. Numbered
  BY <1>1 DEF Init, Numbered
<1>5. Alone
  BY DEF Init, Alone, Connected
<1> QED
  BY <1>2, <1>3, <1>4, <1>5 DEF Inv

(***************************************************************************)
(* One lemma per part, one step per action.                                *)
(***************************************************************************)
LEMMA TypedStep == Inv /\ [Next]_vars => Typed'
<1> SUFFICES ASSUME Inv, [Next]_vars PROVE Typed'
  OBVIOUS
<1> USE Apart DEF Inv, Typed, Goto, diskVars, callVars, Connected
<1>1. ASSUME NEW o \in Openers, Call(o) \/ ProbePasses(o) \/ ProbeFails(o) \/ Healthy(o) \/ ClaimFails(o) \/ MoveFails(o)
      PROVE  Typed'
  BY <1>1 DEF Call, ProbePasses, ProbeFails, Healthy, ClaimFails, MoveFails, Places
<1>2. ASSUME NEW o \in Openers, Open(o) PROVE Typed'
  <2>1. CASE live # None
    BY <1>2, <2>1 DEF Open, Places
  <2>2. CASE live = None
    <3>1. made + 1 \in Databases /\ made' = made + 1
      BY <1>2, <2>2 DEF Open
    <3>2. made' \in 0..MaxDatabases
      BY <3>1, BoundAssumption DEF Databases
    <3> QED
      BY <1>2, <2>2, <3>1, <3>2 DEF Open, Places
  <2> QED
    BY <2>1, <2>2
<1>3. ASSUME NEW o \in Openers, Start(o) PROVE Typed'
  BY <1>3 DEF Start, Places
<1>4. ASSUME NEW o \in Openers, Refused(o) \/ CheckFails(o) \/ Close(o) PROVE Typed'
  BY <1>4 DEF Refused, CheckFails, Close, Disconnect, Places
<1>5. ASSUME NEW o \in Openers, Claim(o) PROVE Typed'
  BY <1>5 DEF Claim, Taking, Places
<1>6. ASSUME NEW o \in Openers, MoveLog(o) \/ MoveFile(o) PROVE Typed'
  BY <1>6 DEF MoveLog, MoveFile, Places
<1>7. ASSUME NEW o \in Openers, Rewind(o) PROVE Typed'
  <2>1. claim[o] \in Names
    BY <1>7 DEF Rewind, Claimed, Quarantining
  <2> QED
    BY <1>7, <2>1 DEF Rewind, Places
<1>8. ASSUME NEW o \in Openers, GiveBack(o) PROVE Typed'
  BY <1>8 DEF GiveBack, Places
<1>9. ASSUME Damage \/ Exit PROVE Typed'
  BY <1>9 DEF Damage, Exit, Places
<1>10. CASE UNCHANGED vars
  BY <1>10 DEF vars
<1> QED
  BY <1>1, <1>2, <1>3, <1>4, <1>5, <1>6, <1>7, <1>8, <1>9, <1>10 DEF Next

LEMMA ClaimedStep == Inv /\ [Next]_vars => Claimed'
<1> SUFFICES ASSUME Inv, [Next]_vars PROVE Claimed'
  OBVIOUS
<1> USE Apart DEF Inv, Typed, Claimed, Goto, diskVars, callVars, Quarantining
<1>1. ASSUME NEW o \in Openers, Call(o) \/ ProbePasses(o) \/ ProbeFails(o) \/ Healthy(o) \/ ClaimFails(o) \/ MoveFails(o)
      PROVE  Claimed'
  BY <1>1 DEF Call, ProbePasses, ProbeFails, Healthy, ClaimFails, MoveFails
<1>2. ASSUME NEW o \in Openers, Open(o) \/ Start(o) PROVE Claimed'
  BY <1>2 DEF Open, Start
<1>3. ASSUME NEW o \in Openers, Refused(o) \/ CheckFails(o) \/ Close(o) PROVE Claimed'
  BY <1>3 DEF Refused, CheckFails, Close
<1>4. ASSUME NEW o \in Openers, Claim(o) PROVE Claimed'
  BY <1>4 DEF Claim, Taking
<1>5. ASSUME NEW o \in Openers, MoveLog(o) \/ Rewind(o) PROVE Claimed'
  BY <1>5 DEF MoveLog, Rewind
<1>6. ASSUME NEW o \in Openers, MoveFile(o) \/ GiveBack(o) PROVE Claimed'
  BY <1>6 DEF MoveFile, GiveBack
<1>7. ASSUME Damage \/ Exit PROVE Claimed'
  BY <1>7 DEF Damage, Exit
<1>8. CASE UNCHANGED vars
  BY <1>8 DEF vars
<1> QED
  BY <1>1, <1>2, <1>3, <1>4, <1>5, <1>6, <1>7, <1>8 DEF Next

LEMMA NumberedStep == Inv /\ [Next]_vars => Numbered'
<1> SUFFICES ASSUME Inv, [Next]_vars PROVE Numbered'
  OBVIOUS
<1> USE Apart DEF Inv, Typed, Numbered, diskVars, callVars
<1>1. ASSUME NEW o \in Openers,
             Call(o) \/ ProbePasses(o) \/ ProbeFails(o) \/ Healthy(o) \/ ClaimFails(o) \/ MoveFails(o)
      PROVE  Numbered'
  BY <1>1 DEF Call, ProbePasses, ProbeFails, Healthy, ClaimFails, MoveFails
<1>2. ASSUME NEW o \in Openers, Open(o) PROVE Numbered'
  BY <1>2 DEF Open, Databases
<1>3. ASSUME NEW o \in Openers, Start(o) \/ MoveLog(o) \/ Rewind(o) PROVE Numbered'
  BY <1>3 DEF Start, MoveLog, Rewind
<1>4. ASSUME NEW o \in Openers, Refused(o) \/ CheckFails(o) \/ Close(o) PROVE Numbered'
  BY <1>4 DEF Refused, CheckFails, Close
<1>5. ASSUME NEW o \in Openers, Claim(o) \/ MoveFile(o) \/ GiveBack(o) PROVE Numbered'
  BY <1>5 DEF Claim, Taking, MoveFile, GiveBack
<1>6. ASSUME Damage \/ Exit PROVE Numbered'
  BY <1>6 DEF Damage, Exit
<1>7. CASE UNCHANGED vars
  BY <1>7 DEF vars
<1> QED
  BY <1>1, <1>2, <1>3, <1>4, <1>5, <1>6, <1>7 DEF Next

LEMMA AloneStep == Inv /\ [Next]_vars => Alone'
<1> SUFFICES ASSUME Inv, [Next]_vars, callers' = {Shared} PROVE Alone'
  BY DEF Alone
<1>0. callers' = callers /\ callers = {Shared}
  BY DEF Next, Call, ProbePasses, ProbeFails, Open, Start, Healthy, Refused, CheckFails, Close, Claim, Taking,
         ClaimFails, MoveLog, MoveFile, MoveFails, Rewind, GiveBack, Damage, Exit, vars
<1> DEFINE Rest ==
      /\ log \in {None, live}
      /\ \A o \in Openers \ {Shared} : pc[o] = "idle"
      /\ pc[Shared] \in Connected => pool[Shared] = live
      /\ pc[Shared] = "moving" => log = None
      /\ Shared \in moved => /\ pc[Shared] \in {"moving", "undoing"}
                             /\ log = None /\ live # None
                             /\ logs[claim[Shared]] = live
<1>r. Rest
  BY <1>0 DEF Inv, Alone
<1> SUFFICES Rest'
  BY DEF Alone
<1>s. Shared \in Openers
  BY OpenersAssumption
<1> USE <1>r, <1>s, Apart DEF Inv, Typed, Goto, diskVars, callVars, Connected
<1>1. ASSUME NEW o \in Openers, Call(o) PROVE Rest'
  BY <1>0, <1>1 DEF Call
<1>2. ASSUME NEW o \in Openers, ProbePasses(o) \/ ProbeFails(o) \/ Healthy(o) \/ ClaimFails(o) \/ MoveFails(o) PROVE Rest'
  BY <1>2 DEF ProbePasses, ProbeFails, Healthy, ClaimFails, MoveFails
<1>3. ASSUME NEW o \in Openers, Open(o) PROVE Rest'
  BY <1>3 DEF Open
<1>4. ASSUME NEW o \in Openers, Start(o) PROVE Rest'
  BY <1>4 DEF Start
<1>5. ASSUME NEW o \in Openers, Refused(o) \/ CheckFails(o) \/ Close(o) PROVE Rest'
  BY <1>5 DEF Refused, CheckFails, Close, Disconnect
<1>6. ASSUME NEW o \in Openers, Claim(o) PROVE Rest'
  BY <1>6 DEF Claim, Taking
<1>7. ASSUME NEW o \in Openers, MoveLog(o) PROVE Rest'
  <2>1. o = Shared /\ claim[o] \in Names
    BY <1>7 DEF MoveLog, Claimed, Quarantining
  <2> QED
    BY <1>7, <2>1 DEF MoveLog
<1>8. ASSUME NEW o \in Openers, MoveFile(o) PROVE Rest'
  BY <1>8 DEF MoveFile
<1>9. ASSUME NEW o \in Openers, Rewind(o) PROVE Rest'
  BY <1>9 DEF Rewind
<1>10. ASSUME NEW o \in Openers, GiveBack(o) PROVE Rest'
  BY <1>10 DEF GiveBack
<1>11. ASSUME Damage \/ Exit PROVE Rest'
  BY <1>11 DEF Damage, Exit
<1>12. CASE UNCHANGED vars
  BY <1>12 DEF vars
<1> HIDE DEF Rest
<1> QED
  BY <1>1, <1>2, <1>3, <1>4, <1>5, <1>6, <1>7, <1>8, <1>9, <1>10, <1>11, <1>12 DEF Next

LEMMA Invariant == Spec => []Inv
<1>1. Inv /\ [Next]_vars => Inv'
  BY TypedStep, ClaimedStep, NumberedStep, AloneStep DEF Inv
<1> QED
  BY <1>1, InvInit, PTL DEF Spec

\* Types; and a backup name that a quarantine has taken is reserved for it.
THEOREM TypeCorrect == Spec => []TypeOK
<1>1. Inv => TypeOK
  BY DEF Inv, Typed, Claimed, TypeOK
<1> QED
  BY <1>1, Invariant, PTL

\* A caller that nobody interferes with never leaves state.db beside the log of
\* another database, wherever a rename fails or the program ends.
THEOREM LogsStayWithTheirFile == Spec => []NoForeignLog
<1>1. Inv => NoForeignLog
  BY DEF Inv, Alone, NoForeignLog
<1> QED
  BY <1>1, Invariant, PTL

(***************************************************************************)
(* The refinement.                                                         *)
(***************************************************************************)
LEMMA StoreInit == Init => Store!Init
BY Apart DEF Init, Store!Init, Databases

LEMMA StoreStep == Inv /\ [Next]_vars => [Store!Next]_(Store!vars)
<1> SUFFICES ASSUME Inv, [Next]_vars PROVE [Store!Next]_(Store!vars)
  OBVIOUS
<1> DEFINE kept == {aside[n] : n \in Names} \ {None, Blank}
<1>a. ASSUME live' = live, aside' = aside PROVE UNCHANGED Store!vars
  BY <1>a DEF Store!vars
<1> USE Apart DEF Inv, Typed, diskVars, callVars
<1>1. ASSUME NEW o \in Openers,
             \/ Call(o) \/ ProbePasses(o) \/ ProbeFails(o) \/ Start(o) \/ Healthy(o) \/ Refused(o) \/ CheckFails(o)
             \/ Close(o) \/ ClaimFails(o) \/ MoveLog(o) \/ MoveFails(o) \/ Rewind(o)
      PROVE  UNCHANGED Store!vars
  BY <1>1, <1>a DEF Call, ProbePasses, ProbeFails, Start, Healthy, Refused, CheckFails, Close, ClaimFails,
                    MoveLog, MoveFails, Rewind
<1>2. ASSUME NEW o \in Openers, Open(o) PROVE [Store!Next]_(Store!vars)
  <2>1. CASE live # None
    BY <1>2, <2>1, <1>a DEF Open
  <2>2. CASE live = None
    <3>1. made + 1 \in Databases /\ live' = made + 1 /\ aside' = aside
      BY <1>2, <2>2 DEF Open
    <3>2. made + 1 \notin kept
      BY <3>1 DEF Numbered, Databases
    <3>3. Store!Create(made + 1)
      BY <2>2, <3>1, <3>2 DEF Store!Create
    <3> QED
      BY <3>1, <3>3 DEF Store!Next
  <2> QED
    BY <2>1, <2>2
<1>3. ASSUME NEW o \in Openers, Claim(o) PROVE UNCHANGED Store!vars
  <2>1. PICK n \in Names : aside[n] = None /\ aside' = [aside EXCEPT ![n] = Blank] /\ live' = live
    BY <1>3 DEF Claim, Taking
  <2>2. kept' = kept
    BY <2>1
  <2> QED
    BY <2>1, <2>2 DEF Store!vars
<1>4. ASSUME NEW o \in Openers, GiveBack(o) PROVE UNCHANGED Store!vars
  <2>1. /\ claim[o] \in Names /\ aside[claim[o]] = Blank
        /\ aside' = [aside EXCEPT ![claim[o]] = None] /\ live' = live
    BY <1>4 DEF GiveBack, Claimed, Quarantining
  <2>2. kept' = kept
    BY <2>1
  <2> QED
    BY <2>1, <2>2 DEF Store!vars
<1>5. ASSUME NEW o \in Openers, MoveFile(o) PROVE Store!SetAside
  <2>1. /\ claim[o] \in Names /\ aside[claim[o]] = Blank
        /\ live # None /\ live' = None /\ aside' = [aside EXCEPT ![claim[o]] = live]
    BY <1>5 DEF MoveFile, Claimed, Quarantining
  <2>2. kept' = kept \union {live}
    BY <2>1
  <2> QED
    BY <2>1, <2>2 DEF Store!SetAside
<1>6. ASSUME Damage \/ Exit PROVE UNCHANGED Store!vars
  BY <1>6, <1>a DEF Damage, Exit
<1>7. CASE UNCHANGED vars
  BY <1>7, <1>a DEF vars
<1> QED
  BY <1>1, <1>2, <1>3, <1>4, <1>5, <1>6, <1>7 DEF Next, Store!Next

\* The store implements Archive: a damaged database makes room for another, and
\* none is replaced or thrown away, however many callers quarantine at once.
THEOREM StoreImplementsArchive == Spec => NothingThrownAway
<1>1. Spec => Store!Spec
  BY StoreInit, StoreStep, Invariant, PTL DEF Spec, Store!Spec
<1> QED
  BY <1>1 DEF NothingThrownAway

(***************************************************************************)
(* What follows for the user's data.                                       *)
(***************************************************************************)
\* A database is in one place, and so far every one that was made is somewhere.
Shelved ==
  /\ \A d \in Databases : d <= made => live = d \/ \E n \in Names : aside[n] = d
  /\ \A n \in Names : aside[n] \in Databases =>
       /\ aside[n] # live
       /\ \A m \in Names \ {n} : aside[m] # aside[n]

LEMMA ShelvedStep == Inv /\ Shelved /\ [Next]_vars => Shelved'
<1> SUFFICES ASSUME Inv, Shelved, [Next]_vars PROVE Shelved'
  OBVIOUS
<1>a. ASSUME live' = live, aside' = aside, made' = made PROVE Shelved'
  BY <1>a DEF Shelved
<1> USE Apart DEF Inv, Typed, diskVars, callVars
<1>1. ASSUME NEW o \in Openers,
             \/ Call(o) \/ ProbePasses(o) \/ ProbeFails(o) \/ Start(o) \/ Healthy(o) \/ Refused(o) \/ CheckFails(o)
             \/ Close(o) \/ ClaimFails(o) \/ MoveLog(o) \/ MoveFails(o) \/ Rewind(o)
      PROVE  Shelved'
  BY <1>1, <1>a DEF Call, ProbePasses, ProbeFails, Start, Healthy, Refused, CheckFails, Close, ClaimFails,
                    MoveLog, MoveFails, Rewind
<1>2. ASSUME NEW o \in Openers, Open(o) PROVE Shelved'
  <2>1. CASE live # None
    BY <1>2, <2>1, <1>a DEF Open
  <2>2. CASE live = None
    <3>1. made' = made + 1 /\ live' = made + 1 /\ aside' = aside /\ made + 1 \in Databases
      BY <1>2, <2>2 DEF Open
    <3>2. made \in Nat
      OBVIOUS
    <3>3. \A n \in Names : aside[n] \in Databases => aside[n] <= made
      BY DEF Numbered
    <3> QED
      BY <2>2, <3>1, <3>2, <3>3 DEF Shelved, Databases
  <2> QED
    BY <2>1, <2>2
<1>3. ASSUME NEW o \in Openers, Claim(o) PROVE Shelved'
  BY <1>3 DEF Claim, Taking, Shelved
<1>4. ASSUME NEW o \in Openers, GiveBack(o) \/ MoveFile(o) PROVE Shelved'
  <2>1. claim[o] \in Names /\ aside[claim[o]] = Blank
    BY <1>4 DEF GiveBack, MoveFile, Claimed, Quarantining
  <2> QED
    BY <1>4, <2>1 DEF GiveBack, MoveFile, Shelved
<1>5. ASSUME Damage \/ Exit PROVE Shelved'
  BY <1>5, <1>a DEF Damage, Exit
<1>6. CASE UNCHANGED vars
  BY <1>6, <1>a DEF vars
<1> QED
  BY <1>1, <1>2, <1>3, <1>4, <1>5, <1>6 DEF Next

\* Every database that was ever opened is in state.db or under one backup name,
\* and under one only, however many callers quarantine it at the same time.
THEOREM EveryDatabaseIsSomewhere == Spec => []Shelved
<1>1. Init => Shelved
  BY Apart, BoundAssumption DEF Init, Shelved, Databases
<1> QED
  BY <1>1, ShelvedStep, Invariant, PTL DEF Spec

\* No step, and no failing rename, takes a database away from its backup name.
BackupsStay == [][\A n \in Names : aside[n] \in Databases => aside'[n] = aside[n]]_vars

\* A backup is never written over, given back or moved a second time.
THEOREM BackupsAreFinal == Spec => BackupsStay
<1>1. ASSUME Inv, [Next]_vars PROVE \A n \in Names : aside[n] \in Databases => aside'[n] = aside[n]
  <2> USE <1>1, Apart DEF Inv, Typed, diskVars, callVars
  <2>1. ASSUME NEW o \in Openers,
               \/ Call(o) \/ ProbePasses(o) \/ ProbeFails(o) \/ Open(o) \/ Start(o) \/ Healthy(o) \/ Refused(o)
               \/ CheckFails(o) \/ Close(o) \/ ClaimFails(o) \/ MoveLog(o) \/ MoveFails(o) \/ Rewind(o)
        PROVE  aside' = aside
    BY <2>1 DEF Call, ProbePasses, ProbeFails, Open, Start, Healthy, Refused, CheckFails, Close, ClaimFails,
                MoveLog, MoveFails, Rewind
  <2>2. ASSUME NEW o \in Openers, Claim(o)
        PROVE  \A n \in Names : aside[n] \in Databases => aside'[n] = aside[n]
    BY <2>2 DEF Claim, Taking
  <2>3. ASSUME NEW o \in Openers, GiveBack(o) \/ MoveFile(o)
        PROVE  \A n \in Names : aside[n] \in Databases => aside'[n] = aside[n]
    BY <2>3 DEF GiveBack, MoveFile, Claimed, Quarantining
  <2>4. ASSUME Damage \/ Exit \/ UNCHANGED vars PROVE aside' = aside
    BY <2>4 DEF Damage, Exit, vars
  <2> QED
    BY <2>1, <2>2, <2>3, <2>4 DEF Next
<1> QED
  BY <1>1, Invariant, PTL DEF Spec, BackupsStay

\* While the shared pool alone opens the store, the log in state.db-wal is moved
\* with its file or deleted by its last connection, and never replaced.
LogIsNotReplaced == [][callers = {Shared} /\ log # None => log' \in {log, None}]_vars

\* The way back of a failed quarantine finds the place of the log empty.
THEOREM RewindOverwritesNothing == Spec => LogIsNotReplaced
<1>1. ASSUME Inv, [Next]_vars, callers = {Shared}, log # None PROVE log' \in {log, None}
  <2> USE <1>1, Apart DEF Inv, Typed, diskVars, callVars
  <2>1. ASSUME NEW o \in Openers,
               \/ Call(o) \/ ProbePasses(o) \/ ProbeFails(o) \/ Open(o) \/ Start(o) \/ Healthy(o)
               \/ Claim(o) \/ ClaimFails(o) \/ MoveFile(o) \/ MoveFails(o) \/ GiveBack(o)
        PROVE  log' = log
    BY <2>1 DEF Call, ProbePasses, ProbeFails, Open, Start, Healthy, Claim, Taking, ClaimFails, MoveFile,
                MoveFails, GiveBack
  <2>2. ASSUME NEW o \in Openers, Refused(o) \/ CheckFails(o) \/ Close(o) \/ MoveLog(o)
        PROVE  log' \in {log, None}
    BY <2>2 DEF Refused, CheckFails, Close, Disconnect, MoveLog
  <2>3. ASSUME NEW o \in Openers, Rewind(o) PROVE log' = log
    <3>1. o = Shared /\ o \notin moved
      BY <2>3 DEF Rewind, Alone
    <3> QED
      BY <2>3, <3>1 DEF Rewind
  <2>4. ASSUME Damage \/ Exit \/ UNCHANGED vars PROVE log' = log
    BY <2>4 DEF Damage, Exit, vars
  <2> QED
    BY <2>1, <2>2, <2>3, <2>4 DEF Next
<1> QED
  BY <1>1, Invariant, PTL DEF Spec, LogIsNotReplaced
=============================================================================
