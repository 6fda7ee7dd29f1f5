------------------------ MODULE QueryCancel_proofs ------------------------
(***************************************************************************)
(* Proofs about QueryCancel, for every set of runs and sessions, every     *)
(* length of a script and every set of faults.                             *)
(*                                                                         *)
(* The invariant is built in layers: typing; Held, which session a command *)
(* holds; Left, which statements a session may still execute; Recorded,    *)
(* where the pids of the registry come from; Registered, when a token is   *)
(* in the registry.  Each layer is preserved under the ones before it.     *)
(* After it come the order in which scripts run (ScriptRun), what a Stop in*)
(* time prevents, and that a fired command returns, which takes            *)
(* GuardsSuffice as its premise.                                           *)
(***************************************************************************)
EXTENDS QueryCancel, TLAPS

\* A command holds a session exactly while it is in the adapter with one, and
\* nobody else holds it.
Held ==
  /\ \A r \in Runs : conn[r] # NoBackend <=> pc[r] \in {"pinned", "running"}
  /\ \A r, q \in Runs : conn[r] = conn[q] /\ conn[r] # NoBackend => r = q

\* A session executes the statement of the command that holds it or one that was
\* left behind, and none of a run that will send another.
Left ==
  /\ \A r, q \in Runs, b \in Backends : server[b] = r /\ conn[q] = b => q = r
  /\ \A r \in Runs, b \in Backends :
       server[b] = r => pc[r] \in {"running", "settled", "released", "reply", "over"}
  /\ \A r \in Runs, b \in Backends : server[b] = r /\ pc[r] = "running" => conn[r] = b
  /\ \A r \in Runs, b \in Backends :
       server[b] = r /\ pc[r] \in {"settled", "released", "reply"} => result[r] # "ok"
  /\ OneStatementPerRun

\* A pid, on its way or recorded, is that of the session the command holds or of
\* the one that executes the statement it left.
Recorded ==
  /\ \A r \in Runs : pc[r] \in {"pinned", "running"} =>
       sent[r] \in {conn[r], NoBackend} /\ pids[r] \in {conn[r], NoBackend}
  /\ \A r \in Runs, b \in Backends : server[b] = r =>
       sent[r] \in {b, NoBackend} /\ pids[r] \in {b, NoBackend}
  /\ \A r \in Runs : pc[r] \in {"idle", "sent", "acquire", "reply", "over"} =>
       sent[r] = NoBackend /\ pids[r] = NoBackend
  /\ \A r \in Runs : pc[r] = "released" => sent[r] = NoBackend

\* A token is registered only while its command runs, or was rejected.
Registered ==
  \A r \in Runs :
    /\ pc[r] \in {"idle", "sent", "reply", "over"} /\ token[r] => result[r] = "rejected"
    /\ pc[r] = "released" => ~token[r]

-----------------------------------------------------------------------------
(* Typing *)

USE DEF Move

LEMMA InitTyped == Init => TypeOK
BY QueryAssumption DEF Init, TypeOK, Results, Statuses

LEMMA LengthBound == \A r \in Runs : Length(r) \in Nat /\ Length(r) <= ScriptLength
BY QueryAssumption DEF Length

LEMMA CommandTyped ==
  ASSUME TypeOK, NEW r \in Runs, Command(r)
  PROVE  TypeOK'
<1>1. CASE Register(r)  BY <1>1 DEF TypeOK, Register, frontend
<1>2. CASE Reject(r)  BY <1>2 DEF TypeOK, Reject, frontend, Results
<1>3. CASE Refuse(r)  BY <1>3 DEF TypeOK, Refuse, frontend, Results
<1>4. CASE NotStarted(r)  BY <1>4 DEF TypeOK, NotStarted, Settle, Finalized, frontend, Results
<1>5. ASSUME NEW b \in Backends, Pin(r, b) PROVE TypeOK'
  BY <1>5 DEF TypeOK, Pin, frontend
<1>6. CASE Start(r)  BY <1>6 DEF TypeOK, Start, frontend
<1>7. CASE Cancelled(r)  BY <1>7 DEF TypeOK, Cancelled, Settle, frontend, Results
<1>8. CASE Interrupted(r)
  BY <1>8 DEF TypeOK, Interrupted, Settle, Finalized, frontend, Results
<1>9. CASE RecordPid(r)  BY <1>9 DEF TypeOK, RecordPid, frontend
<1>10. CASE Release(r)  BY <1>10 DEF TypeOK, Release, frontend
<1>11. CASE Forget(r)  BY <1>11 DEF TypeOK, Forget, frontend
<1> QED  BY <1>1, <1>2, <1>3, <1>4, <1>5, <1>6, <1>7, <1>8, <1>9, <1>10, <1>11 DEF Command

LEMMA FinishTyped ==
  ASSUME TypeOK, NEW r \in Runs, Finish(r)
  PROVE  TypeOK'
<1>1. PICK res \in {"ok", "failed"} : Settle(r, Finalized(r, res))
  BY DEF Finish, SqlError
<1>2. Finalized(r, res) \in Results
  BY <1>1 DEF Finalized, Results
<1>3. unread' \in [Backends -> Runs \cup {NoRun}]
  <2>1. UNCHANGED unread \/ unread' = [unread EXCEPT ![conn[r]] = r]
    BY DEF Finish
  <2> QED  BY <2>1 DEF TypeOK
<1>4. server' \in [Backends -> Runs \cup {NoRun}]
  BY DEF Finish, TypeOK
<1>5. UNCHANGED <<stmt, token, fired, sent, pids, frontend>>
  BY DEF Finish
<1> QED  BY <1>1, <1>2, <1>3, <1>4, <1>5 DEF TypeOK, Settle, frontend

LEMMA ViewTyped ==
  ASSUME TypeOK, NEW r \in Runs, View(r)
  PROVE  TypeOK'
<1>1. CASE Submit(r)  BY <1>1, QueryAssumption DEF TypeOK, Submit, Statuses
<1>2. CASE SubmitNext(r)
  BY <1>2, LengthBound, QueryAssumption DEF TypeOK, SubmitNext, frontend, Results
<1>3. CASE Answered(r)  BY <1>3 DEF TypeOK, Answered, Shown, Statuses
<1>4. CASE StashPid(r)  BY <1>4 DEF TypeOK, StashPid, backend
<1> QED  BY <1>1, <1>2, <1>3, <1>4 DEF View

LEMMA StopTyped ==
  ASSUME TypeOK, NEW r \in Runs, Stop(r)
  PROVE  TypeOK'
<1>1. CASE ClickStop(r)  BY <1>1 DEF TypeOK, ClickStop, backend, Statuses
<1>2. CASE CancelQuery(r)  BY <1>2 DEF TypeOK, CancelQuery
<1>3. CASE ReadPid(r)  BY <1>3 DEF TypeOK, ReadPid, PidToCancel, backend
<1>4. CASE NativeCancel(r)  BY <1>4 DEF TypeOK, NativeCancel, backend
<1> QED  BY <1>1, <1>2, <1>3, <1>4 DEF Stop

LEMMA NextTyped == TypeOK /\ [Next]_vars => TypeOK'
<1> SUFFICES ASSUME TypeOK, [Next]_vars PROVE TypeOK'
  OBVIOUS
<1>1. ASSUME NEW b \in Backends, Drain(b) PROVE TypeOK'
  BY <1>1 DEF TypeOK, Drain, backend, frontend
<1>2. CASE UNCHANGED vars  BY <1>2 DEF TypeOK, vars, backend, frontend
<1> QED  BY <1>1, <1>2, CommandTyped, FinishTyped, ViewTyped, StopTyped DEF Next

-----------------------------------------------------------------------------
(* Sessions that are held *)

LEMMA NextHeld ==
  ASSUME TypeOK, Held, [Next]_vars
  PROVE  Held'
<1>1. ASSUME NEW r \in Runs, Command(r) PROVE Held'
  <2>1. CASE Register(r)  BY <2>1, QueryAssumption DEF TypeOK, Held, Register, frontend
  <2>2. CASE Reject(r)  BY <2>2, QueryAssumption DEF TypeOK, Held, Reject, frontend
  <2>3. CASE Refuse(r)  BY <2>3, QueryAssumption DEF TypeOK, Held, Refuse, frontend
  <2>4. CASE NotStarted(r)  BY <2>4, QueryAssumption DEF TypeOK, Held, NotStarted, Settle, Finalized, frontend
  <2>5. ASSUME NEW b \in Backends, Pin(r, b) PROVE Held'
    BY <2>5, QueryAssumption DEF TypeOK, Held, Pin, Idle, frontend
  <2>6. CASE Start(r)  BY <2>6, QueryAssumption DEF TypeOK, Held, Start, frontend
  <2>7. CASE Cancelled(r)  BY <2>7, QueryAssumption DEF TypeOK, Held, Cancelled, Settle, frontend
  <2>8. CASE Interrupted(r)  BY <2>8, QueryAssumption DEF TypeOK, Held, Interrupted, Settle, Finalized, frontend
  <2>9. CASE RecordPid(r)  BY <2>9, QueryAssumption DEF TypeOK, Held, RecordPid, frontend
  <2>10. CASE Release(r)  BY <2>10, QueryAssumption DEF TypeOK, Held, Release, frontend
  <2>11. CASE Forget(r)  BY <2>11, QueryAssumption DEF TypeOK, Held, Forget, frontend
  <2> QED  BY <1>1, <2>1, <2>2, <2>3, <2>4, <2>5, <2>6, <2>7, <2>8, <2>9, <2>10, <2>11 DEF Command
<1>2. ASSUME NEW r \in Runs, Finish(r) PROVE Held'
  <2>1. PICK res \in {"ok", "failed"} : Settle(r, Finalized(r, res))
    BY <1>2 DEF Finish, SqlError
  <2> QED  BY <1>2, <2>1, QueryAssumption DEF TypeOK, Held, Finish, Settle, Finalized, frontend
<1>3. ASSUME NEW r \in Runs, View(r) PROVE Held'
  <2>1. CASE Submit(r)  BY <1>3, <2>1, QueryAssumption DEF TypeOK, Held, Submit
  <2>2. CASE SubmitNext(r)  BY <1>3, <2>2, QueryAssumption DEF TypeOK, Held, SubmitNext, frontend
  <2>3. CASE Answered(r)  BY <1>3, <2>3, QueryAssumption DEF TypeOK, Held, Answered
  <2>4. CASE StashPid(r)  BY <1>3, <2>4 DEF Held, StashPid, backend
  <2> QED  BY <1>3, <2>1, <2>2, <2>3, <2>4 DEF View
<1>4. ASSUME NEW r \in Runs, Stop(r) PROVE Held'
  <2>1. CASE ClickStop(r)  BY <1>4, <2>1 DEF Held, ClickStop, backend
  <2>2. CASE CancelQuery(r)  BY <1>4, <2>2, QueryAssumption DEF TypeOK, Held, CancelQuery
  <2>3. CASE ReadPid(r)  BY <1>4, <2>3 DEF Held, ReadPid, backend
  <2>4. CASE NativeCancel(r)  BY <1>4, <2>4, QueryAssumption DEF TypeOK, Held, NativeCancel, backend
  <2> QED  BY <1>4, <2>1, <2>2, <2>3, <2>4 DEF Stop
<1>5. ASSUME NEW b \in Backends, Drain(b) PROVE Held'
  BY <1>5, QueryAssumption DEF TypeOK, Held, Drain, backend, frontend
<1>6. CASE UNCHANGED vars  BY <1>6 DEF Held, vars, backend
<1> QED  BY <1>1, <1>2, <1>3, <1>4, <1>5, <1>6 DEF Next

-----------------------------------------------------------------------------
(* Statements on the server *)

LEMMA NextLeft ==
  ASSUME TypeOK, Held, Left, [Next]_vars
  PROVE  Left'
<1>1. ASSUME NEW r \in Runs, Command(r) PROVE Left'
  <2>1. CASE Register(r)  BY <2>1, QueryAssumption DEF TypeOK, Held, Left, OneStatementPerRun, Register, frontend
  <2>2. CASE Reject(r)  BY <2>2, QueryAssumption DEF TypeOK, Held, Left, OneStatementPerRun, Reject, frontend
  <2>3. CASE Refuse(r)  BY <2>3, QueryAssumption DEF TypeOK, Held, Left, OneStatementPerRun, Refuse, frontend
  <2>4. CASE NotStarted(r)  BY <2>4, QueryAssumption DEF TypeOK, Held, Left, OneStatementPerRun, NotStarted, Settle, Finalized, frontend
  <2>5. ASSUME NEW b \in Backends, Pin(r, b) PROVE Left'
    BY <2>5, QueryAssumption DEF TypeOK, Held, Left, OneStatementPerRun, Pin, Idle, frontend
  <2>6. CASE Start(r)  BY <2>6, QueryAssumption DEF TypeOK, Held, Left, OneStatementPerRun, Start, frontend
  <2>7. CASE Cancelled(r)  BY <2>7, QueryAssumption DEF TypeOK, Held, Left, OneStatementPerRun, Cancelled, Settle, frontend
  <2>8. CASE Interrupted(r)  BY <2>8, QueryAssumption DEF TypeOK, Held, Left, OneStatementPerRun, Interrupted, Settle, Finalized, frontend
  <2>9. CASE RecordPid(r)  BY <2>9, QueryAssumption DEF TypeOK, Held, Left, OneStatementPerRun, RecordPid, frontend
  <2>10. CASE Release(r)  BY <2>10, QueryAssumption DEF TypeOK, Held, Left, OneStatementPerRun, Release, frontend
  <2>11. CASE Forget(r)  BY <2>11, QueryAssumption DEF TypeOK, Held, Left, OneStatementPerRun, Forget, frontend
  <2> QED  BY <1>1, <2>1, <2>2, <2>3, <2>4, <2>5, <2>6, <2>7, <2>8, <2>9, <2>10, <2>11 DEF Command
<1>2. ASSUME NEW r \in Runs, Finish(r) PROVE Left'
  <2>1. PICK res \in {"ok", "failed"} : Settle(r, Finalized(r, res))
    BY <1>2 DEF Finish, SqlError
  <2> QED  BY <1>2, <2>1, QueryAssumption DEF TypeOK, Held, Left, OneStatementPerRun, Finish, Settle, Finalized, frontend
<1>3. ASSUME NEW r \in Runs, View(r) PROVE Left'
  <2>1. CASE Submit(r)  BY <1>3, <2>1, QueryAssumption DEF TypeOK, Held, Left, OneStatementPerRun, Submit
  <2>2. CASE SubmitNext(r)  BY <1>3, <2>2, QueryAssumption DEF TypeOK, Held, Left, OneStatementPerRun, SubmitNext, frontend
  <2>3. CASE Answered(r)  BY <1>3, <2>3, QueryAssumption DEF TypeOK, Held, Left, OneStatementPerRun, Answered
  <2>4. CASE StashPid(r)  BY <1>3, <2>4 DEF Held, Left, OneStatementPerRun, StashPid, backend
  <2> QED  BY <1>3, <2>1, <2>2, <2>3, <2>4 DEF View
<1>4. ASSUME NEW r \in Runs, Stop(r) PROVE Left'
  <2>1. CASE ClickStop(r)  BY <1>4, <2>1 DEF Held, Left, OneStatementPerRun, ClickStop, backend
  <2>2. CASE CancelQuery(r)  BY <1>4, <2>2, QueryAssumption DEF TypeOK, Held, Left, OneStatementPerRun, CancelQuery
  <2>3. CASE ReadPid(r)  BY <1>4, <2>3 DEF Held, Left, OneStatementPerRun, ReadPid, backend
  <2>4. CASE NativeCancel(r)  BY <1>4, <2>4, QueryAssumption DEF TypeOK, Held, Left, OneStatementPerRun, NativeCancel, backend
  <2> QED  BY <1>4, <2>1, <2>2, <2>3, <2>4 DEF Stop
<1>5. ASSUME NEW b \in Backends, Drain(b) PROVE Left'
  BY <1>5, QueryAssumption DEF TypeOK, Held, Left, OneStatementPerRun, Drain, backend, frontend
<1>6. CASE UNCHANGED vars  BY <1>6 DEF Held, Left, OneStatementPerRun, vars, backend
<1> QED  BY <1>1, <1>2, <1>3, <1>4, <1>5, <1>6 DEF Next

-----------------------------------------------------------------------------
(* Recorded pids *)

LEMMA NextRecorded ==
  ASSUME TypeOK, Held, Left, Recorded, [Next]_vars
  PROVE  Recorded'
<1>1. ASSUME NEW r \in Runs, Command(r) PROVE Recorded'
  <2>1. CASE Register(r)  BY <2>1, QueryAssumption DEF TypeOK, Held, Left, Recorded, Register, frontend
  <2>2. CASE Reject(r)  BY <2>2, QueryAssumption DEF TypeOK, Held, Left, Recorded, Reject, frontend
  <2>3. CASE Refuse(r)  BY <2>3, QueryAssumption DEF TypeOK, Held, Left, Recorded, Refuse, frontend
  <2>4. CASE NotStarted(r)  BY <2>4, QueryAssumption DEF TypeOK, Held, Left, Recorded, NotStarted, Settle, Finalized, frontend
  <2>5. ASSUME NEW b \in Backends, Pin(r, b) PROVE Recorded'
    BY <2>5, QueryAssumption DEF TypeOK, Held, Left, Recorded, Pin, Idle, frontend
  <2>6. CASE Start(r)  BY <2>6, QueryAssumption DEF TypeOK, Held, Left, Recorded, Start, frontend
  <2>7. CASE Cancelled(r)  BY <2>7, QueryAssumption DEF TypeOK, Held, Left, Recorded, Cancelled, Settle, frontend
  <2>8. CASE Interrupted(r)  BY <2>8, QueryAssumption DEF TypeOK, Held, Left, Recorded, Interrupted, Settle, Finalized, frontend
  <2>9. CASE RecordPid(r)  BY <2>9, QueryAssumption DEF TypeOK, Held, Left, Recorded, RecordPid, frontend
  <2>10. CASE Release(r)  BY <2>10, QueryAssumption DEF TypeOK, Held, Left, Recorded, Release, frontend
  <2>11. CASE Forget(r)  BY <2>11, QueryAssumption DEF TypeOK, Held, Left, Recorded, Forget, frontend
  <2> QED  BY <1>1, <2>1, <2>2, <2>3, <2>4, <2>5, <2>6, <2>7, <2>8, <2>9, <2>10, <2>11 DEF Command
<1>2. ASSUME NEW r \in Runs, Finish(r) PROVE Recorded'
  <2>1. PICK res \in {"ok", "failed"} : Settle(r, Finalized(r, res))
    BY <1>2 DEF Finish, SqlError
  <2> QED  BY <1>2, <2>1, QueryAssumption DEF TypeOK, Held, Left, Recorded, Finish, Settle, Finalized, frontend
<1>3. ASSUME NEW r \in Runs, View(r) PROVE Recorded'
  <2>1. CASE Submit(r)  BY <1>3, <2>1, QueryAssumption DEF TypeOK, Held, Left, Recorded, Submit
  <2>2. CASE SubmitNext(r)  BY <1>3, <2>2, QueryAssumption DEF TypeOK, Held, Left, Recorded, SubmitNext, frontend
  <2>3. CASE Answered(r)  BY <1>3, <2>3, QueryAssumption DEF TypeOK, Held, Left, Recorded, Answered
  <2>4. CASE StashPid(r)  BY <1>3, <2>4 DEF Held, Left, Recorded, StashPid, backend
  <2> QED  BY <1>3, <2>1, <2>2, <2>3, <2>4 DEF View
<1>4. ASSUME NEW r \in Runs, Stop(r) PROVE Recorded'
  <2>1. CASE ClickStop(r)  BY <1>4, <2>1 DEF Held, Left, Recorded, ClickStop, backend
  <2>2. CASE CancelQuery(r)  BY <1>4, <2>2, QueryAssumption DEF TypeOK, Held, Left, Recorded, CancelQuery
  <2>3. CASE ReadPid(r)  BY <1>4, <2>3 DEF Held, Left, Recorded, ReadPid, backend
  <2>4. CASE NativeCancel(r)  BY <1>4, <2>4, QueryAssumption DEF TypeOK, Held, Left, Recorded, NativeCancel, backend
  <2> QED  BY <1>4, <2>1, <2>2, <2>3, <2>4 DEF Stop
<1>5. ASSUME NEW b \in Backends, Drain(b) PROVE Recorded'
  BY <1>5, QueryAssumption DEF TypeOK, Held, Left, Recorded, Drain, backend, frontend
<1>6. CASE UNCHANGED vars  BY <1>6 DEF Held, Left, Recorded, vars, backend
<1> QED  BY <1>1, <1>2, <1>3, <1>4, <1>5, <1>6 DEF Next

-----------------------------------------------------------------------------
(* Registered tokens *)

LEMMA NextRegistered ==
  ASSUME TypeOK, Registered, [Next]_vars
  PROVE  Registered'
<1>1. ASSUME NEW r \in Runs, Command(r) PROVE Registered'
  <2>1. CASE Register(r)  BY <2>1, QueryAssumption DEF TypeOK, Registered, Register, frontend
  <2>2. CASE Reject(r)  BY <2>2, QueryAssumption DEF TypeOK, Registered, Reject, frontend
  <2>3. CASE Refuse(r)  BY <2>3, QueryAssumption DEF TypeOK, Registered, Refuse, frontend
  <2>4. CASE NotStarted(r)  BY <2>4, QueryAssumption DEF TypeOK, Registered, NotStarted, Settle, Finalized, frontend
  <2>5. ASSUME NEW b \in Backends, Pin(r, b) PROVE Registered'
    BY <2>5, QueryAssumption DEF TypeOK, Registered, Pin, Idle, frontend
  <2>6. CASE Start(r)  BY <2>6, QueryAssumption DEF TypeOK, Registered, Start, frontend
  <2>7. CASE Cancelled(r)  BY <2>7, QueryAssumption DEF TypeOK, Registered, Cancelled, Settle, frontend
  <2>8. CASE Interrupted(r)  BY <2>8, QueryAssumption DEF TypeOK, Registered, Interrupted, Settle, Finalized, frontend
  <2>9. CASE RecordPid(r)  BY <2>9, QueryAssumption DEF TypeOK, Registered, RecordPid, frontend
  <2>10. CASE Release(r)  BY <2>10, QueryAssumption DEF TypeOK, Registered, Release, frontend
  <2>11. CASE Forget(r)  BY <2>11, QueryAssumption DEF TypeOK, Registered, Forget, frontend
  <2> QED  BY <1>1, <2>1, <2>2, <2>3, <2>4, <2>5, <2>6, <2>7, <2>8, <2>9, <2>10, <2>11 DEF Command
<1>2. ASSUME NEW r \in Runs, Finish(r) PROVE Registered'
  <2>1. PICK res \in {"ok", "failed"} : Settle(r, Finalized(r, res))
    BY <1>2 DEF Finish, SqlError
  <2> QED  BY <1>2, <2>1, QueryAssumption DEF TypeOK, Registered, Finish, Settle, Finalized, frontend
<1>3. ASSUME NEW r \in Runs, View(r) PROVE Registered'
  <2>1. CASE Submit(r)  BY <1>3, <2>1, QueryAssumption DEF TypeOK, Registered, Submit
  <2>2. CASE SubmitNext(r)  BY <1>3, <2>2, QueryAssumption DEF TypeOK, Registered, SubmitNext, frontend
  <2>3. CASE Answered(r)  BY <1>3, <2>3, QueryAssumption DEF TypeOK, Registered, Answered
  <2>4. CASE StashPid(r)  BY <1>3, <2>4 DEF Registered, StashPid, backend
  <2> QED  BY <1>3, <2>1, <2>2, <2>3, <2>4 DEF View
<1>4. ASSUME NEW r \in Runs, Stop(r) PROVE Registered'
  <2>1. CASE ClickStop(r)  BY <1>4, <2>1 DEF Registered, ClickStop, backend
  <2>2. CASE CancelQuery(r)  BY <1>4, <2>2, QueryAssumption DEF TypeOK, Registered, CancelQuery
  <2>3. CASE ReadPid(r)  BY <1>4, <2>3 DEF Registered, ReadPid, backend
  <2>4. CASE NativeCancel(r)  BY <1>4, <2>4, QueryAssumption DEF TypeOK, Registered, NativeCancel, backend
  <2> QED  BY <1>4, <2>1, <2>2, <2>3, <2>4 DEF Stop
<1>5. ASSUME NEW b \in Backends, Drain(b) PROVE Registered'
  BY <1>5, QueryAssumption DEF TypeOK, Registered, Drain, backend, frontend
<1>6. CASE UNCHANGED vars  BY <1>6 DEF Registered, vars, backend
<1> QED  BY <1>1, <1>2, <1>3, <1>4, <1>5, <1>6 DEF Next

-----------------------------------------------------------------------------
(* The theorems *)

Inv == TypeOK /\ Held /\ Left /\ Recorded /\ Registered

LEMMA InvInitial == Init => Inv
<1> SUFFICES ASSUME Init PROVE Inv
  OBVIOUS
<1>1. TypeOK  BY InitTyped
<1>2. Held  BY QueryAssumption DEF Init, Held
<1>3. Left  BY QueryAssumption DEF Init, Left, OneStatementPerRun
<1>4. Recorded  BY QueryAssumption DEF Init, Recorded
<1>5. Registered  BY DEF Init, Registered
<1> QED  BY <1>1, <1>2, <1>3, <1>4, <1>5 DEF Inv

LEMMA InvInductive == Inv /\ [Next]_vars => Inv'
<1> SUFFICES ASSUME Inv, [Next]_vars PROVE Inv'
  OBVIOUS
<1>1. TypeOK'  BY NextTyped DEF Inv
<1>2. Held'  BY NextHeld DEF Inv
<1>3. Left'  BY NextLeft DEF Inv
<1>4. Recorded'  BY NextRecorded DEF Inv
<1>5. Registered'  BY NextRegistered DEF Inv
<1> QED  BY <1>1, <1>2, <1>3, <1>4, <1>5 DEF Inv

\* Everything the invariant says holds in every state of the specification.
THEOREM Invariance == Spec => []Inv
BY InvInitial, InvInductive, PTL DEF Spec

\* The registries, the sessions, the tab and its Stop stay within their types:
\* in particular a script never goes past its last statement.
THEOREM TypeCorrect == Spec => []TypeOK
<1>1. Inv => TypeOK  BY DEF Inv
<1> QED  BY <1>1, Invariance, PTL

\* A command that has returned leaves no pid under its query id, and a token
\* only when it was rejected after the registration.
THEOREM IdsAreReleased == Spec => []RegistriesCleared
<1>1. Inv => RegistriesCleared
  BY DEF Inv, Recorded, Registered, RegistriesCleared
<1> QED  BY <1>1, Invariance, PTL

\* A pid that get_query_server_pid hands out is the pid of the session which
\* executes the statement in turn of that query id, or the one it was cancelled at;
\* never of one that goes on with a statement whose answer was cut.
THEOREM PidsAreOwn == Spec => []RecordedPidIsOwn
<1>1. Inv => RecordedPidIsOwn
  BY DEF Inv, Recorded, RecordedPidIsOwn
<1> QED  BY <1>1, Invariance, PTL

\* However a script is stopped, interrupted or refused, it has one statement on the
\* server besides those whose answer was cut at the row cap, and no session that
\* still executes a cut one is lent to another command.
THEOREM StatementsOneByOne == Spec => []OneStatementPerRun
<1>1. Inv => OneStatementPerRun
  BY QueryAssumption DEF Inv, TypeOK, Left, OneStatementPerRun
<1> QED  BY <1>1, Invariance, PTL

-----------------------------------------------------------------------------
(* What a script is promised *)

\* A token has fired, or a statement was taken from under its command, only after
\* somebody pressed Stop.
Pressed ==
  /\ \A r \in Runs : fired[r] => stop[r] # "no"
  /\ \A r \in Runs : pc[r] = "running" /\ server[conn[r]] # r => \E q \in Runs : stop[q] # "no"

LEMMA NextPressed ==
  ASSUME Inv, Pressed, [Next]_vars
  PROVE  Pressed'
<1> USE QueryAssumption DEF Inv, TypeOK, Pressed
<1>1. ASSUME NEW r \in Runs, Command(r) PROVE Pressed'
  <2>1. CASE Register(r)  BY <2>1 DEF Register, frontend
  <2>2. CASE Reject(r)  BY <2>2 DEF Reject, frontend
  <2>3. CASE Refuse(r)  BY <2>3 DEF Refuse, frontend
  <2>4. CASE NotStarted(r)  BY <2>4 DEF NotStarted, Settle, frontend
  <2>5. ASSUME NEW b \in Backends, Pin(r, b) PROVE Pressed'
    BY <2>5 DEF Pin, frontend
  <2>6. CASE Start(r)  BY <2>6 DEF Start, frontend, Held
  <2>7. CASE Cancelled(r)  BY <2>7 DEF Cancelled, Settle, frontend
  <2>8. CASE Interrupted(r)  BY <2>8 DEF Interrupted, Settle, frontend
  <2>9. CASE RecordPid(r)  BY <2>9 DEF RecordPid, frontend
  <2>10. CASE Release(r)  BY <2>10 DEF Release, frontend
  <2>11. CASE Forget(r)  BY <2>11 DEF Forget, frontend
  <2> QED  BY <1>1, <2>1, <2>2, <2>3, <2>4, <2>5, <2>6, <2>7, <2>8, <2>9, <2>10, <2>11 DEF Command
<1>2. ASSUME NEW r \in Runs, Finish(r) PROVE Pressed'
  <2>1. PICK res \in {"ok", "failed"} : Settle(r, Finalized(r, res))
    BY <1>2 DEF Finish, SqlError
  <2> QED  BY <1>2, <2>1 DEF Finish, Settle, frontend, Held
<1>3. ASSUME NEW r \in Runs, View(r) PROVE Pressed'
  BY <1>3 DEF View, Submit, SubmitNext, Answered, StashPid, backend, frontend
<1>4. ASSUME NEW r \in Runs, Stop(r) PROVE Pressed'
  BY <1>4 DEF Stop, ClickStop, CancelQuery, ReadPid, NativeCancel, backend
<1>5. ASSUME NEW b \in Backends, Drain(b) PROVE Pressed'
  BY <1>5 DEF Drain, backend, frontend
<1>6. CASE UNCHANGED vars  BY <1>6 DEF vars, backend, frontend
<1> QED  BY <1>1, <1>2, <1>3, <1>4, <1>5, <1>6 DEF Next

\* The state of ScriptRun.
States == [r \in Runs |-> State(r)]
OnServer == {r \in Runs : \E b \in Backends : server[b] = r}
Trailing == {r \in Runs : \E b \in Backends : unread[b] = r}
Stopped == {r \in Runs : stop[r] # "no"}

LEMMA ScriptStutters ==
  ASSUME UNCHANGED <<States, stmt, OnServer, Trailing, Stopped>>
  PROVE  UNCHANGED Script!vars
BY DEF Script!vars, States, OnServer, Trailing, Stopped

\* A step of one run moves the state of that run only.
LEMMA StatesFrame ==
  ASSUME TypeOK, NEW r \in Runs,
         \A q \in Runs \ {r} : pc'[q] = pc[q] /\ result'[q] = result[q]
  PROVE  States' = [States EXCEPT ![r] = States'[r]]
<1>1. \A q \in Runs \ {r} : States'[q] = States[q]
  BY DEF States, State
<1>2. DOMAIN States = Runs /\ DOMAIN States' = Runs
  BY DEF States
<1> QED  BY <1>1, <1>2 DEF States

\* A command that leaves the adapter has failed, was cancelled, was interrupted or
\* has done its statement.
LEMMA CommandRefines ==
  ASSUME Inv, Pressed, NEW r \in Runs, Command(r)
  PROVE  [Script!Next]_(Script!vars)
<1> USE DEF Inv
<1>f. /\ UNCHANGED <<stmt, stop, unread>>
      /\ \A q \in Runs \ {r} : pc'[q] = pc[q] /\ result'[q] = result[q]
  BY DEF Command, Register, Reject, Refuse, NotStarted, Pin, Start, Cancelled, Interrupted, RecordPid,
         Release, Forget, Settle, frontend, TypeOK
<1>g. UNCHANGED <<stmt, Trailing, Stopped>> /\ States' = [States EXCEPT ![r] = States'[r]]
  BY <1>f, StatesFrame DEF Trailing, Stopped
<1>s. States[r] = State(r) /\ States'[r] = State(r)'
  BY DEF States
<1>1. CASE Register(r) \/ (\E b \in Backends : Pin(r, b)) \/ RecordPid(r) \/ Release(r) \/ Forget(r)
  <2>1. UNCHANGED server /\ result'[r] = result[r]
    BY <1>1 DEF Register, Pin, RecordPid, Release, Forget
  <2>2. State(r)' = State(r)
    BY <1>1, <2>1 DEF Register, Pin, RecordPid, Release, Forget, State, TypeOK
  <2>3. UNCHANGED OnServer
    BY <2>1 DEF OnServer
  <2>4. States' = States
    BY <1>g, <1>s, <2>2 DEF States
  <2> QED  BY <1>g, <2>3, <2>4, ScriptStutters
<1>2. CASE Reject(r) \/ Refuse(r) \/ NotStarted(r)
  <2>1. /\ pc[r] \in {"acquire", "pinned"} /\ UNCHANGED server
        /\ State(r)' \in {"failed", "rejected", "cancelled"}
        /\ State(r)' = "cancelled" => fired[r]
    BY <1>2 DEF Reject, Refuse, NotStarted, Settle, Finalized, State, TypeOK
  <2>2. r \notin OnServer /\ UNCHANGED OnServer /\ State(r) = "waits"
    BY <2>1 DEF Left, OnServer, State
  <2>3. CASE State(r)' = "cancelled"
    <3>1. r \in Stopped
      BY <2>1, <2>3 DEF Pressed, Stopped
    <3>2. Script!Cancel(r)
      BY <1>g, <1>s, <2>2, <2>3, <3>1
      DEF Script!Cancel, Script!Turns, States, OnServer, Trailing, Stopped
    <3> QED  BY <3>2 DEF Script!Next
  <2>4. CASE State(r)' # "cancelled"
    <3>1. OnServer' = OnServer \ {r}
      BY <2>2
    <3>2. Script!Fail(r)
      BY <1>g, <1>s, <2>1, <2>2, <2>4, <3>1 DEF Script!Fail, Script!Turns, States, OnServer, Trailing, Stopped
    <3> QED  BY <3>2 DEF Script!Next
  <2> QED  BY <2>3, <2>4
<1>3. CASE Start(r)
  <2>1. State(r) = "waits" /\ State(r)' = "works" /\ r \notin OnServer
    BY <1>3 DEF Start, State, TypeOK, Left, OnServer
  <2>2. conn[r] \in Backends /\ server' = [server EXCEPT ![conn[r]] = r] /\ server[conn[r]] \in {r, NoRun}
    BY <1>3, QueryAssumption DEF Start, Held, Left, TypeOK
  <2>3. OnServer' = OnServer \cup {r}
    BY <2>2, QueryAssumption DEF OnServer, TypeOK
  <2>4. Script!Send(r)
    BY <1>g, <1>s, <2>1, <2>3 DEF Script!Send, Script!Turns, States, OnServer, Trailing, Stopped
  <2> QED  BY <2>4 DEF Script!Next
<1>4. CASE Cancelled(r)
  <2>1. /\ State(r) \in {"waits", "works"} /\ State(r)' = "cancelled" /\ r \in Stopped
        /\ UNCHANGED OnServer
    BY <1>4 DEF Cancelled, Listening, Settle, State, TypeOK, Pressed, Stopped, OnServer
  <2>2. Script!Cancel(r)
    BY <1>g, <1>s, <2>1 DEF Script!Cancel, Script!Turns, States, OnServer, Trailing, Stopped
  <2> QED  BY <2>2 DEF Script!Next
<1>5. CASE Interrupted(r)
  <2>1. /\ State(r) = "works" /\ State(r)' \in {"interrupted", "cancelled"}
        /\ State(r)' = "cancelled" => fired[r]
        /\ UNCHANGED OnServer
    BY <1>5 DEF Interrupted, Settle, Finalized, State, TypeOK, OnServer
  <2>2. r \notin OnServer
    BY <1>5 DEF Interrupted, Left, OnServer
  <2>3. CASE State(r)' = "cancelled"
    <3>1. r \in Stopped
      BY <2>1, <2>3 DEF Pressed, Stopped
    <3>2. Script!Cancel(r)
      BY <1>g, <1>s, <2>1, <2>3, <3>1 DEF Script!Cancel, Script!Turns, States, OnServer, Trailing, Stopped
    <3> QED  BY <3>2 DEF Script!Next
  <2>4. CASE State(r)' = "interrupted"
    <3>1. Script!Interrupt(r)
      BY <1>g, <1>s, <2>1, <2>2, <2>4 DEF Script!Interrupt, Script!Turns, States, OnServer, Trailing, Stopped
    <3> QED  BY <3>1 DEF Script!Next
  <2> QED  BY <2>1, <2>3, <2>4
<1> QED  BY <1>1, <1>2, <1>3, <1>4, <1>5 DEF Command

LEMMA FinishRefines ==
  ASSUME Inv, Pressed, NEW r \in Runs, Finish(r)
  PROVE  Script!Next
<1> USE DEF Inv
<1>1. PICK res \in {"ok", "failed"} :
        /\ Settle(r, Finalized(r, res))
        /\ \/ UNCHANGED unread
           \/ res = "ok" /\ unread' = [unread EXCEPT ![conn[r]] = r]
  BY DEF Finish, SqlError
<1>2. UNCHANGED <<stmt, stop, fired>> /\ pc[r] = "running"
  BY DEF Finish, frontend
<1>3. /\ State(r) = "works" /\ State(r)' \in {"ok", "failed", "cancelled"}
      /\ State(r)' = "cancelled" => fired[r]
  BY <1>1, <1>2 DEF Settle, Finalized, State, TypeOK
<1>4. States' = [States EXCEPT ![r] = State(r)'] /\ States[r] = State(r)
  <2>1. \A q \in Runs \ {r} : pc'[q] = pc[q] /\ result'[q] = result[q]
    BY <1>1 DEF Settle, TypeOK
  <2> QED  BY <2>1, StatesFrame DEF States
<1>5. UNCHANGED Stopped
  BY <1>2 DEF Stopped
<1>6. r \in OnServer /\ OnServer' = OnServer \ {r}
  <2>1. conn[r] \in Backends /\ server[conn[r]] = r /\ server' = [server EXCEPT ![conn[r]] = NoRun]
    BY <1>2, QueryAssumption DEF Finish, Held, TypeOK
  <2>2. \A b \in Backends : server[b] = r => b = conn[r]
    BY <1>2 DEF Left
  <2> QED  BY <2>1, <2>2, QueryAssumption DEF OnServer, TypeOK
<1>t. /\ Trailing' \in {Trailing, Trailing \cup {r}}
      /\ State(r)' = "failed" => UNCHANGED Trailing
  <2>1. conn[r] \in Backends /\ unread[conn[r]] = NoRun
    BY <1>2 DEF Held, TypeOK, Left, OneStatementPerRun
  <2>2. CASE UNCHANGED unread
    BY <2>2 DEF Trailing
  <2>3. CASE res = "ok" /\ unread' = [unread EXCEPT ![conn[r]] = r]
    <3>1. Trailing' = Trailing \cup {r}
      BY <2>1, <2>3, QueryAssumption DEF Trailing, TypeOK
    <3>2. State(r)' # "failed"
      BY <1>1, <1>2, <2>3 DEF Settle, Finalized, State, TypeOK
    <3> QED  BY <3>1, <3>2
  <2> QED  BY <1>1, <2>2, <2>3
<1>7. CASE State(r)' = "ok"
  <2>1. Script!Succeed(r)
    BY <1>2, <1>3, <1>4, <1>5, <1>6, <1>7, <1>t DEF Script!Succeed, Script!Turns, States, OnServer, Trailing, Stopped
  <2> QED  BY <2>1 DEF Script!Next
<1>8. CASE State(r)' = "failed"
  <2>1. Script!Fail(r)
    BY <1>2, <1>3, <1>4, <1>5, <1>6, <1>8, <1>t DEF Script!Fail, Script!Turns, States, OnServer, Trailing, Stopped
  <2> QED  BY <2>1 DEF Script!Next
<1>9. CASE State(r)' = "cancelled"
  <2>1. r \in Stopped
    BY <1>3, <1>9 DEF Pressed, Stopped
  <2>2. Script!Cancel(r)
    BY <1>2, <1>3, <1>4, <1>5, <1>6, <1>9, <1>t, <2>1 DEF Script!Cancel, Script!Turns, States, OnServer, Trailing, Stopped
  <2> QED  BY <2>2 DEF Script!Next
<1> QED  BY <1>3, <1>7, <1>8, <1>9

LEMMA ViewRefines ==
  ASSUME Inv, NEW r \in Runs, View(r)
  PROVE  [Script!Next]_(Script!vars)
<1> USE DEF Inv
<1>1. UNCHANGED <<server, unread, stop>>
  BY DEF View, Submit, SubmitNext, Answered, StashPid, backend, frontend
<1>2. UNCHANGED <<OnServer, Trailing, Stopped>>
  BY <1>1 DEF OnServer, Trailing, Stopped
<1>f. States' = [States EXCEPT ![r] = State(r)'] /\ States[r] = State(r)
  <2>1. \A q \in Runs \ {r} : pc'[q] = pc[q] /\ result'[q] = result[q]
    BY DEF View, Submit, SubmitNext, Answered, StashPid, backend, TypeOK
  <2> QED  BY <2>1, StatesFrame DEF States
<1>3. CASE Submit(r)
  <2>1. State(r) = "idle" /\ State(r)' = "waits" /\ stmt' = [stmt EXCEPT ![r] = 1]
    BY <1>3 DEF Submit, State, TypeOK
  <2>2. Script!Ask(r)
    BY <1>2, <1>f, <2>1 DEF Script!Ask, Script!Turns, States, OnServer, Trailing, Stopped
  <2> QED  BY <2>2 DEF Script!Next
<1>4. CASE SubmitNext(r)
  <2>1. /\ State(r) = "ok" /\ State(r)' = "waits" /\ stmt' = [stmt EXCEPT ![r] = @ + 1]
        /\ stmt[r] < Length(r)
    BY <1>4 DEF SubmitNext, State, TypeOK
  <2>2. r \notin OnServer
    BY <1>4 DEF SubmitNext, Left, OnServer
  <2>3. Script!Continue(r)
    BY <1>2, <1>f, <2>1, <2>2 DEF Script!Continue, Script!Turns, States, OnServer, Trailing, Stopped
  <2> QED  BY <2>3 DEF Script!Next
<1>5. CASE Answered(r) \/ StashPid(r)
  <2>1. State(r)' = State(r) /\ UNCHANGED stmt
    BY <1>5 DEF Answered, StashPid, State, TypeOK, backend
  <2>2. States' = States
    BY <1>f, <2>1 DEF States
  <2> QED  BY <1>2, <2>1, <2>2, ScriptStutters
<1> QED  BY <1>3, <1>4, <1>5 DEF View

\* What takes a statement off a session that nobody works on, or that was killed.
LEMMA LeaveRefines ==
  ASSUME Inv, NEW b \in Backends, server[b] # NoRun, server' = [server EXCEPT ![b] = NoRun],
         UNCHANGED <<States, stmt, Trailing, Stopped>>,
         Stopped # {} \/ \A r \in Runs : conn[r] # b
  PROVE  Script!Next
<1> USE DEF Inv
<1>1. PICK r \in Runs : server[b] = r
  BY DEF TypeOK
<1>2. r \in OnServer /\ OnServer' = OnServer \ {r}
  BY <1>1, QueryAssumption DEF OnServer, TypeOK, Left, OneStatementPerRun
<1>3. States[r] = "works" => Stopped # {}
  <2>1. States[r] = "works" => pc[r] = "running" \/ result[r] = "works"
    BY DEF States, State
  <2>2. result[r] # "works"
    BY DEF TypeOK, Results
  <2> QED  BY <1>1, <2>1, <2>2 DEF Left
<1>4. Script!Leave(r)
  BY <1>2, <1>3 DEF Script!Leave, States, OnServer, Trailing, Stopped
<1> QED  BY <1>4 DEF Script!Next

\* What ends a statement whose answer was cut.
LEMMA EndRefines ==
  ASSUME Inv, NEW b \in Backends, unread[b] # NoRun, unread' = [unread EXCEPT ![b] = NoRun],
         UNCHANGED <<States, stmt, OnServer, Stopped>>
  PROVE  [Script!Next]_(Script!vars)
<1>1. PICK r \in Runs : unread[b] = r
  BY DEF Inv, TypeOK
<1>2. r \in Trailing /\ Trailing' \in {Trailing, Trailing \ {r}}
  BY <1>1, QueryAssumption DEF Trailing, Inv, TypeOK
<1>3. CASE Trailing' = Trailing
  BY <1>3, ScriptStutters
<1>4. CASE Trailing' = Trailing \ {r}
  <2>1. Script!End(r)
    BY <1>2, <1>4 DEF Script!End, States, OnServer, Trailing, Stopped
  <2> QED  BY <2>1 DEF Script!Next
<1> QED  BY <1>2, <1>3, <1>4

\* A session is done with what it executes, of one kind or the other.
LEMMA ClearRefines ==
  ASSUME Inv, NEW b \in Backends, server' = [server EXCEPT ![b] = NoRun],
         unread' = [unread EXCEPT ![b] = NoRun], UNCHANGED <<States, stmt, Stopped>>,
         Stopped # {} \/ \A r \in Runs : conn[r] # b
  PROVE  [Script!Next]_(Script!vars)
<1>1. server[b] = NoRun => UNCHANGED OnServer
  BY DEF Inv, TypeOK, OnServer
<1>2. unread[b] = NoRun => UNCHANGED Trailing
  BY DEF Inv, TypeOK, Trailing
<1>3. server[b] = NoRun \/ unread[b] = NoRun
  BY DEF Inv, Left, OneStatementPerRun
<1>4. CASE server[b] # NoRun
  BY <1>2, <1>3, <1>4, LeaveRefines
<1>5. CASE unread[b] # NoRun
  BY <1>1, <1>3, <1>5, EndRefines
<1>6. CASE server[b] = NoRun /\ unread[b] = NoRun
  BY <1>1, <1>2, <1>6, ScriptStutters
<1> QED  BY <1>4, <1>5, <1>6

LEMMA StopRefines ==
  ASSUME Inv, NEW r \in Runs, Stop(r)
  PROVE  [Script!Next]_(Script!vars)
<1> USE DEF Inv
<1>1. UNCHANGED <<pc, stmt, result>>
  BY DEF Stop, ClickStop, CancelQuery, ReadPid, NativeCancel, backend
<1>2. UNCHANGED States
  BY <1>1 DEF States, State
<1>3. CASE ClickStop(r)
  <2>1. Stopped' = Stopped \cup {r} /\ UNCHANGED OnServer
    BY <1>3 DEF ClickStop, Stopped, OnServer, TypeOK
  <2>a. UNCHANGED Trailing
    BY <1>3 DEF ClickStop, Trailing
  <2>2. Script!Stop(r)
    BY <1>1, <1>2, <2>1, <2>a DEF Script!Stop, States, OnServer, Trailing, Stopped
  <2> QED  BY <2>2 DEF Script!Next
<1>4. CASE CancelQuery(r) \/ ReadPid(r) \/ NativeCancel(r)
  <2>1. UNCHANGED Stopped /\ r \in Stopped
    BY <1>4 DEF CancelQuery, ReadPid, NativeCancel, Stopped, TypeOK
  <2>2. CASE UNCHANGED <<server, unread>>
    <3>1. UNCHANGED <<OnServer, Trailing>>
      BY <2>2 DEF OnServer, Trailing
    <3> QED  BY <1>1, <1>2, <2>1, <3>1, ScriptStutters
  <2>3. CASE ~UNCHANGED <<server, unread>>
    <3>1. /\ server' = [server EXCEPT ![target[r]] = NoRun]
          /\ unread' = [unread EXCEPT ![target[r]] = NoRun]
      BY <1>4, <2>3 DEF CancelQuery, ReadPid, NativeCancel
    <3>2. target[r] \in Backends
      BY <2>3, <3>1 DEF TypeOK
    <3> QED  BY <1>1, <1>2, <2>1, <3>1, <3>2, ClearRefines
  <2> QED  BY <2>2, <2>3
<1> QED  BY <1>3, <1>4 DEF Stop

LEMMA ScriptStep ==
  ASSUME Inv, Pressed, [Next]_vars
  PROVE  [Script!Next]_(Script!vars)
<1>1. ASSUME NEW b \in Backends, Drain(b) PROVE [Script!Next]_(Script!vars)
  <2>1. UNCHANGED <<States, stmt, Stopped>>
    BY <1>1 DEF Drain, backend, frontend, States, State, Stopped
  <2> QED  BY <1>1, <2>1, ClearRefines DEF Drain
<1>2. ASSUME UNCHANGED vars PROVE UNCHANGED Script!vars
  <2>1. UNCHANGED <<States, stmt, OnServer, Trailing, Stopped>>
    BY <1>2 DEF vars, backend, frontend, States, State, OnServer, Trailing, Stopped
  <2> QED  BY <2>1, ScriptStutters
<1> QED
  BY <1>1, <1>2, CommandRefines, FinishRefines, ViewRefines, StopRefines DEF Next

LEMMA ScriptStart == Init => Script!Init
BY QueryAssumption DEF Init, Script!Init, State

\* Whatever is stopped, killed or refused, running a query keeps the promise of
\* ScriptRun to its tab.
THEOREM ScriptsRunInOrder == Spec => RunsScripts
<1>1. Init => Pressed
  BY QueryAssumption DEF Init, Pressed
<1>2. Inv /\ Pressed /\ [Next]_vars => Pressed'
  BY NextPressed
<1>3. Inv /\ Pressed /\ [Next]_vars => [Script!Next]_(Script!vars)
  BY ScriptStep
<1> QED  BY <1>1, <1>2, <1>3, ScriptStart, Invariance, PTL DEF Spec, RunsScripts, Script!Spec

-----------------------------------------------------------------------------
(* A Stop in time *)

\* A run that was sent is at one of its statements.
Numbered == \A r \in Runs : pc[r] # "idle" => 1 <= stmt[r] /\ stmt[r] <= Length(r)

LEMMA NextNumbered ==
  ASSUME Inv, Numbered, [Next]_vars
  PROVE  Numbered'
<1> USE LengthBound DEF Inv, TypeOK, Numbered
<1>0. \A r \in Runs : Length(r) >= 1 /\ Length(r)' = Length(r)
  BY QueryAssumption DEF Length
<1>1. ASSUME NEW r \in Runs, Command(r) PROVE Numbered'
  <2>1. UNCHANGED stmt /\ \A q \in Runs \ {r} : pc'[q] = pc[q]
    BY <1>1
    DEF Command, Register, Reject, Refuse, NotStarted, Pin, Start, Cancelled, Interrupted, RecordPid,
        Release, Forget, Settle
  <2>2. pc[r] = "idle" => pc'[r] = "idle"
    BY <1>1
    DEF Command, Register, Reject, Refuse, NotStarted, Pin, Start, Cancelled, Interrupted, RecordPid,
        Release, Forget, Settle, Listening
  <2> QED  BY <1>0, <2>1, <2>2
<1>2. ASSUME NEW r \in Runs, Finish(r) PROVE Numbered'
  <2>1. pc[r] = "running" /\ pc' = [pc EXCEPT ![r] = "settled"] /\ UNCHANGED stmt
    BY <1>2 DEF Finish, Settle
  <2> QED  BY <1>0, <2>1
<1>3. ASSUME NEW r \in Runs, View(r) PROVE Numbered'
  BY <1>3, <1>0 DEF View, Submit, SubmitNext, Answered, StashPid, backend, frontend
<1>4. ASSUME NEW r \in Runs, Stop(r) PROVE Numbered'
  BY <1>4, <1>0 DEF Stop, ClickStop, CancelQuery, ReadPid, NativeCancel, backend
<1>5. ASSUME NEW b \in Backends, Drain(b) PROVE Numbered'
  BY <1>5, <1>0 DEF Drain, backend, frontend
<1>6. CASE UNCHANGED vars
  BY <1>6, <1>0 DEF vars, backend, frontend
<1> QED  BY <1>1, <1>2, <1>3, <1>4, <1>5, <1>6 DEF Next

\* From the moment the token of a command fires in the adapter, its run is at its
\* last statement: what is still to come of it is not a success, except of a grid,
\* which has one statement.
Ending(r, n) ==
  /\ stmt[r] = n
  /\ \/ InAdapter(r) /\ fired[r]
     \/ pc[r] \in {"settled", "released", "reply"} /\ (result[r] # "ok" \/ r \in Grids)
     \/ pc[r] = "over"

LEMMA EndingStays ==
  ASSUME Inv, Numbered, NEW r \in Runs, NEW n \in Nat, Ending(r, n), [Next]_vars
  PROVE  Ending(r, n)'
<1> USE DEF Inv, TypeOK, Ending, InAdapter
<1>1. ASSUME NEW q \in Runs, Command(q) PROVE Ending(r, n)'
  <2>1. CASE Register(q)  BY <2>1 DEF Register, frontend
  <2>2. CASE Reject(q)  BY <2>2 DEF Reject, frontend
  <2>3. CASE Refuse(q)  BY <2>3 DEF Refuse, frontend
  <2>4. CASE NotStarted(q)  BY <2>4 DEF NotStarted, Settle, Finalized, frontend
  <2>5. ASSUME NEW b \in Backends, Pin(q, b) PROVE Ending(r, n)'
    BY <2>5 DEF Pin, frontend
  <2>6. CASE Start(q)  BY <2>6 DEF Start, frontend
  <2>7. CASE Cancelled(q)  BY <2>7 DEF Cancelled, Settle, frontend
  <2>8. CASE Interrupted(q)  BY <2>8 DEF Interrupted, Settle, Finalized, frontend
  <2>9. CASE RecordPid(q)  BY <2>9 DEF RecordPid, frontend
  <2>10. CASE Release(q)  BY <2>10 DEF Release, frontend
  <2>11. CASE Forget(q)  BY <2>11 DEF Forget, frontend
  <2> QED  BY <1>1, <2>1, <2>2, <2>3, <2>4, <2>5, <2>6, <2>7, <2>8, <2>9, <2>10, <2>11 DEF Command
<1>2. ASSUME NEW q \in Runs, Finish(q) PROVE Ending(r, n)'
  <2>1. PICK res \in {"ok", "failed"} : Settle(q, Finalized(q, res))
    BY <1>2 DEF Finish, SqlError
  <2> QED  BY <1>2, <2>1 DEF Finish, Settle, Finalized, frontend
<1>3. ASSUME NEW q \in Runs, View(q) PROVE Ending(r, n)'
  <2>1. CASE Submit(q)  BY <2>1 DEF Submit
  <2>2. CASE SubmitNext(q)
    <3>1. \A g \in Grids : Length(g) = 1
      BY QueryAssumption DEF Length
    <3> QED  BY <2>2, <3>1 DEF SubmitNext, Numbered, frontend
  <2>3. CASE Answered(q)  BY <2>3 DEF Answered
  <2>4. CASE StashPid(q)  BY <2>4 DEF StashPid, backend
  <2> QED  BY <1>3, <2>1, <2>2, <2>3, <2>4 DEF View
<1>4. ASSUME NEW q \in Runs, Stop(q) PROVE Ending(r, n)'
  BY <1>4 DEF Stop, ClickStop, CancelQuery, ReadPid, NativeCancel, backend
<1>5. ASSUME NEW b \in Backends, Drain(b) PROVE Ending(r, n)'
  BY <1>5 DEF Drain, backend, frontend
<1>6. CASE UNCHANGED vars
  BY <1>6 DEF vars, backend, frontend
<1> QED  BY <1>1, <1>2, <1>3, <1>4, <1>5, <1>6 DEF Next

\* A Stop whose token fires while the command is in the adapter ends the run: the
\* statement it is at is the last it sends, even when that statement succeeds.
THEOREM StopInTimeEndsTheScript ==
  ASSUME NEW r \in Runs, NEW n \in Nat
  PROVE  Spec => [](InAdapter(r) /\ fired[r] /\ stmt[r] = n => [](stmt[r] = n))
<1>1. Init => Numbered
  BY DEF Init, Numbered
<1>2. Inv /\ Numbered /\ [Next]_vars => Numbered'
  BY NextNumbered
<1>3. InAdapter(r) /\ fired[r] /\ stmt[r] = n => Ending(r, n)
  BY DEF Ending
<1>4. Inv /\ Numbered /\ Ending(r, n) /\ [Next]_vars => Ending(r, n)'
  BY EndingStays
<1>5. Ending(r, n) => stmt[r] = n
  BY DEF Ending
<1> QED  BY <1>1, <1>2, <1>3, <1>4, <1>5, Invariance, PTL DEF Spec

-----------------------------------------------------------------------------
(* A stopped command returns *)

\* The provers know nothing of ENABLED: what they are told is that the command can
\* go on where the guard of Cancelled, of Pin or of NotStarted holds.
CanGoOn(r) == ENABLED <<GoesOn(r)>>_vars
GuardsSuffice ==
  \A r \in Runs :
    \/ fired[r] /\ pc[r] \in Listening(r)
    \/ pc[r] = "acquire" /\ \E b \in Backends : Idle(b)
    \/ pc[r] = "acquire" /\ \A b \in Backends : ~Idle(b)
    => CanGoOn(r)

\* How far the fired command is from the end of the adapter: it may still pin a
\* session, start its statement and have its pid recorded, each of them once.
Ahead(r) ==
  (CASE pc[r] = "acquire" -> 4 [] pc[r] = "pinned" -> 2 [] OTHER -> 0)
    + IF sent[r] = NoBackend \/ pc[r] = "acquire" THEN 0 ELSE 1
FiredAt(r, n) == fired[r] /\ InAdapter(r) /\ Ahead(r) = n

LEMMA AheadRange ==
  ASSUME Inv, NEW r \in Runs, fired[r], InAdapter(r)
  PROVE  Ahead(r) \in 0..4
BY DEF InAdapter, Ahead

\* A step of the command itself brings it closer, or out.
LEMMA CommandAdvances ==
  ASSUME Inv, NEW r \in Runs, NEW n \in 0..4, FiredAt(r, n), Command(r)
  PROVE  ~InAdapter(r)' \/ \E m \in 0..(n - 1) : FiredAt(r, m)'
<1> USE DEF Inv, TypeOK, FiredAt, InAdapter, Ahead
<1>1. CASE Reject(r) \/ Refuse(r) \/ NotStarted(r) \/ Cancelled(r) \/ Interrupted(r)
  BY <1>1 DEF Reject, Refuse, NotStarted, Cancelled, Interrupted, Settle
<1>2. ASSUME NEW b \in Backends, Pin(r, b)
      PROVE  \E m \in 0..(n - 1) : FiredAt(r, m)'
  <2>1. pc[r] = "acquire" /\ pc'[r] = "pinned" /\ fired' = fired
    BY <1>2 DEF Pin
  <2> QED  BY <2>1
<1>3. CASE Start(r)
  <2>1. pc[r] = "pinned" /\ pc'[r] = "running" /\ UNCHANGED <<fired, sent>>
    BY <1>3 DEF Start
  <2> QED  BY <2>1
<1>4. CASE RecordPid(r)
  <2>1. sent[r] # NoBackend /\ sent'[r] = NoBackend /\ UNCHANGED <<fired, pc>>
    BY <1>4 DEF RecordPid
  <2>2. pc[r] # "acquire"
    BY <2>1 DEF Recorded
  <2> QED  BY <2>1, <2>2
<1>5. ~Register(r) /\ ~Release(r) /\ ~Forget(r)
  BY DEF Register, Release, Forget
<1> QED  BY <1>1, <1>2, <1>3, <1>4, <1>5 DEF Command

\* Nobody else takes it back.
LEMMA OthersDoNotDelay ==
  ASSUME Inv, NEW r \in Runs, NEW n \in 0..4, FiredAt(r, n), [Next]_vars
  PROVE  ~InAdapter(r)' \/ \E m \in 0..n : FiredAt(r, m)'
<1> SUFFICES ASSUME ~Command(r)
             PROVE  ~InAdapter(r)' \/ (UNCHANGED <<pc[r], sent[r]>> /\ fired'[r])
  BY CommandAdvances DEF FiredAt, InAdapter, Ahead
<1> USE DEF Inv, TypeOK, FiredAt, InAdapter
<1>1. ASSUME NEW q \in Runs, Command(q) PROVE UNCHANGED <<pc[r], sent[r], fired[r]>>
  <2>1. q # r
    BY <1>1
  <2> QED
    BY <1>1, <2>1
    DEF Command, Register, Reject, Refuse, NotStarted, Pin, Start, Cancelled, Interrupted, RecordPid,
        Release, Forget, Settle
<1>2. ASSUME NEW q \in Runs, Finish(q)
      PROVE  ~InAdapter(r)' \/ UNCHANGED <<pc[r], sent[r], fired[r]>>
  BY <1>2 DEF Finish, Settle
<1>3. ASSUME NEW q \in Runs, View(q) PROVE UNCHANGED <<pc[r], sent[r], fired[r]>>
  BY <1>3 DEF View, Submit, SubmitNext, Answered, StashPid, backend
<1>4. ASSUME NEW q \in Runs, Stop(q) PROVE UNCHANGED <<pc[r], sent[r]>> /\ fired'[r]
  BY <1>4 DEF Stop, ClickStop, CancelQuery, ReadPid, NativeCancel, backend
<1>5. ASSUME NEW b \in Backends, Drain(b) PROVE UNCHANGED <<pc[r], sent[r], fired[r]>>
  BY <1>5 DEF Drain, backend
<1>6. CASE UNCHANGED vars
  BY <1>6 DEF vars, backend
<1> QED  BY <1>1, <1>2, <1>3, <1>4, <1>5, <1>6 DEF Next

LEMMA FiredGoesOn ==
  ASSUME GuardsSuffice, NEW r \in Runs, fired[r], InAdapter(r)
  PROVE  CanGoOn(r)
BY DEF GuardsSuffice, InAdapter, Listening

\* Any number of runs on any pool: a command that Stop has cancelled in the adapter
\* returns, though its statement never ends and no session comes free.
THEOREM FiredCommandsReturn == FairSpec /\ []GuardsSuffice => FiredCommandReturns
<1>1. ASSUME NEW r \in Runs
      PROVE  FairSpec /\ []GuardsSuffice => (fired[r] /\ InAdapter(r) ~> ~InAdapter(r))
  <2> DEFINE At(n) == FiredAt(r, n)
             In == InAdapter(r)
             A0 == At(0)
             A1 == At(1)
             A2 == At(2)
             A3 == At(3)
             A4 == At(4)
             Fired == fired[r]
  <2>1. FairSpec => Spec /\ Fairness(r)
    BY DEF FairSpec
  <2>2. GuardsSuffice /\ (A0 \/ A1 \/ A2 \/ A3 \/ A4) => CanGoOn(r)
    BY FiredGoesOn DEF FiredAt
  <2>3. Inv /\ Fired /\ In => A0 \/ A1 \/ A2 \/ A3 \/ A4
    BY AheadRange DEF FiredAt
  <2>4. ASSUME NEW n \in 0..4
        PROVE  Inv /\ At(n) /\ [Next]_vars => ~In' \/ \E m \in 0..n : At(m)'
    BY OthersDoNotDelay
  <2>5. ASSUME NEW n \in 0..4
        PROVE  Inv /\ At(n) /\ <<GoesOn(r)>>_vars => ~In' \/ \E m \in 0..(n - 1) : At(m)'
    BY CommandAdvances DEF GoesOn, Command
  <2> HIDE DEF In, At
  <2>6. Inv /\ [Next]_vars => /\ A0 => ~In' \/ A0'
                              /\ A1 => ~In' \/ A0' \/ A1'
                              /\ A2 => ~In' \/ A0' \/ A1' \/ A2'
                              /\ A3 => ~In' \/ A0' \/ A1' \/ A2' \/ A3'
                              /\ A4 => ~In' \/ A0' \/ A1' \/ A2' \/ A3' \/ A4'
    BY <2>4
  <2>7. Inv /\ <<GoesOn(r)>>_vars => /\ A0 => ~In'
                                     /\ A1 => ~In' \/ A0'
                                     /\ A2 => ~In' \/ A0' \/ A1'
                                     /\ A3 => ~In' \/ A0' \/ A1' \/ A2'
                                     /\ A4 => ~In' \/ A0' \/ A1' \/ A2' \/ A3'
    BY <2>5
  <2> HIDE DEF A0, A1, A2, A3, A4, Fired
  <2>8. FairSpec /\ []GuardsSuffice => (Fired /\ In ~> ~In)
    BY <2>1, <2>2, <2>3, <2>6, <2>7, Invariance, PTL DEF Spec, Fairness, CanGoOn
  <2> QED  BY <2>8 DEF In, Fired
<1> QED  BY <1>1 DEF FiredCommandReturns

=============================================================================
