-------------------------- MODULE TxnBatch_proofs --------------------------
(***************************************************************************)
(* Proofs about TxnBatch, for any set of batches, rows and plans and every *)
(* driver.  The invariant is in three parts: Locks, which transaction      *)
(* holds which row; Course, what the command knows of its transaction;     *)
(* Covered, the rows that a transaction on its way to COMMIT has written.  *)
(* What overlapping batches leave in the table is then proved of the       *)
(* abstract specification alone.  Liveness comes last, on the premise      *)
(* GuardsSuffice.                                                          *)
(***************************************************************************)
EXTENDS TxnBatch, TLAPS

-----------------------------------------------------------------------------
(* Typing *)

LEMMA TargetIsRow ==
  ASSUME Typed, NEW b \in Batches, More(b)
  PROVE  Target(b) \in Rows
<1>1. Plans \subseteq Seq(Rows)
  BY BatchAssumption
<1>2. <<>> \in Seq(Rows)
  OBVIOUS
<1>3. at[b] \in Nat \ {0} /\ plan[b] \in Seq(Rows)
  BY <1>1, <1>2 DEF Typed
<1>4. at[b] \in 1 .. Len(plan[b])
  BY <1>3 DEF More
<1> QED
  BY <1>3, <1>4 DEF Target

\* A step that only settles what a command answers and where it goes.
LEMMA ConcludeTyped ==
  ASSUME Typed, NEW b \in Batches, NEW outcome \in {"ok", "failed", "unsure", result[b]},
         NEW step \in {"undo", "close", "join", "leave", "over"}, Conclude(b, outcome, step)
  PROVE  /\ pc' \in [Batches -> {"idle", "resolve", "join", "leave", "over"} \cup Working]
         /\ result' \in [Batches -> {"none", "ok", "failed", "unsure"}]
         /\ plan' = plan /\ mode' = mode /\ at' = at
         /\ result' = [result EXCEPT ![b] = outcome] /\ pc' = [pc EXCEPT ![b] = step]
BY DEF Typed, Conclude, Goto, Working

LEMMA EndedTyped ==
  ASSUME Typed, NEW b \in Batches, NEW outcome \in {"committed", "aborted"}, Ended(b, outcome)
  PROVE  /\ srv' \in [Batches -> {"none", "open", "ending", "committed", "aborted"}]
         /\ wrote' \in [Batches -> SUBSET Rows]
BY DEF Typed, Ended

LEMMA TypedStep == Typed /\ [Next]_vars => Typed'
<1> SUFFICES ASSUME Typed, [Next]_vars PROVE Typed'
  OBVIOUS
<1>0. Exit \in {"join", "leave"}
  BY DEF Exit
<1>1. ASSUME NEW b \in Batches, Invoke(b) PROVE Typed'
  BY <1>1 DEF Typed, Working, Invoke, Goto, server
<1>2. ASSUME NEW b \in Batches, Dispatch(b) \/ Leave(b) \/ CancelQuery(b)
      PROVE  Typed'
  BY <1>2 DEF Typed, Working, Dispatch, Leave, CancelQuery, Goto, server, client
<1>3. ASSUME NEW b \in Batches,
             \/ Lost(b) \/ Mismatch(b) \/ Decline(b) \/ BeginFails(b) \/ StatementFails(b)
             \/ Committed(b) \/ CommitFails(b) \/ Close(b) \/ Abandon(b) \/ Join(b)
      PROVE  Typed'
  <2>1. PICK outcome \in {"ok", "failed", "unsure", result[b]},
             step \in {"undo", "close", "join", "leave", "over"} : Conclude(b, outcome, step)
    BY <1>0, <1>3 DEF Lost, Mismatch, Decline, BeginFails, StatementFails, Committed,
       CommitFails, Close, Abandon, Join
  <2>2. driver' = driver /\ UNCHANGED server
    BY <1>3 DEF Lost, Mismatch, Decline, BeginFails, StatementFails, Committed,
       CommitFails, Close, Abandon, Join
  <2>3. token' = token \/ token' = [token EXCEPT ![b] = "none"]
    BY <1>3 DEF Lost, Mismatch, Decline, BeginFails, StatementFails, Committed,
       CommitFails, Close, Abandon, Join
  <2> QED
    BY <2>1, <2>2, <2>3, ConcludeTyped DEF Typed, server
<1>4. ASSUME NEW b \in Batches, RunStatement(b) PROVE Typed'
  <2>1. Target(b) \in Rows
    BY <1>4, TargetIsRow DEF RunStatement
  <2>2. wrote' \in [Batches -> SUBSET Rows]
    BY <1>4, <2>1 DEF RunStatement, Typed
  <2>3. CASE Accepted(b)
    <3>1. at' \in [Batches -> Nat \ {0}]
      BY <1>4, <2>3 DEF RunStatement, Typed
    <3> QED
      BY <1>4, <2>2, <2>3, <3>1 DEF RunStatement, Typed
  <2>4. CASE ~Accepted(b)
    BY <1>4, <2>2, <2>4, ConcludeTyped DEF RunStatement, Typed
  <2> QED
    BY <2>3, <2>4
<1>5. ASSUME NEW b \in Batches, Undo(b) PROVE Typed'
  BY <1>0, <1>5, EndedTyped DEF Undo, Goto, Typed, Working
<1>6. ASSUME NEW b \in Batches, Rollback(b) PROVE Typed'
  <2>1. CASE Ended(b, "aborted") /\ Conclude(b, "ok", IF driver.closes THEN "close" ELSE Exit)
    <3>1. (IF driver.closes THEN "close" ELSE Exit) \in {"close", "join", "leave"}
      BY <1>0
    <3> QED
      BY <1>6, <2>1, <3>1, EndedTyped, ConcludeTyped DEF Rollback, Typed
  <2>2. CASE Conclude(b, "failed", Exit) /\ UNCHANGED <<srv, wrote>>
    BY <1>0, <1>6, <2>2, ConcludeTyped DEF Rollback, Typed
  <2> QED
    BY <1>6, <2>1, <2>2 DEF Rollback
<1>7. ASSUME NEW b \in Batches, Begin(b) \/ Commit(b) PROVE Typed'
  BY <1>7 DEF Begin, Commit, Goto, Typed, Working
<1>8. ASSUME NEW b \in Batches, ServerCommits(b) \/ ServerRefuses(b) \/ Reclaim(b) PROVE Typed'
  <2>1. table' \in [Rows -> Batches \cup {"stored", "absent"}]
    BY <1>8 DEF ServerCommits, ServerRefuses, Reclaim, Typed
  <2>2. PICK outcome \in {"committed", "aborted"} : Ended(b, outcome)
    BY <1>8 DEF ServerCommits, ServerRefuses, Reclaim
  <2> QED
    BY <1>8, <2>1, <2>2, EndedTyped DEF ServerCommits, ServerRefuses, Reclaim, client, Typed
<1>9. ASSUME NEW r \in Deletable, Vanish(r) PROVE Typed'
  BY <1>9 DEF Vanish, client, Typed
<1>10. CASE UNCHANGED vars
  BY <1>10 DEF vars, client, server, Typed
<1> QED
  BY <1>1, <1>2, <1>3, <1>4, <1>5, <1>6, <1>7, <1>8, <1>9, <1>10 DEF Next

LEMMA ConcludedStep == Typed /\ Concluded /\ [Next]_vars => Concluded'
<1> SUFFICES ASSUME Typed, Concluded, [Next]_vars, NEW c \in Batches,
                    pc'[c] \in {"undo", "close", "join", "leave", "over"}
             PROVE  result'[c] # "none"
  BY DEF Concluded
<1>1. ASSUME pc'[c] = pc[c], result'[c] = result[c] PROVE result'[c] # "none"
  BY <1>1 DEF Concluded
<1>2. ASSUME NEW b \in Batches,
             \/ Lost(b) \/ Mismatch(b) \/ Decline(b) \/ BeginFails(b) \/ StatementFails(b)
             \/ Rollback(b) \/ Committed(b) \/ CommitFails(b) \/ Abandon(b)
      PROVE  result'[c] # "none"
  <2>1. PICK outcome \in {"ok", "failed", "unsure"},
             step \in {"undo", "close", Exit, "over"} : Conclude(b, outcome, step)
    BY <1>2 DEF Lost, Mismatch, Decline, BeginFails, StatementFails, Rollback, Committed,
       CommitFails, Abandon
  <2> QED
    BY <1>1, <2>1 DEF Conclude, Goto, Typed
<1>3. ASSUME NEW b \in Batches, Close(b) \/ Join(b) PROVE result'[c] # "none"
  <2>1. PICK outcome \in {"unsure", result[b]}, step \in {Exit, "leave"} : Conclude(b, outcome, step)
    BY <1>3 DEF Close, Join
  <2>2. result[b] # "none"
    BY <1>3 DEF Close, Join, Concluded
  <2> QED
    BY <1>1, <2>1, <2>2 DEF Conclude, Goto, Typed
<1>4. ASSUME NEW b \in Batches, Leave(b) PROVE result'[c] # "none"
  BY <1>1, <1>4 DEF Leave, Goto, Typed, Concluded
<1>5. ASSUME NEW b \in Batches, Undo(b) PROVE result'[c] # "none"
  BY <1>1, <1>5 DEF Undo, Goto, Typed, Concluded
<1>6. ASSUME NEW b \in Batches,
             \/ Invoke(b) \/ Dispatch(b) \/ CancelQuery(b) \/ Begin(b) \/ Commit(b)
             \/ ServerCommits(b) \/ ServerRefuses(b) \/ Reclaim(b)
      PROVE  result'[c] # "none"
  BY <1>1, <1>6 DEF Invoke, Dispatch, CancelQuery, Begin, Commit, ServerCommits, ServerRefuses,
     Reclaim, Goto, Typed, client
<1>7. ASSUME NEW b \in Batches, RunStatement(b) PROVE result'[c] # "none"
  BY <1>1, <1>7 DEF RunStatement, Conclude, Goto, Typed
<1>8. ASSUME NEW r \in Deletable, Vanish(r) PROVE result'[c] # "none"
  BY <1>1, <1>8 DEF Vanish, client
<1>9. CASE UNCHANGED vars
  BY <1>1, <1>9 DEF vars, client
<1> QED
  BY <1>2, <1>3, <1>4, <1>5, <1>6, <1>7, <1>8, <1>9 DEF Next

\* For any batches, rows, plans and driver, every reachable state is well typed
\* and a command past its work has an outcome.
THEOREM TypeCorrect == Spec => []TypeOK
<1>1. Init => TypeOK
  BY DEF Init, TypeOK, Typed, Concluded
<1> QED
  BY <1>1, TypedStep, ConcludedStep, PTL DEF Spec, TypeOK

-----------------------------------------------------------------------------
(* What a command knows of its transaction *)

Stage(b) ==
  /\ pc[b] # "idle" => mode[b] # "none"
  /\ pc[b] = "idle" => mode[b] = "none"
  /\ pc[b] \in {"idle", "resolve", "open"} => srv[b] = "none" /\ at[b] = 1
  /\ pc[b] \in {"idle", "resolve", "open", "stmt", "end"} => result[b] = "none"
  /\ pc[b] \in {"stmt", "undo"} => srv[b] = "open"
  /\ pc[b] = "end" => srv[b] \in {"ending", "committed", "aborted"}
  /\ pc[b] = "close" => srv[b] \in {"committed", "aborted"}
  /\ srv[b] \in {"ending", "committed"} => mode[b] = "commit"
  /\ result[b] = "ok" => mode[b] = "dry_run" \/ srv[b] = "committed"
  /\ result[b] = "failed" => Doomed(b)

Course == \A b \in Batches : Stage(b)

LEMMA StageFrame ==
  ASSUME NEW c, Stage(c),
         pc'[c] = pc[c], mode'[c] = mode[c], at'[c] = at[c], result'[c] = result[c],
         srv'[c] = srv[c]
  PROVE  Stage(c)'
BY DEF Stage, Doomed

\* The steps of a command and of its driver that leave the server alone.
LEMMA CourseClient ==
  ASSUME Typed, Concluded, Course, NEW b \in Batches,
         \/ Invoke(b) \/ Lost(b) \/ Mismatch(b) \/ Dispatch(b) \/ Leave(b) \/ CancelQuery(b)
         \/ Decline(b) \/ BeginFails(b) \/ StatementFails(b) \/ Committed(b) \/ CommitFails(b)
         \/ Close(b) \/ Abandon(b) \/ Join(b)
  PROVE  Course'
<1> SUFFICES ASSUME NEW c \in Batches PROVE Stage(c)'
  BY DEF Course
<1>0. Stage(c) /\ Stage(b) /\ Exit \in {"join", "leave"}
  BY DEF Course, Exit
<1>1. CASE Invoke(b)
  BY <1>0, <1>1, StageFrame DEF Invoke, Goto, server, Typed, Stage, Doomed
<1>2. CASE Dispatch(b) \/ Leave(b) \/ CancelQuery(b)
  BY <1>0, <1>2, StageFrame DEF Dispatch, Leave, CancelQuery, Goto, server, client, Typed, Stage, Doomed
<1>3. CASE Lost(b) \/ Mismatch(b) \/ Decline(b) \/ BeginFails(b) \/ StatementFails(b)
  BY <1>0, <1>3, StageFrame DEF Lost, Mismatch, Decline, BeginFails, StatementFails, Conclude, Goto,
     server, Typed, Stage, Doomed
<1>4. CASE Committed(b) \/ CommitFails(b) \/ Abandon(b)
  BY <1>0, <1>4, StageFrame DEF Committed, CommitFails, Abandon, Conclude, Goto, Working,
     server, Typed, Stage, Doomed
<1>5. CASE Close(b) \/ Join(b)
  BY <1>0, <1>5, StageFrame DEF Close, Join, Conclude, Goto, server, Typed, Stage, Doomed
<1> QED
  BY <1>1, <1>2, <1>3, <1>4, <1>5

LEMMA CourseStep == Typed /\ Concluded /\ Course /\ [Next]_vars => Course'
<1> SUFFICES ASSUME Typed, Concluded, Course, [Next]_vars, NEW c \in Batches PROVE Stage(c)'
  BY DEF Course
<1>0. Exit \in {"join", "leave"} /\ \A b \in Batches : Stage(b)
  BY DEF Course, Exit
<1>1. ASSUME NEW b \in Batches, Begin(b) \/ Commit(b) PROVE Stage(c)'
  BY <1>0, <1>1, StageFrame DEF Begin, Commit, Goto, Typed, Stage, Doomed
<1>2. ASSUME NEW b \in Batches, RunStatement(b) PROVE Stage(c)'
  BY <1>0, <1>2, StageFrame DEF RunStatement, Conclude, Goto, Typed, Stage, Doomed
<1>3. ASSUME NEW b \in Batches, Undo(b) \/ Rollback(b) PROVE Stage(c)'
  BY <1>0, <1>3, StageFrame DEF Undo, Rollback, Ended, Conclude, Goto, Typed, Stage, Doomed
<1>4. ASSUME NEW b \in Batches, ServerCommits(b) \/ ServerRefuses(b) \/ Reclaim(b) PROVE Stage(c)'
  BY <1>0, <1>4, StageFrame DEF ServerCommits, ServerRefuses, Reclaim, Orphaned, Live, Ended, client,
     Typed, Stage, Doomed
<1>5. ASSUME NEW r \in Deletable, Vanish(r) PROVE Stage(c)'
  BY <1>0, <1>5, StageFrame DEF Vanish, client
<1>6. CASE UNCHANGED vars
  BY <1>0, <1>6, StageFrame DEF vars, client, server
<1> QED
  BY <1>1, <1>2, <1>3, <1>4, <1>5, <1>6, CourseClient DEF Next, Course

-----------------------------------------------------------------------------
(* Who holds which row *)

Locks ==
  /\ \A b \in Batches : wrote[b] # {} => Live(b)
  /\ \A a, b \in Batches : a # b => wrote[a] \cap wrote[b] = {}

LEMMA LocksStep == Typed /\ Course /\ Locks /\ [Next]_vars => Locks'
<1> SUFFICES ASSUME Typed, Course, Locks, [Next]_vars PROVE Locks'
  OBVIOUS
<1>1. ASSUME UNCHANGED <<srv, wrote>> PROVE Locks'
  BY <1>1 DEF Locks, Live
<1>2. ASSUME NEW b \in Batches,
             \/ Invoke(b) \/ Lost(b) \/ Mismatch(b) \/ Dispatch(b) \/ Leave(b) \/ CancelQuery(b)
             \/ Decline(b) \/ BeginFails(b) \/ StatementFails(b) \/ Committed(b) \/ CommitFails(b)
             \/ Close(b) \/ Abandon(b) \/ Join(b)
      PROVE  UNCHANGED <<srv, wrote>>
  BY <1>2 DEF Invoke, Lost, Mismatch, Dispatch, Leave, CancelQuery, Decline, BeginFails,
     StatementFails, Committed, CommitFails, Close, Abandon, Join, server
<1>3. ASSUME NEW b \in Batches, Begin(b) \/ Commit(b) PROVE Locks'
  BY <1>3 DEF Begin, Commit, Locks, Live, Typed
<1>4. ASSUME NEW b \in Batches, RunStatement(b) PROVE Locks'
  <2>1. \A o \in Batches \ {b} : Target(b) \notin wrote[o]
    BY <1>4 DEF RunStatement, Blocked, Locks
  <2>2. Live(b)
    BY <1>4 DEF RunStatement, Course, Stage, Live
  <2>3. srv' = srv /\ (wrote' = wrote \/ wrote' = [wrote EXCEPT ![b] = @ \cup {Target(b)}])
    BY <1>4 DEF RunStatement
  <2>4. CASE wrote' = [wrote EXCEPT ![b] = @ \cup {Target(b)}]
    <3>1. ASSUME NEW o \in Batches, wrote'[o] # {} PROVE Live(o)'
      BY <2>2, <2>3, <2>4, <3>1 DEF Locks, Live, Typed
    <3>2. ASSUME NEW a \in Batches, NEW o \in Batches, a # o PROVE wrote'[a] \cap wrote'[o] = {}
      <4>1. wrote[a] \cap wrote[o] = {}
        BY <3>2 DEF Locks
      <4>2. CASE a = b
        BY <2>1, <2>4, <3>2, <4>1, <4>2 DEF Typed
      <4>3. CASE o = b
        BY <2>1, <2>4, <3>2, <4>1, <4>3 DEF Typed
      <4>4. CASE a # b /\ o # b
        BY <2>4, <4>1, <4>4 DEF Typed
      <4> QED
        BY <4>2, <4>3, <4>4
    <3> QED
      BY <3>1, <3>2 DEF Locks
  <2> QED
    BY <1>1, <2>3, <2>4
<1>5. ASSUME NEW b \in Batches, NEW outcome, Ended(b, outcome) PROVE Locks'
  BY <1>5 DEF Ended, Locks, Live, Typed
<1>6. ASSUME NEW b \in Batches,
             Undo(b) \/ Rollback(b) \/ ServerCommits(b) \/ ServerRefuses(b) \/ Reclaim(b)
      PROVE  Locks'
  BY <1>1, <1>5, <1>6 DEF Undo, Rollback, ServerCommits, ServerRefuses, Reclaim
<1>7. ASSUME NEW r \in Deletable, Vanish(r) PROVE Locks'
  BY <1>1, <1>7 DEF Vanish
<1>8. CASE UNCHANGED vars
  BY <1>1, <1>8 DEF vars, server
<1> QED
  BY <1>1, <1>2, <1>3, <1>4, <1>6, <1>7, <1>8 DEF Next

-----------------------------------------------------------------------------
(* What a transaction on its way to COMMIT has written *)

Committing(b) == mode[b] = "commit" /\ (pc[b] = "stmt" \/ srv[b] = "ending")

Sound(b) == \A r \in wrote[b] : r \in Rows \ Duplicated /\ table[r] # "absent"

Cover(b) ==
  /\ Committing(b) => Sound(b) /\ wrote[b] \subseteq Range(plan[b])
  /\ mode[b] = "commit" /\ pc[b] = "stmt"
       => \A i \in DOMAIN plan[b] : i < at[b] => plan[b][i] \in wrote[b]
  /\ srv[b] = "ending" => Range(plan[b]) \subseteq wrote[b]

Covered == \A b \in Batches : Cover(b)

LEMMA PlanType ==
  ASSUME Typed, NEW b \in Batches
  PROVE  plan[b] \in Seq(Rows) /\ DOMAIN plan[b] = 1 .. Len(plan[b]) /\ Len(plan[b]) \in Nat
<1>1. Plans \subseteq Seq(Rows) /\ <<>> \in Seq(Rows)
  <2>1. <<>> \in Seq(Rows)
    OBVIOUS
  <2> QED
    BY <2>1, BatchAssumption
<1>2. plan[b] \in Seq(Rows)
  BY <1>1 DEF Typed
<1> QED
  BY <1>2

LEMMA CoverFrame ==
  ASSUME NEW c, Cover(c), Committing(c)' => Committing(c),
         pc'[c] = "stmt" => pc[c] = "stmt",
         srv'[c] = "ending" => srv[c] = "ending",
         mode'[c] = mode[c], plan'[c] = plan[c], at'[c] = at[c],
         wrote'[c] = wrote[c], \A r \in wrote[c] : table'[r] # "absent" \/ table'[r] = table[r]
  PROVE  Cover(c)'
BY DEF Cover, Committing, Sound

LEMMA CoveredStep == Typed /\ Course /\ Locks /\ Covered /\ [Next]_vars => Covered'
<1> SUFFICES ASSUME Typed, Course, Locks, Covered, [Next]_vars, NEW c \in Batches PROVE Cover(c)'
  BY DEF Covered
<1>0. Cover(c) /\ Stage(c)
  BY DEF Covered, Course
<1>1. ASSUME NEW b \in Batches, Invoke(b) PROVE Cover(c)'
  <2>1. CASE c = b
    <3>1. pc'[c] # "stmt" /\ srv'[c] # "ending"
      BY <1>0, <1>1, <2>1 DEF Invoke, Goto, server, Stage, Typed
    <3> QED
      BY <3>1 DEF Cover, Committing
  <2>2. CASE c # b
    BY <1>0, <1>1, <2>2, CoverFrame DEF Invoke, Goto, server, Typed, Committing
  <2> QED
    BY <2>1, <2>2
<1>2. ASSUME NEW b \in Batches,
             \/ Lost(b) \/ Mismatch(b) \/ Dispatch(b) \/ Leave(b) \/ CancelQuery(b)
             \/ Decline(b) \/ BeginFails(b) \/ StatementFails(b)
      PROVE  Cover(c)'
  BY <1>0, <1>2, CoverFrame DEF Lost, Mismatch, Dispatch, Leave, CancelQuery, Decline, BeginFails,
     StatementFails, Conclude, Goto, Exit, server, client, Typed, Committing
<1>3. ASSUME NEW b \in Batches,
             Committed(b) \/ CommitFails(b) \/ Close(b) \/ Abandon(b) \/ Join(b)
      PROVE  Cover(c)'
  BY <1>0, <1>3, CoverFrame DEF Committed, CommitFails, Close, Abandon, Join, Conclude, Goto, Exit,
     server, Typed, Committing
<1>4. ASSUME NEW b \in Batches, Begin(b) PROVE Cover(c)'
  <2>1. CASE c = b
    <3>1. wrote[c] = {} /\ at[c] = 1 /\ DOMAIN plan[c] = 1 .. Len(plan[c]) /\ Len(plan[c]) \in Nat
      BY <1>0, <1>4, <2>1, PlanType DEF Begin, Stage, Locks, Live
    <3>2. wrote'[c] = {} /\ at'[c] = 1 /\ plan'[c] = plan[c] /\ srv'[c] = "open"
      BY <1>4, <2>1, <3>1 DEF Begin, Typed
    <3> QED
      BY <3>1, <3>2 DEF Cover, Sound
  <2>2. CASE c # b
    BY <1>0, <1>4, <2>2, CoverFrame DEF Begin, Goto, Typed, Committing
  <2> QED
    BY <2>1, <2>2
<1>5. ASSUME NEW b \in Batches, RunStatement(b) PROVE Cover(c)'
  <2>1. CASE c # b
    <3>1. wrote'[c] = wrote[c]
      BY <1>5, <2>1 DEF RunStatement, Typed
    <3> QED
      BY <1>0, <1>5, <2>1, <3>1, CoverFrame DEF RunStatement, Conclude, Goto, Typed, Committing
  <2>2. CASE c = b /\ ~Accepted(b)
    <3>1. pc'[c] # "stmt" /\ srv'[c] # "ending"
      BY <1>0, <1>5, <2>2 DEF RunStatement, Conclude, Goto, Stage, Typed
    <3> QED
      BY <3>1 DEF Cover, Committing
  <2>3. CASE c = b /\ Accepted(b)
    <3>0. SUFFICES ASSUME mode[b] = "commit" PROVE Cover(b)'
      <4>1. mode'[b] = mode[b] /\ srv'[b] = "open"
        BY <1>0, <1>5, <2>3 DEF RunStatement, Stage
      <4> QED
        BY <2>3, <4>1 DEF Cover, Committing
    <3>1. Effect(b) = 1 /\ Target(b) \in Rows /\ More(b)
      BY <1>5, <2>3, <3>0, TargetIsRow DEF Accepted, RunStatement
    <3>2. table[Target(b)] # "absent" /\ Target(b) \notin Duplicated
      BY <3>1 DEF Effect
    <3>3. /\ wrote'[b] = wrote[b] \cup {Target(b)} /\ at'[b] = at[b] + 1
          /\ pc[b] = "stmt" /\ srv'[b] = "open" /\ UNCHANGED <<table, plan, mode, pc>>
      BY <1>0, <1>5, <2>3, <3>1 DEF RunStatement, Stage, Typed
    <3>4. at[b] \in Nat \ {0} /\ at[b] \in DOMAIN plan[b] /\ Target(b) = plan[b][at[b]]
      BY <3>1, PlanType DEF More, Target, Typed
    <3>5. Sound(b) /\ wrote[b] \subseteq Range(plan[b])
          /\ \A i \in DOMAIN plan[b] : i < at[b] => plan[b][i] \in wrote[b]
      BY <1>0, <2>3, <3>0, <3>3 DEF Cover, Committing
    <3>6. Sound(b)'
      BY <3>1, <3>2, <3>3, <3>5 DEF Sound
    <3>7. wrote'[b] \subseteq Range(plan'[b])
      BY <3>3, <3>4, <3>5 DEF Range
    <3>8. ASSUME NEW i \in DOMAIN plan[b], i < at'[b] PROVE plan[b][i] \in wrote'[b]
      <4>1. i < at[b] \/ i = at[b]
        BY <3>3, <3>4, <3>8, PlanType
      <4> QED
        BY <3>3, <3>4, <3>5, <4>1
    <3> QED
      BY <3>3, <3>6, <3>7, <3>8 DEF Cover
  <2> QED
    BY <2>1, <2>2, <2>3
<1>6. ASSUME NEW b \in Batches, Commit(b) PROVE Cover(c)'
  <2>1. CASE c # b
    BY <1>0, <1>6, <2>1, CoverFrame DEF Commit, Goto, Typed, Committing
  <2>2. CASE c = b
    <3>1. \A i \in DOMAIN plan[b] : i < at[b]
      BY <1>6, PlanType DEF Commit, More, Typed
    <3>2. Sound(b) /\ wrote[b] \subseteq Range(plan[b]) /\ Range(plan[b]) \subseteq wrote[b]
      BY <1>0, <1>6, <2>2, <3>1 DEF Cover, Committing, Commit, Range
    <3>3. UNCHANGED <<table, plan, wrote>> /\ pc'[b] = "end"
      BY <1>6 DEF Commit, Goto, Typed
    <3> QED
      BY <2>2, <3>2, <3>3 DEF Cover, Sound
  <2> QED
    BY <2>1, <2>2
<1>7. ASSUME NEW b \in Batches, NEW outcome \in {"committed", "aborted"}, Ended(b, outcome),
             UNCHANGED <<plan, mode, at>>,
             pc'[b] # "stmt", \A o \in Batches \ {b} : pc'[o] = pc[o],
             \A o \in Batches \ {b} : \A r \in wrote[o] : table'[r] # "absent" \/ table'[r] = table[r]
      PROVE  Cover(c)'
  <2>1. CASE c = b
    <3>1. srv'[c] # "ending" /\ pc'[c] # "stmt"
      BY <1>7, <2>1 DEF Ended, Typed
    <3> QED
      BY <3>1 DEF Cover, Committing
  <2>2. CASE c # b
    BY <1>0, <1>7, <2>2, CoverFrame DEF Ended, Typed, Committing
  <2> QED
    BY <2>1, <2>2
<1>8. ASSUME NEW b \in Batches, Undo(b) \/ Rollback(b) PROVE Cover(c)'
  <2>1. CASE UNCHANGED <<srv, wrote>>
    BY <1>0, <1>8, <2>1, CoverFrame DEF Undo, Rollback, Conclude, Goto, Exit, Typed, Committing
  <2>2. CASE Ended(b, "aborted")
    BY <1>7, <1>8, <2>2 DEF Undo, Rollback, Conclude, Goto, Exit, Typed
  <2> QED
    BY <1>8, <2>1, <2>2 DEF Undo, Rollback
<1>9. ASSUME NEW b \in Batches, ServerCommits(b) PROVE Cover(c)'
  <2>1. pc[b] # "stmt" /\ pc' = pc
    BY <1>9 DEF ServerCommits, client, Course, Stage
  <2>2. ASSUME NEW o \in Batches \ {b}, NEW r \in wrote[o] PROVE table'[r] = table[r]
    <3>1. r \in Rows /\ r \notin wrote[b]
      BY <2>2 DEF Locks, Typed
    <3> QED
      BY <1>9, <3>1 DEF ServerCommits
  <2> QED
    BY <1>7, <1>9, <2>1, <2>2 DEF ServerCommits, client
<1>10. ASSUME NEW b \in Batches, ServerRefuses(b) \/ Reclaim(b) PROVE Cover(c)'
  <2>1. pc[b] # "stmt"
    BY <1>10 DEF ServerRefuses, Reclaim, Orphaned, Course, Stage
  <2> QED
    BY <1>7, <1>10, <2>1 DEF ServerRefuses, Reclaim, client
<1>11. ASSUME NEW r \in Deletable, Vanish(r) PROVE Cover(c)'
  <2>1. \A x \in wrote[c] : table'[x] = table[x]
    BY <1>11 DEF Vanish, Typed
  <2> QED
    BY <1>0, <1>11, <2>1, CoverFrame DEF Vanish, client, Committing
<1>12. CASE UNCHANGED vars
  BY <1>0, <1>12, CoverFrame DEF vars, client, server, Committing
<1> QED
  BY <1>1, <1>2, <1>3, <1>4, <1>5, <1>6, <1>8, <1>9, <1>10, <1>11, <1>12 DEF Next

-----------------------------------------------------------------------------
(* TxnBatch implements AtomicBatch *)

\* What the dialogs see changes for one batch at a time.
LEMMA Focus ==
  ASSUME NEW b \in Batches,
         \A c \in Batches \ {b} : /\ plan'[c] = plan[c] /\ mode'[c] = mode[c]
                                  /\ srv'[c] = srv[c] /\ pc'[c] = pc[c] /\ result'[c] = result[c]
  PROVE  /\ [c \in Batches |-> Want(c)]' = [[c \in Batches |-> Want(c)] EXCEPT ![b] = Want(b)']
         /\ [c \in Batches |-> Fate(c)]' = [[c \in Batches |-> Fate(c)] EXCEPT ![b] = Fate(b)']
         /\ [c \in Batches |-> Answer(c)]' = [[c \in Batches |-> Answer(c)] EXCEPT ![b] = Answer(b)']
BY DEF Want, Fate, Answer, Doomed

\* A step after which the batch wants and answers what it did.
LEMMA Quiet ==
  ASSUME NEW b \in Batches,
         \A c \in Batches \ {b} : /\ plan'[c] = plan[c] /\ mode'[c] = mode[c]
                                  /\ srv'[c] = srv[c] /\ pc'[c] = pc[c] /\ result'[c] = result[c],
         UNCHANGED table, Want(b)' = Want(b), Answer(b)' = Answer(b),
         Fate(b)' = Fate(b) \/ (Fate(b) = "pending" /\ Fate(b)' = "dropped")
  PROVE  [Atomic!Next]_(Atomic!vars)
<1>1. CASE Fate(b)' = Fate(b)
  BY <1>1, Focus DEF Atomic!vars
<1>2. CASE Fate(b) = "pending" /\ Fate(b)' = "dropped"
  BY <1>2, Focus DEF Atomic!Next, Atomic!Drop
<1> QED
  BY <1>1, <1>2

LEMMA AtomicStep ==
  Typed /\ Concluded /\ Course /\ Locks /\ Covered /\ [Next]_vars => [Atomic!Next]_(Atomic!vars)
<1> SUFFICES ASSUME Typed, Concluded, Course, Locks, Covered, [Next]_vars
             PROVE  [Atomic!Next]_(Atomic!vars)
  OBVIOUS
<1>0. Exit \in {"join", "leave"} /\ \A b \in Batches : Stage(b)
  BY DEF Course, Exit
<1>1. ASSUME NEW b \in Batches, Invoke(b) PROVE [Atomic!Next]_(Atomic!vars)
  <2>1. Want(b) = {} /\ Fate(b) = "pending" /\ Fate(b)' = "pending" /\ Answer(b)' = Answer(b)
        /\ UNCHANGED table
    BY <1>0, <1>1 DEF Invoke, Goto, server, Stage, Want, Fate, Doomed, Answer, Typed
  <2>2. Want(b)' \in SUBSET Rows
    <3>1. PICK p \in Plans, m \in {"commit", "dry_run"} :
            plan' = [plan EXCEPT ![b] = p] /\ mode' = [mode EXCEPT ![b] = m]
      BY <1>1 DEF Invoke
    <3>2. p \in Seq(Rows)
      BY BatchAssumption
    <3>3. Range(p) \subseteq Rows
      BY <3>2 DEF Range
    <3> QED
      BY <3>1, <3>3 DEF Want, Typed
  <2>3. \A c \in Batches \ {b} : /\ plan'[c] = plan[c] /\ mode'[c] = mode[c]
                                 /\ srv'[c] = srv[c] /\ pc'[c] = pc[c] /\ result'[c] = result[c]
    BY <1>1 DEF Invoke, Goto, server, Typed
  <2>4. Atomic!Ask(b)
    BY <2>1, <2>2, <2>3, Focus DEF Atomic!Ask
  <2> QED
    BY <2>4 DEF Atomic!Next
<1>2. ASSUME NEW b \in Batches,
             \/ Dispatch(b) \/ CancelQuery(b) \/ Begin(b) \/ Commit(b) \/ Undo(b)
      PROVE  [Atomic!Next]_(Atomic!vars)
  <2>1. \A c \in Batches \ {b} : /\ plan'[c] = plan[c] /\ mode'[c] = mode[c]
                                 /\ srv'[c] = srv[c] /\ pc'[c] = pc[c] /\ result'[c] = result[c]
    BY <1>2 DEF Dispatch, CancelQuery, Begin, Commit, Undo, Ended, Goto, server, client, Typed
  <2>2. UNCHANGED table /\ Want(b)' = Want(b) /\ Answer(b)' = Answer(b) /\ Fate(b)' = Fate(b)
    BY <1>0, <1>2 DEF Dispatch, CancelQuery, Begin, Commit, Undo, Ended, Goto, server, client,
       Stage, Want, Fate, Doomed, Answer, Typed
  <2> QED
    BY <2>1, <2>2, Quiet
<1>3. ASSUME NEW b \in Batches, Lost(b) \/ Mismatch(b) PROVE [Atomic!Next]_(Atomic!vars)
  <2>1. \A c \in Batches \ {b} : /\ plan'[c] = plan[c] /\ mode'[c] = mode[c]
                                 /\ srv'[c] = srv[c] /\ pc'[c] = pc[c] /\ result'[c] = result[c]
    BY <1>3 DEF Lost, Mismatch, Conclude, Goto, server, Typed
  <2>2. /\ UNCHANGED table /\ Want(b)' = Want(b)
        /\ Answer(b) = "none" /\ Answer(b)' = "failed"
        /\ Fate(b) # "applied" /\ Fate(b)' = "dropped"
    BY <1>0, <1>3 DEF Lost, Mismatch, Conclude, Goto, server, Stage, Want, Fate, Doomed, Answer, Typed
  <2>3. Atomic!Fail(b)
    BY <2>1, <2>2, Focus DEF Atomic!Fail
  <2> QED
    BY <2>3 DEF Atomic!Next
<1>4. ASSUME NEW b \in Batches, Leave(b) PROVE [Atomic!Next]_(Atomic!vars)
  <2>1. \A c \in Batches \ {b} : /\ plan'[c] = plan[c] /\ mode'[c] = mode[c]
                                 /\ srv'[c] = srv[c] /\ pc'[c] = pc[c] /\ result'[c] = result[c]
    BY <1>4 DEF Leave, Goto, server, Typed
  <2>2. /\ UNCHANGED table /\ Want(b)' = Want(b) /\ Fate(b)' = Fate(b)
        /\ Answer(b) = "none" /\ Answer(b)' = result[b]
        /\ result[b] \in {"ok", "failed", "unsure"}
    BY <1>0, <1>4 DEF Leave, Goto, server, Concluded, Want, Fate, Doomed, Answer, Typed
  <2>3. CASE result[b] = "ok"
    <3>1. Fate(b) = "applied" \/ Want(b) = {}
      BY <1>0, <2>3 DEF Stage, Fate, Want
    <3>2. Atomic!Succeed(b)
      BY <2>1, <2>2, <2>3, <3>1, Focus DEF Atomic!Succeed
    <3> QED
      BY <3>2 DEF Atomic!Next
  <2>4. CASE result[b] = "failed"
    <3>1. Fate(b) = "dropped"
      BY <1>0, <2>4 DEF Stage, Fate, Doomed
    <3>2. Atomic!Fail(b)
      BY <2>1, <2>2, <2>4, <3>1, Focus DEF Atomic!Fail
    <3> QED
      BY <3>2 DEF Atomic!Next
  <2>5. CASE result[b] = "unsure"
    <3>1. Atomic!Doubt(b)
      BY <2>1, <2>2, <2>5, Focus DEF Atomic!Doubt
    <3> QED
      BY <3>1 DEF Atomic!Next
  <2> QED
    BY <2>2, <2>3, <2>4, <2>5
<1>5. ASSUME NEW b \in Batches,
             \/ Decline(b) \/ BeginFails(b) \/ StatementFails(b) \/ Committed(b)
             \/ CommitFails(b) \/ Close(b) \/ Abandon(b) \/ Join(b)
      PROVE  [Atomic!Next]_(Atomic!vars)
  <2>1. \A c \in Batches \ {b} : /\ plan'[c] = plan[c] /\ mode'[c] = mode[c]
                                 /\ srv'[c] = srv[c] /\ pc'[c] = pc[c] /\ result'[c] = result[c]
    BY <1>5 DEF Decline, BeginFails, StatementFails, Committed, CommitFails, Close, Abandon, Join,
       Conclude, Goto, server, Typed
  <2>2. /\ UNCHANGED <<table, srv, plan, mode>> /\ pc[b] # "over"
        /\ pc'[b] \in {"undo", "close", "join", "leave"}
        /\ pc[b] \in Working \cup {"join"}
        /\ pc[b] \in {"undo", "close", "join"} => pc'[b] \in {"join", "leave"}
    BY <1>0, <1>5 DEF Decline, BeginFails, StatementFails, Committed, CommitFails, Close, Abandon,
       Join, Conclude, Goto, server, Typed, Working
  <2>3. Want(b)' = Want(b) /\ Answer(b)' = Answer(b)
    BY <2>2 DEF Want, Answer
  <2>4. CASE pc[b] \in {"open", "stmt"}
    BY <1>0, <2>1, <2>2, <2>3, <2>4, Quiet DEF Stage, Fate, Doomed
  <2>5. CASE pc[b] \in {"end", "close"}
    BY <1>0, <2>1, <2>2, <2>3, <2>5, Quiet DEF Stage, Fate, Doomed
  <2>6. CASE pc[b] \in {"undo", "join"}
    BY <1>0, <2>1, <2>2, <2>3, <2>6, Quiet DEF Stage, Fate, Doomed
  <2> QED
    BY <2>2, <2>4, <2>5, <2>6 DEF Working
<1>6. ASSUME NEW b \in Batches, RunStatement(b) \/ Rollback(b) PROVE [Atomic!Next]_(Atomic!vars)
  <2>1. \A c \in Batches \ {b} : /\ plan'[c] = plan[c] /\ mode'[c] = mode[c]
                                 /\ srv'[c] = srv[c] /\ pc'[c] = pc[c] /\ result'[c] = result[c]
    BY <1>6 DEF RunStatement, Rollback, Ended, Conclude, Goto, Typed
  <2>2. /\ UNCHANGED table /\ Want(b)' = Want(b) /\ Answer(b)' = Answer(b)
        /\ Fate(b) = "pending" /\ Fate(b)' \in {"pending", "dropped"}
    BY <1>0, <1>6 DEF RunStatement, Rollback, Ended, Conclude, Goto, Stage, Want, Fate, Doomed,
       Answer, Typed
  <2> QED
    BY <2>1, <2>2, Quiet
<1>7. ASSUME NEW b \in Batches, ServerCommits(b) PROVE [Atomic!Next]_(Atomic!vars)
  <2>1. \A c \in Batches \ {b} : /\ plan'[c] = plan[c] /\ mode'[c] = mode[c]
                                 /\ srv'[c] = srv[c] /\ pc'[c] = pc[c] /\ result'[c] = result[c]
    BY <1>7 DEF ServerCommits, Ended, client, Typed
  <2>2. /\ Want(b)' = Want(b) /\ Answer(b)' = Answer(b)
        /\ Fate(b) = "pending" /\ Fate(b)' = "applied"
    BY <1>0, <1>7 DEF ServerCommits, Ended, client, Want, Answer, Fate, Doomed, Typed
  <2>3. Want(b) = wrote[b] /\ Sound(b)
    BY <1>0, <1>7 DEF ServerCommits, Stage, Want, Covered, Cover, Committing
  <2>4. Atomic!Apply(b)
    BY <1>7, <2>1, <2>2, <2>3, Focus DEF Atomic!Apply, ServerCommits, Sound
  <2> QED
    BY <2>4 DEF Atomic!Next
<1>8. ASSUME NEW b \in Batches, ServerRefuses(b) \/ Reclaim(b) PROVE [Atomic!Next]_(Atomic!vars)
  <2>1. \A c \in Batches \ {b} : /\ plan'[c] = plan[c] /\ mode'[c] = mode[c]
                                 /\ srv'[c] = srv[c] /\ pc'[c] = pc[c] /\ result'[c] = result[c]
    BY <1>8 DEF ServerRefuses, Reclaim, Ended, client, Typed
  <2>2. /\ UNCHANGED table /\ Want(b)' = Want(b) /\ Answer(b)' = Answer(b)
        /\ Fate(b) \in {"pending", "dropped"} /\ Fate(b)' = "dropped"
    BY <1>0, <1>8 DEF ServerRefuses, Reclaim, Live, Ended, client, Want, Answer, Fate, Doomed, Typed
  <2> QED
    BY <2>1, <2>2, Quiet
<1>9. ASSUME NEW r \in Deletable, Vanish(r) PROVE [Atomic!Next]_(Atomic!vars)
  <2>1. Atomic!Vanish(r)
    BY <1>9 DEF Vanish, client, Atomic!Vanish, Want, Fate, Doomed, Answer
  <2>2. r \in Rows
    BY BatchAssumption
  <2> QED
    BY <2>1, <2>2 DEF Atomic!Next
<1>10. CASE UNCHANGED vars
  BY <1>10 DEF vars, client, server, Atomic!vars, Want, Fate, Doomed, Answer
<1> QED
  BY <1>1, <1>2, <1>3, <1>4, <1>5, <1>6, <1>7, <1>8, <1>9, <1>10 DEF Next

\* For any batches, rows, plans and driver: whatever is cancelled, lost, refused
\* or deleted meanwhile, a batch is in the table entirely or not at all, and its
\* answer never claims the opposite.
THEOREM BatchesImplementAtomic == Spec => BatchesAreAtomic
<1>1. Init => Typed /\ Concluded
  BY DEF Init, Typed, Concluded
<1>2. Init => Course /\ Locks /\ Covered
  BY DEF Init, Course, Stage, Locks, Covered, Cover, Committing
<1>3. Init => Atomic!Init
  BY DEF Init, Atomic!Init, Want, Fate, Doomed, Answer
<1> QED
  BY <1>1, <1>2, <1>3, TypedStep, ConcludedStep, CourseStep, LocksStep, CoveredStep, AtomicStep, PTL
     DEF Spec, BatchesAreAtomic, Atomic!Spec

-----------------------------------------------------------------------------
(* What the dialogs can rely on *)

\* Two transactions that are open together never have both written a row: what
\* one has written waits for its end, on every driver (Blocked).
THEOREM NoDirtyWrites == Spec => [](\A a, b \in Batches : a # b => wrote[a] \cap wrote[b] = {})
<1>1. Init => Typed /\ Concluded /\ Course /\ Locks
  BY DEF Init, Typed, Concluded, Course, Stage, Locks
<1>2. Locks => \A a, b \in Batches : a # b => wrote[a] \cap wrote[b] = {}
  BY DEF Locks
<1> QED
  BY <1>1, <1>2, TypedStep, ConcludedStep, CourseStep, LocksStep, PTL DEF Spec

\* A row shows a batch only if that one was committed and had it in its plan; and
\* of two batches that both edit two rows, the table never shows one in the first
\* row and the other in the second.
Ledger ==
  /\ \A r \in Rows, b \in Batches : table[r] = b => Fate(b) = "applied" /\ r \in Want(b)
  /\ \A b, c \in Batches, r, q \in Rows :
       b # c /\ {r, q} \subseteq Want(b) \cap Want(c) => ~(table[r] = b /\ table[q] = c)

LEMMA LedgerStep == Typed /\ Ledger /\ [Atomic!Next]_(Atomic!vars) => Ledger'
<1> SUFFICES ASSUME Typed, Ledger, [Atomic!Next]_(Atomic!vars) PROVE Ledger'
  OBVIOUS
<1> DEFINE W == [b \in Batches |-> Want(b)]
           F == [b \in Batches |-> Fate(b)]
<1>0. /\ \A b \in Batches : W[b] = Want(b) /\ F[b] = Fate(b)
      /\ \A b \in Batches : W'[b] = Want(b)' /\ F'[b] = Fate(b)'
  OBVIOUS
<1>a. ASSUME UNCHANGED <<table, W>>,
             \A b \in Batches : F[b] = "applied" => F'[b] = "applied"
      PROVE  Ledger'
  BY <1>0, <1>a DEF Ledger
<1>1. ASSUME NEW b \in Batches, Atomic!Ask(b) PROVE Ledger'
  <2>1. /\ W[b] = {} /\ F[b] = "pending" /\ table' = table /\ F' = F
        /\ \A c \in Batches \ {b} : W'[c] = W[c]
    BY <1>1 DEF Atomic!Ask
  <2>2. \A r \in Rows : table[r] # b
    BY <1>0, <2>1 DEF Ledger
  <2> QED
    BY <1>0, <2>1, <2>2 DEF Ledger
<1>2. ASSUME NEW b \in Batches, Atomic!Apply(b) PROVE Ledger'
  <2>1. /\ F[b] = "pending" /\ F' = [F EXCEPT ![b] = "applied"] /\ W' = W
        /\ table' = [r \in Rows |-> IF r \in W[b] THEN b ELSE table[r]]
    BY <1>2 DEF Atomic!Apply
  <2> HIDE DEF W, F
  <2>2. \A r \in Rows : table[r] # b
    BY <1>0, <2>1 DEF Ledger
  <2>3. \A c \in Batches : F[c] = "applied" => F'[c] = "applied"
    BY <2>1
  <2>4. F'[b] = "applied"
    <3>1. DOMAIN F = Batches
      BY DEF F
    <3> QED
      BY <2>1, <3>1
  <2> QED
    BY <1>0, <2>1, <2>2, <2>3, <2>4 DEF Ledger
<1>3. ASSUME NEW b \in Batches, Atomic!Drop(b) \/ Atomic!Succeed(b) \/ Atomic!Fail(b) \/ Atomic!Doubt(b)
      PROVE  Ledger'
  BY <1>3, <1>a DEF Atomic!Drop, Atomic!Succeed, Atomic!Fail, Atomic!Doubt
<1>4. ASSUME NEW r \in Rows, Atomic!Vanish(r) PROVE Ledger'
  <2>1. /\ F' = F /\ W' = W
        /\ table' = [table EXCEPT ![r] = "absent"]
    BY <1>4 DEF Atomic!Vanish
  <2> QED
    BY <1>0, <2>1, BatchAssumption DEF Ledger, Typed
<1>5. CASE UNCHANGED Atomic!vars
  BY <1>5, <1>a DEF Atomic!vars
<1> QED
  BY <1>1, <1>2, <1>3, <1>4, <1>5 DEF Atomic!Next

\* Overlapping batches leave the table as if one had followed the other.
THEOREM BatchesDoNotMix == Spec => []Ledger
<1>1. Init => Typed /\ Ledger
  BY BatchAssumption DEF Init, Typed, Ledger
<1> QED
  BY <1>1, TypedStep, LedgerStep, BatchesImplementAtomic, PTL DEF Spec, BatchesAreAtomic, Atomic!Spec

\* What a dialog was told is true and stays true: after a success the batch is
\* committed; after a failure none of its edits is in the table, then or ever.
THEOREM AnswersAreFinal ==
  ASSUME NEW b \in Batches
  PROVE  Spec => /\ [](Answer(b) = "ok" /\ mode[b] = "commit" => srv[b] = "committed")
                 /\ [](Answer(b) = "failed" => [](\A r \in Rows : table[r] # b))
<1> DEFINE F == [c \in Batches |-> Fate(c)]
           Out == Fate(b) = "dropped"
<1>1. Init => Typed /\ Concluded /\ Course
  BY DEF Init, Typed, Concluded, Course, Stage
<1>2. Course => (Answer(b) = "ok" /\ mode[b] = "commit" => srv[b] = "committed")
  BY DEF Course, Stage, Answer
<1>3. Course /\ Answer(b) = "failed" => Out
  BY DEF Course, Stage, Answer, Fate, Doomed
<1>4. Out /\ [Atomic!Next]_(Atomic!vars) => Out'
  <2> SUFFICES ASSUME Out, [Atomic!Next]_(Atomic!vars) PROVE Out'
    OBVIOUS
  <2>1. F[b] = "dropped" /\ F'[b] = Fate(b)'
    OBVIOUS
  <2>2. ASSUME NEW c \in Batches,
               \/ Atomic!Ask(c) \/ Atomic!Apply(c) \/ Atomic!Drop(c)
               \/ Atomic!Succeed(c) \/ Atomic!Fail(c) \/ Atomic!Doubt(c)
        PROVE  F'[b] = "dropped"
    BY <2>1, <2>2 DEF Atomic!Ask, Atomic!Apply, Atomic!Drop, Atomic!Succeed, Atomic!Fail, Atomic!Doubt
  <2>3. ASSUME NEW r \in Rows, Atomic!Vanish(r) PROVE F'[b] = "dropped"
    BY <2>1, <2>3 DEF Atomic!Vanish
  <2>4. CASE UNCHANGED Atomic!vars
    BY <2>1, <2>4 DEF Atomic!vars
  <2> QED
    BY <2>1, <2>2, <2>3, <2>4 DEF Atomic!Next
<1>5. Out /\ Ledger => \A r \in Rows : table[r] # b
  BY DEF Ledger
<1>6. Spec => []Course
  BY <1>1, TypedStep, ConcludedStep, CourseStep, PTL DEF Spec
<1> HIDE DEF Out
<1> QED
  BY <1>2, <1>3, <1>4, <1>5, <1>6, BatchesDoNotMix, BatchesImplementAtomic, PTL
     DEF BatchesAreAtomic, Atomic!Spec

-----------------------------------------------------------------------------
(* Liveness *)

\* The provers know nothing of ENABLED: what they are told is that an action can
\* be taken where its guard holds and that taking it changes something.
CanAbandon(b) == ENABLED <<Abandon(b)>>_vars
CanLeave(b) == ENABLED <<Leave(b)>>_vars
GuardsSuffice ==
  \A b \in Batches :
    /\ pc[b] \in Working /\ token[b] = "fired" /\ driver.stop = "drop" => CanAbandon(b)
    /\ pc[b] = "leave" => CanLeave(b)

Core == Typed /\ Concluded /\ Course /\ Locks

LEMMA CoreInvariant == Spec => []Core
<1>1. Init => Core
  BY DEF Init, Core, Typed, Concluded, Course, Stage, Locks
<1>2. Core /\ [Next]_vars => Core'
  BY TypedStep, ConcludedStep, CourseStep, LocksStep DEF Core
<1> QED
  BY <1>1, <1>2, PTL DEF Spec

\* A stopped command works on until its work is dropped, and then leaves.
Halting(b) == pc[b] \in Working /\ token[b] = "fired" /\ driver.stop = "drop"

LEMMA HaltingStep ==
  ASSUME Core, NEW b \in Batches, [Next]_vars
  PROVE  /\ Halting(b) => Halting(b)' \/ pc'[b] = "leave"
         /\ pc[b] = "leave" => pc'[b] \in {"leave", "over"}
<1> SUFFICES ASSUME Halting(b) \/ pc[b] = "leave"
             PROVE  /\ Halting(b) => Halting(b)' \/ pc'[b] = "leave"
                    /\ pc[b] = "leave" => pc'[b] \in {"leave", "over"}
  OBVIOUS
<1> USE DEF Core, Halting, Working
<1>0. Halting(b) => Exit = "leave"
  BY DEF Exit
<1>1. ASSUME NEW c \in Batches, Invoke(c) \/ Lost(c) \/ Mismatch(c) \/ Dispatch(c) \/ Leave(c) \/ CancelQuery(c)
      PROVE  /\ pc[b] # "leave" => pc'[b] = pc[b] /\ token'[b] = token[b] /\ driver' = driver
             /\ pc[b] = "leave" => pc'[b] \in {"leave", "over"}
  BY <1>1 DEF Typed, Invoke, Lost, Mismatch, Dispatch, Leave, CancelQuery, Conclude, Goto, client, server
<1>2. ASSUME NEW c \in Batches,
             \/ Decline(c) \/ Begin(c) \/ BeginFails(c) \/ RunStatement(c) \/ StatementFails(c) \/ Undo(c)
             \/ Rollback(c) \/ Commit(c) \/ Committed(c) \/ CommitFails(c) \/ Close(c) \/ Abandon(c) \/ Join(c)
      PROVE  /\ UNCHANGED <<driver, token>>
             /\ pc'[b] = pc[b] \/ (c = b /\ pc[b] # "leave" /\ pc'[b] \in Working \cup {Exit})
                               \/ (c = b /\ pc[b] = "join")
  BY <1>2 DEF Typed, Decline, Begin, BeginFails, RunStatement, StatementFails, Undo, Rollback, Commit, Committed,
     CommitFails, Close, Abandon, Join, Conclude, Goto, client, server
<1>3. ASSUME NEW c \in Batches, ServerCommits(c) \/ ServerRefuses(c) \/ Reclaim(c)
      PROVE  UNCHANGED <<pc, token, driver>>
  BY <1>3 DEF ServerCommits, ServerRefuses, Reclaim, client
<1>4. ASSUME NEW r \in Deletable, Vanish(r) PROVE UNCHANGED <<pc, token, driver>>
  BY <1>4 DEF Vanish, client
<1>5. CASE UNCHANGED vars
  BY <1>5 DEF vars, client
<1> QED
  BY <1>0, <1>1, <1>2, <1>3, <1>4, <1>5 DEF Next

\* Any number of batches, on the drivers that drop their work: a cancelled command
\* returns, whatever its statement waits for.
THEOREM CancelledBatchesReturn == FairSpec /\ []GuardsSuffice => CancelledBatchReturns
<1>1. ASSUME NEW b \in Batches
      PROVE  FairSpec /\ []GuardsSuffice => (Halting(b) ~> pc[b] = "over")
  <2> DEFINE Left == pc[b] = "leave"
             Over == pc[b] = "over"
  <2>1. FairSpec => Spec /\ Fairness(b)
    BY DEF FairSpec
  <2>2. GuardsSuffice => (Halting(b) => CanAbandon(b)) /\ (Left => CanLeave(b))
    BY DEF GuardsSuffice, Halting
  <2>3. Core /\ [Next]_vars => (Halting(b) => Halting(b)' \/ Left') /\ (Left => Left' \/ Over')
    BY HaltingStep
  <2>4. Core /\ Halting(b) /\ <<Abandon(b)>>_vars => Left'
    BY DEF Core, Typed, Abandon, Halting, Exit, Conclude, Goto
  <2>5. Core /\ Left /\ <<Leave(b)>>_vars => Over'
    BY DEF Core, Typed, Leave, Goto
  <2> HIDE DEF Left, Over
  <2>6. FairSpec /\ []GuardsSuffice => (Halting(b) ~> Over)
    BY <2>1, <2>2, <2>3, <2>4, <2>5, CoreInvariant, PTL DEF Spec, Fairness, CanAbandon, CanLeave
  <2> QED
    BY <2>6 DEF Over
<1> QED
  BY <1>1 DEF CancelledBatchReturns, Halting
=============================================================================
