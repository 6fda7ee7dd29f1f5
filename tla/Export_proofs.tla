---------------------------- MODULE Export_proofs ----------------------------
(***************************************************************************)
(* What holds of exports for any number of them and any targets, jobs and  *)
(* channel: the types, the absence of leftovers, and that every export     *)
(* replaces its target as a whole or not at all.  The invariant is         *)
(* conjunctive: Typed, what a place says of the pieces written (Sizes), of *)
(* what is still held (Tidy) and of the result (Settled), and Named, that  *)
(* a target names an export that succeeded.  The last part shows that a    *)
(* stopped export comes to its end, on the premise GuardsSuffice.          *)
(***************************************************************************)
EXTENDS Export, TLAPS

Typed ==
  /\ job \in [Exports -> Jobs]
  /\ pc \in [Exports -> Places]
  /\ temps \subseteq Exports /\ synced \subseteq Exports
  /\ written \in [Exports -> Nat] /\ sent \in [Exports -> Nat]
  /\ shows \in [Targets -> Exports \union {Old}]
  /\ stream \in [Exports -> Streams]
  /\ tokens \subseteq Exports /\ fired \subseteq Exports /\ gone \subseteq Exports
  /\ verdict \in [Exports -> {"none", "ok", "error", "cancelled"}]
  /\ losses \in 0..MaxLosses

LEMMA JobTypes ==
  ASSUME Typed, NEW e \in Exports
  PROVE  /\ job[e].kind \in Kinds /\ job[e].target \in Targets
         /\ Rows(e) \in Nat /\ job[e].ends \subseteq 1..Rows(e)
         /\ job[e].rows = Rows(e)
         /\ Rows(e) > 0 => Rows(e) \in job[e].ends
         /\ job[e].kind = "session" => Rows(e) > 0
         /\ job[e].kind = "text" => Rows(e) = 0
         /\ Whole(e) = Rows(e) + 2
BY JobsAssumption DEF Typed, Rows, Whole

LEMMA TypedInit == Init => Typed
BY BoundsAssumption DEF Init, Typed, Places, Streams

LEMMA TypedStep == Typed /\ [Next]_vars => Typed'
<1> SUFFICES ASSUME Typed, [Next]_vars PROVE Typed'
  OBVIOUS
<1> USE DEF Typed, Places, Streams, diskVars, dumpVars, userVars
<1>a. ASSUME NEW e \in Exports, NEW why \in {"error", "cancelled"}, GiveUp(e, why) PROVE Typed'
  BY <1>a DEF GiveUp, Goto
<1>1. ASSUME NEW e \in Exports,
             Refuse(e) \/ Invoke(e) \/ Create(e) \/ WriteText(e) \/ Preamble(e)
      PROVE  Typed'
  BY <1>1, JobTypes DEF Refuse, Invoke, Create, WriteText, Preamble, Goto, Grow
<1>2. ASSUME NEW e \in Exports, WriteRow(e) PROVE Typed'
  BY <1>2, <1>a DEF WriteRow, Goto, Grow
<1>3. ASSUME NEW e \in Exports, Chunk(e) \/ Finish(e) \/ WindowCloses(e) PROVE Typed'
  BY <1>3, <1>a DEF Chunk, Finish, WindowCloses, Goto
<1>4. ASSUME NEW e \in Exports, Fails(e) \/ Abort(e) \/ Interrupt(e) PROVE Typed'
  BY <1>4, <1>a DEF Fails, Abort, Interrupt
<1>5. ASSUME NEW e \in Exports, NextTable(e) \/ Ask(e) PROVE Typed'
  BY <1>5, <1>a DEF NextTable, Ask, Goto
<1>6. ASSUME NEW e \in Exports, ServerAnswers(e) \/ Send(e) \/ TableDone(e) PROVE Typed'
  BY <1>6 DEF ServerAnswers, Send, TableDone, Goto
<1>7. ASSUME NEW e \in Exports, Drain(e) PROVE Typed'
  BY <1>7, <1>a DEF Drain, Grow
<1>8. ASSUME NEW e \in Exports, Epilogue(e) \/ Fsync(e) PROVE Typed'
  BY <1>8, JobTypes DEF Epilogue, Fsync, Goto, Grow
<1>9. ASSUME NEW e \in Exports, Rename(e) \/ RenameFails(e) PROVE Typed'
  BY <1>9, JobTypes DEF Rename, RenameFails, Goto
<1>10. ASSUME NEW e \in Exports, Remove(e) \/ Release(e) \/ Clear(e) \/ Stop(e) PROVE Typed'
  BY <1>10 DEF Remove, Release, Clear, Stop, Goto
<1>11. ASSUME PowerLoss PROVE Typed'
  BY <1>11, BoundsAssumption DEF PowerLoss
<1>12. CASE UNCHANGED vars
  BY <1>12 DEF vars
<1> QED
  BY <1>1, <1>2, <1>3, <1>4, <1>5, <1>6, <1>7, <1>8, <1>9, <1>10, <1>11, <1>12
     DEF Next, Command, Window

(***************************************************************************)
(* The pieces written, by the place of the export.                         *)
(***************************************************************************)
Size(e) ==
  /\ written[e] <= Whole(e)
  /\ pc[e] \in {"idle", "started", "opened"} => written[e] = 0 /\ sent[e] = 0
  /\ pc[e] = "writing" => written[e] \in 1..Rows(e)
  /\ pc[e] = "parked" => written[e] \in 1..(Rows(e) + 1)
  /\ pc[e] = "tables" => written[e] = sent[e] + 1 /\ sent[e] <= Rows(e)
  /\ pc[e] = "pumping" => /\ Rows(e) > 0 /\ sent[e] <= Rows(e) /\ Queued(e) \in 0..Capacity
                          /\ stream[e] \in {"fresh", "asked", "holding"} => sent[e] < Rows(e)
                          /\ stream[e] # "off"
  /\ pc[e] = "flushing" => written[e] = Rows(e) + 1
  /\ pc[e] \in {"syncing", "sealed"} => written[e] = Whole(e)

Sizes == \A e \in Exports : Size(e)

LEMMA SizeFrame ==
  ASSUME NEW e \in Exports, Size(e),
         job'[e] = job[e], pc'[e] = pc[e], written'[e] = written[e],
         sent'[e] = sent[e], stream'[e] = stream[e]
  PROVE  Size(e)'
BY DEF Size, Rows, Whole, Queued

LEMMA SizesStep == Typed /\ Sizes /\ [Next]_vars => Sizes'
<1> SUFFICES ASSUME Typed, Sizes, [Next]_vars, NEW x \in Exports PROVE Size(x)'
  BY DEF Sizes
<1>0. Size(x)
  BY DEF Sizes
<1> USE DEF diskVars, dumpVars, userVars
<1>a. ASSUME NEW e \in Exports, NEW why, GiveUp(e, why) PROVE Size(x)'
  BY <1>a, <1>0, JobTypes DEF GiveUp, Goto, Size, Typed, Rows, Whole, Queued
<1>1. ASSUME NEW e \in Exports,
             Refuse(e) \/ Invoke(e) \/ Create(e) \/ WriteText(e)
      PROVE  Size(x)'
  BY <1>1, <1>0, JobTypes DEF Refuse, Invoke, Create, WriteText, Goto, Grow, Size, Typed, Rows, Whole, Queued
<1>1a. ASSUME NEW e \in Exports, Preamble(e) PROVE Size(x)'
  BY <1>1a, <1>0, JobTypes DEF Preamble, Goto, Grow, Size, Typed, Rows, Whole, Queued
<1>2. ASSUME NEW e \in Exports, WriteRow(e) PROVE Size(x)'
  <2>1. CASE e \in fired
    BY <1>2, <2>1, <1>a DEF WriteRow
  <2>2. CASE e \notin fired /\ x = e
    <3>1. /\ pc[e] = "writing" /\ written[e] \in 1..Rows(e) /\ Rows(e) \in Nat
          /\ Rows(e) \in job[e].ends /\ job' = job
          /\ written'[e] = written[e] + 1
      BY <1>2, <2>2, <1>0, JobTypes DEF WriteRow, Grow, Size, Typed
    <3>2. /\ pc'[e] \in {"parked", "flushing", "writing"}
          /\ pc'[e] = "flushing" => written[e] = Rows(e)
          /\ pc'[e] = "writing" => written[e] # Rows(e)
      BY <1>2, <2>2, <3>1 DEF WriteRow, Goto, Typed
    <3> QED
      BY <2>2, <3>1, <3>2 DEF Size, Rows, Whole
  <2>3. CASE e \notin fired /\ x # e
    BY <1>2, <2>3, <1>0, SizeFrame DEF WriteRow, Goto, Grow, Typed
  <2> QED
    BY <2>1, <2>2, <2>3
<1>3. ASSUME NEW e \in Exports, Chunk(e) \/ Finish(e) \/ WindowCloses(e) PROVE Size(x)'
  BY <1>3, <1>a, <1>0, JobTypes DEF Chunk, Finish, WindowCloses, Goto, Size, Typed, Rows, Whole, Queued
<1>4. ASSUME NEW e \in Exports, Fails(e) \/ Abort(e) \/ Interrupt(e) PROVE Size(x)'
  BY <1>4, <1>a DEF Fails, Abort, Interrupt
<1>5. ASSUME NEW e \in Exports, NextTable(e) PROVE Size(x)'
  BY <1>5, <1>a, <1>0, JobTypes, BoundsAssumption DEF NextTable, Goto, Size, Typed, Rows, Whole, Queued
<1>6. ASSUME NEW e \in Exports, Ask(e) PROVE Size(x)'
  <2>1. CASE GiveUp(e, "cancelled")
    BY <1>6, <2>1, <1>a DEF Ask
  <2>2. CASE ~ GiveUp(e, "cancelled") /\ x = e
    <3>1. /\ pc[e] = "pumping" /\ pc' = pc /\ job' = job /\ sent' = sent /\ written' = written
          /\ sent[e] \in Nat /\ Rows(e) \in Nat
          /\ Rows(e) > 0 /\ Rows(e) \in job[e].ends /\ sent[e] <= Rows(e)
      BY <1>6, <2>2, <1>0, JobTypes DEF Ask, Size, Typed
    <3>2. /\ stream'[e] \in {"ending", "asked"}
          /\ stream'[e] = "asked" => stream[e] = "fresh" \/ sent[e] \notin job[e].ends
      BY <1>6, <2>2 DEF Ask, Fresh, Typed
    <3>3. stream'[e] = "asked" => sent[e] < Rows(e)
      BY <3>1, <3>2, <1>0, <2>2 DEF Size
    <3> QED
      BY <1>0, <2>2, <3>1, <3>2, <3>3 DEF Size, Rows, Whole, Queued
  <2>3. CASE ~ GiveUp(e, "cancelled") /\ x # e
    BY <1>6, <2>3, <1>0, SizeFrame DEF Ask, Typed
  <2> QED
    BY <2>1, <2>2, <2>3
<1>7. ASSUME NEW e \in Exports, ServerAnswers(e) \/ TableDone(e) PROVE Size(x)'
  BY <1>7, <1>0, JobTypes DEF ServerAnswers, TableDone, Goto, Size, Typed, Streams, Rows, Whole, Queued
<1>8. ASSUME NEW e \in Exports, Send(e) PROVE Size(x)'
  BY <1>8, <1>0, JobTypes, BoundsAssumption DEF Send, Size, Typed, Streams, Rows, Whole, Queued
<1>9. ASSUME NEW e \in Exports, Drain(e) PROVE Size(x)'
  BY <1>9, <1>a, <1>0, JobTypes, BoundsAssumption DEF Drain, Grow, Size, Typed, Rows, Whole, Queued
<1>10. ASSUME NEW e \in Exports, Epilogue(e) \/ Fsync(e) PROVE Size(x)'
  BY <1>10, <1>0, JobTypes DEF Epilogue, Fsync, Goto, Grow, Size, Typed, Rows, Whole, Queued
<1>11. ASSUME NEW e \in Exports,
              Rename(e) \/ RenameFails(e) \/ Remove(e) \/ Release(e) \/ Clear(e) \/ Stop(e)
       PROVE  Size(x)'
  BY <1>11, <1>0, JobTypes DEF Rename, RenameFails, Remove, Release, Clear, Stop, Goto, Size, Typed,
     Rows, Whole, Queued
<1>12. ASSUME PowerLoss PROVE Size(x)'
  BY <1>12, <1>0, JobTypes DEF PowerLoss, Size, Typed, Rows, Whole, Queued
<1>13. CASE UNCHANGED vars
  BY <1>13, <1>0, SizeFrame DEF vars
<1> QED
  BY <1>1, <1>1a, <1>2, <1>3, <1>4, <1>5, <1>6, <1>7, <1>8, <1>9, <1>10, <1>11, <1>12, <1>13
     DEF Next, Command, Window

\* The types, the bounds of files and of the channel of every reachable state.
THEOREM TypeCorrect == Spec => []TypeOK
<1>1. Init => Typed /\ Sizes
  <2>1. Init => Typed
    BY TypedInit
  <2>2. Init => Sizes
    BY TypedInit, JobTypes DEF Init, Sizes, Size, Rows, Whole
  <2> QED
    BY <2>1, <2>2
<1>2. Typed /\ Sizes /\ [Next]_vars => (Typed /\ Sizes)'
  BY TypedStep, SizesStep
<1>3. Typed /\ Sizes => TypeOK
  BY DEF Typed, Sizes, Size, TypeOK
<1> QED
  BY <1>1, <1>2, <1>3, PTL DEF Spec

(***************************************************************************)
(* What an export still holds, and its result.                             *)
(***************************************************************************)
Tidy(e) ==
  /\ pc[e] \in {"idle", "over"} => e \notin temps \union tokens
  /\ pc[e] = "clearing" => e \notin tokens

Tidied == \A e \in Exports : Tidy(e)

LEMMA TidiedStep == Typed /\ Tidied /\ [Next]_vars => Tidied'
<1> SUFFICES ASSUME Typed, Tidied, [Next]_vars, NEW x \in Exports PROVE Tidy(x)'
  BY DEF Tidied
<1>0. Tidy(x)
  BY DEF Tidied
<1> USE DEF diskVars, dumpVars, userVars
<1>a. ASSUME NEW e \in Exports, NEW why, GiveUp(e, why) PROVE Tidy(x)'
  BY <1>a, <1>0 DEF GiveUp, Goto, Tidy, Typed
<1>1. ASSUME NEW e \in Exports,
             Refuse(e) \/ Invoke(e) \/ Create(e) \/ WriteText(e) \/ Preamble(e)
      PROVE  Tidy(x)'
  BY <1>1, <1>0 DEF Refuse, Invoke, Create, WriteText, Preamble, Goto, Tidy, Typed
<1>2. ASSUME NEW e \in Exports,
             WriteRow(e) \/ Chunk(e) \/ Finish(e) \/ WindowCloses(e) \/ NextTable(e)
      PROVE  Tidy(x)'
  BY <1>2, <1>a, <1>0 DEF WriteRow, Chunk, Finish, WindowCloses, NextTable, Goto, Tidy, Typed
<1>3. ASSUME NEW e \in Exports, Fails(e) \/ Abort(e) \/ Interrupt(e) PROVE Tidy(x)'
  BY <1>3, <1>a DEF Fails, Abort, Interrupt
<1>4. ASSUME NEW e \in Exports,
             Ask(e) \/ ServerAnswers(e) \/ Send(e) \/ Drain(e) \/ TableDone(e)
      PROVE  Tidy(x)'
  BY <1>4, <1>a, <1>0 DEF Ask, ServerAnswers, Send, Drain, TableDone, Goto, Tidy, Typed
<1>5. ASSUME NEW e \in Exports,
             Epilogue(e) \/ Fsync(e) \/ Rename(e) \/ RenameFails(e) \/ Remove(e) \/ Release(e)
             \/ Clear(e) \/ Stop(e)
      PROVE  Tidy(x)'
  BY <1>5, <1>0 DEF Epilogue, Fsync, Rename, RenameFails, Remove, Release, Clear, Stop, Goto, Tidy,
     Typed
<1>6. ASSUME PowerLoss PROVE Tidy(x)'
  BY <1>6, <1>0 DEF PowerLoss, Tidy, Typed
<1>7. CASE UNCHANGED vars
  BY <1>7, <1>0 DEF vars, Tidy
<1> QED
  BY <1>1, <1>2, <1>3, <1>4, <1>5, <1>6, <1>7 DEF Next, Command, Window

\* However it ended, an export that is over has left no temporary file and no
\* token behind.
THEOREM NothingLeft == Spec => []NoLeftovers
<1>1. Init => Typed /\ Tidied
  BY TypedInit DEF Init, Tidied, Tidy
<1>2. Typed /\ Tidied /\ [Next]_vars => (Typed /\ Tidied)'
  BY TypedStep, TidiedStep
<1>3. Tidied => NoLeftovers
  BY DEF Tidied, Tidy, NoLeftovers
<1> QED
  BY <1>1, <1>2, <1>3, PTL DEF Spec

\* Before anything is settled.
Pending == {"idle", "started", "opened", "writing", "parked", "tables", "pumping", "flushing",
            "syncing", "sealed"}

Settled(e) ==
  /\ pc[e] \in Pending => verdict[e] = "none"
  /\ pc[e] \in {"failing", "clearing"} => verdict[e] \in {"error", "cancelled"}
  /\ pc[e] \in {"releasing", "over"} => verdict[e] # "none"
  /\ pc[e] = "releasing" /\ e \in temps => verdict[e] = "error"
  /\ pc[e] = "sealed" \/ verdict[e] = "ok" => e \in synced /\ written[e] = Whole(e)
  /\ verdict[e] = "ok" => e \notin temps
  /\ pc[e] = "idle" => e \notin fired

Results == \A e \in Exports : Settled(e)

LEMMA SettledFrame ==
  ASSUME NEW e \in Exports, Settled(e),
         job'[e] = job[e], pc'[e] = pc[e], written'[e] = written[e], verdict'[e] = verdict[e],
         (e \in temps') = (e \in temps), e \in synced => e \in synced',
         (e \in fired') = (e \in fired)
  PROVE  Settled(e)'
BY DEF Settled, Whole, Rows, Pending

LEMMA ResultsStep == Typed /\ Sizes /\ Tidied /\ Results /\ [Next]_vars => Results'
<1> SUFFICES ASSUME Typed, Sizes, Tidied, Results, [Next]_vars, NEW x \in Exports PROVE Settled(x)'
  BY DEF Results
<1>0. Settled(x) /\ Size(x) /\ Tidy(x)
  BY DEF Results, Sizes, Tidied
<1> USE DEF diskVars, dumpVars, userVars
<1>a. ASSUME NEW e \in Exports, NEW why \in {"error", "cancelled"}, GiveUp(e, why),
             pc[e] \in Pending
      PROVE  Settled(x)'
  <2>1. CASE x = e
    BY <1>a, <1>0, <2>1 DEF GiveUp, Goto, Settled, Typed, Whole, Rows, Pending
  <2>2. CASE x # e
    BY <1>a, <1>0, <2>2, SettledFrame DEF GiveUp, Goto, Typed
  <2> QED
    BY <2>1, <2>2
<1>1. ASSUME NEW e \in Exports, Refuse(e) \/ Invoke(e) \/ Create(e) PROVE Settled(x)'
  BY <1>1, <1>0 DEF Refuse, Invoke, Create, Goto, Settled, Tidy, Typed, Whole, Rows, Pending
<1>2. ASSUME NEW e \in Exports, WriteText(e) \/ Preamble(e) \/ Epilogue(e) PROVE Settled(x)'
  BY <1>2, <1>0 DEF WriteText, Preamble, Epilogue, Goto, Grow, Settled, Typed, Whole, Rows, Pending
<1>3. ASSUME NEW e \in Exports, WriteRow(e) PROVE Settled(x)'
  BY <1>3, <1>a, <1>0 DEF WriteRow, Goto, Grow, Settled, Typed, Whole, Rows, Pending
<1>4. ASSUME NEW e \in Exports, Chunk(e) \/ Finish(e) \/ WindowCloses(e) PROVE Settled(x)'
  BY <1>4, <1>a, <1>0 DEF Chunk, Finish, WindowCloses, Goto, Settled, Typed, Whole, Rows, Pending
<1>5. ASSUME NEW e \in Exports, Fails(e) \/ Abort(e) \/ Interrupt(e) PROVE Settled(x)'
  BY <1>5, <1>a DEF Fails, Abort, Interrupt, Pending
<1>6. ASSUME NEW e \in Exports, NextTable(e) \/ Ask(e) PROVE Settled(x)'
  BY <1>6, <1>a, <1>0 DEF NextTable, Ask, Goto, Settled, Typed, Whole, Rows, Pending
<1>7. ASSUME NEW e \in Exports, ServerAnswers(e) \/ Send(e) \/ TableDone(e) PROVE Settled(x)'
  BY <1>7, <1>0 DEF ServerAnswers, Send, TableDone, Goto, Settled, Typed, Whole, Rows, Pending
<1>8. ASSUME NEW e \in Exports, Drain(e) PROVE Settled(x)'
  BY <1>8, <1>a, <1>0 DEF Drain, Grow, Settled, Typed, Whole, Rows, Pending
<1>9. ASSUME NEW e \in Exports, Fsync(e) PROVE Settled(x)'
  BY <1>9, <1>0 DEF Fsync, Goto, Settled, Size, Typed, Whole, Rows, Pending
<1>10. ASSUME NEW e \in Exports, Rename(e) \/ RenameFails(e) PROVE Settled(x)'
  BY <1>10, <1>0 DEF Rename, RenameFails, Goto, Settled, Typed, Whole, Rows, Pending
<1>11. ASSUME NEW e \in Exports, Remove(e) \/ Release(e) \/ Clear(e) PROVE Settled(x)'
  BY <1>11, <1>0 DEF Remove, Release, Clear, Goto, Settled, Typed, Whole, Rows, Pending
<1>12. ASSUME NEW e \in Exports, Stop(e) PROVE Settled(x)'
  BY <1>12, <1>0 DEF Stop, Settled, Tidy, Typed, Whole, Rows, Pending
<1>13. ASSUME PowerLoss PROVE Settled(x)'
  BY <1>13, <1>0 DEF PowerLoss, Settled, Typed, Whole, Rows, Pending
<1>14. CASE UNCHANGED vars
  BY <1>14, <1>0, SettledFrame DEF vars
<1> QED
  BY <1>1, <1>2, <1>3, <1>4, <1>5, <1>6, <1>7, <1>8, <1>9, <1>10, <1>11, <1>12, <1>13, <1>14
     DEF Next, Command, Window

Named ==
  \A t \in Targets : shows[t] = Old \/ (shows[t] \in Exports /\ verdict[shows[t]] = "ok")

LEMMA NamedStep == Typed /\ Sizes /\ Results /\ Named /\ [Next]_vars => Named'
<1> SUFFICES ASSUME Typed, Results, Named, [Next]_vars PROVE Named'
  OBVIOUS
<1> USE DEF diskVars, dumpVars, userVars
<1>0. \A e \in Exports : Settled(e)
  BY DEF Results
<1>1. CASE \E e \in Exports : Rename(e)
  BY <1>1 DEF Rename, Named, Typed
<1>2. ASSUME shows' = shows, \A e \in Exports : verdict[e] = "ok" => verdict'[e] = "ok"
      PROVE  Named'
  BY <1>2 DEF Named, Typed
<1>a. ASSUME NEW e \in Exports, NEW why \in {"error", "cancelled"}, GiveUp(e, why),
             pc[e] \in Pending
      PROVE  Named'
  <2>1. verdict[e] = "none"
    BY <1>0, <1>a DEF Settled
  <2> QED
    BY <1>a, <1>2, <2>1 DEF GiveUp, Typed
<1>3. ASSUME NEW e \in Exports, Refuse(e) \/ RenameFails(e) PROVE Named'
  <2>1. verdict[e] = "none"
    BY <1>0, <1>3 DEF Refuse, RenameFails, Settled, Pending
  <2> QED
    BY <1>3, <1>2, <2>1 DEF Refuse, RenameFails, Typed
<1>4. ASSUME NEW e \in Exports, Fails(e) \/ Abort(e) \/ Interrupt(e) PROVE Named'
  BY <1>4, <1>a DEF Fails, Abort, Interrupt, Pending
<1>5. ASSUME NEW e \in Exports,
             WriteRow(e) \/ Finish(e) \/ NextTable(e) \/ Ask(e) \/ Drain(e)
      PROVE  Named'
  BY <1>5, <1>a, <1>2 DEF WriteRow, Finish, NextTable, Ask, Drain, Pending
<1>6. ASSUME NEW e \in Exports,
             \/ Invoke(e) \/ Create(e) \/ WriteText(e) \/ Preamble(e) \/ Chunk(e) \/ WindowCloses(e)
             \/ ServerAnswers(e) \/ Send(e) \/ TableDone(e) \/ Epilogue(e) \/ Fsync(e)
             \/ Remove(e) \/ Release(e) \/ Clear(e) \/ Stop(e)
      PROVE  Named'
  BY <1>6, <1>2 DEF Invoke, Create, WriteText, Preamble, Chunk, WindowCloses, ServerAnswers, Send,
     TableDone, Epilogue, Fsync, Remove, Release, Clear, Stop
<1>7. CASE PowerLoss
  BY <1>7, <1>2 DEF PowerLoss
<1>8. CASE UNCHANGED vars
  BY <1>8, <1>2 DEF vars
<1> QED
  BY <1>1, <1>3, <1>4, <1>5, <1>6, <1>7, <1>8 DEF Next, Command, Window

(***************************************************************************)
(* The promise of WholeFile.                                               *)
(***************************************************************************)
Inv == Typed /\ Sizes /\ Tidied /\ Results /\ Named

\* The files of the targets look the same after a step that renames none and
\* keeps the files of the exports that succeeded.
LEMMA ShownFrame ==
  ASSUME Inv, shows' = shows, job' = job,
         \A e \in Exports : verdict[e] = "ok" => written'[e] = written[e]
  PROVE  [t \in Targets |-> Shown(t)]' = [t \in Targets |-> Shown(t)]
<1> SUFFICES ASSUME NEW t \in Targets PROVE Shown(t)' = Shown(t)
  OBVIOUS
<1>1. CASE shows[t] = Old
  BY <1>1 DEF Shown
<1>2. CASE shows[t] \in Exports /\ verdict[shows[t]] = "ok"
  BY <1>2 DEF Shown, Whole, Rows
<1> QED
  BY <1>1, <1>2 DEF Inv, Named

LEMMA Focus ==
  ASSUME NEW e \in Exports, job' = job,
         \A x \in Exports \ {e} : /\ pc'[x] = pc[x] /\ written'[x] = written[x]
                                  /\ verdict'[x] = verdict[x] /\ (x \in fired') = (x \in fired)
  PROVE  /\ [x \in Exports |-> Fate(x)]' = [[x \in Exports |-> Fate(x)] EXCEPT ![e] = Fate(e)']
         /\ [x \in Exports |-> Answered(x)]'
              = [[x \in Exports |-> Answered(x)] EXCEPT ![e] = Answered(e)']
BY DEF Fate, Answered, Stopped, Rows

\* A step that settles no answer: the fate of the export stays or is dropped.
LEMMA Quiet ==
  ASSUME Inv, NEW e \in Exports, job' = job, shows' = shows,
         \A x \in Exports \ {e} : /\ pc'[x] = pc[x] /\ written'[x] = written[x]
                                  /\ verdict'[x] = verdict[x] /\ (x \in fired') = (x \in fired),
         verdict[e] = "ok" => written'[e] = written[e],
         Answered(e)' = Answered(e),
         Fate(e)' = Fate(e) \/ (Fate(e) = "open" /\ Fate(e)' = "dropped")
  PROVE  [Promise!Next]_(Promise!vars)
<1>0. [t \in Targets |-> Shown(t)]' = [t \in Targets |-> Shown(t)]
  BY ShownFrame
<1>1. CASE Fate(e)' = Fate(e)
  BY <1>0, <1>1, Focus DEF Promise!vars
<1>2. CASE Fate(e) = "open" /\ Fate(e)' = "dropped"
  <2>1. Promise!Drop({e})
    BY <1>0, <1>2, Focus DEF Promise!Drop
  <2> QED
    BY <2>1 DEF Promise!Next
<1> QED
  BY <1>1, <1>2

LEMMA PromiseStep == Inv /\ [Next]_vars => [Promise!Next]_(Promise!vars)
<1> SUFFICES ASSUME Inv, [Next]_vars PROVE [Promise!Next]_(Promise!vars)
  OBVIOUS
<1>0. Typed /\ \A e \in Exports : Settled(e) /\ Size(e) /\ Tidy(e)
  BY DEF Inv, Results, Sizes, Tidied
<1> USE DEF diskVars, dumpVars, userVars
<1>a. ASSUME NEW e \in Exports, NEW why \in {"error", "cancelled"}, GiveUp(e, why),
             pc[e] \in Pending
      PROVE  [Promise!Next]_(Promise!vars)
  <2>1. verdict[e] = "none" /\ pc[e] \notin {"over", "dead"}
    BY <1>0, <1>a DEF Settled, Pending
  <2>2. /\ job' = job /\ shows' = shows /\ written' = written /\ fired' = fired
        /\ pc'[e] = "failing" /\ verdict'[e] = why
        /\ \A x \in Exports \ {e} : pc'[x] = pc[x] /\ verdict'[x] = verdict[x]
    BY <1>0, <1>a DEF GiveUp, Goto, Typed
  <2>3. /\ Answered(e)' = Answered(e)
        /\ Fate(e) \in {"open", "dropped"} /\ Fate(e)' = "dropped"
    BY <2>1, <2>2 DEF Fate, Answered
  <2> QED
    BY <2>2, <2>3, Quiet
\* A step within the work, on the way to the rename.
<1>b. ASSUME NEW e \in Exports, pc[e] \in Pending, pc'[e] \in Pending,
             job' = job, shows' = shows, verdict' = verdict,
             \A x \in Exports \ {e} : pc'[x] = pc[x] /\ written'[x] = written[x]
                                      /\ (x \in fired') = (x \in fired),
             Stopped(e) => Stopped(e)'
      PROVE  [Promise!Next]_(Promise!vars)
  <2>1. verdict[e] = "none"
    BY <1>0, <1>b DEF Settled
  <2>2. /\ Answered(e)' = Answered(e)
        /\ Fate(e)' = Fate(e) \/ (Fate(e) = "open" /\ Fate(e)' = "dropped")
    BY <2>1, <1>b DEF Fate, Answered, Pending
  <2> QED
    BY <1>b, <2>1, <2>2, Quiet
<1>1. ASSUME NEW e \in Exports, Refuse(e) PROVE [Promise!Next]_(Promise!vars)
  <2>1. /\ pc[e] = "idle" /\ verdict[e] = "none" /\ e \notin fired
        /\ pc'[e] = "over" /\ verdict'[e] = "error"
        /\ job' = job /\ shows' = shows /\ written' = written /\ fired' = fired
        /\ \A x \in Exports \ {e} : pc'[x] = pc[x] /\ verdict'[x] = verdict[x]
    BY <1>0, <1>1 DEF Refuse, Goto, Settled, Typed, Pending
  <2>2. /\ Answered(e) = "none" /\ Fate(e) = "open"
        /\ Answered(e)' = "failed" /\ Fate(e)' = "dropped"
    BY <2>1 DEF Fate, Answered, Stopped
  <2>3. Promise!Refuse(e)
    BY <2>1, <2>2, Focus, ShownFrame DEF Promise!Refuse
  <2> QED
    BY <2>3 DEF Promise!Next
<1>2. ASSUME NEW e \in Exports,
             Invoke(e) \/ Create(e) \/ Chunk(e) \/ ServerAnswers(e) \/ Send(e) \/ TableDone(e)
             \/ Fsync(e)
      PROVE  [Promise!Next]_(Promise!vars)
  <2>1. /\ pc[e] \in Pending /\ pc'[e] \in Pending
        /\ job' = job /\ shows' = shows /\ verdict' = verdict /\ written' = written
        /\ fired' = fired /\ \A x \in Exports \ {e} : pc'[x] = pc[x]
    BY <1>0, <1>2 DEF Invoke, Create, Chunk, ServerAnswers, Send, TableDone, Fsync, Goto, Typed, Pending
  <2> QED
    BY <2>1, <1>b DEF Stopped, Rows
<1>3. ASSUME NEW e \in Exports, WriteText(e) \/ Preamble(e) \/ Epilogue(e)
      PROVE  [Promise!Next]_(Promise!vars)
  <2>1. /\ pc[e] \in Pending /\ pc'[e] \in Pending
        /\ job' = job /\ shows' = shows /\ verdict' = verdict /\ fired' = fired
        /\ \A x \in Exports \ {e} : pc'[x] = pc[x] /\ written'[x] = written[x]
    BY <1>0, <1>3 DEF WriteText, Preamble, Epilogue, Goto, Grow, Typed, Pending
  <2>2. /\ Rows(e) \in Nat /\ Rows(e)' = Rows(e) /\ written[e] \in Nat
        /\ WriteText(e) => Rows(e) = 0
        /\ Preamble(e) => written'[e] = 1
        /\ Epilogue(e) => written[e] > Rows(e)
    BY <1>0, <2>1, JobTypes DEF WriteText, Preamble, Epilogue, Grow, Size, Typed, Rows
  <2>3. CASE WriteText(e)
    BY <2>1, <2>2, <2>3, <1>b DEF Stopped
  <2>4. CASE Epilogue(e)
    BY <2>1, <2>2, <2>4, <1>b DEF Stopped
  <2>5. CASE Preamble(e)
    <3>1. Stopped(e) => Stopped(e)'
      BY <2>1, <2>2, <2>5 DEF Stopped
    <3> QED
      BY <2>1, <3>1, <1>b
  <2> QED
    BY <1>3, <2>3, <2>4, <2>5
<1>4. ASSUME NEW e \in Exports, WriteRow(e) \/ Drain(e) PROVE [Promise!Next]_(Promise!vars)
  <2>1. CASE e \in fired
    BY <1>4, <2>1, <1>a DEF WriteRow, Drain, Pending
  <2>2. CASE e \notin fired
    <3>1. /\ pc[e] \in Pending /\ pc'[e] \in Pending
          /\ job' = job /\ shows' = shows /\ verdict' = verdict /\ fired' = fired
          /\ \A x \in Exports \ {e} : pc'[x] = pc[x] /\ written'[x] = written[x]
      BY <1>0, <1>4, <2>2 DEF WriteRow, Drain, Goto, Grow, Typed, Pending
    <3> QED
      BY <2>2, <3>1, <1>b DEF Stopped
  <2> QED
    BY <2>1, <2>2
<1>5. ASSUME NEW e \in Exports, Finish(e) \/ NextTable(e) \/ Ask(e)
      PROVE  [Promise!Next]_(Promise!vars)
  <2>1. CASE GiveUp(e, "cancelled")
    BY <1>5, <2>1, <1>a DEF Finish, NextTable, Ask, Pending
  <2>2. CASE ~ GiveUp(e, "cancelled")
    <3>1. /\ pc[e] \in Pending /\ pc'[e] \in Pending
          /\ job' = job /\ shows' = shows /\ verdict' = verdict /\ written' = written
          /\ fired' = fired /\ \A x \in Exports \ {e} : pc'[x] = pc[x]
      BY <1>0, <1>5, <2>2 DEF Finish, NextTable, Ask, Goto, Typed, Pending
    <3> QED
      BY <3>1, <1>b DEF Stopped, Rows
  <2> QED
    BY <2>1, <2>2
<1>6. ASSUME NEW e \in Exports, Fails(e) \/ Abort(e) \/ Interrupt(e)
      PROVE  [Promise!Next]_(Promise!vars)
  BY <1>6, <1>a DEF Fails, Abort, Interrupt, Pending
<1>7. ASSUME NEW e \in Exports, Rename(e) PROVE [Promise!Next]_(Promise!vars)
  <2>1. /\ pc[e] = "sealed" /\ verdict[e] = "none" /\ written[e] = Whole(e)
        /\ Rows(e) \in Nat /\ job[e].target \in Targets
        /\ pc'[e] = "releasing" /\ verdict'[e] = "ok"
        /\ job' = job /\ written' = written /\ fired' = fired
        /\ shows' = [shows EXCEPT ![job[e].target] = e]
        /\ \A x \in Exports \ {e} : pc'[x] = pc[x] /\ verdict'[x] = verdict[x]
    BY <1>0, <1>7, JobTypes DEF Rename, Goto, Settled, Typed, Pending
  <2>2. /\ Answered(e)' = Answered(e)
        /\ Fate(e) = "open" /\ Fate(e)' = "landed"
    BY <2>1 DEF Fate, Answered, Stopped, Whole
  <2>3. [t \in Targets |-> Shown(t)]'
          = [[t \in Targets |-> Shown(t)] EXCEPT ![job[e].target] = e]
    BY <1>0, <2>1 DEF Shown, Whole, Rows, Typed
  <2>4. Promise!Land(e, job[e].target)
    BY <2>1, <2>2, <2>3, Focus DEF Promise!Land
  <2> QED
    BY <2>1, <2>4 DEF Promise!Next
<1>8. ASSUME NEW e \in Exports, RenameFails(e) PROVE [Promise!Next]_(Promise!vars)
  <2>1. /\ pc[e] = "sealed" /\ verdict[e] = "none"
        /\ pc'[e] \in {"releasing", "failing"} /\ verdict'[e] = "error"
        /\ job' = job /\ written' = written /\ fired' = fired /\ shows' = shows
        /\ \A x \in Exports \ {e} : pc'[x] = pc[x] /\ verdict'[x] = verdict[x]
    BY <1>0, <1>8 DEF RenameFails, Goto, Settled, Typed, Pending
  <2>2. /\ Answered(e)' = Answered(e)
        /\ Fate(e) \in {"open", "dropped"} /\ Fate(e)' = "dropped"
    BY <2>1 DEF Fate, Answered
  <2> QED
    BY <2>1, <2>2, Quiet
<1>9. ASSUME NEW e \in Exports, Remove(e) \/ Release(e) \/ Clear(e)
      PROVE  [Promise!Next]_(Promise!vars)
  <2>1. /\ pc[e] \in {"failing", "releasing", "clearing"} /\ verdict[e] # "none"
        /\ pc'[e] \in {"releasing", "clearing", "over"}
        /\ job' = job /\ written' = written /\ fired' = fired /\ shows' = shows
        /\ verdict' = verdict /\ \A x \in Exports \ {e} : pc'[x] = pc[x]
    BY <1>0, <1>9 DEF Remove, Release, Clear, Goto, Settled, Typed
  <2>2. Fate(e)' = Fate(e) /\ Fate(e) = IF verdict[e] = "ok" THEN "landed" ELSE "dropped"
    BY <1>0, <2>1 DEF Fate, Typed
  <2>3. CASE pc'[e] # "over"
    BY <2>1, <2>2, <2>3, Quiet DEF Answered
  <2>4. CASE pc'[e] = "over"
    <3>1. /\ Answered(e) = "none"
          /\ Answered(e)' = IF Fate(e) = "landed" THEN "done" ELSE "failed"
      BY <2>1, <2>2, <2>4 DEF Answered
    <3>2. Promise!Answer(e)
      BY <2>1, <2>2, <3>1, Focus, ShownFrame DEF Promise!Answer
    <3> QED
      BY <3>2 DEF Promise!Next
  <2> QED
    BY <2>3, <2>4
<1>10. ASSUME NEW e \in Exports, WindowCloses(e) PROVE [Promise!Next]_(Promise!vars)
  BY <1>10, Quiet DEF WindowCloses, Fate, Answered, Stopped, Rows
<1>11. ASSUME NEW e \in Exports, Stop(e) PROVE [Promise!Next]_(Promise!vars)
  <2>1. /\ job' = job /\ shows' = shows /\ pc' = pc /\ written' = written /\ verdict' = verdict
        /\ \A x \in Exports \ {e} : (x \in fired') = (x \in fired)
        /\ e \in fired => e \in fired'
    BY <1>11 DEF Stop
  <2>2. Stopped(e) => Stopped(e)'
    BY <2>1 DEF Stopped, Rows
  <2>3. /\ Answered(e)' = Answered(e)
        /\ Fate(e)' = Fate(e) \/ (Fate(e) = "open" /\ Fate(e)' = "dropped")
    BY <1>0, <2>1, <2>2 DEF Fate, Answered, Typed
  <2> QED
    BY <2>1, <2>3, Quiet
<1>12. ASSUME PowerLoss PROVE [Promise!Next]_(Promise!vars)
  <2> DEFINE S == {e \in Exports : Fate(e) = "open" /\ Fate(e)' = "dropped"}
  <2>1. /\ job' = job /\ shows' = shows /\ verdict' = verdict /\ fired' = fired
        /\ \A e \in Exports : pc'[e] = IF pc[e] \in {"idle", "over"} THEN pc[e] ELSE "dead"
    BY <1>12 DEF PowerLoss
  <2>1a. ASSUME NEW e \in Exports, verdict[e] = "ok" PROVE written'[e] = written[e]
    <3>1. PICK lost \in SUBSET (Exports \ synced) :
            written' = [x \in Exports |-> IF x \in lost THEN 0 ELSE written[x]]
      BY <1>12 DEF PowerLoss
    <3>2. e \in synced
      BY <1>0, <2>1a DEF Settled
    <3> QED
      BY <3>1, <3>2
  <2>2. ASSUME NEW e \in Exports
        PROVE  /\ Answered(e)' = Answered(e)
               /\ Fate(e)' = Fate(e) \/ (Fate(e) = "open" /\ Fate(e)' = "dropped")
    <3>1. /\ verdict[e] \in {"none", "ok", "error", "cancelled"} /\ verdict'[e] = verdict[e]
          /\ pc'[e] = IF pc[e] \in {"idle", "over"} THEN pc[e] ELSE "dead"
          /\ pc[e] = "idle" => e \notin fired /\ e \notin fired'
          /\ verdict[e] = "none" => pc[e] # "over"
      BY <1>0, <2>1 DEF Typed, Settled
    <3>2. Answered(e)' = Answered(e)
      BY <3>1 DEF Answered
    <3>3. CASE verdict[e] = "ok"
      BY <3>1, <3>2, <3>3 DEF Fate
    <3>4. CASE verdict[e] \in {"error", "cancelled"}
      BY <3>1, <3>2, <3>4 DEF Fate
    <3>5. CASE verdict[e] = "none" /\ pc[e] = "idle"
      <4>1. Fate(e) = "open" /\ Fate(e)' = "open"
        BY <3>1, <3>5 DEF Fate, Stopped
      <4> QED
        BY <3>2, <4>1
    <3>6. CASE verdict[e] = "none" /\ pc[e] # "idle"
      <4>1. Fate(e) \in {"open", "dropped"} /\ Fate(e)' = "dropped"
        BY <3>1, <3>6 DEF Fate
      <4> QED
        BY <3>2, <4>1
    <3> QED
      BY <3>1, <3>3, <3>4, <3>5, <3>6
  <2>3. [t \in Targets |-> Shown(t)]' = [t \in Targets |-> Shown(t)]
    BY <2>1, <2>1a, ShownFrame
  <2>4. Promise!Drop(S)
    BY <2>2, <2>3 DEF Promise!Drop
  <2>5. S \in SUBSET Exports
    OBVIOUS
  <2> QED
    BY <2>4, <2>5 DEF Promise!Next
<1>13. CASE UNCHANGED vars
  BY <1>13 DEF vars, Promise!vars, Shown, Fate, Answered, Stopped, Whole, Rows
<1> QED
  BY <1>1, <1>2, <1>3, <1>4, <1>5, <1>6, <1>7, <1>8, <1>9, <1>10, <1>11, <1>12, <1>13
     DEF Next, Command, Window

LEMMA Invariant == Spec => []Inv
<1>1. Init => Inv
  <2>1. Init => Typed /\ Sizes
    BY TypedInit, JobTypes DEF Init, Sizes, Size, Rows, Whole
  <2>2. Init => Tidied /\ Results /\ Named
    BY DEF Init, Tidied, Tidy, Results, Settled, Named, Pending
  <2> QED
    BY <2>1, <2>2 DEF Inv
<1>2. Inv /\ [Next]_vars => Inv'
  BY TypedStep, SizesStep, TidiedStep, ResultsStep, NamedStep DEF Inv
<1> QED
  BY <1>1, <1>2, PTL DEF Spec

\* For any exports, targets and jobs: a target shows its old content or one whole
\* export, whatever fails, is stopped or loses power, and the answer says which.
THEOREM ExportsKeepPromise == Spec => ExportsReplaceWhole
<1>1. Init => Promise!Init
  BY DEF Init, Promise!Init, Shown, Fate, Answered, Stopped
<1> QED
  BY <1>1, Invariant, PromiseStep, PTL DEF Spec, ExportsReplaceWhole, Promise!Spec

(***************************************************************************)
(* What follows for the user.                                              *)
(***************************************************************************)
\* No target is ever torn: what it names is the old file or an export that
\* succeeded, has all of its pieces and has reached the disk, so that no power
\* loss can take a piece of it away (atomic_write).
Unbroken ==
  \A t \in Targets :
    \/ shows[t] = Old
    \/ /\ shows[t] \in synced /\ verdict[shows[t]] = "ok"
       /\ written[shows[t]] = Whole(shows[t])

\* Each target is whole after every step, power losses included.
THEOREM TargetsAreWhole == Spec => []Unbroken
<1>1. Inv => Unbroken
  BY DEF Inv, Named, Results, Settled, Unbroken
<1> QED
  BY <1>1, Invariant, PTL

\* An export that failed, that was lost with the program, or that was stopped
\* with rows to write never shows up in a target, however far it had come.
THEOREM DroppedNeverShows ==
  ASSUME NEW e \in Exports
  PROVE  Spec => [](Fate(e) = "dropped" => [](\A t \in Targets : shows[t] # e))
<1> DEFINE F == [x \in Exports |-> Fate(x)]
           Out == Fate(e) = "dropped"
<1>1. Out /\ [Promise!Next]_(Promise!vars) => Out'
  <2> SUFFICES ASSUME Out, [Promise!Next]_(Promise!vars) PROVE Out'
    OBVIOUS
  <2>1. F[e] = "dropped" /\ F'[e] = Fate(e)'
    OBVIOUS
  <2>2. ASSUME NEW x \in Exports, Promise!Answer(x) \/ Promise!Refuse(x) PROVE F'[e] = "dropped"
    BY <2>1, <2>2 DEF Promise!Answer, Promise!Refuse
  <2>3. ASSUME NEW x \in Exports, NEW t \in Targets, Promise!Land(x, t) PROVE F'[e] = "dropped"
    BY <2>1, <2>3 DEF Promise!Land
  <2>4. ASSUME NEW S \in SUBSET Exports, Promise!Drop(S) PROVE F'[e] = "dropped"
    BY <2>1, <2>4 DEF Promise!Drop
  <2>5. CASE UNCHANGED Promise!vars
    BY <2>1, <2>5 DEF Promise!vars
  <2> QED
    BY <2>1, <2>2, <2>3, <2>4, <2>5 DEF Promise!Next
<1>2. Inv /\ Out => \A t \in Targets : shows[t] # e
  BY OldAssumption DEF Inv, Named, Fate
<1> HIDE DEF Out
<1>3. Spec => [](Out => [](\A t \in Targets : shows[t] # e))
  BY <1>1, <1>2, Invariant, ExportsKeepPromise, PTL DEF ExportsReplaceWhole, Promise!Spec
<1> QED
  BY <1>3 DEF Out
(***************************************************************************)
(* A stopped export comes to its end.                                      *)
(***************************************************************************)

\* The provers know nothing of ENABLED: what they are told is that an action can
\* be taken where its guard holds.
CanGoOn(e) == ENABLED <<Command(e)>>_vars
CanInterrupt(e) == ENABLED <<Interrupt(e)>>_vars
CanCall(e) == ENABLED <<Window(e)>>_vars
GuardsSuffice ==
  \A e \in Exports :
    /\ \/ pc[e] \in {"started", "writing", "tables", "flushing", "syncing", "sealed", "failing",
                     "releasing", "clearing"}
       \/ pc[e] = "opened" /\ job[e].kind \in Kinds
       \/ pc[e] = "pumping" /\ Queued(e) > 0
       \/ pc[e] = "pumping" /\ Queued(e) = 0 /\ stream[e] = "done"
       => CanGoOn(e)
    /\ pc[e] = "pumping" /\ job[e].prompt /\ e \in fired /\ stream[e] # "done" => CanInterrupt(e)
    /\ pc[e] = "parked" /\ e \notin gone => CanCall(e)

\* The places a stopped export can still pass, counted from the last one: it
\* enters no table any more, and none of them twice.
Ahead(e) ==
  CASE pc[e] = "started" -> 13
    [] pc[e] = "opened" -> 12
    [] pc[e] = "parked" -> 11
    [] pc[e] = "writing" -> 10
    [] pc[e] = "pumping" /\ stream[e] # "done" -> 9
    [] pc[e] = "pumping" /\ stream[e] = "done" -> 8
    [] pc[e] = "tables" -> 7
    [] pc[e] = "flushing" -> 6
    [] pc[e] = "syncing" -> 5
    [] pc[e] = "sealed" -> 4
    [] pc[e] = "failing" -> 3
    [] pc[e] = "releasing" -> 2
    [] pc[e] = "clearing" -> 1
    [] OTHER -> 0

StopTaken(e) == e \in fired /\ (job[e].kind = "dump" => job[e].prompt)
Ended(e) == pc[e] \in {"over", "dead"} \/ e \in gone
StoppedAt(e, n) == StopTaken(e) /\ ~Ended(e) /\ Ahead(e) = n
Within(e, n) == Ended(e) \/ \E m \in 1..n : StoppedAt(e, m)

\* Only a dump has tables.
Streamed == \A e \in Exports : pc[e] \in {"tables", "pumping"} => job[e].kind = "dump"

LEMMA StreamedStep == Typed /\ Streamed /\ [Next]_vars => Streamed'
<1> SUFFICES ASSUME Typed, Streamed, [Next]_vars, NEW e \in Exports, pc'[e] \in {"tables", "pumping"}
             PROVE  job'[e].kind = "dump"
  BY DEF Streamed
<1> USE DEF Typed, Streamed, diskVars, dumpVars, userVars
<1>1. ASSUME NEW x \in Exports,
             \/ Create(x) \/ WriteText(x) \/ WriteRow(x) \/ Ask(x) \/ Send(x)
             \/ Drain(x) \/ Interrupt(x) \/ Epilogue(x) \/ Fsync(x) \/ Rename(x) \/ Remove(x)
             \/ Release(x) \/ Clear(x) \/ Chunk(x) \/ Finish(x) \/ Fails(x) \/ RenameFails(x)
             \/ ServerAnswers(x) \/ Abort(x) \/ Refuse(x) \/ Invoke(x) \/ Stop(x) \/ WindowCloses(x)
      PROVE  job' = job /\ pc'[e] = pc[e]
  BY <1>1
     DEF Create, WriteText, WriteRow, Ask, Send, Drain, Interrupt, Epilogue, Fsync, Rename, Remove,
         Release, Clear, Chunk, Finish, Fails, RenameFails, ServerAnswers, Abort, Refuse, Invoke, Stop,
         WindowCloses, GiveUp, Goto
<1>2. ASSUME NEW x \in Exports, Preamble(x) \/ NextTable(x) \/ TableDone(x)
      PROVE  job'[e].kind = "dump"
  BY <1>2 DEF Preamble, NextTable, TableDone, GiveUp, Goto
<1>3. CASE PowerLoss
  BY <1>3 DEF PowerLoss
<1>4. CASE UNCHANGED vars
  BY <1>4 DEF vars
<1> QED
  BY <1>1, <1>2, <1>3, <1>4 DEF Next, Command, Window

\* A step of its own takes a stopped export on, unless the adapter works on at its
\* batches: then the token is still to be seen.
LEMMA OwnStep ==
  ASSUME Inv, NEW e \in Exports, NEW n \in 1..13, StoppedAt(e, n),
         Command(e) \/ Window(e) \/ Fails(e) \/ RenameFails(e) \/ ServerAnswers(e) \/ Abort(e)
  PROVE  Within(e, n - 1)' \/ (n = 9 /\ ~Interrupt(e) /\ StoppedAt(e, n)')
<1> USE DEF Inv, Typed, StoppedAt, StopTaken, Ended, Within, Ahead, Goto, diskVars, dumpVars, userVars
<1>0. ASSUME pc'[e] = "failing", job' = job, fired' = fired, n > 3
      PROVE  Within(e, n - 1)'
  BY <1>0
<1>a. ASSUME GiveUp(e, "error") \/ GiveUp(e, "cancelled"), n > 3
      PROVE  Within(e, n - 1)'
  BY <1>a, <1>0 DEF GiveUp
<1>1. CASE Create(e) \/ WriteText(e)
  BY <1>1 DEF Create, WriteText
<1>2. CASE Preamble(e)
  <2>1. n = 12 /\ pc'[e] \in {"flushing", "writing", "parked", "tables"} /\ UNCHANGED <<job, fired, gone>>
    BY <1>2 DEF Preamble
  <2> QED
    BY <2>1
<1>3. CASE WriteRow(e) \/ NextTable(e) \/ Drain(e)
  <2>1. CASE GiveUp(e, "cancelled")
    BY <1>3, <2>1, <1>a DEF WriteRow, NextTable, Drain
  <2>2. CASE ~GiveUp(e, "cancelled")
    BY <1>3, <2>2 DEF WriteRow, NextTable, Drain
  <2> QED
    BY <2>1, <2>2
<1>4. CASE Ask(e) \/ Interrupt(e)
  <2>1. CASE GiveUp(e, "cancelled")
    BY <1>4, <2>1, <1>a DEF Ask, Interrupt, Fresh
  <2>2. CASE ~GiveUp(e, "cancelled")
    BY <1>4, <2>2 DEF Ask, Interrupt, Fresh
  <2> QED
    BY <2>1, <2>2
<1>5. CASE Send(e) \/ TableDone(e) \/ ServerAnswers(e)
  <2>1. CASE TableDone(e)
    BY <2>1 DEF TableDone
  <2>2. CASE Send(e) \/ ServerAnswers(e)
    <3>1. /\ pc[e] = "pumping" /\ pc' = pc /\ UNCHANGED <<job, fired, gone>>
          /\ stream'[e] # "done" \/ n = 9
          /\ stream[e] = "done" => stream'[e] = "done"
      BY <2>2 DEF Send, ServerAnswers
    <3>2. ~Interrupt(e)
      BY <3>1 DEF Interrupt, GiveUp
    <3> QED
      BY <3>1, <3>2
  <2> QED
    BY <1>5, <2>1, <2>2
<1>6. CASE Epilogue(e) \/ Fsync(e)
  BY <1>6 DEF Epilogue, Fsync
<1>7. CASE Rename(e) \/ RenameFails(e)
  BY <1>7 DEF Rename, RenameFails
<1>8. CASE Remove(e) \/ Release(e) \/ Clear(e)
  BY <1>8 DEF Remove, Release, Clear
<1>9. CASE Chunk(e) \/ Finish(e)
  <2>1. CASE GiveUp(e, "cancelled")
    BY <1>9, <2>1, <1>a DEF Chunk, Finish
  <2>2. CASE ~GiveUp(e, "cancelled")
    BY <1>9, <2>2 DEF Chunk, Finish
  <2> QED
    BY <2>1, <2>2
<1>10. CASE Fails(e) \/ Abort(e)
  BY <1>10, <1>a DEF Fails, Abort
<1> QED
  BY <1>1, <1>2, <1>3, <1>4, <1>5, <1>6, <1>7, <1>8, <1>9, <1>10 DEF Command, Window

LEMMA StoppedStep ==
  ASSUME Inv, NEW e \in Exports, NEW n \in 1..13, StoppedAt(e, n), [Next]_vars
  PROVE  Within(e, n - 1)' \/ StoppedAt(e, n)'
<1> USE DEF Inv, Typed, diskVars, dumpVars, userVars
<1>a. ASSUME pc'[e] = pc[e], stream'[e] = stream[e], job' = job, fired \subseteq fired'
      PROVE  Within(e, n - 1)' \/ StoppedAt(e, n)'
  BY <1>a DEF StoppedAt, StopTaken, Ended, Within, Ahead
<1>1. ASSUME Command(e) \/ Window(e) \/ Fails(e) \/ RenameFails(e) \/ ServerAnswers(e) \/ Abort(e)
      PROVE  Within(e, n - 1)' \/ StoppedAt(e, n)'
  BY <1>1, OwnStep
<1>2. ASSUME NEW x \in Exports, x # e,
             \/ Create(x) \/ WriteText(x) \/ Preamble(x) \/ WriteRow(x) \/ NextTable(x) \/ Ask(x) \/ Send(x)
             \/ Drain(x) \/ Interrupt(x) \/ TableDone(x) \/ Epilogue(x) \/ Fsync(x) \/ Rename(x) \/ Remove(x)
             \/ Release(x) \/ Clear(x) \/ Chunk(x) \/ Finish(x) \/ Fails(x) \/ RenameFails(x)
             \/ ServerAnswers(x) \/ Abort(x)
      PROVE  Within(e, n - 1)' \/ StoppedAt(e, n)'
  <2>1. pc'[e] = pc[e] /\ stream'[e] = stream[e] /\ job' = job /\ fired' = fired
    BY <1>2
       DEF Create, WriteText, Preamble, WriteRow, NextTable, Ask, Send, Drain, Interrupt, TableDone,
           Epilogue, Fsync, Rename, Remove, Release, Clear, Chunk, Finish, Fails, RenameFails, ServerAnswers,
           Abort, GiveUp, Goto, Grow
  <2> QED
    BY <2>1, <1>a
<1>3. ASSUME NEW x \in Exports, Refuse(x) \/ Invoke(x) \/ WindowCloses(x) \/ Stop(x)
      PROVE  Within(e, n - 1)' \/ StoppedAt(e, n)'
  <2>1. pc[e] # "idle"
    BY DEF StoppedAt, StopTaken, Results, Settled
  <2>2. pc'[e] = pc[e] /\ stream'[e] = stream[e] /\ job' = job /\ fired \subseteq fired'
    BY <1>3, <2>1 DEF Refuse, Invoke, WindowCloses, Stop, Goto
  <2> QED
    BY <2>2, <1>a
<1>4. CASE PowerLoss
  <2>1. pc'[e] = "dead"
    BY <1>4 DEF PowerLoss, StoppedAt, Ended, StopTaken, Results, Settled
  <2> QED
    BY <2>1 DEF Within, Ended
<1>5. CASE UNCHANGED vars
  BY <1>5, <1>a DEF vars
<1> QED
  BY <1>1, <1>2, <1>3, <1>4, <1>5 DEF Next, Command, Window

\* Where a stopped export stands, something can take it on.
LEMMA StoppedGoesOn ==
  ASSUME Inv, Streamed, GuardsSuffice, NEW e \in Exports, NEW n \in 1..13, StoppedAt(e, n)
  PROVE  /\ n \notin {9, 11} => CanGoOn(e)
         /\ n = 9 => CanInterrupt(e)
         /\ n = 11 => CanCall(e)
<1> USE DEF Inv, StoppedAt, StopTaken, Ended, Ahead
<1>1. ASSUME n \notin {8, 9, 11} PROVE CanGoOn(e)
  BY <1>1, JobTypes DEF GuardsSuffice
<1>2. ASSUME n = 8 PROVE CanGoOn(e)
  <2>1. pc[e] = "pumping" /\ stream[e] = "done"
    BY <1>2
  <2>2. Queued(e) \in Nat
    BY <2>1, BoundsAssumption DEF Sizes, Size
  <2>3. Queued(e) > 0 \/ Queued(e) = 0
    BY <2>2
  <2> QED
    BY <2>1, <2>3 DEF GuardsSuffice
<1>3. ASSUME n = 9 PROVE CanInterrupt(e)
  <2>1. pc[e] = "pumping" /\ stream[e] # "done"
    BY <1>3
  <2>2. job[e].kind = "dump"
    BY <2>1 DEF Streamed
  <2> QED
    BY <2>1, <2>2 DEF GuardsSuffice
<1>4. ASSUME n = 11 PROVE CanCall(e)
  <2>1. pc[e] = "parked"
    BY <1>4
  <2> QED
    BY <2>1 DEF GuardsSuffice
<1> QED
  BY <1>1, <1>2, <1>3, <1>4

LEMMA StoppedRange ==
  ASSUME Inv, NEW e \in Exports, StopTaken(e)
  PROVE  Within(e, 13)
<1>1. CASE Ended(e)
  BY <1>1 DEF Within
<1>2. CASE ~Ended(e)
  <2>1. pc[e] \in Places \ {"idle", "over", "dead"}
    BY <1>2 DEF Inv, Typed, Results, Settled, StopTaken, Ended
  <2> QED
    BY <1>2, <2>1 DEF Within, StoppedAt, Ahead, Places
<1> QED
  BY <1>1, <1>2

\* Nothing leads it back.
LEMMA WithinStays ==
  ASSUME Inv, NEW e \in Exports, NEW n \in 0..13, Within(e, n), ~Ended(e), [Next]_vars
  PROVE  Within(e, n)'
<1>1. PICK m \in 1..n : StoppedAt(e, m)
  BY DEF Within
<1>2. m \in 1..13 /\ m - 1 \in 0..13
  OBVIOUS
<1>3. Within(e, m - 1)' \/ StoppedAt(e, m)'
  BY <1>1, <1>2, StoppedStep
<1> QED
  BY <1>1, <1>2, <1>3 DEF Within

\* The action that takes a stopped export out of its place.
Leads(e, n) == CASE n = 9 -> Interrupt(e) [] n = 11 -> Window(e) [] OTHER -> Command(e)

LEMMA WithinAdvances ==
  ASSUME Inv, NEW e \in Exports, NEW n \in 1..13, Within(e, n), ~Ended(e), [Next]_vars, Leads(e, n)
  PROVE  Within(e, n - 1)'
<1>1. PICK m \in 1..n : StoppedAt(e, m)
  BY DEF Within
<1>2. CASE m = n
  BY <1>1, <1>2, OwnStep DEF Leads, Command
<1>3. CASE m # n
  <2>1. Within(e, n - 1) /\ n - 1 \in 0..13
    BY <1>1, <1>3 DEF Within
  <2> QED
    BY <2>1, WithinStays
<1> QED
  BY <1>2, <1>3

\* Where a stopped export stands, something can take it on.
LEMMA WithinGoesOn ==
  ASSUME Inv, Streamed, GuardsSuffice, NEW e \in Exports, NEW n \in 1..13, Within(e, n), ~Ended(e)
  PROVE  \/ Within(e, n - 1)
         \/ (n \notin {9, 11} /\ CanGoOn(e)) \/ (n = 9 /\ CanInterrupt(e)) \/ (n = 11 /\ CanCall(e))
<1>1. PICK m \in 1..n : StoppedAt(e, m)
  BY DEF Within
<1>2. m = n \/ m \in 1..(n - 1)
  BY <1>1
<1> QED
  BY <1>1, <1>2, StoppedGoesOn DEF Within

\* Any number of exports of any size, on any channel: an export whose Stop was taken
\* comes to its end, unless its window has closed.
THEOREM StoppedExportsReturn == FairSpec /\ []GuardsSuffice => StoppedExportReturns
<1>1. Spec => []Streamed
  <2>1. Init => Streamed
    BY DEF Init, Streamed
  <2> QED
    BY <2>1, StreamedStep, Invariant, PTL DEF Spec, Inv
<1>2. ASSUME NEW e \in Exports
      PROVE  FairSpec /\ []GuardsSuffice => (StopTaken(e) ~> Ended(e))
  <2> DEFINE W0 == Within(e, 0)
             W1 == Within(e, 1)
             W2 == Within(e, 2)
             W3 == Within(e, 3)
             W4 == Within(e, 4)
             W5 == Within(e, 5)
             W6 == Within(e, 6)
             W7 == Within(e, 7)
             W8 == Within(e, 8)
             W9 == Within(e, 9)
             W10 == Within(e, 10)
             W11 == Within(e, 11)
             W12 == Within(e, 12)
             W13 == Within(e, 13)
             Out == Ended(e)
  <2>1. FairSpec => Spec /\ Fairness(e)
    BY DEF FairSpec
  <2>2. Inv /\ StopTaken(e) => W13
    BY StoppedRange
  <2>3. W0 => Out
    BY DEF Within
  <2>4. Inv /\ ~Out /\ [Next]_vars =>
          /\ (W13 => W13') /\ (W12 => W12') /\ (W11 => W11')
          /\ (W10 => W10') /\ (W9 => W9') /\ (W8 => W8')
          /\ (W7 => W7') /\ (W6 => W6') /\ (W5 => W5')
          /\ (W4 => W4') /\ (W3 => W3') /\ (W2 => W2')
          /\ (W1 => W1') /\ (W0 => W0')
    <3>1. ASSUME NEW n \in 0..13 PROVE Inv /\ ~Out /\ [Next]_vars => (Within(e, n) => Within(e, n)')
      BY WithinStays
    <3> QED
      BY <3>1
  <2>5. Inv /\ ~Out /\ [Next]_vars =>
          /\ <<Command(e)>>_vars =>
               /\ (W13 => W12') /\ (W12 => W11') /\ (W10 => W9')
               /\ (W8 => W7') /\ (W7 => W6') /\ (W6 => W5')
               /\ (W5 => W4') /\ (W4 => W3') /\ (W3 => W2')
               /\ (W2 => W1') /\ (W1 => W0')
          /\ <<Window(e)>>_vars => (W11 => W10')
          /\ <<Interrupt(e)>>_vars => (W9 => W8')
    <3>1. ASSUME NEW n \in 1..13, NEW m, m = n - 1
          PROVE  Inv /\ ~Out /\ [Next]_vars /\ Leads(e, n) => (Within(e, n) => Within(e, m)')
      BY <3>1, WithinAdvances
    <3> HIDE DEF Out
    <3> QED
      BY <3>1 DEF Leads
  <2>6. Inv /\ Streamed /\ GuardsSuffice /\ ~Out =>
        /\ (W13 => W12 \/ CanGoOn(e)) /\ (W12 => W11 \/ CanGoOn(e))
        /\ (W10 => W9 \/ CanGoOn(e)) /\ (W8 => W7 \/ CanGoOn(e))
        /\ (W7 => W6 \/ CanGoOn(e)) /\ (W6 => W5 \/ CanGoOn(e))
        /\ (W5 => W4 \/ CanGoOn(e)) /\ (W4 => W3 \/ CanGoOn(e))
        /\ (W3 => W2 \/ CanGoOn(e)) /\ (W2 => W1 \/ CanGoOn(e))
        /\ (W1 => W0 \/ CanGoOn(e)) /\ (W11 => W10 \/ CanCall(e))
        /\ (W9 => W8 \/ CanInterrupt(e))
    BY WithinGoesOn
  <2> HIDE DEF W0, W1, W2, W3, W4, W5, W6, W7, W8, W9, W10, W11, W12, W13, Out
  <2>7. FairSpec /\ []GuardsSuffice => (StopTaken(e) ~> Out)
    BY <1>1, <2>1, <2>2, <2>3, <2>4, <2>5, <2>6, Invariant, PTL
       DEF Spec, Fairness, CanGoOn, CanCall, CanInterrupt
  <2> QED
    BY <2>7 DEF Out
<1> QED
  BY <1>2 DEF StoppedExportReturns, StopTaken, Ended
=============================================================================
