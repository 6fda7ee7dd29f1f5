------------------------------- MODULE Export -------------------------------
(***************************************************************************)
(* The exports of commands/export: a grid in one command or, above 25 000  *)
(* rows, in a session of begin, chunk and finish commands; a text; and a   *)
(* dump of tables that a database adapter streams through a channel.  All  *)
(* of them write a temporary file beside the target, fsync it and rename   *)
(* it over the target.  Exports run side by side, to one target or to      *)
(* several, while the Stop button fires their tokens, writes fail, a       *)
(* window closes in the middle of its session and the machine may lose     *)
(* power.                                                                  *)
(*                                                                         *)
(* A file is the number of its pieces: a preamble, the rows of a grid or   *)
(* the batches of a dump in their order (one task writes a file, and the   *)
(* channel keeps its order), and an epilogue.  Temporary names, which hold *)
(* the process id and the nanoseconds, are distinct, and a temporary file  *)
(* can be removed: the code ignores an error of that.                      *)
(***************************************************************************)
EXTENDS Naturals, FiniteSets

CONSTANTS
  Exports,
  Targets,     \* the files an export may replace
  Jobs,        \* what an export may be asked for
  Old,         \* what a target held before any export
  Capacity,    \* of the channel between an adapter and the file
  MaxLosses    \* bound: how often the power fails

Kinds == {"grid", "session", "text", "dump"}

\* named: it has an export id and so a token; prompt: the adapter waits for
\* the server and for the token at once; ends: the rows after which a chunk
\* or a table ends.
ASSUME JobsAssumption ==
  \A j \in Jobs : /\ j.kind \in Kinds /\ j.target \in Targets
                  /\ j.rows \in Nat /\ j.ends \subseteq 1..j.rows
                  /\ j.named \in BOOLEAN /\ j.prompt \in BOOLEAN
                  /\ j.rows > 0 => j.rows \in j.ends
                  /\ j.kind = "session" => j.rows > 0
                  /\ j.kind = "text" => j.rows = 0
ASSUME OldAssumption == Old \notin Exports
ASSUME BoundsAssumption == Capacity \in Nat \ {0} /\ MaxLosses \in Nat

VARIABLES
  job,       \* of an export
  pc,        \* where its command, or the session between two commands, stands
  temps,     \* the exports whose temporary file exists
  written,   \* the pieces in an export's file
  synced,    \* the exports whose file has reached the disk
  shows,     \* the file that each target names
  stream,    \* of the adapter of a dump, within one table
  sent,      \* the batches the adapter put into the channel
  tokens,    \* query_tokens
  fired,     \* the exports whose token is cancelled
  gone,      \* the exports whose window has closed
  verdict,   \* the result of an export once it is settled
  losses     \* power losses so far

diskVars == <<temps, written, synced, shows>>
dumpVars == <<stream, sent>>
userVars == <<tokens, fired, gone>>
vars == <<job, pc, diskVars, dumpVars, userVars, verdict, losses>>

Fresh == {"fresh", "top"}

Places == {"idle", "started", "opened", "writing", "parked", "tables", "pumping", "flushing",
           "syncing", "sealed", "failing", "releasing", "clearing", "over", "dead"}
Streams == {"off", "fresh", "top", "asked", "holding", "ending", "done"}

Rows(e) == job[e].rows
Whole(e) == Rows(e) + 2

\* The batches in the channel.
Queued(e) == sent[e] + 1 - written[e]

Init ==
  /\ job \in [Exports -> Jobs]
  /\ pc = [e \in Exports |-> "idle"]
  /\ temps = {} /\ synced = {}
  /\ written = [e \in Exports |-> 0]
  /\ shows = [t \in Targets |-> Old]
  /\ stream = [e \in Exports |-> "off"]
  /\ sent = [e \in Exports |-> 0]
  /\ tokens = {} /\ fired = {} /\ gone = {}
  /\ verdict = [e \in Exports |-> "none"]
  /\ losses = 0

Goto(e, place) == pc' = [pc EXCEPT ![e] = place]

\* The command gives its work up: what is left is to remove and to release.
GiveUp(e, why) ==
  /\ Goto(e, "failing")
  /\ verdict' = [verdict EXCEPT ![e] = why]
  /\ stream' = [stream EXCEPT ![e] = "off"]
  /\ UNCHANGED <<job, diskVars, sent, userVars, losses>>

Grow(e, size) == written' = [written EXCEPT ![e] = size]

(***************************************************************************)
(* Opening.  A session checks its path before it registers anything, the   *)
(* other commands after.                                                   *)
(***************************************************************************)
BUG_Refuse(e) ==
  /\ pc[e] = "idle" /\ job[e].kind = "session"
  /\ Goto(e, "over")
  /\ tokens' = IF job[e].named THEN tokens \union {e} ELSE tokens
  /\ verdict' = [verdict EXCEPT ![e] = "error"]
  /\ UNCHANGED <<job, diskVars, dumpVars, fired, gone, losses>>

Refuse(e) ==
  /\ pc[e] = "idle" /\ job[e].kind = "session"
  /\ Goto(e, "over")
  /\ verdict' = [verdict EXCEPT ![e] = "error"]
  /\ UNCHANGED <<job, diskVars, dumpVars, userVars, losses>>

Invoke(e) ==
  /\ pc[e] = "idle"
  /\ Goto(e, "started")
  /\ tokens' = IF job[e].named THEN tokens \union {e} ELSE tokens
  /\ UNCHANGED <<job, diskVars, dumpVars, fired, gone, verdict, losses>>

Create(e) ==
  /\ pc[e] = "started"
  /\ Goto(e, "opened")
  /\ temps' = temps \union {e}
  /\ UNCHANGED <<job, written, synced, shows, dumpVars, userVars, verdict, losses>>

\* The path is refused, the file cannot be created or written, the connection
\* is not open, the adapter or the server reports an error.
Fails(e) ==
  /\ pc[e] \in {"started", "opened", "writing", "tables", "pumping", "flushing", "syncing"}
  /\ GiveUp(e, "error")

WriteText(e) ==
  /\ pc[e] = "opened" /\ job[e].kind = "text"
  /\ Goto(e, "syncing")
  /\ Grow(e, Whole(e))
  /\ UNCHANGED <<job, temps, synced, shows, dumpVars, userVars, verdict, losses>>

Preamble(e) ==
  /\ pc[e] = "opened"
  /\ \/ job[e].kind = "grid" /\ Goto(e, IF Rows(e) = 0 THEN "flushing" ELSE "writing")
     \/ job[e].kind = "session" /\ Goto(e, "parked")
     \/ job[e].kind = "dump" /\ Goto(e, "tables")
  /\ Grow(e, 1)
  /\ UNCHANGED <<job, temps, synced, shows, dumpVars, userVars, verdict, losses>>

(***************************************************************************)
(* The rows of a grid, in one command or chunk by chunk.  A chunk takes    *)
(* its session out of the registry and puts it back after its last row.    *)
(***************************************************************************)
WriteRow(e) ==
  /\ pc[e] = "writing"
  /\ IF e \in fired
     THEN GiveUp(e, "cancelled")
     ELSE /\ Grow(e, written[e] + 1)
          /\ Goto(e, IF job[e].kind = "session" /\ written[e] \in job[e].ends THEN "parked"
                     ELSE IF written[e] = Rows(e) THEN "flushing" ELSE "writing")
          /\ UNCHANGED <<job, temps, synced, shows, dumpVars, userVars, verdict, losses>>

Chunk(e) ==
  /\ pc[e] = "parked" /\ e \notin gone /\ written[e] <= Rows(e)
  /\ Goto(e, "writing")
  /\ UNCHANGED <<job, diskVars, dumpVars, userVars, verdict, losses>>

Finish(e) ==
  /\ pc[e] = "parked" /\ e \notin gone /\ written[e] > Rows(e)
  /\ IF e \in fired
     THEN GiveUp(e, "cancelled")
     ELSE /\ Goto(e, "flushing")
          /\ UNCHANGED <<job, diskVars, dumpVars, userVars, verdict, losses>>

\* A call of the window does not reach its handler, and the window aborts.
Abort(e) ==
  /\ pc[e] = "parked" /\ e \notin gone
  /\ GiveUp(e, "error")

\* Closed or reloaded: nobody calls the session again.
WindowCloses(e) ==
  /\ job[e].kind = "session" /\ pc[e] \notin {"idle", "over", "dead"} /\ e \notin gone
  /\ gone' = gone \union {e}
  /\ UNCHANGED <<job, pc, diskVars, dumpVars, tokens, fired, verdict, losses>>

(***************************************************************************)
(* The tables of a dump: the adapter fetches batches and sends them, the   *)
(* command receives and writes them, and the first of the two to fail ends *)
(* both.                                                                   *)
(***************************************************************************)
NextTable(e) ==
  /\ pc[e] = "tables"
  /\ \/ /\ written[e] > Rows(e)
        /\ Goto(e, "flushing")
        /\ UNCHANGED <<job, diskVars, dumpVars, userVars, verdict, losses>>
     \/ /\ written[e] <= Rows(e) /\ e \in fired
        /\ GiveUp(e, "cancelled")
     \/ /\ written[e] <= Rows(e) /\ e \notin fired
        /\ Goto(e, "pumping")
        /\ stream' = [stream EXCEPT ![e] = "fresh"]
        /\ UNCHANGED <<job, diskVars, sent, userVars, verdict, losses>>

\* The adapter looks at the token, unless it leaves that to its select!, and
\* asks for a batch or for the one after the last.
Ask(e) ==
  /\ pc[e] = "pumping" /\ stream[e] \in Fresh
  /\ \/ e \in fired /\ GiveUp(e, "cancelled")
     \/ /\ e \in fired => job[e].prompt
        /\ stream' = [stream EXCEPT ![e] =
                        IF stream[e] = "top" /\ sent[e] \in job[e].ends THEN "ending" ELSE "asked"]
        /\ UNCHANGED <<job, pc, diskVars, sent, userVars, verdict, losses>>

ServerAnswers(e) ==
  /\ pc[e] = "pumping" /\ stream[e] \in {"asked", "ending"}
  /\ stream' = [stream EXCEPT ![e] = IF stream[e] = "asked" THEN "holding" ELSE "done"]
  /\ UNCHANGED <<job, pc, diskVars, sent, userVars, verdict, losses>>

BUG_Send(e) ==
  /\ pc[e] = "pumping" /\ stream[e] = "holding"
  /\ sent' = [sent EXCEPT ![e] = @ + 1]
  /\ stream' = [stream EXCEPT ![e] = "top"]
  /\ UNCHANGED <<job, pc, diskVars, userVars, verdict, losses>>

Send(e) ==
  /\ pc[e] = "pumping" /\ stream[e] = "holding" /\ Queued(e) < Capacity
  /\ sent' = [sent EXCEPT ![e] = @ + 1]
  /\ stream' = [stream EXCEPT ![e] = "top"]
  /\ UNCHANGED <<job, pc, diskVars, userVars, verdict, losses>>

Drain(e) ==
  /\ pc[e] = "pumping" /\ Queued(e) > 0
  /\ IF e \in fired
     THEN GiveUp(e, "cancelled")
     ELSE /\ Grow(e, written[e] + 1)
          /\ UNCHANGED <<job, pc, temps, synced, shows, dumpVars, userVars, verdict, losses>>

BUG_Interrupt(e) == FALSE /\ UNCHANGED vars

\* select! of the SQL Server and Oracle adapters.
Interrupt(e) ==
  /\ pc[e] = "pumping" /\ job[e].prompt /\ e \in fired /\ stream[e] # "done"
  /\ GiveUp(e, "cancelled")

TableDone(e) ==
  /\ pc[e] = "pumping" /\ stream[e] = "done" /\ Queued(e) = 0
  /\ Goto(e, "tables")
  /\ stream' = [stream EXCEPT ![e] = "off"]
  /\ UNCHANGED <<job, diskVars, sent, userVars, verdict, losses>>

(***************************************************************************)
(* Into place.                                                             *)
(***************************************************************************)
Epilogue(e) ==
  /\ pc[e] = "flushing"
  /\ Goto(e, "syncing")
  /\ Grow(e, Whole(e))
  /\ UNCHANGED <<job, temps, synced, shows, dumpVars, userVars, verdict, losses>>

BUG_Fsync(e) ==
  /\ pc[e] = "syncing"
  /\ Goto(e, "sealed")
  /\ UNCHANGED <<job, diskVars, dumpVars, userVars, verdict, losses>>

Fsync(e) ==
  /\ pc[e] = "syncing"
  /\ Goto(e, "sealed")
  /\ synced' = synced \union {e}
  /\ UNCHANGED <<job, temps, written, shows, dumpVars, userVars, verdict, losses>>

Rename(e) ==
  /\ pc[e] = "sealed"
  /\ Goto(e, "releasing")
  /\ shows' = [shows EXCEPT ![job[e].target] = e]
  /\ temps' = temps \ {e}
  /\ verdict' = [verdict EXCEPT ![e] = "ok"]
  /\ UNCHANGED <<job, written, synced, dumpVars, userVars, losses>>

\* A session releases its token before it removes the file, the others after.
RenameFails(e) ==
  /\ pc[e] = "sealed"
  /\ Goto(e, IF job[e].kind = "session" THEN "releasing" ELSE "failing")
  /\ verdict' = [verdict EXCEPT ![e] = "error"]
  /\ UNCHANGED <<job, diskVars, dumpVars, userVars, losses>>

Remove(e) ==
  /\ pc[e] = "failing"
  /\ Goto(e, "releasing")
  /\ temps' = temps \ {e}
  /\ UNCHANGED <<job, written, synced, shows, dumpVars, userVars, verdict, losses>>

Release(e) ==
  /\ pc[e] = "releasing"
  /\ Goto(e, IF e \in temps THEN "clearing" ELSE "over")
  /\ tokens' = tokens \ {e}
  /\ UNCHANGED <<job, diskVars, dumpVars, fired, gone, verdict, losses>>

Clear(e) ==
  /\ pc[e] = "clearing"
  /\ Goto(e, "over")
  /\ temps' = temps \ {e}
  /\ UNCHANGED <<job, written, synced, shows, dumpVars, userVars, verdict, losses>>

\* The Stop button: cancel_query with the export id.
Stop(e) ==
  /\ e \in tokens \ gone
  /\ tokens' = tokens \ {e} /\ fired' = fired \union {e}
  /\ UNCHANGED <<job, pc, diskVars, dumpVars, gone, verdict, losses>>

\* What was not synced may be lost; the next start of the program knows no
\* token, no session and none of the temporary files.
PowerLoss ==
  /\ losses < MaxLosses
  /\ losses' = losses + 1
  /\ pc' = [e \in Exports |-> IF pc[e] \in {"idle", "over"} THEN pc[e] ELSE "dead"]
  /\ \E lost \in SUBSET (Exports \ synced) :
       written' = [e \in Exports |-> IF e \in lost THEN 0 ELSE written[e]]
  /\ stream' = [e \in Exports |-> "off"]
  /\ tokens' = {}
  /\ UNCHANGED <<job, temps, synced, shows, sent, fired, gone, verdict>>

(***************************************************************************)
(* The specification.                                                      *)
(***************************************************************************)
Command(e) ==
  \/ Create(e) \/ WriteText(e) \/ Preamble(e) \/ WriteRow(e)
  \/ NextTable(e) \/ Ask(e) \/ Send(e) \/ Drain(e) \/ Interrupt(e) \/ TableDone(e)
  \/ Epilogue(e) \/ Fsync(e) \/ Rename(e) \/ Remove(e) \/ Release(e) \/ Clear(e)

Window(e) == Chunk(e) \/ Finish(e)

Next ==
  \/ \E e \in Exports :
       \/ Command(e) \/ Window(e)
       \/ Refuse(e) \/ Invoke(e) \/ Fails(e) \/ RenameFails(e) \/ ServerAnswers(e)
       \/ Abort(e) \/ WindowCloses(e) \/ Stop(e)
  \/ PowerLoss

Spec == Init /\ [][Next]_vars

\* tokio polls the tasks of a command, and a window that is open makes the next
\* call of its session.  A select! whose token has fired takes that arm before
\* it has served the other one for ever: a stream is finite.  The server owes no
\* row, nothing has to fail and nobody has to press Stop.
Fairness(e) == WF_vars(Command(e)) /\ WF_vars(Interrupt(e)) /\ WF_vars(Window(e))
FairSpec == Spec /\ \A e \in Exports : Fairness(e)

(***************************************************************************)
(* Properties.                                                             *)
(***************************************************************************)

\* Types; no file grows past its export, and the channel of a dump never
\* holds more than its capacity.
TypeOK ==
  /\ job \in [Exports -> Jobs]
  /\ pc \in [Exports -> Places]
  /\ temps \subseteq Exports /\ synced \subseteq Exports
  /\ written \in [Exports -> Nat] /\ sent \in [Exports -> Nat]
  /\ shows \in [Targets -> Exports \union {Old}]
  /\ stream \in [Exports -> Streams]
  /\ tokens \subseteq Exports /\ fired \subseteq Exports /\ gone \subseteq Exports
  /\ verdict \in [Exports -> {"none", "ok", "error", "cancelled"}]
  /\ losses \in 0..MaxLosses
  /\ \A e \in Exports : /\ written[e] <= Whole(e)
                        /\ pc[e] = "pumping" => Queued(e) \in 0..Capacity

\* An export that is over has left neither a temporary file nor a token
\* behind, however it ended (teardown_session, atomic_write, run_schema_dump).
NoLeftovers ==
  \A e \in Exports : pc[e] = "over" => e \notin temps \union tokens

\* The target holds its old content or one whole export at any time, after a
\* power loss too; an export that failed, or that was stopped while it had rows
\* to write, never replaces it; and the answer says which.
Shown(t) == IF shows[t] = Old \/ written[shows[t]] = Whole(shows[t]) THEN shows[t] ELSE "torn"

\* Its token was fired while it had rows to write.
Stopped(e) == e \in fired /\ Rows(e) > 0 /\ written[e] <= Rows(e)

Fate(e) ==
  CASE verdict[e] = "ok" -> "landed"
    [] verdict[e] \in {"error", "cancelled"} -> "dropped"
    [] verdict[e] = "none" /\ (pc[e] = "dead" \/ Stopped(e)) -> "dropped"
    [] OTHER -> "open"

Answered(e) ==
  IF pc[e] # "over" THEN "none" ELSE IF verdict[e] = "ok" THEN "done" ELSE "failed"

Promise == INSTANCE WholeFile WITH
  file <- [t \in Targets |-> Shown(t)],
  fate <- [e \in Exports |-> Fate(e)],
  answer <- [e \in Exports |-> Answered(e)]

ExportsReplaceWhole == Promise!Spec

\* An export whose Stop was taken comes to its end, even while the server keeps
\* silent if its adapter waits for the token too, unless its session has lost
\* its window.
StoppedExportReturns ==
  \A e \in Exports :
    e \in fired /\ (job[e].kind = "dump" => job[e].prompt)
      ~> pc[e] \in {"over", "dead"} \/ e \in gone
=============================================================================
