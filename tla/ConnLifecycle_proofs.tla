------------------------ MODULE ConnLifecycle_proofs ------------------------
(***************************************************************************)
(* Safety and liveness of ConnLifecycle for any number of concurrent       *)
(* commands, sessions and adapters, any retry limit and any kind of engine.*)
(*                                                                         *)
(* The invariants are proved in layers, each inductive given those before  *)
(* it: the types; who holds the guard and what the maps hold meanwhile;    *)
(* who owns each tunnel; who owns each adapter; whether a pool is there.   *)
(* Liveness comes last, on the premise GuardsSuffice, and rests on the two *)
(* first layers.                                                           *)
(***************************************************************************)
EXTENDS ConnLifecycle, TLAPS

USE DEF maps, Procs

-----------------------------------------------------------------------------
(* Types *)

\* A connect call that holds the guard is building a session.
Building == \A c \in Calls : pc[c] \in ConnectPcs => sess[c] \in Sessions

\* A task that is still running has not used up its retries.
Counting == \A s \in Sessions : pc[s] # "off" => failures[s] <= MaxRetries

Typing == TypeOK /\ Building /\ Counting

LEMMA TypingInit == Init => Typing
  BY ConnAssumption DEF Init, Typing, TypeOK, Building, Counting, CallPcs, ConnectPcs, TaskPcs,
     Statuses

LEMMA TypingStep == Typing /\ [Next]_vars => Typing'
<1> SUFFICES ASSUME Typing, [Next]_vars PROVE Typing'
  OBVIOUS
<1> USE ConnAssumption DEF Typing, TypeOK, Building, Counting, Statuses, CallPcs, TaskPcs,
        ConnectPcs, DisconnectPcs, Suspended, Running
<1>1. ASSUME NEW c \in Calls, ConnectCall(c) PROVE Typing'
  BY <1>1 DEF ConnectCall, Goto
<1>2. ASSUME NEW c \in Calls, ConnectRejected(c) PROVE Typing'
  BY <1>2 DEF ConnectRejected, Goto
<1>3. ASSUME NEW c \in Calls, ConnectBegin(c) PROVE Typing'
  BY <1>3 DEF ConnectBegin, Goto, FreshSessions
<1>4. ASSUME NEW c \in Calls, TunnelOpened(c) PROVE Typing'
  BY <1>4 DEF TunnelOpened, Goto
<1>5. ASSUME NEW c \in Calls, ConnectFailed(c) PROVE Typing'
  BY <1>5 DEF ConnectFailed, Goto
<1>6. ASSUME NEW c \in Calls, DialOk(c) PROVE Typing'
  BY <1>6 DEF DialOk, Goto, FreshAdapters
<1>7. ASSUME NEW c \in Calls, InstallHandle(c) PROVE Typing'
  BY <1>7 DEF InstallHandle, AbortDrops, AbortMarks, Abortees
<1>8. ASSUME NEW c \in Calls, InstallAdapter(c) PROVE Typing'
  BY <1>8 DEF InstallAdapter, Goto, Displace, TakeTunnel
<1>9. ASSUME NEW c \in Calls, RetirePredecessor(c) PROVE Typing'
  BY <1>9 DEF RetirePredecessor, Goto, HangUp
<1>10. ASSUME NEW c \in Calls, ConnectDone(c) PROVE Typing'
  BY <1>10 DEF ConnectDone, Goto
<1>11. ASSUME NEW c \in Calls, DisconnectCall(c) PROVE Typing'
  BY <1>11 DEF DisconnectCall, Goto
<1>12. ASSUME NEW c \in Calls, DisconnectBegin(c) PROVE Typing'
  BY <1>12 DEF DisconnectBegin, AbortTask, AbortDrops, AbortMarks, Abortees,
     Displace
<1>13. ASSUME NEW c \in Calls, CloseOk(c) PROVE Typing'
  BY <1>13 DEF CloseOk, Goto, CloseAdapter, HangUp
<1>14. ASSUME NEW c \in Calls, CloseFailed(c) PROVE Typing'
  BY <1>14 DEF CloseFailed, Goto, CloseAdapter, HangUp
<1>15. ASSUME NEW c \in Calls, DisconnectDone(c) PROVE Typing'
  BY <1>15 DEF DisconnectDone, Goto
<1>16. ASSUME NEW c \in Calls, SwitchCall(c) PROVE Typing'
  BY <1>16 DEF SwitchCall, Goto
<1>17. ASSUME NEW c \in Calls, SwitchReply(c) PROVE Typing'
  BY <1>17 DEF SwitchReply, Goto
<1>18. ASSUME NEW c \in Calls, SwitchRecord(c) PROVE Typing'
  BY <1>18 DEF SwitchRecord, Goto
<1>19. ASSUME NEW s \in Sessions, Wake(s) PROVE Typing'
  BY <1>19 DEF Wake, Goto
<1>20. ASSUME NEW s \in Sessions, PingOk(s) PROVE Typing'
  BY <1>20 DEF PingOk, Goto
<1>21. ASSUME NEW s \in Sessions, PingFailed(s) PROVE Typing'
  BY <1>21 DEF PingFailed, Goto
<1>22. ASSUME NEW s \in Sessions, MarkLost(s) PROVE Typing'
  BY <1>22 DEF MarkLost, Goto
<1>23. ASSUME NEW s \in Sessions, EmitLost(s) PROVE Typing'
  BY <1>23 DEF EmitLost, Goto, Suspend, GivesUp
<1>24. ASSUME NEW s \in Sessions, RedialOk(s) PROVE Typing'
  BY <1>24 DEF RedialOk, Goto, FreshAdapters
<1>25. ASSUME NEW s \in Sessions, RedialFailed(s) PROVE Typing'
  BY <1>25 DEF RedialFailed, Goto
<1>26. ASSUME NEW s \in Sessions, MarkFailed(s) PROVE Typing'
  BY <1>26 DEF MarkFailed, Goto
<1>27. ASSUME NEW s \in Sessions, EmitFailed(s) PROVE Typing'
  BY <1>27 DEF EmitFailed, Goto, Suspend
<1>28. ASSUME NEW s \in Sessions, SwapBlocked(s) PROVE Typing'
  BY <1>28 DEF SwapBlocked, Goto, Suspend
<1>29. ASSUME NEW s \in Sessions, SwapAbandoned(s) PROVE Typing'
  BY <1>29 DEF SwapAbandoned, Goto, TornDown
<1>30. ASSUME NEW s \in Sessions, SwapInstalled(s) PROVE Typing'
  BY <1>30 DEF SwapInstalled, Goto, TornDown, Displace
<1>31. ASSUME NEW s \in Sessions, SwapDone(s) PROVE Typing'
  BY <1>31 DEF SwapDone, Goto, HangUp
<1>32. ASSUME NEW s \in Sessions, SwapCancelled(s) PROVE Typing'
  BY <1>32 DEF SwapCancelled, Goto
<1>33. ASSUME NEW s \in Sessions, EmitConnected(s) PROVE Typing'
  BY <1>33 DEF EmitConnected, Goto, Suspend
<1>34. ASSUME NEW s \in Sessions, SwapDiscarded(s) PROVE Typing'
  BY <1>34 DEF SwapDiscarded, Goto
<1>35. CASE UNCHANGED vars \/ \E a \in Adapters : ServerReaps(a)
  BY <1>35 DEF vars, ServerReaps
<1> QED
  BY <1>1, <1>2, <1>3, <1>4, <1>5, <1>6, <1>7, <1>8, <1>9, <1>10, <1>11, <1>12,
     <1>13, <1>14, <1>15, <1>16, <1>17, <1>18, <1>19, <1>20, <1>21, <1>22, <1>23,
     <1>24, <1>25, <1>26, <1>27, <1>28, <1>29, <1>30, <1>31, <1>32, <1>33, <1>34,
     <1>35 DEF
     Next, Request, ConnectEnter, ConnectStep, DisconnectStep, SwitchStep, TaskStep,
     SwapEnter

LEMMA TypingInvariant == Spec => []Typing
<1> QED
  BY TypingInit, TypingStep, PTL DEF Spec

\* Every variable keeps its type; in particular no keep-alive task counts more
\* failures than the limit and the one at which it gives up.
THEOREM TypeCorrect == Spec => []TypeOK
<1>1. Typing => TypeOK
  BY DEF Typing
<1> QED
  BY <1>1, TypingInvariant, PTL

-----------------------------------------------------------------------------
(* The guard, the maps and the status *)

\* The pcs at which a process holds the guard of the connection.
HolderPcs == ConnectPcs \cup DisconnectPcs \cup {"displace", "discard"}
Owner == \A p \in Procs : pc[p] \in HolderPcs <=> guard = p

\* What a disconnect has taken out stays out while it holds the guard.
Cleared ==
  \A c \in Calls : /\ pc[c] \in DisconnectPcs => adapter = Nobody /\ handle = Nobody
                   /\ pc[c] = "settle" => tunnel = Nobody

\* While a connect holds the guard the connection is not Disconnected, and its
\* own keep-alive handle is registered before its adapter; a swap that found a
\* handle keeps it until it releases the guard.
Raising ==
  /\ \A c \in Calls : /\ pc[c] \in ConnectPcs => status # "Disconnected"
                      /\ pc[c] \in {"install", "retire", "publish"} => handle # Nobody
  /\ \A s \in Sessions : pc[s] = "displace" => handle # Nobody

Registry == /\ Owner /\ Cleared /\ Raising
            /\ TornDownClean /\ LiveHasHandle /\ OnePingLoop /\ NotStuckConnecting

LEMMA RegistryInit == Init => Registry
  BY ConnAssumption DEF Init, Registry, Owner, Cleared, Raising, TornDownClean, LiveHasHandle,
     OnePingLoop, NotStuckConnecting, HolderPcs, ConnectPcs, DisconnectPcs

LEMMA RegistryStep == Typing /\ Registry /\ [Next]_vars => Registry'
<1> SUFFICES ASSUME Typing, Registry, [Next]_vars PROVE Registry'
  OBVIOUS
<1> USE ConnAssumption DEF Typing, TypeOK, Building, Registry, Owner, Cleared, Raising,
        TornDownClean, LiveHasHandle, OnePingLoop, NotStuckConnecting, HolderPcs, CallPcs,
        TaskPcs, ConnectPcs, DisconnectPcs, Suspended, Running
<1>1. ASSUME NEW c \in Calls, ConnectCall(c) PROVE Registry'
  BY <1>1 DEF ConnectCall, Goto
<1>2. ASSUME NEW c \in Calls, ConnectRejected(c) PROVE Registry'
  BY <1>2 DEF ConnectRejected, Goto
<1>3. ASSUME NEW c \in Calls, ConnectBegin(c) PROVE Registry'
  BY <1>3 DEF ConnectBegin, Goto, FreshSessions
<1>4. ASSUME NEW c \in Calls, TunnelOpened(c) PROVE Registry'
  BY <1>4 DEF TunnelOpened, Goto
<1>5. ASSUME NEW c \in Calls, ConnectFailed(c) PROVE Registry'
  BY <1>5 DEF ConnectFailed, Goto
<1>6. ASSUME NEW c \in Calls, DialOk(c) PROVE Registry'
  BY <1>6 DEF DialOk, Goto, FreshAdapters
<1>7. ASSUME NEW c \in Calls, InstallHandle(c) PROVE Registry'
  BY <1>7 DEF InstallHandle, AbortDrops, AbortMarks, Abortees
<1>8. ASSUME NEW c \in Calls, InstallAdapter(c) PROVE Registry'
  BY <1>8 DEF InstallAdapter, Goto, Displace, TakeTunnel
<1>9. ASSUME NEW c \in Calls, RetirePredecessor(c) PROVE Registry'
  BY <1>9 DEF RetirePredecessor, Goto, HangUp
<1>10. ASSUME NEW c \in Calls, ConnectDone(c) PROVE Registry'
  BY <1>10 DEF ConnectDone, Goto
<1>11. ASSUME NEW c \in Calls, DisconnectCall(c) PROVE Registry'
  BY <1>11 DEF DisconnectCall, Goto
<1>12. ASSUME NEW c \in Calls, DisconnectBegin(c) PROVE Registry'
  BY <1>12 DEF DisconnectBegin, AbortTask, AbortDrops, AbortMarks, Abortees,
     Displace
<1>13. ASSUME NEW c \in Calls, CloseOk(c) PROVE Registry'
  BY <1>13 DEF CloseOk, Goto, CloseAdapter, HangUp
<1>14. ASSUME NEW c \in Calls, CloseFailed(c) PROVE Registry'
  BY <1>14 DEF CloseFailed, Goto, CloseAdapter, HangUp
<1>15. ASSUME NEW c \in Calls, DisconnectDone(c) PROVE Registry'
  BY <1>15 DEF DisconnectDone, Goto
<1>16. ASSUME NEW c \in Calls, SwitchCall(c) PROVE Registry'
  BY <1>16 DEF SwitchCall, Goto
<1>17. ASSUME NEW c \in Calls, SwitchReply(c) PROVE Registry'
  BY <1>17 DEF SwitchReply, Goto
<1>18. ASSUME NEW c \in Calls, SwitchRecord(c) PROVE Registry'
  BY <1>18 DEF SwitchRecord, Goto
<1>19. ASSUME NEW s \in Sessions, Wake(s) PROVE Registry'
  BY <1>19 DEF Wake, Goto
<1>20. ASSUME NEW s \in Sessions, PingOk(s) PROVE Registry'
  BY <1>20 DEF PingOk, Goto
<1>21. ASSUME NEW s \in Sessions, PingFailed(s) PROVE Registry'
  BY <1>21 DEF PingFailed, Goto
<1>22. ASSUME NEW s \in Sessions, MarkLost(s) PROVE Registry'
  BY <1>22 DEF MarkLost, Goto
<1>23. ASSUME NEW s \in Sessions, EmitLost(s) PROVE Registry'
  BY <1>23 DEF EmitLost, Goto, Suspend, GivesUp
<1>24. ASSUME NEW s \in Sessions, RedialOk(s) PROVE Registry'
  BY <1>24 DEF RedialOk, Goto, FreshAdapters
<1>25. ASSUME NEW s \in Sessions, RedialFailed(s) PROVE Registry'
  BY <1>25 DEF RedialFailed, Goto
<1>26. ASSUME NEW s \in Sessions, MarkFailed(s) PROVE Registry'
  BY <1>26 DEF MarkFailed, Goto
<1>27. ASSUME NEW s \in Sessions, EmitFailed(s) PROVE Registry'
  BY <1>27 DEF EmitFailed, Goto, Suspend
<1>28. ASSUME NEW s \in Sessions, SwapBlocked(s) PROVE Registry'
  BY <1>28 DEF SwapBlocked, Goto, Suspend
<1>29. ASSUME NEW s \in Sessions, SwapAbandoned(s) PROVE Registry'
  BY <1>29 DEF SwapAbandoned, Goto, TornDown
<1>30. ASSUME NEW s \in Sessions, SwapInstalled(s) PROVE Registry'
  BY <1>30 DEF SwapInstalled, Goto, TornDown, Displace
<1>31. ASSUME NEW s \in Sessions, SwapDone(s) PROVE Registry'
  BY <1>31 DEF SwapDone, Goto, HangUp
<1>32. ASSUME NEW s \in Sessions, SwapCancelled(s) PROVE Registry'
  BY <1>32 DEF SwapCancelled, Goto
<1>33. ASSUME NEW s \in Sessions, EmitConnected(s) PROVE Registry'
  BY <1>33 DEF EmitConnected, Goto, Suspend
<1>34. ASSUME NEW s \in Sessions, SwapDiscarded(s) PROVE Registry'
  BY <1>34 DEF SwapDiscarded, Goto
<1>35. CASE UNCHANGED vars \/ \E a \in Adapters : ServerReaps(a)
  BY <1>35 DEF vars, ServerReaps
<1> QED
  BY <1>1, <1>2, <1>3, <1>4, <1>5, <1>6, <1>7, <1>8, <1>9, <1>10, <1>11, <1>12,
     <1>13, <1>14, <1>15, <1>16, <1>17, <1>18, <1>19, <1>20, <1>21, <1>22, <1>23,
     <1>24, <1>25, <1>26, <1>27, <1>28, <1>29, <1>30, <1>31, <1>32, <1>33, <1>34,
     <1>35 DEF
     Next, Request, ConnectEnter, ConnectStep, DisconnectStep, SwitchStep, TaskStep,
     SwapEnter

LEMMA RegistryInvariant == Spec => [](Typing /\ Registry)
<1> QED
  BY TypingInvariant, RegistryInit, RegistryStep, PTL DEF Spec

\* A connection reported Disconnected has no adapter, no keep-alive task and no
\* tunnel registered: a reconnect that was dialling while `disconnect` ran can
\* not put one back (reconnect_swap reads the handle under the guard).
THEOREM DisconnectedIsClean == Spec => []TornDownClean
<1>1. Registry => TornDownClean
  BY DEF Registry
<1> QED
  BY <1>1, RegistryInvariant, PTL

\* A registered adapter always has a registered keep-alive handle, so the
\* handle's absence is a sound sign of a teardown for reconnect_swap.
THEOREM AdapterHasHandle == Spec => []LiveHasHandle
<1>1. Registry => LiveHasHandle
  BY DEF Registry
<1> QED
  BY <1>1, RegistryInvariant, PTL

\* Any number of overlapping connects leaves one task that keeps pinging.
THEOREM SinglePingLoop == Spec => []OnePingLoop
<1>1. Registry => OnePingLoop
  BY DEF Registry
<1> QED
  BY <1>1, RegistryInvariant, PTL

\* Whatever way a connect ends, Connecting does not outlive it.
THEOREM ConnectingEnds == Spec => []NotStuckConnecting
<1>1. Registry => NotStuckConnecting
  BY DEF Registry
<1> QED
  BY <1>1, RegistryInvariant, PTL

\* Without a key-value engine no call is ever in a database switch.
NoSwitch == \A c \in Calls : pc[c] \notin {"select", "record"}

LEMMA NoSwitchInvariant == ~KvSwitch /\ Spec => []NoSwitch
<1> SUFFICES ASSUME ~KvSwitch PROVE Spec => []NoSwitch
  OBVIOUS
<1>1. Init => NoSwitch
  BY ConnAssumption DEF Init, NoSwitch
<1>2. Typing /\ NoSwitch /\ [Next]_vars => NoSwitch'
  <2> SUFFICES ASSUME Typing, NoSwitch, [Next]_vars PROVE NoSwitch'
    OBVIOUS
  <2> USE ConnAssumption DEF Typing, TypeOK, NoSwitch, CallPcs, TaskPcs, ConnectPcs,
          DisconnectPcs, Suspended, Running
  <2>1. ASSUME NEW c \in Calls, Request(c) \/ ConnectEnter(c) PROVE NoSwitch'
    BY <2>1 DEF Request, ConnectEnter, ConnectCall, DisconnectCall, SwitchCall, ConnectRejected,
       ConnectBegin, Goto
  <2>2. ASSUME NEW c \in Calls, ConnectStep(c) PROVE NoSwitch'
    BY <2>2 DEF ConnectStep, TunnelOpened, ConnectFailed, DialOk, InstallHandle, InstallAdapter,
       RetirePredecessor, ConnectDone, Goto, AbortDrops, Abortees
  <2>3. ASSUME NEW c \in Calls, DisconnectBegin(c) \/ DisconnectStep(c) PROVE NoSwitch'
    BY <2>3 DEF DisconnectStep, DisconnectBegin, CloseOk, CloseFailed, DisconnectDone, AbortTask,
       AbortDrops, Abortees, Goto
  <2>4. ASSUME NEW c \in Calls, SwitchStep(c) PROVE NoSwitch'
    BY <2>4 DEF SwitchStep, SwitchReply, SwitchRecord, Goto
  <2>5. ASSUME NEW s \in Sessions, TaskStep(s) \/ SwapEnter(s) PROVE NoSwitch'
    BY <2>5 DEF TaskStep, SwapEnter, Wake, PingOk, PingFailed, MarkLost, EmitLost, RedialOk,
       RedialFailed, MarkFailed, EmitFailed, SwapBlocked, SwapAbandoned, SwapInstalled,
       SwapDiscarded, SwapDone, SwapCancelled, EmitConnected, Goto, Suspend
  <2>6. CASE UNCHANGED vars \/ \E a \in Adapters : ServerReaps(a)
    BY <2>6 DEF vars, ServerReaps
  <2> QED
    BY <2>1, <2>2, <2>3, <2>4, <2>5, <2>6 DEF Next
<1> QED
  BY <1>1, <1>2, TypingInvariant, PTL DEF Spec

\* Where no key-value switch can run, a connection that was torn down becomes
\* Connected again only through a connect: no late reconnect revives it.
THEOREM TornDownStays == ~KvSwitch /\ Spec => TornDownStaysDown
<1> SUFFICES ASSUME ~KvSwitch PROVE Spec => TornDownStaysDown
  OBVIOUS
<1>1. Typing /\ Registry /\ NoSwitch /\ [Next]_vars
        => [status = "Disconnected" => status' # "Connected"]_status
  <2> SUFFICES ASSUME Typing, Registry, NoSwitch, [Next]_vars, status = "Disconnected"
               PROVE  status' # "Connected"
    OBVIOUS
  <2> USE ConnAssumption DEF Typing, TypeOK, NoSwitch, CallPcs, TaskPcs, ConnectPcs,
          DisconnectPcs, Suspended, Running, Registry, Raising,
          TornDownClean
  <2>1. ASSUME NEW c \in Calls, Request(c) \/ ConnectEnter(c) PROVE status' # "Connected"
    BY <2>1 DEF Request, ConnectEnter, ConnectCall, DisconnectCall, SwitchCall, ConnectRejected,
       ConnectBegin, Goto
  <2>2. ASSUME NEW c \in Calls, ConnectStep(c) PROVE status' # "Connected"
    BY <2>2 DEF ConnectStep, TunnelOpened, ConnectFailed, DialOk, InstallHandle, InstallAdapter,
       RetirePredecessor, ConnectDone, Goto, AbortDrops, Abortees
  <2>3. ASSUME NEW c \in Calls, DisconnectBegin(c) \/ DisconnectStep(c) PROVE status' # "Connected"
    BY <2>3 DEF DisconnectStep, DisconnectBegin, CloseOk, CloseFailed, DisconnectDone, AbortTask,
       AbortDrops, Abortees, Goto
  <2>4. ASSUME NEW c \in Calls, SwitchStep(c) PROVE status' # "Connected"
    BY <2>4 DEF SwitchStep, SwitchReply, SwitchRecord, Goto
  <2>5. ASSUME NEW s \in Sessions, TaskStep(s) \/ SwapEnter(s) PROVE status' # "Connected"
    BY <2>5 DEF TaskStep, SwapEnter, Wake, PingOk, PingFailed, MarkLost, EmitLost, RedialOk,
       RedialFailed, MarkFailed, EmitFailed, SwapBlocked, SwapAbandoned, SwapInstalled,
       SwapDiscarded, SwapDone, SwapCancelled, EmitConnected, Goto, Suspend
  <2>6. CASE UNCHANGED vars \/ \E a \in Adapters : ServerReaps(a)
    BY <2>6 DEF vars, ServerReaps
  <2> QED
    BY <2>1, <2>2, <2>3, <2>4, <2>5, <2>6 DEF Next
<1> QED
  BY <1>1, NoSwitchInvariant, RegistryInvariant, PTL DEF Spec, TornDownStaysDown

\* On a key-value engine too, what flips a torn-down connection to Connected is
\* the record of a database switch, and no such switch is sent any more: it was
\* sent before the disconnect began and answered after it.
RevivedByEarlierSwitch ==
  [][status = "Disconnected" =>
       /\ status' = "Connected" => \E c \in Calls : pc[c] = "record" /\ pc'[c] = "idle"
       /\ \A c \in Calls : pc'[c] = "select" => pc[c] = "select"]_vars

\* For every engine: no reconnect and no aborted task revives a connection.
THEOREM OnlyAnEarlierSwitchRevives == Spec => RevivedByEarlierSwitch
<1>1. ASSUME Typing, Registry, [Next]_vars, status = "Disconnected"
      PROVE  /\ status' = "Connected" => \E c \in Calls : pc[c] = "record" /\ pc'[c] = "idle"
             /\ \A c \in Calls : pc'[c] = "select" => pc[c] = "select"
  <2> DEFINE Revive == \E c \in Calls : pc[c] = "record" /\ pc'[c] = "idle"
             Late   == \E c \in Calls : pc'[c] = "select" /\ pc[c] # "select"
  <2> SUFFICES (status' = "Connected" => Revive) /\ ~Late
    OBVIOUS
  <2> USE <1>1, ConnAssumption DEF Typing, TypeOK, CallPcs, TaskPcs, ConnectPcs,
          DisconnectPcs, Suspended, Running, Registry, Raising, TornDownClean
  <2>1. ASSUME NEW c \in Calls, Request(c) \/ ConnectEnter(c) PROVE status' # "Connected" /\ ~Late
    BY <2>1 DEF Request, ConnectEnter, ConnectCall, DisconnectCall, SwitchCall, ConnectRejected,
       ConnectBegin, Goto
  <2>2. ASSUME NEW c \in Calls, ConnectStep(c) PROVE status' # "Connected" /\ ~Late
    BY <2>2 DEF ConnectStep, TunnelOpened, ConnectFailed, DialOk, InstallHandle, InstallAdapter,
       RetirePredecessor, ConnectDone, Goto, AbortDrops, Abortees
  <2>3. ASSUME NEW c \in Calls, DisconnectBegin(c) \/ DisconnectStep(c)
        PROVE  status' # "Connected" /\ ~Late
    BY <2>3 DEF DisconnectStep, DisconnectBegin, CloseOk, CloseFailed, DisconnectDone, AbortTask,
       AbortDrops, Abortees, Goto
  <2>4. ASSUME NEW c \in Calls, SwitchStep(c) PROVE (status' = "Connected" => Revive) /\ ~Late
    BY <2>4 DEF SwitchStep, SwitchReply, SwitchRecord, Goto
  <2>5. ASSUME NEW s \in Sessions, TaskStep(s) \/ SwapEnter(s) PROVE status' # "Connected" /\ ~Late
    BY <2>5 DEF TaskStep, SwapEnter, Wake, PingOk, PingFailed, MarkLost, EmitLost, RedialOk,
       RedialFailed, MarkFailed, EmitFailed, SwapBlocked, SwapAbandoned, SwapInstalled,
       SwapDiscarded, SwapDone, SwapCancelled, EmitConnected, Goto, Suspend
  <2>6. CASE UNCHANGED vars \/ \E a \in Adapters : ServerReaps(a)
    BY <2>6 DEF vars, ServerReaps
  <2> HIDE DEF Revive, Late
  <2> QED
    BY <2>1, <2>2, <2>3, <2>4, <2>5, <2>6 DEF Next
<1> QED
  BY <1>1, RegistryInvariant, PTL DEF Spec, RevivedByEarlierSwitch

\* The guard is never left behind: its holder is a command or a swap between
\* its acquisition and its release, never one that returned, waits for it or was
\* aborted and dropped, and no two processes are in there together.
GuardIsInUse ==
  /\ guard # Nobody => guard \in Procs /\ pc[guard] \in HolderPcs
  /\ \A p, q \in Procs : pc[p] \in HolderPcs /\ pc[q] \in HolderPcs => p = q

\* Wherever a task is aborted, the connection guard stays with who is using it.
THEOREM GuardNeverStranded == Spec => []GuardIsInUse
<1>1. Typing /\ Registry => GuardIsInUse
  BY DEF Typing, TypeOK, Registry, Owner, GuardIsInUse
<1> QED
  BY <1>1, RegistryInvariant, PTL

-----------------------------------------------------------------------------
(* Who owns each tunnel *)

\* A connect call keeps its session until it returns and a predecessor's tunnel
\* only while it retires it; without SSH nothing listens.
TunnelOwners ==
  /\ \A c \in Calls : /\ pc[c] \notin ConnectPcs => sess[c] = Nobody
                      /\ pc[c] # "retire" => taken[c] = Nobody
                      /\ pc[c] = "retire" => tunnel = Nobody
                      /\ pc[c] = "publish" /\ SshEnabled => tunnel = sess[c]
                      /\ pc[c] = "tunnel" => SshEnabled
  /\ ~SshEnabled => listening = {}

Tunnels == TunnelOwners /\ NoLeakedTunnel

LEMMA TunnelsInit == Init => Tunnels
  BY DEF Init, Tunnels, TunnelOwners, NoLeakedTunnel

LEMMA TunnelsStep == Typing /\ Owner /\ Tunnels /\ [Next]_vars => Tunnels'
<1> SUFFICES ASSUME Typing, Owner, Tunnels, [Next]_vars PROVE Tunnels'
  OBVIOUS
<1> USE ConnAssumption DEF Typing, TypeOK, Building, Owner, Tunnels, TunnelOwners,
        NoLeakedTunnel, HolderPcs, CallPcs, ConnectPcs, DisconnectPcs
<1>1. ASSUME NEW c \in Calls, ConnectCall(c) PROVE Tunnels'
  BY <1>1 DEF ConnectCall, Goto
<1>2. ASSUME NEW c \in Calls, ConnectRejected(c) PROVE Tunnels'
  BY <1>2 DEF ConnectRejected, Goto
<1>3. ASSUME NEW c \in Calls, ConnectBegin(c) PROVE Tunnels'
  BY <1>3 DEF ConnectBegin, Goto, FreshSessions
<1>4. ASSUME NEW c \in Calls, TunnelOpened(c) PROVE Tunnels'
  BY <1>4 DEF TunnelOpened, Goto
<1>5. ASSUME NEW c \in Calls, ConnectFailed(c) PROVE Tunnels'
  BY <1>5 DEF ConnectFailed, Goto
<1>6. ASSUME NEW c \in Calls, DialOk(c) PROVE Tunnels'
  BY <1>6 DEF DialOk, Goto, FreshAdapters
<1>7. ASSUME NEW c \in Calls, InstallHandle(c) PROVE Tunnels'
  BY <1>7 DEF InstallHandle, AbortDrops, AbortMarks, Abortees
<1>8. ASSUME NEW c \in Calls, InstallAdapter(c) PROVE Tunnels'
  BY <1>8 DEF InstallAdapter, Goto, Displace, TakeTunnel
<1>9. ASSUME NEW c \in Calls, RetirePredecessor(c) PROVE Tunnels'
  BY <1>9 DEF RetirePredecessor, Goto, HangUp
<1>10. ASSUME NEW c \in Calls, ConnectDone(c) PROVE Tunnels'
  BY <1>10 DEF ConnectDone, Goto
<1>11. ASSUME NEW c \in Calls, DisconnectCall(c) PROVE Tunnels'
  BY <1>11 DEF DisconnectCall, Goto
<1>12. ASSUME NEW c \in Calls, DisconnectBegin(c) PROVE Tunnels'
  BY <1>12 DEF DisconnectBegin, AbortTask, AbortDrops, AbortMarks, Abortees,
     Displace
<1>13. ASSUME NEW c \in Calls, CloseOk(c) PROVE Tunnels'
  BY <1>13 DEF CloseOk, Goto, CloseAdapter, HangUp
<1>14. ASSUME NEW c \in Calls, CloseFailed(c) PROVE Tunnels'
  BY <1>14 DEF CloseFailed, Goto, CloseAdapter, HangUp
<1>15. ASSUME NEW c \in Calls, DisconnectDone(c) PROVE Tunnels'
  BY <1>15 DEF DisconnectDone, Goto
<1>16. ASSUME NEW c \in Calls, SwitchCall(c) PROVE Tunnels'
  BY <1>16 DEF SwitchCall, Goto
<1>17. ASSUME NEW c \in Calls, SwitchReply(c) PROVE Tunnels'
  BY <1>17 DEF SwitchReply, Goto
<1>18. ASSUME NEW c \in Calls, SwitchRecord(c) PROVE Tunnels'
  BY <1>18 DEF SwitchRecord, Goto
<1>19. ASSUME NEW s \in Sessions, TaskStep(s) \/ SwapEnter(s) PROVE Tunnels'
  <2>1. UNCHANGED <<sess, taken, tunnel, listening>> /\ \A c \in Calls : pc'[c] = pc[c]
    BY <1>19 DEF TaskStep, SwapEnter, Wake, PingOk, PingFailed, MarkLost, EmitLost, RedialOk,
       RedialFailed, MarkFailed, EmitFailed, SwapBlocked, SwapAbandoned, SwapInstalled,
       SwapDiscarded, SwapDone, SwapCancelled, EmitConnected, Goto, Suspend, HangUp, Displace
  <2> QED
    BY <2>1
<1>20. CASE UNCHANGED vars \/ \E a \in Adapters : ServerReaps(a)
  BY <1>20 DEF vars, ServerReaps
<1> QED
  BY <1>1, <1>2, <1>3, <1>4, <1>5, <1>6, <1>7, <1>8, <1>9, <1>10, <1>11, <1>12,
     <1>13, <1>14, <1>15, <1>16, <1>17, <1>18, <1>19, <1>20 DEF Next, Request,
     ConnectEnter, ConnectStep, DisconnectStep, SwitchStep

LEMMA TunnelsInvariant == Spec => [](Typing /\ Registry /\ Tunnels)
<1>1. Registry => Owner
  BY DEF Registry
<1> QED
  BY <1>1, RegistryInvariant, TunnelsInit, TunnelsStep, PTL DEF Spec

\* Every SSH tunnel that is up is registered or held by the connect call that
\* will register or close it.
THEOREM TunnelsOwned == Spec => []NoLeakedTunnel
<1>1. Tunnels => NoLeakedTunnel
  BY DEF Tunnels
<1> QED
  BY <1>1, TunnelsInvariant, PTL

\* When a disconnect call returns, also with the driver's error, nothing of the
\* connection is registered and no tunnel of it listens.
THEOREM DisconnectCleansUp == Spec => DisconnectLeavesNothing
<1> DEFINE Step(c) == pc[c] \in DisconnectPcs /\ pc'[c] = "idle" =>
                         /\ adapter' = Nobody /\ handle' = Nobody /\ tunnel' = Nobody
                         /\ listening' = {}
<1>1. ASSUME Typing, Registry, Tunnels, [Next]_vars, NEW c \in Calls PROVE Step(c)
  <2> SUFFICES ASSUME pc[c] \in DisconnectPcs, pc'[c] = "idle"
               PROVE  /\ adapter' = Nobody /\ handle' = Nobody /\ tunnel' = Nobody
                      /\ listening' = {}
    OBVIOUS
  <2>1. /\ adapter = Nobody /\ handle = Nobody
        /\ pc[c] = "settle" => tunnel = Nobody
    BY <1>1 DEF Registry, Cleared
  <2>2. listening \subseteq {tunnel} \cap Sessions
    <3>1. \A d \in Calls : pc[d] \notin ConnectPcs
      BY <1>1 DEF Registry, Owner, HolderPcs, ConnectPcs, DisconnectPcs
    <3>2. \A d \in Calls : sess[d] = Nobody /\ taken[d] = Nobody
      BY <1>1, <3>1 DEF Tunnels, TunnelOwners, ConnectPcs
    <3> QED
      BY <1>1, <3>2, ConnAssumption DEF Tunnels, NoLeakedTunnel, Typing, TypeOK
  <2>3. CloseFailed(c) \/ DisconnectDone(c)
    <3> USE ConnAssumption DEF DisconnectPcs, ConnectPcs, Typing, TypeOK
    <3>1. ASSUME NEW d \in Calls, Request(d) \/ ConnectEnter(d) \/ ConnectStep(d) PROVE FALSE
      BY <1>1, <3>1 DEF Request, ConnectEnter, ConnectStep, ConnectCall, DisconnectCall,
         SwitchCall, ConnectRejected, ConnectBegin, TunnelOpened, ConnectFailed, DialOk,
         InstallHandle, InstallAdapter, RetirePredecessor, ConnectDone, Goto, AbortDrops,
         Abortees
    <3>2. ASSUME NEW d \in Calls, DisconnectBegin(d) \/ CloseOk(d) \/ SwitchStep(d) PROVE FALSE
      BY <1>1, <3>2 DEF DisconnectBegin, CloseOk, SwitchStep, SwitchReply, SwitchRecord, Goto,
         AbortTask, AbortDrops, Abortees
    <3>3. ASSUME NEW d \in Calls, CloseFailed(d) \/ DisconnectDone(d) PROVE d = c
      BY <1>1, <3>3 DEF CloseFailed, DisconnectDone, Goto
    <3>4. ASSUME NEW s \in Sessions, TaskStep(s) \/ SwapEnter(s) PROVE FALSE
      BY <1>1, <3>4 DEF TaskStep, SwapEnter, Wake, PingOk, PingFailed, MarkLost, EmitLost,
         RedialOk, RedialFailed, MarkFailed, EmitFailed, SwapBlocked, SwapAbandoned,
         SwapInstalled, SwapDiscarded, SwapDone, SwapCancelled, EmitConnected, Goto, Suspend
    <3>5. ~UNCHANGED vars /\ ~\E a \in Adapters : ServerReaps(a)
      BY DEF vars, ServerReaps
    <3> QED
      BY <1>1, <3>1, <3>2, <3>3, <3>4, <3>5 DEF Next, DisconnectStep
  <2> QED
    BY <1>1, <2>1, <2>2, <2>3, ConnAssumption DEF CloseFailed, DisconnectDone, CloseAdapter,
       HangUp
<1>2. Typing /\ Registry /\ Tunnels /\ [Next]_vars => [\A c \in Calls : Step(c)]_vars
  BY <1>1
<1> QED
  BY <1>2, TunnelsInvariant, PTL DEF Spec, DisconnectLeavesNothing

-----------------------------------------------------------------------------
(* Who owns each adapter *)

\* A process holds a dialled adapter exactly between its dial and its install,
\* a displaced one only while it holds the guard, and no two of the places
\* that can hold an adapter hold the same one.  The session of a connect call
\* has no task before the call spawns it.
AdapterOwners ==
  /\ \A p \in Procs : /\ new[p] # Nobody <=> pc[p] \in {"spawn", "install", "dialed", "swapWait",
                                                 "discard"}
                      /\ old[p] # Nobody => pc[p] \in {"retire", "close", "displace"}
                      /\ adapter # Nobody => adapter # new[p] /\ adapter # old[p]
  /\ \A c \in Calls : pc[c] \in {"tunnel", "dial", "spawn"} => pc[sess[c]] = "off"
  /\ \A p, q \in Procs : /\ new[p] = new[q] => new[p] = Nobody \/ p = q
                         /\ new[p] = old[q] => new[p] = Nobody

\* What is registered or in a process' hands is connected.
HeldIsOpen == Held \subseteq open

Adopted == AdapterOwners /\ HeldIsOpen

LEMMA AdoptedInit == Init => Adopted
<1> SUFFICES ASSUME Init PROVE Adopted
  OBVIOUS
<1>1. AdapterOwners
  BY ConnAssumption DEF Init, AdapterOwners
<1>2. Held = {}
  BY DEF Init, Held
<1> QED
  BY <1>1, <1>2 DEF Adopted, HeldIsOpen

LEMMA AdoptedStep == Typing /\ Owner /\ Adopted /\ [Next]_vars => Adopted'
<1> SUFFICES ASSUME Typing, Owner, Adopted, [Next]_vars PROVE Adopted'
  OBVIOUS
<1> USE ConnAssumption DEF Typing, TypeOK, Building, Owner, Adopted, AdapterOwners,
        HeldIsOpen, Held, HolderPcs, CallPcs, TaskPcs, ConnectPcs, DisconnectPcs, Suspended,
        Running
<1>1. ASSUME NEW c \in Calls, ConnectCall(c) PROVE Adopted'
  BY <1>1 DEF ConnectCall, Goto
<1>2. ASSUME NEW c \in Calls, ConnectRejected(c) PROVE Adopted'
  BY <1>2 DEF ConnectRejected, Goto
<1>3. ASSUME NEW c \in Calls, ConnectBegin(c) PROVE Adopted'
  BY <1>3 DEF ConnectBegin, Goto, FreshSessions
<1>4. ASSUME NEW c \in Calls, TunnelOpened(c) PROVE Adopted'
  BY <1>4 DEF TunnelOpened, Goto
<1>5. ASSUME NEW c \in Calls, ConnectFailed(c) PROVE Adopted'
  BY <1>5 DEF ConnectFailed, Goto
<1>6. ASSUME NEW c \in Calls, DialOk(c) PROVE Adopted'
  BY <1>6 DEF DialOk, Goto, FreshAdapters
<1>7. ASSUME NEW c \in Calls, InstallHandle(c) PROVE Adopted'
  <2>1. AdapterOwners'
    BY <1>7 DEF InstallHandle, AbortDrops, AbortMarks, Abortees
  <2>2. /\ open' = open /\ adapter' = adapter /\ old' = old
        /\ \A p \in Procs : new'[p] \in {new[p], Nobody}
    BY <1>7 DEF InstallHandle, AbortDrops, AbortMarks, Abortees
  <2>3. HeldIsOpen'
    BY <2>2
  <2> QED
    BY <2>1, <2>3
<1>8. ASSUME NEW c \in Calls, InstallAdapter(c) PROVE Adopted'
  BY <1>8 DEF InstallAdapter, Goto, Displace, TakeTunnel
<1>9. ASSUME NEW c \in Calls, RetirePredecessor(c) PROVE Adopted'
  BY <1>9 DEF RetirePredecessor, Goto, HangUp
<1>10. ASSUME NEW c \in Calls, ConnectDone(c) PROVE Adopted'
  BY <1>10 DEF ConnectDone, Goto
<1>11. ASSUME NEW c \in Calls, DisconnectCall(c) PROVE Adopted'
  BY <1>11 DEF DisconnectCall, Goto
<1>12. ASSUME NEW c \in Calls, DisconnectBegin(c) PROVE Adopted'
  <2>1. AdapterOwners'
    BY <1>12 DEF DisconnectBegin, AbortTask, AbortDrops, AbortMarks, Abortees, Displace
  <2>2. /\ open' = open /\ adapter' = Nobody
        /\ \A p \in Procs : old'[p] \in {old[p], adapter}
        /\ \A p \in Procs : new'[p] \in {new[p], Nobody}
    BY <1>12 DEF DisconnectBegin, AbortTask, AbortDrops, AbortMarks, Abortees, Displace
  <2>3. HeldIsOpen'
    BY <2>2
  <2> QED
    BY <2>1, <2>3
<1>13. ASSUME NEW c \in Calls, CloseOk(c) PROVE Adopted'
  BY <1>13 DEF CloseOk, Goto, CloseAdapter, HangUp
<1>14. ASSUME NEW c \in Calls, CloseFailed(c) PROVE Adopted'
  BY <1>14 DEF CloseFailed, Goto, CloseAdapter, HangUp
<1>15. ASSUME NEW c \in Calls, DisconnectDone(c) PROVE Adopted'
  BY <1>15 DEF DisconnectDone, Goto
<1>16. ASSUME NEW c \in Calls, SwitchCall(c) PROVE Adopted'
  BY <1>16 DEF SwitchCall, Goto
<1>17. ASSUME NEW c \in Calls, SwitchReply(c) PROVE Adopted'
  BY <1>17 DEF SwitchReply, Goto
<1>18. ASSUME NEW c \in Calls, SwitchRecord(c) PROVE Adopted'
  BY <1>18 DEF SwitchRecord, Goto
<1>19. ASSUME NEW s \in Sessions, Wake(s) PROVE Adopted'
  BY <1>19 DEF Wake, Goto
<1>20. ASSUME NEW s \in Sessions, PingOk(s) PROVE Adopted'
  BY <1>20 DEF PingOk, Goto
<1>21. ASSUME NEW s \in Sessions, PingFailed(s) PROVE Adopted'
  BY <1>21 DEF PingFailed, Goto
<1>22. ASSUME NEW s \in Sessions, MarkLost(s) PROVE Adopted'
  BY <1>22 DEF MarkLost, Goto
<1>23. ASSUME NEW s \in Sessions, EmitLost(s) PROVE Adopted'
  BY <1>23 DEF EmitLost, Goto, Suspend, GivesUp
<1>24. ASSUME NEW s \in Sessions, RedialOk(s) PROVE Adopted'
  BY <1>24 DEF RedialOk, Goto, FreshAdapters
<1>25. ASSUME NEW s \in Sessions, RedialFailed(s) PROVE Adopted'
  BY <1>25 DEF RedialFailed, Goto
<1>26. ASSUME NEW s \in Sessions, MarkFailed(s) PROVE Adopted'
  BY <1>26 DEF MarkFailed, Goto
<1>27. ASSUME NEW s \in Sessions, EmitFailed(s) PROVE Adopted'
  BY <1>27 DEF EmitFailed, Goto, Suspend
<1>28. ASSUME NEW s \in Sessions, SwapBlocked(s) PROVE Adopted'
  BY <1>28 DEF SwapBlocked, Goto, Suspend
<1>29. ASSUME NEW s \in Sessions, SwapAbandoned(s) PROVE Adopted'
  BY <1>29 DEF SwapAbandoned, Goto, TornDown
<1>30. ASSUME NEW s \in Sessions, SwapInstalled(s) PROVE Adopted'
  BY <1>30 DEF SwapInstalled, Goto, TornDown, Displace
<1>31. ASSUME NEW s \in Sessions, SwapDone(s) PROVE Adopted'
  BY <1>31 DEF SwapDone, Goto, HangUp
<1>32. ASSUME NEW s \in Sessions, SwapCancelled(s) PROVE Adopted'
  BY <1>32 DEF SwapCancelled, Goto
<1>33. ASSUME NEW s \in Sessions, EmitConnected(s) PROVE Adopted'
  BY <1>33 DEF EmitConnected, Goto, Suspend
<1>34. ASSUME NEW s \in Sessions, SwapDiscarded(s) PROVE Adopted'
  BY <1>34 DEF SwapDiscarded, Goto
<1>35. CASE UNCHANGED vars \/ \E a \in Adapters : ServerReaps(a)
  BY <1>35 DEF vars, ServerReaps, Leaked
<1> QED
  BY <1>1, <1>2, <1>3, <1>4, <1>5, <1>6, <1>7, <1>8, <1>9, <1>10, <1>11, <1>12,
     <1>13, <1>14, <1>15, <1>16, <1>17, <1>18, <1>19, <1>20, <1>21, <1>22, <1>23,
     <1>24, <1>25, <1>26, <1>27, <1>28, <1>29, <1>30, <1>31, <1>32, <1>33, <1>34,
     <1>35 DEF
     Next, Request, ConnectEnter, ConnectStep, DisconnectStep, SwitchStep, TaskStep,
     SwapEnter

LEMMA AdoptedInvariant == Spec => [](Typing /\ Registry /\ Adopted)
<1>1. Registry => Owner
  BY DEF Registry
<1> QED
  BY <1>1, RegistryInvariant, AdoptedInit, AdoptedStep, PTL DEF Spec

\* What a step loses, a keep-alive task that the step ends by an abort had in its
\* hands.
LEMMA LeakStep ==
  ASSUME Typing, Owner, Adopted, [Next]_vars, NEW a \in Leaked', a \notin Leaked
  PROVE  \E s \in Sessions : CutShort(s) /\ a \in {new[s], old[s]}
<1> DEFINE Lost == \E s \in Sessions : CutShort(s) /\ a \in {new[s], old[s]}
<1> SUFFICES Lost
  OBVIOUS
<1>0. a \in open' /\ a \notin Held' /\ (a \in open => a \in Held)
  BY DEF Leaked
<1> USE ConnAssumption DEF Typing, TypeOK, Building, Owner, Adopted, AdapterOwners, HeldIsOpen,
        Held, HolderPcs, CallPcs, TaskPcs, ConnectPcs, DisconnectPcs, Suspended, Running, Goto
<1>1. ASSUME UNCHANGED <<open, adapter, new, old>> PROVE Lost
  BY <1>0, <1>1
<1>2. ASSUME NEW c \in Calls, Request(c) \/ ConnectEnter(c) \/ SwitchStep(c) PROVE Lost
  BY <1>1, <1>2 DEF Request, ConnectCall, DisconnectCall, SwitchCall, ConnectEnter,
     ConnectRejected, ConnectBegin, SwitchStep, SwitchReply, SwitchRecord
<1>3. ASSUME NEW c \in Calls, TunnelOpened(c) \/ ConnectFailed(c) \/ ConnectDone(c) PROVE Lost
  BY <1>1, <1>3 DEF TunnelOpened, ConnectFailed, ConnectDone
<1>4. ASSUME NEW c \in Calls, DialOk(c) PROVE Lost
  BY <1>0, <1>4 DEF DialOk, FreshAdapters
<1>5. ASSUME NEW c \in Calls, InstallHandle(c) PROVE Lost
  <2>1. PICK s \in AbortDrops : a = new[s]
    BY <1>0, <1>5 DEF InstallHandle
  <2>2. s \in Sessions /\ handle = s /\ s # c /\ pc[s] # "off" /\ s # sess[c]
    BY <1>5, <2>1 DEF InstallHandle, AbortDrops, Abortees
  <2> QED
    BY <1>5, <2>1, <2>2 DEF InstallHandle, CutShort
<1>6. ASSUME NEW c \in Calls, InstallAdapter(c) PROVE Lost
  BY <1>0, <1>6 DEF InstallAdapter, Displace
<1>7. ASSUME NEW c \in Calls, RetirePredecessor(c) \/ CloseOk(c) \/ CloseFailed(c) PROVE Lost
  BY <1>0, <1>7 DEF RetirePredecessor, CloseOk, CloseFailed, CloseAdapter, HangUp
<1>8. ASSUME NEW c \in Calls, DisconnectBegin(c) PROVE Lost
  <2>0. /\ open' = open /\ new' = [p \in Procs |-> IF p \in AbortDrops THEN Nobody ELSE new[p]]
        /\ old[c] = Nobody /\ old' = [old EXCEPT ![c] = adapter]
    BY <1>8 DEF DisconnectBegin, AbortTask, Displace
  <2>1. PICK s \in AbortDrops : a = new[s]
    <3>1. a # Nobody /\ (a = adapter \/ \E p \in Procs : a = new[p] \/ a = old[p])
      BY <1>0, <2>0
    <3>2. a # adapter
      BY <1>0, <2>0, <3>1
    <3>3. \A p \in Procs : a # old[p]
      BY <1>0, <2>0, <3>1
    <3>4. PICK p \in Procs : a = new[p]
      BY <3>1, <3>2, <3>3
    <3> QED
      BY <1>0, <2>0, <3>1, <3>4
  <2>2. s \in Sessions /\ handle = s /\ s # c /\ pc[s] # "off"
    BY <1>8, <2>1 DEF AbortDrops, Abortees
  <2> QED
    BY <1>8, <2>1, <2>2 DEF DisconnectBegin, AbortTask, CutShort
<1>9. ASSUME NEW c \in Calls, DisconnectDone(c) PROVE Lost
  BY <1>1, <1>9 DEF DisconnectDone
<1>10. ASSUME NEW s \in Sessions,
              \/ Wake(s) \/ PingOk(s) \/ PingFailed(s) \/ MarkLost(s) \/ EmitLost(s)
              \/ RedialFailed(s) \/ MarkFailed(s) \/ EmitFailed(s) \/ EmitConnected(s)
       PROVE  Lost
  BY <1>1, <1>10 DEF Wake, PingOk, PingFailed, MarkLost, EmitLost, RedialFailed, MarkFailed,
     EmitFailed, EmitConnected
<1>11. ASSUME NEW s \in Sessions, RedialOk(s) PROVE Lost
  BY <1>0, <1>11 DEF RedialOk, FreshAdapters
<1>12. ASSUME NEW s \in Sessions, SwapBlocked(s) PROVE Lost
  BY <1>0, <1>12 DEF SwapBlocked, Suspend, CutShort
<1>13. ASSUME NEW s \in Sessions, SwapAbandoned(s) PROVE Lost
  BY <1>1, <1>13 DEF SwapAbandoned
<1>14. ASSUME NEW s \in Sessions, SwapDiscarded(s) \/ SwapDone(s) PROVE Lost
  BY <1>0, <1>14 DEF SwapDiscarded, SwapDone, HangUp
<1>15. ASSUME NEW s \in Sessions, SwapInstalled(s) PROVE Lost
  BY <1>0, <1>15 DEF SwapInstalled, Displace
<1>16. ASSUME NEW s \in Sessions, SwapCancelled(s) PROVE Lost
  BY <1>0, <1>16 DEF SwapCancelled, CutShort
<1>17. ASSUME NEW b \in Adapters, ServerReaps(b) PROVE Lost
  BY <1>0, <1>17 DEF ServerReaps
<1>18. CASE UNCHANGED vars
  BY <1>1, <1>18 DEF vars
<1> HIDE DEF Lost
<1> QED
  BY <1>2, <1>3, <1>4, <1>5, <1>6, <1>7, <1>8, <1>9, <1>10, <1>11, <1>12, <1>13, <1>14, <1>15,
     <1>16, <1>17, <1>18 DEF Next, ConnectStep, DisconnectStep, TaskStep, SwapEnter

\* For any number of commands, tasks and adapters: a connected adapter is lost
\* without a disconnect() only where abort() ends the keep-alive task that holds
\* it, and none is disconnected while it is registered or in somebody's hands.
THEOREM NoOtherLeak == Spec => OnlyAbortsLeak
<1> DEFINE Body == /\ Held' \subseteq open'
                   /\ \A a \in Leaked' \ Leaked :
                        \E s \in Sessions : CutShort(s) /\ a \in {new[s], old[s]}
<1>1. Typing /\ Registry /\ Adopted /\ [Next]_vars => Body
  <2> SUFFICES ASSUME Typing, Registry, Adopted, [Next]_vars PROVE Body
    OBVIOUS
  <2>1. Owner
    BY DEF Registry
  <2>2. Adopted'
    BY <2>1, AdoptedStep
  <2>3. Held' \subseteq open'
    BY <2>2 DEF Adopted, HeldIsOpen
  <2> QED
    BY <2>1, <2>3, LeakStep
<1>2. Typing /\ Registry /\ Adopted /\ [Next]_vars => [Body]_vars
  BY <1>1
<1> QED
  BY <1>2, AdoptedInvariant, PTL DEF Spec, OnlyAbortsLeak

-----------------------------------------------------------------------------
(* Whether Connected is true *)

\* From the install on, the process that holds the guard has put a pool in; and
\* outside a disconnect Connected is only recorded with a pool in.
PoolBehindStatus ==
  /\ \A c \in Calls : pc[c] \in {"retire", "publish"} => adapter # Nobody
  /\ \A s \in Sessions : pc[s] = "displace" => adapter # Nobody
  /\ status = "Connected" /\ (\A c \in Calls : pc[c] \notin DisconnectPcs) => adapter # Nobody

LEMMA PoolInit == Init => PoolBehindStatus
  BY ConnAssumption DEF Init, PoolBehindStatus, DisconnectPcs

LEMMA PoolStep ==
  /\ ~KvSwitch /\ ~CloseCanFail
  /\ Typing /\ Owner /\ AdapterOwners /\ NoSwitch /\ PoolBehindStatus
  /\ [Next]_vars
  => PoolBehindStatus'
<1> SUFFICES ASSUME ~KvSwitch, ~CloseCanFail, Typing, Owner, AdapterOwners, NoSwitch,
                    PoolBehindStatus, [Next]_vars
             PROVE  PoolBehindStatus'
  OBVIOUS
<1> USE ConnAssumption DEF Typing, TypeOK, Owner, AdapterOwners, NoSwitch, PoolBehindStatus,
        HolderPcs, CallPcs, TaskPcs, ConnectPcs, DisconnectPcs, Suspended, Running
<1>1. ASSUME NEW c \in Calls, ConnectCall(c) PROVE PoolBehindStatus'
  BY <1>1 DEF ConnectCall, Goto
<1>2. ASSUME NEW c \in Calls, ConnectRejected(c) PROVE PoolBehindStatus'
  BY <1>2 DEF ConnectRejected, Goto
<1>3. ASSUME NEW c \in Calls, ConnectBegin(c) PROVE PoolBehindStatus'
  BY <1>3 DEF ConnectBegin, Goto, FreshSessions
<1>4. ASSUME NEW c \in Calls, TunnelOpened(c) PROVE PoolBehindStatus'
  BY <1>4 DEF TunnelOpened, Goto
<1>5. ASSUME NEW c \in Calls, ConnectFailed(c) PROVE PoolBehindStatus'
  BY <1>5 DEF ConnectFailed, Goto
<1>6. ASSUME NEW c \in Calls, DialOk(c) PROVE PoolBehindStatus'
  BY <1>6 DEF DialOk, Goto, FreshAdapters
<1>7. ASSUME NEW c \in Calls, InstallHandle(c) PROVE PoolBehindStatus'
  BY <1>7 DEF InstallHandle, AbortDrops, AbortMarks, Abortees
<1>8. ASSUME NEW c \in Calls, InstallAdapter(c) PROVE PoolBehindStatus'
  BY <1>8 DEF InstallAdapter, Goto, Displace, TakeTunnel
<1>9. ASSUME NEW c \in Calls, RetirePredecessor(c) PROVE PoolBehindStatus'
  BY <1>9 DEF RetirePredecessor, Goto, HangUp
<1>10. ASSUME NEW c \in Calls, ConnectDone(c) PROVE PoolBehindStatus'
  BY <1>10 DEF ConnectDone, Goto
<1>11. ASSUME NEW c \in Calls, DisconnectCall(c) PROVE PoolBehindStatus'
  BY <1>11 DEF DisconnectCall, Goto
<1>12. ASSUME NEW c \in Calls, DisconnectBegin(c) PROVE PoolBehindStatus'
  BY <1>12 DEF DisconnectBegin, AbortTask, AbortDrops, AbortMarks, Abortees,
     Displace
<1>13. ASSUME NEW c \in Calls, CloseOk(c) PROVE PoolBehindStatus'
  BY <1>13 DEF CloseOk, Goto, CloseAdapter, HangUp
<1>14. ASSUME NEW c \in Calls, CloseFailed(c) PROVE PoolBehindStatus'
  BY <1>14 DEF CloseFailed, Goto, CloseAdapter, HangUp
<1>15. ASSUME NEW c \in Calls, DisconnectDone(c) PROVE PoolBehindStatus'
  BY <1>15 DEF DisconnectDone, Goto
<1>16. ASSUME NEW c \in Calls, SwitchCall(c) PROVE PoolBehindStatus'
  BY <1>16 DEF SwitchCall, Goto
<1>17. ASSUME NEW c \in Calls, SwitchReply(c) PROVE PoolBehindStatus'
  BY <1>17 DEF SwitchReply, Goto
<1>18. ASSUME NEW c \in Calls, SwitchRecord(c) PROVE PoolBehindStatus'
  BY <1>18 DEF SwitchRecord, Goto
<1>19. ASSUME NEW s \in Sessions, Wake(s) PROVE PoolBehindStatus'
  BY <1>19 DEF Wake, Goto
<1>20. ASSUME NEW s \in Sessions, PingOk(s) PROVE PoolBehindStatus'
  BY <1>20 DEF PingOk, Goto
<1>21. ASSUME NEW s \in Sessions, PingFailed(s) PROVE PoolBehindStatus'
  BY <1>21 DEF PingFailed, Goto
<1>22. ASSUME NEW s \in Sessions, MarkLost(s) PROVE PoolBehindStatus'
  BY <1>22 DEF MarkLost, Goto
<1>23. ASSUME NEW s \in Sessions, EmitLost(s) PROVE PoolBehindStatus'
  BY <1>23 DEF EmitLost, Goto, Suspend, GivesUp
<1>24. ASSUME NEW s \in Sessions, RedialOk(s) PROVE PoolBehindStatus'
  BY <1>24 DEF RedialOk, Goto, FreshAdapters
<1>25. ASSUME NEW s \in Sessions, RedialFailed(s) PROVE PoolBehindStatus'
  BY <1>25 DEF RedialFailed, Goto
<1>26. ASSUME NEW s \in Sessions, MarkFailed(s) PROVE PoolBehindStatus'
  BY <1>26 DEF MarkFailed, Goto
<1>27. ASSUME NEW s \in Sessions, EmitFailed(s) PROVE PoolBehindStatus'
  BY <1>27 DEF EmitFailed, Goto, Suspend
<1>28. ASSUME NEW s \in Sessions, SwapBlocked(s) PROVE PoolBehindStatus'
  BY <1>28 DEF SwapBlocked, Goto, Suspend
<1>29. ASSUME NEW s \in Sessions, SwapAbandoned(s) PROVE PoolBehindStatus'
  BY <1>29 DEF SwapAbandoned, Goto, TornDown
<1>30. ASSUME NEW s \in Sessions, SwapInstalled(s) PROVE PoolBehindStatus'
  BY <1>30 DEF SwapInstalled, Goto, TornDown, Displace
<1>31. ASSUME NEW s \in Sessions, SwapDone(s) PROVE PoolBehindStatus'
  BY <1>31 DEF SwapDone, Goto, HangUp
<1>32. ASSUME NEW s \in Sessions, SwapCancelled(s) PROVE PoolBehindStatus'
  BY <1>32 DEF SwapCancelled, Goto
<1>33. ASSUME NEW s \in Sessions, EmitConnected(s) PROVE PoolBehindStatus'
  BY <1>33 DEF EmitConnected, Goto, Suspend
<1>34. ASSUME NEW s \in Sessions, SwapDiscarded(s) PROVE PoolBehindStatus'
  BY <1>34 DEF SwapDiscarded, Goto
<1>35. CASE UNCHANGED vars \/ \E a \in Adapters : ServerReaps(a)
  BY <1>35 DEF vars, ServerReaps
<1> QED
  BY <1>1, <1>2, <1>3, <1>4, <1>5, <1>6, <1>7, <1>8, <1>9, <1>10, <1>11, <1>12,
     <1>13, <1>14, <1>15, <1>16, <1>17, <1>18, <1>19, <1>20, <1>21, <1>22, <1>23,
     <1>24, <1>25, <1>26, <1>27, <1>28, <1>29, <1>30, <1>31, <1>32, <1>33, <1>34,
     <1>35 DEF
     Next, Request, ConnectEnter, ConnectStep, DisconnectStep, SwitchStep, TaskStep,
     SwapEnter

\* An engine without a database switch whose disconnect() cannot fail is reported
\* Connected only while its pool is registered, once the guard is free.
THEOREM ConnectedIsUsable == ~KvSwitch /\ ~CloseCanFail /\ Spec => []ConnectedHasPool
<1> SUFFICES ASSUME ~KvSwitch, ~CloseCanFail PROVE Spec => []ConnectedHasPool
  OBVIOUS
<1>1. Adopted => AdapterOwners
  BY DEF Adopted
<1>2. Registry => Owner
  BY DEF Registry
<1>3. Typing /\ Owner /\ PoolBehindStatus => ConnectedHasPool
  BY ConnAssumption DEF Typing, TypeOK, Owner, PoolBehindStatus, ConnectedHasPool, HolderPcs,
     DisconnectPcs
<1>4. Typing /\ Owner /\ AdapterOwners /\ NoSwitch /\ PoolBehindStatus /\ [Next]_vars
        => PoolBehindStatus'
  BY PoolStep
<1> QED
  BY <1>1, <1>2, <1>3, <1>4, NoSwitchInvariant, AdoptedInvariant, PoolInit, PTL DEF Spec

-----------------------------------------------------------------------------
(* The maps and the guard implement a ConnService *)

\* A process that is about to record Connected has put a pool in, whatever the
\* engine.
PoolHeld ==
  /\ \A c \in Calls : pc[c] \in {"retire", "publish"} => adapter # Nobody
  /\ \A s \in Sessions : pc[s] = "displace" => adapter # Nobody

LEMMA PoolHeldStep ==
  Typing /\ Owner /\ AdapterOwners /\ PoolHeld /\ [Next]_vars => PoolHeld'
<1> SUFFICES ASSUME Typing, Owner, AdapterOwners, PoolHeld, [Next]_vars PROVE PoolHeld'
  OBVIOUS
<1> USE ConnAssumption DEF Typing, TypeOK, Owner, AdapterOwners, PoolHeld, HolderPcs, CallPcs,
        TaskPcs, ConnectPcs, DisconnectPcs, Suspended, Running, Goto
<1>1. ASSUME NEW c \in Calls, Request(c) \/ ConnectEnter(c) \/ SwitchStep(c) PROVE PoolHeld'
  BY <1>1 DEF Request, ConnectCall, DisconnectCall, SwitchCall, ConnectEnter, ConnectRejected,
     ConnectBegin, SwitchStep, SwitchReply, SwitchRecord
<1>2. ASSUME NEW c \in Calls, TunnelOpened(c) \/ ConnectFailed(c) \/ DialOk(c) PROVE PoolHeld'
  BY <1>2 DEF TunnelOpened, ConnectFailed, DialOk
<1>3. ASSUME NEW c \in Calls, InstallHandle(c) PROVE PoolHeld'
  BY <1>3 DEF InstallHandle, AbortDrops, Abortees
<1>4. ASSUME NEW c \in Calls, InstallAdapter(c) PROVE PoolHeld'
  BY <1>4 DEF InstallAdapter, Displace
<1>5. ASSUME NEW c \in Calls, RetirePredecessor(c) \/ ConnectDone(c) PROVE PoolHeld'
  BY <1>5 DEF RetirePredecessor, ConnectDone
<1>6. ASSUME NEW c \in Calls, DisconnectBegin(c) PROVE PoolHeld'
  BY <1>6 DEF DisconnectBegin, AbortTask, AbortDrops, Abortees, Displace
<1>7. ASSUME NEW c \in Calls, DisconnectStep(c) PROVE PoolHeld'
  BY <1>7 DEF DisconnectStep, CloseOk, CloseFailed, DisconnectDone
<1>8. ASSUME NEW s \in Sessions, SwapEnter(s) PROVE PoolHeld'
  BY <1>8 DEF SwapEnter, SwapAbandoned, SwapInstalled, Displace
<1>9. ASSUME NEW s \in Sessions, TaskStep(s) PROVE PoolHeld'
  BY <1>9 DEF TaskStep, Wake, PingOk, PingFailed, MarkLost, EmitLost, RedialOk, RedialFailed,
     MarkFailed, EmitFailed, SwapBlocked, SwapDiscarded, SwapDone, SwapCancelled, EmitConnected, Suspend
<1>10. CASE UNCHANGED vars \/ \E a \in Adapters : ServerReaps(a)
  BY <1>10 DEF vars, ServerReaps
<1> QED
  BY <1>1, <1>2, <1>3, <1>4, <1>5, <1>6, <1>7, <1>8, <1>9, <1>10 DEF Next, ConnectStep

LEMMA ServiceStep ==
  /\ Typing /\ Registry /\ AdapterOwners /\ PoolHeld /\ NoSwitch /\ [Next]_vars
  => [Service!Next]_(Service!vars)
<1> SUFFICES ASSUME Typing, Registry, AdapterOwners, PoolHeld, NoSwitch, [Next]_vars
             PROVE  [Service!Next]_(Service!vars)
  OBVIOUS
<1> USE ConnAssumption DEF Typing, TypeOK, Registry, Owner, HolderPcs, CallPcs, TaskPcs,
        ConnectPcs, DisconnectPcs, Suspended, Running, Goto, Service!vars, Asked, Wanted
<1>1. ASSUME NEW c \in Calls, Request(c) \/ ConnectRejected(c)
      PROVE  UNCHANGED Service!vars
  BY <1>1 DEF Request, ConnectCall, DisconnectCall, SwitchCall, ConnectRejected
<1>2. ASSUME NEW c \in Calls, ConnectBegin(c) PROVE Service!Ask
  BY <1>2 DEF ConnectBegin, Service!Ask
<1>3. ASSUME NEW c \in Calls, TunnelOpened(c) \/ DialOk(c) \/ RetirePredecessor(c)
      PROVE  UNCHANGED Service!vars
  BY <1>3 DEF TunnelOpened, DialOk, RetirePredecessor
<1>4. ASSUME NEW c \in Calls, ConnectFailed(c) PROVE Service!Refuse
  BY <1>4 DEF ConnectFailed, Service!Refuse
<1>5. ASSUME NEW c \in Calls, InstallHandle(c) PROVE Service!Arm
  <2>1. guard = c /\ sess[c] \in Sessions
    BY <1>5 DEF InstallHandle, Building
  <2>2. c \notin AbortDrops /\ pc'[c] = "install"
    BY <1>5, <2>1 DEF InstallHandle, AbortDrops, Abortees
  <2> QED
    BY <1>5, <2>1, <2>2 DEF InstallHandle, Service!Arm
<1>6. ASSUME NEW c \in Calls, InstallAdapter(c) PROVE Service!Raise
  <2>1. guard = c /\ new[c] \in Adapters /\ handle # Nobody /\ status # "Disconnected"
    BY <1>6 DEF InstallAdapter, AdapterOwners, Raising
  <2> QED
    BY <1>6, <2>1 DEF InstallAdapter, Displace, Service!Raise
<1>7. ASSUME NEW c \in Calls, ConnectDone(c) PROVE Service!Confirm
  <2>1. guard = c /\ handle # Nobody /\ adapter # Nobody
    BY <1>7 DEF ConnectDone, Raising, PoolHeld
  <2> QED
    BY <1>7, <2>1 DEF ConnectDone, Service!Confirm
<1>8. ASSUME NEW c \in Calls, DisconnectBegin(c) PROVE Service!Abandon
  <2>1. c \notin AbortDrops
    BY DEF AbortDrops
  <2>2. pc'[c] = "close"
    BY <1>8, <2>1 DEF DisconnectBegin, AbortTask
  <2> QED
    BY <1>8, <2>2 DEF DisconnectBegin, Displace, Service!Abandon
<1>9. ASSUME NEW c \in Calls, CloseOk(c) \/ CloseFailed(c) PROVE UNCHANGED Service!vars
  BY <1>9 DEF CloseOk, CloseFailed
<1>10. ASSUME NEW c \in Calls, DisconnectDone(c) PROVE Service!Settle
  <2>1. guard = c /\ handle = Nobody /\ adapter = Nobody
    BY <1>10 DEF DisconnectDone, Cleared
  <2> QED
    BY <1>10, <2>1 DEF DisconnectDone, Service!Settle
<1>11. ASSUME NEW c \in Calls, SwitchStep(c) PROVE FALSE
  BY <1>11 DEF SwitchStep, SwitchReply, SwitchRecord, NoSwitch
<1>12. ASSUME NEW s \in Sessions, MarkLost(s) \/ MarkFailed(s) PROVE Service!Fault
  BY <1>12 DEF MarkLost, MarkFailed, Service!Fault
<1>13. ASSUME NEW s \in Sessions,
              \/ Wake(s) \/ PingOk(s) \/ PingFailed(s) \/ EmitLost(s) \/ RedialOk(s)
              \/ RedialFailed(s) \/ EmitFailed(s) \/ SwapBlocked(s) \/ SwapDiscarded(s)
              \/ SwapCancelled(s) \/ EmitConnected(s) \/ SwapAbandoned(s)
      PROVE  UNCHANGED Service!vars
  BY <1>13 DEF Wake, PingOk, PingFailed, EmitLost, RedialOk, RedialFailed, EmitFailed,
     SwapBlocked, SwapDiscarded, SwapCancelled, EmitConnected, SwapAbandoned, Suspend
<1>14. ASSUME NEW s \in Sessions, SwapInstalled(s) PROVE Service!Raise
  <2>1. new[s] \in Adapters /\ handle # Nobody /\ status # "Disconnected"
    BY <1>14 DEF SwapInstalled, TornDown, TornDownClean, AdapterOwners
  <2> QED
    BY <1>14, <2>1 DEF SwapInstalled, Displace, Service!Raise
<1>15. ASSUME NEW s \in Sessions, SwapDone(s) PROVE Service!Confirm
  <2>1. guard = s /\ handle # Nobody /\ adapter # Nobody
    BY <1>15 DEF SwapDone, Raising, PoolHeld
  <2> QED
    BY <1>15, <2>1 DEF SwapDone, Service!Confirm
<1>16. CASE UNCHANGED vars \/ \E a \in Adapters : ServerReaps(a)
  BY <1>16 DEF vars, ServerReaps
<1> QED
  BY <1>1, <1>2, <1>3, <1>4, <1>5, <1>6, <1>7, <1>8, <1>9, <1>10, <1>11, <1>12, <1>13, <1>14,
     <1>15, <1>16 DEF Next, ConnectEnter, ConnectStep, DisconnectStep, TaskStep, SwapEnter,
     Service!Next

\* For any engine without a database switch and any number of commands, sessions
\* and adapters, what the rest of the program sees of a connection is a ConnService.
THEOREM ImplementsService == ~KvSwitch /\ Spec => ActsAsService
<1> SUFFICES ASSUME ~KvSwitch PROVE Spec => ActsAsService
  OBVIOUS
<1>1. Adopted => AdapterOwners
  BY DEF Adopted
<1>2. Registry => Owner
  BY DEF Registry
<1>3. Init => PoolHeld /\ Service!Init
  BY ConnAssumption DEF Init, PoolHeld, Service!Init, Asked, Wanted
<1> QED
  BY <1>1, <1>2, <1>3, PoolHeldStep, ServiceStep, NoSwitchInvariant, AdoptedInvariant, PTL
     DEF Spec, Service!Spec, ActsAsService

-----------------------------------------------------------------------------
(* Commands return and superseded tasks end *)

OwnStep(c) == ConnectStep(c) \/ DisconnectStep(c) \/ SwitchStep(c)
Enter(c) == ConnectEnter(c) \/ DisconnectBegin(c)

\* The provers know nothing of ENABLED: what they are told is that an action can
\* be taken where its guard holds and that taking it changes something.
CanStep(c) == ENABLED <<ConnectStep(c) \/ DisconnectStep(c) \/ SwitchStep(c)>>_vars
CanEnter(c) == ENABLED <<ConnectEnter(c) \/ DisconnectBegin(c)>>_vars
CanRun(s) == ENABLED <<TaskStep(s)>>_vars
CanSwap(s) == ENABLED <<SwapEnter(s)>>_vars
GuardsSuffice ==
  /\ \A c \in Calls :
       /\ pc[c] \in ConnectPcs \cup DisconnectPcs \cup {"select", "record"} => CanStep(c)
       /\ pc[c] \in {"connectWait", "disconnectWait"} /\ guard = Nobody => CanEnter(c)
  /\ \A s \in Sessions :
       /\ \/ pc[s] \in {"lost", "emitLost", "failed", "emitFailed", "displace", "discard",
                     "emitConnected"}
          \/ pc[s] = "dialed" /\ guard # Nobody
          => CanRun(s)
       /\ pc[s] \in {"dialed", "swapWait"} /\ guard = Nobody => CanSwap(s)

\* How many awaits a command still has before it returns, at most.
Todo(c) ==
  CASE pc[c] \in {"connectWait", "disconnectWait"} -> 7
    [] pc[c] = "tunnel" -> 6
    [] pc[c] = "dial" -> 5
    [] pc[c] = "spawn" -> 4
    [] pc[c] = "install" -> 3
    [] pc[c] \in {"retire", "close", "select"} -> 2
    [] pc[c] \in {"publish", "settle", "record"} -> 1
    [] OTHER -> 0

LEMMA TodoRange ==
  ASSUME Typing, NEW c \in Calls
  PROVE  Todo(c) \in 0..7 /\ (Todo(c) = 0 <=> pc[c] = "idle")
BY DEF Typing, TypeOK, CallPcs, ConnectPcs, DisconnectPcs, Todo

\* Its own steps bring it closer to its return, and nobody else touches it.
LEMMA CommandAdvances ==
  ASSUME Typing, NEW c \in Calls, pc[c] # "idle", OwnStep(c) \/ Enter(c)
  PROVE  Todo(c)' < Todo(c)
<1> USE ConnAssumption DEF Typing, TypeOK, CallPcs, Todo, Goto
<1>1. CASE ConnectStep(c)
  BY <1>1 DEF Building, ConnectPcs, ConnectStep, TunnelOpened, ConnectFailed, DialOk, InstallHandle, InstallAdapter,
     RetirePredecessor, ConnectDone
<1>2. CASE DisconnectStep(c) \/ SwitchStep(c)
  BY <1>2 DEF DisconnectStep, CloseOk, CloseFailed, DisconnectDone, SwitchStep, SwitchReply,
     SwitchRecord
<1>3. CASE ConnectEnter(c)
  BY <1>3 DEF ConnectEnter, ConnectRejected, ConnectBegin
<1>4. CASE DisconnectBegin(c)
  BY <1>4 DEF DisconnectBegin, AbortTask, AbortDrops
<1> QED
  BY <1>1, <1>2, <1>3, <1>4 DEF OwnStep, Enter

LEMMA OthersLeaveCommand ==
  ASSUME Typing, NEW c \in Calls, pc[c] # "idle", [Next]_vars, ~OwnStep(c), ~Enter(c)
  PROVE  pc'[c] = pc[c]
<1> USE ConnAssumption DEF Typing, TypeOK, Goto
<1>1. ASSUME NEW d \in Calls, d # c, ConnectStep(d) PROVE pc'[c] = pc[c]
  <2>1. CASE InstallHandle(d)
    <3>1. sess[d] \in Sessions
      BY <2>1 DEF InstallHandle, Building, ConnectPcs
    <3> QED
      BY <1>1, <2>1, <3>1 DEF InstallHandle, AbortDrops
  <2> QED
    BY <1>1, <2>1 DEF ConnectStep, TunnelOpened, ConnectFailed, DialOk, InstallAdapter,
       RetirePredecessor, ConnectDone
<1>2. ASSUME NEW d \in Calls, d # c, DisconnectStep(d) \/ SwitchStep(d) \/ ConnectEnter(d)
      PROVE  pc'[c] = pc[c]
  BY <1>2 DEF DisconnectStep, CloseOk, CloseFailed, DisconnectDone, SwitchStep, SwitchReply,
     SwitchRecord, ConnectEnter, ConnectRejected, ConnectBegin
<1>3. ASSUME NEW d \in Calls, d # c, DisconnectBegin(d) PROVE pc'[c] = pc[c]
  BY <1>3 DEF DisconnectBegin, AbortTask, AbortDrops
<1>4. ASSUME NEW d \in Calls, Request(d) PROVE pc'[c] = pc[c]
  BY <1>4 DEF Request, ConnectCall, DisconnectCall, SwitchCall
<1>5. ASSUME NEW s \in Sessions, TaskStep(s) \/ SwapEnter(s) PROVE pc'[c] = pc[c]
  BY <1>5 DEF TaskStep, Wake, PingOk, PingFailed, MarkLost, EmitLost, RedialOk, RedialFailed,
     MarkFailed, EmitFailed, SwapBlocked, SwapDiscarded, SwapDone, SwapCancelled, EmitConnected, Suspend,
     SwapEnter, SwapAbandoned, SwapInstalled
<1>6. CASE UNCHANGED vars \/ \E a \in Adapters : ServerReaps(a)
  BY <1>6 DEF vars, ServerReaps
<1> QED
  BY <1>1, <1>2, <1>3, <1>4, <1>5, <1>6 DEF Next, OwnStep, Enter

\* A command that holds the guard, or needs none, is at most so many awaits away
\* from its return.
Within(c, n) == Todo(c) <= n

LEMMA WithinStep ==
  ASSUME Typing, NEW c \in Calls, NEW n \in 0..7, Within(c, n), pc[c] # "idle", [Next]_vars
  PROVE  /\ Within(c, n)'
         /\ OwnStep(c) \/ Enter(c) => Within(c, n - 1)'
<1>1. Todo(c) \in 0..7
  BY TodoRange
<1>3. Todo(c)' \in 0..7
  BY DEF Todo
<1>4. CASE OwnStep(c) \/ Enter(c)
  BY <1>1, <1>3, <1>4, CommandAdvances DEF Within
<1>5. CASE ~OwnStep(c) /\ ~Enter(c)
  <2>1. pc'[c] = pc[c]
    BY <1>5, OthersLeaveCommand
  <2>2. Todo(c)' = Todo(c)
    BY <2>1 DEF Todo
  <2> QED
    BY <1>1, <1>5, <2>2 DEF Within
<1> QED
  BY <1>4, <1>5

Returned(c) == pc[c] = "idle"
Free == guard = Nobody
Holds(p) == guard = p

\* From the first await that no other process can hold up.
LEMMA CommandUnwinds ==
  ASSUME NEW c \in Calls
  PROVE  FairSpec /\ []GuardsSuffice => (Within(c, 6) ~> Returned(c))
<1> DEFINE W0 == Within(c, 0)
           W1 == Within(c, 1)
           W2 == Within(c, 2)
           W3 == Within(c, 3)
           W4 == Within(c, 4)
           W5 == Within(c, 5)
           W6 == Within(c, 6)
           Out == Returned(c)
           Step == OwnStep(c)
<1>1. FairSpec => Spec /\ CallFairness(c)
  BY DEF FairSpec, Fairness
<1>2. Typing /\ W0 => Out
  BY TodoRange DEF Within, Returned
<1>3. Typing /\ GuardsSuffice /\ W6 /\ ~Out => CanStep(c)
  BY TodoRange DEF Within, Returned, GuardsSuffice, Typing, TypeOK, CallPcs, ConnectPcs, DisconnectPcs, Todo
<1>4. Typing /\ ~Out /\ [Next]_vars =>
        /\ (W6 => W6') /\ (W5 => W5') /\ (W4 => W4')
        /\ (W3 => W3') /\ (W2 => W2') /\ (W1 => W1')
        /\ <<ConnectStep(c) \/ DisconnectStep(c) \/ SwitchStep(c)>>_vars =>
             /\ (W6 => W5') /\ (W5 => W4') /\ (W4 => W3')
             /\ (W3 => W2') /\ (W2 => W1') /\ (W1 => W0')
  <2>1. ASSUME NEW n \in 0..7, NEW m, m = n - 1
        PROVE  Typing /\ ~Out /\ [Next]_vars /\ Within(c, n) =>
                 Within(c, n)' /\ (OwnStep(c) => Within(c, m)')
    BY <2>1, WithinStep DEF Returned
  <2> HIDE DEF Out
  <2> QED
    BY <2>1 DEF OwnStep
<1>5. W0 \/ W1 \/ W2 \/ W3 \/ W4 \/ W5 => W6
  <2>1. Todo(c) \in 0..7
    BY DEF Todo
  <2> QED
    BY <2>1 DEF Within
<1> HIDE DEF W0, W1, W2, W3, W4, W5, W6, Out
<1>6. FairSpec /\ []GuardsSuffice => (W6 ~> Out)
  BY <1>1, <1>2, <1>3, <1>4, <1>5, TypingInvariant, PTL DEF Spec, CallFairness, CanStep
<1> QED
  BY <1>6 DEF W6, Out

LEMMA HolderKeepsOrFrees ==
  ASSUME Typing, Registry, NEW p \in Procs, Holds(p), [Next]_vars
  PROVE  Holds(p)' \/ Free'
<1> SUFFICES ASSUME guard' # guard PROVE Free'
  BY DEF Holds
<1> USE ConnAssumption DEF Typing, TypeOK, Holds, Free
<1>0. guard # Nobody
  OBVIOUS
<1>1. ASSUME NEW c \in Calls, Request(c) \/ ConnectEnter(c) \/ ConnectStep(c) PROVE Free'
  BY <1>0, <1>1 DEF Request, ConnectCall, DisconnectCall, SwitchCall, ConnectEnter, ConnectRejected, ConnectBegin,
     ConnectStep, TunnelOpened, ConnectFailed, DialOk, InstallHandle, InstallAdapter, RetirePredecessor, ConnectDone
<1>2. ASSUME NEW c \in Calls, DisconnectBegin(c) \/ DisconnectStep(c) \/ SwitchStep(c) PROVE Free'
  BY <1>0, <1>2 DEF DisconnectBegin, DisconnectStep, CloseOk, CloseFailed, DisconnectDone, SwitchStep, SwitchReply,
     SwitchRecord
<1>3. ASSUME NEW s \in Sessions, TaskStep(s) \/ SwapEnter(s) PROVE Free'
  BY <1>0, <1>3 DEF TaskStep, Wake, PingOk, PingFailed, MarkLost, EmitLost, RedialOk, RedialFailed,
     MarkFailed, EmitFailed, SwapBlocked, SwapDiscarded, SwapDone, SwapCancelled, EmitConnected, Suspend,
     SwapEnter, SwapAbandoned, SwapInstalled
<1>4. CASE UNCHANGED vars \/ \E a \in Adapters : ServerReaps(a)
  BY <1>4 DEF vars, ServerReaps
<1> QED
  BY <1>1, <1>2, <1>3, <1>4 DEF Next

\* Whoever holds the guard releases it, so it is free again and again.
LEMMA GuardComesFree == FairSpec /\ []GuardsSuffice => []<>Free
<1>1. ASSUME NEW c \in Calls
      PROVE  FairSpec /\ []GuardsSuffice => [](Holds(c) => <>Free)
  <2>1. Typing /\ Registry /\ Holds(c) => Within(c, 6) /\ ~Returned(c)
    BY DEF Typing, TypeOK, Registry, Owner, HolderPcs, ConnectPcs, DisconnectPcs, Holds, Within, Todo, Returned
  <2>2. Typing /\ Registry /\ Holds(c) /\ [Next]_vars => Holds(c)' \/ Free'
    BY HolderKeepsOrFrees
  <2>3. FairSpec /\ []GuardsSuffice => (Within(c, 6) ~> Returned(c))
    BY CommandUnwinds
  <2>4. FairSpec => Spec
    BY DEF FairSpec
  <2> QED
    BY <2>1, <2>2, <2>3, <2>4, RegistryInvariant, PTL DEF Spec
<1>2. ASSUME NEW s \in Sessions
      PROVE  FairSpec /\ []GuardsSuffice => [](Holds(s) => <>Free)
  <2>1. Typing /\ Registry /\ Holds(s) => pc[s] \in {"displace", "discard"}
    BY ConnAssumption DEF Typing, TypeOK, Registry, Owner, Holds, HolderPcs, ConnectPcs, DisconnectPcs, TaskPcs,
       Suspended, Running
  <2>2. Typing /\ Registry /\ GuardsSuffice /\ Holds(s) => CanRun(s)
    BY <2>1 DEF GuardsSuffice
  <2>3. Typing /\ Registry /\ Holds(s) /\ [Next]_vars => Holds(s)' \/ Free'
    BY HolderKeepsOrFrees
  <2>4. Typing /\ Registry /\ Holds(s) /\ <<TaskStep(s)>>_vars => Free'
    BY <2>1 DEF TaskStep, Wake, PingOk, PingFailed, MarkLost, EmitLost, RedialOk, RedialFailed,
       MarkFailed, EmitFailed, SwapBlocked, SwapDiscarded, SwapDone, SwapCancelled, EmitConnected, Free
  <2>5. FairSpec => Spec /\ TaskFairness(s)
    BY DEF FairSpec, Fairness
  <2> QED
    BY <2>2, <2>3, <2>4, <2>5, RegistryInvariant, PTL DEF Spec, TaskFairness, CanRun
<1>3. FairSpec /\ []GuardsSuffice => /\ \A c \in Calls : [](Holds(c) => <>Free)
                                     /\ \A s \in Sessions : [](Holds(s) => <>Free)
  BY <1>1, <1>2
<1>4. (\A c \in Calls : [](Holds(c) => <>Free)) => [](\A c \in Calls : (Holds(c) => <>Free))
  OBVIOUS
<1>5. (\A s \in Sessions : [](Holds(s) => <>Free)) => [](\A s \in Sessions : (Holds(s) => <>Free))
  OBVIOUS
<1>6. /\ (\A c \in Calls : (Holds(c) => <>Free)) => ((\E c \in Calls : Holds(c)) => <>Free)
      /\ (\A s \in Sessions : (Holds(s) => <>Free)) => ((\E s \in Sessions : Holds(s)) => <>Free)
  OBVIOUS
<1>7. Typing => Free \/ (\E c \in Calls : Holds(c)) \/ (\E s \in Sessions : Holds(s))
  BY DEF Typing, TypeOK, Free, Holds
<1>8. FairSpec => Spec
  BY DEF FairSpec
<1> QED
  BY <1>3, <1>4, <1>5, <1>6, <1>7, <1>8, TypingInvariant, PTL

Waits(c) == pc[c] \in {"connectWait", "disconnectWait"}

\* Any number of commands and sessions: a command that was issued returns, however
\* many others ask for the same guard and whatever they abort.
THEOREM EveryCommandReturns == FairSpec /\ []GuardsSuffice => CommandsReturn
<1>1. ASSUME NEW c \in Calls
      PROVE  FairSpec /\ []GuardsSuffice => (pc[c] # "idle" ~> pc[c] = "idle")
  <2> DEFINE W6 == Within(c, 6)
             Away == pc[c] # "idle"
             Out == pc[c] = "idle"
             Wait == Waits(c)
  <2>1. FairSpec => Spec /\ CallFairness(c)
    BY DEF FairSpec, Fairness
  <2>2. Typing /\ Away => Wait \/ W6
    BY DEF Typing, TypeOK, CallPcs, ConnectPcs, DisconnectPcs, Within, Waits, Todo
  <2>3. GuardsSuffice /\ Wait /\ Free => CanEnter(c)
    BY DEF GuardsSuffice, Waits, Free
  <2>4. Typing /\ Wait /\ [Next]_vars =>
          /\ Wait' \/ W6'
          /\ <<ConnectEnter(c) \/ DisconnectBegin(c)>>_vars => W6'
    <3> SUFFICES ASSUME Typing, Wait, [Next]_vars
                 PROVE  (Wait' \/ W6') /\ (Enter(c) => W6')
      BY DEF Enter
    <3>1. Todo(c) = 7 /\ Todo(c)' \in 0..7 /\ pc[c] # "idle"
      BY DEF Waits, Todo
    <3>2. CASE OwnStep(c) \/ Enter(c)
      BY <3>1, <3>2, CommandAdvances DEF Within
    <3>3. CASE ~OwnStep(c) /\ ~Enter(c)
      BY <3>1, <3>3, OthersLeaveCommand DEF Waits
    <3> QED
      BY <3>2, <3>3
  <2>5. FairSpec /\ []GuardsSuffice => (W6 ~> Out)
    BY CommandUnwinds DEF Returned
  <2> HIDE DEF W6, Away, Out, Wait
  <2>6. FairSpec /\ []GuardsSuffice => (Away ~> Out)
    BY <2>1, <2>2, <2>3, <2>4, <2>5, GuardComesFree, TypingInvariant, PTL DEF Spec, CallFairness, CanEnter
  <2> QED
    BY <2>6 DEF Away, Out
<1> QED
  BY <1>1 DEF CommandsReturn

\* Only a task between two awaits is aborted and not yet gone.
AbortedRuns == \A s \in Sessions : s \in aborted => pc[s] \in Running

LEMMA AbortedRunsStep == Typing /\ AbortedRuns /\ [Next]_vars => AbortedRuns'
<1> SUFFICES ASSUME Typing, AbortedRuns, [Next]_vars PROVE AbortedRuns'
  OBVIOUS
<1> USE ConnAssumption DEF Typing, TypeOK, AbortedRuns, Running, Suspended, Goto
<1>1. ASSUME NEW c \in Calls, Request(c) \/ ConnectEnter(c) \/ SwitchStep(c) \/ DisconnectStep(c) PROVE AbortedRuns'
  BY <1>1 DEF Request, ConnectCall, DisconnectCall, SwitchCall, ConnectEnter, ConnectRejected, ConnectBegin,
     SwitchStep, SwitchReply, SwitchRecord, DisconnectStep, CloseOk, CloseFailed, DisconnectDone
<1>2. ASSUME NEW c \in Calls,
             \/ TunnelOpened(c) \/ ConnectFailed(c) \/ DialOk(c) \/ InstallAdapter(c) \/ RetirePredecessor(c)
             \/ ConnectDone(c)
      PROVE  AbortedRuns'
  BY <1>2 DEF TunnelOpened, ConnectFailed, DialOk, InstallAdapter, RetirePredecessor, ConnectDone
<1>3. ASSUME NEW c \in Calls, InstallHandle(c) PROVE AbortedRuns'
  BY <1>3 DEF InstallHandle, AbortDrops, AbortMarks, Abortees
<1>4. ASSUME NEW c \in Calls, DisconnectBegin(c) PROVE AbortedRuns'
  BY <1>4 DEF DisconnectBegin, AbortTask, AbortDrops, AbortMarks, Abortees
<1>5. ASSUME NEW s \in Sessions, TaskStep(s) PROVE AbortedRuns'
  BY <1>5 DEF TaskStep, Wake, PingOk, PingFailed, MarkLost, EmitLost, RedialOk, RedialFailed,
     MarkFailed, EmitFailed, SwapBlocked, SwapDiscarded, SwapDone, SwapCancelled, EmitConnected, Suspend
<1>6. ASSUME NEW s \in Sessions, SwapEnter(s) PROVE AbortedRuns'
  BY <1>6 DEF SwapEnter, SwapAbandoned, SwapInstalled
<1>7. CASE UNCHANGED vars \/ \E a \in Adapters : ServerReaps(a)
  BY <1>7 DEF vars, ServerReaps
<1> QED
  BY <1>1, <1>2, <1>3, <1>4, <1>5, <1>6, <1>7 DEF Next, ConnectStep

Settled == Typing /\ Registry /\ AbortedRuns

LEMMA SettledInvariant == Spec => []Settled
<1>1. Init => AbortedRuns
  BY DEF Init, AbortedRuns
<1> QED
  BY <1>1, AbortedRunsStep, RegistryInvariant, PTL DEF Spec, Settled

\* A superseded task has an abort pending, and at most two steps before the await
\* at which that takes hold.
Ousted(s) == pc[s] # "off" /\ handle # s
Steps(s) ==
  CASE pc[s] = "dialed" -> 3
    [] pc[s] \in {"lost", "failed", "displace", "discard"} -> 2
    [] pc[s] \in {"emitLost", "emitFailed", "emitConnected"} -> 1
    [] OTHER -> 0

LEMMA OustedIsAborted ==
  ASSUME Settled, NEW s \in Sessions, Ousted(s)
  PROVE  s \in aborted /\ pc[s] \in Running /\ Steps(s) \in 1..3
BY DEF Settled, Registry, OnePingLoop, AbortedRuns, Ousted, Steps, Running

LEMMA OustedAdvances ==
  ASSUME Settled, NEW s \in Sessions, Ousted(s), TaskStep(s) \/ SwapEnter(s), Ousted(s)'
  PROVE  Steps(s)' < Steps(s)
<1> USE OustedIsAborted DEF Settled, Typing, TypeOK, Ousted, Steps, Running, Goto, Suspend
<1>1. CASE TaskStep(s)
  BY <1>1 DEF TaskStep, Wake, PingOk, PingFailed, MarkLost, EmitLost, RedialOk, RedialFailed,
     MarkFailed, EmitFailed, SwapBlocked, SwapDiscarded, SwapDone, SwapCancelled, EmitConnected
<1>2. CASE SwapEnter(s)
  BY <1>2 DEF SwapEnter, SwapAbandoned, SwapInstalled
<1> QED
  BY <1>1, <1>2

LEMMA OthersLeaveOusted ==
  ASSUME Settled, NEW s \in Sessions, Ousted(s), [Next]_vars, ~TaskStep(s), ~SwapEnter(s), Ousted(s)'
  PROVE  pc'[s] = pc[s]
<1>0. pc[s] \notin Suspended
  BY OustedIsAborted DEF Running, Suspended
<1> USE <1>0, ConnAssumption DEF Settled, Typing, TypeOK, Ousted, Goto
<1>1. ASSUME NEW c \in Calls, Request(c) \/ ConnectEnter(c) \/ SwitchStep(c) \/ DisconnectStep(c)
      PROVE  pc'[s] = pc[s]
  BY <1>1 DEF Request, ConnectCall, DisconnectCall, SwitchCall, ConnectEnter, ConnectRejected, ConnectBegin,
     SwitchStep, SwitchReply, SwitchRecord, DisconnectStep, CloseOk, CloseFailed, DisconnectDone
<1>2. ASSUME NEW c \in Calls,
             \/ TunnelOpened(c) \/ ConnectFailed(c) \/ DialOk(c) \/ InstallAdapter(c) \/ RetirePredecessor(c)
             \/ ConnectDone(c)
      PROVE  pc'[s] = pc[s]
  BY <1>2 DEF TunnelOpened, ConnectFailed, DialOk, InstallAdapter, RetirePredecessor, ConnectDone
<1>3. ASSUME NEW c \in Calls, InstallHandle(c) PROVE pc'[s] = pc[s]
  BY <1>3 DEF InstallHandle, AbortDrops
<1>4. ASSUME NEW c \in Calls, DisconnectBegin(c) PROVE pc'[s] = pc[s]
  BY <1>4 DEF DisconnectBegin, AbortTask, AbortDrops
<1>5. ASSUME NEW t \in Sessions, t # s, TaskStep(t) \/ SwapEnter(t) PROVE pc'[s] = pc[s]
  BY <1>5 DEF TaskStep, Wake, PingOk, PingFailed, MarkLost, EmitLost, RedialOk, RedialFailed,
     MarkFailed, EmitFailed, SwapBlocked, SwapDiscarded, SwapDone, SwapCancelled, EmitConnected, Suspend,
     SwapEnter, SwapAbandoned, SwapInstalled
<1>6. CASE UNCHANGED vars \/ \E a \in Adapters : ServerReaps(a)
  BY <1>6 DEF vars, ServerReaps
<1> QED
  BY <1>1, <1>2, <1>3, <1>4, <1>5, <1>6 DEF Next, ConnectStep

\* Any number of sessions and commands: a keep-alive task that lost its place in the
\* map ends, wherever the abort caught it, a reconnect under way included.
THEOREM EverySupersededTaskEnds == FairSpec /\ []GuardsSuffice => SupersededTaskEnds
<1>1. ASSUME NEW s \in Sessions
      PROVE  FairSpec /\ []GuardsSuffice => (handle # s ~> (pc[s] = "off" \/ handle = s))
  <2> DEFINE Off == pc[s] = "off"
             Mine == handle = s
             Other == handle # s
             Out == ~Ousted(s)
             S1 == Steps(s) <= 1
             S2 == Steps(s) <= 2
  <2>1. FairSpec => Spec /\ TaskFairness(s)
    BY DEF FairSpec, Fairness
  <2>2. Out <=> Off \/ Mine
    BY DEF Ousted
  <2>3. Settled /\ GuardsSuffice /\ ~Out => (S2 => CanRun(s)) /\ (Free => S2 \/ CanSwap(s))
    BY OustedIsAborted DEF GuardsSuffice, Running, Steps, Free
  <2>4. Settled /\ Settled' /\ ~Out /\ [Next]_vars =>
          \/ Out'
          \/ /\ (S2 => S2') /\ (S1 => S1')
             /\ <<TaskStep(s)>>_vars => S2' /\ (S2 => S1') /\ ~S1
             /\ <<SwapEnter(s)>>_vars => S2'
    <3> SUFFICES ASSUME Settled, Settled', Ousted(s), [Next]_vars, Ousted(s)'
                 PROVE  /\ (S2 => S2') /\ (S1 => S1')
                        /\ TaskStep(s) \/ SwapEnter(s) => S2' /\ (S2 => S1') /\ ~S1
      OBVIOUS
    <3>1. Steps(s) \in 1..3 /\ Steps(s)' \in 1..3
      BY OustedIsAborted DEF Steps, Settled, Registry, OnePingLoop, AbortedRuns, Ousted, Running
    <3>2. CASE TaskStep(s) \/ SwapEnter(s)
      BY <3>1, <3>2, OustedAdvances
    <3>3. CASE ~TaskStep(s) /\ ~SwapEnter(s)
      <4>1. Steps(s)' = Steps(s)
        BY <3>3, OthersLeaveOusted DEF Steps
      <4> QED
        BY <3>3, <4>1
    <3> QED
      BY <3>2, <3>3
  <2> HIDE DEF Off, Mine, Other, Out, S1, S2
  <2>6. FairSpec /\ []GuardsSuffice => (Other ~> (Off \/ Mine))
    BY <2>1, <2>2, <2>3, <2>4, GuardComesFree, SettledInvariant, PTL DEF Spec, TaskFairness, CanRun, CanSwap
  <2> QED
    BY <2>6 DEF Off, Mine, Other
<1> QED
  BY <1>1 DEF SupersededTaskEnds
=============================================================================
