----------------------- MODULE Plan44Coordinator_proofs -----------------------
(***************************************************************************)
(* What holds of the coordinator for any number of tasks, sockets, exports *)
(* and faults: its type, that the write lock is never left behind, and     *)
(* that an outage has one reconnect loop.  And what holds when set-up, the *)
(* reconnect loop and unload are alone with the client: it never has two   *)
(* connections, and unload leaves none.  The last part is about the        *)
(* program at rest, with all its tasks: it has a keepalive and, without    *)
(* auto-republish, a connection that is read and a true status.            *)
(***************************************************************************)
EXTENDS Plan44Coordinator, Plan44Client_proofs, FiniteSetTheorems

(* A coroutine that is at rest is in no call of the client; one at work on *)
(* a device has one to work on.                                            *)
Placed ==
  \A t \in Task :
    /\ pc[t] \in {"idle", "loaded"} => call[t] = Idle
    /\ pc[t] \in {"register", "forward", "reach", "push"} => todo[t] # {}

CoordinatorTypeOK ==
  /\ pc \in [Task -> Label]
  /\ todo \in [Task -> SUBSET Exports]
  /\ shuttingDown \in BOOLEAN
  /\ reconnectTask \in Loops \union {None}
  /\ startupSync \in BOOLEAN
  /\ connectedSince \in BOOLEAN
  /\ known \in SUBSET Exports
  /\ faults \in 0..MaxFaults

Inv == ClientInv /\ CoordinatorTypeOK /\ Placed

-------------------------------------------------------------------------------
LEMMA InitInv ==
  ASSUME Init PROVE Inv
<1>1. ClientInv
  <2>1. NoReaderTask \in ReaderTask
    BY DEF NoReaderTask, ReaderTask
  <2>2. Idle \in Call /\ Idle.at = "idle" /\ Idle.op = "none"
    BY DEF Idle, Call
  <2>3. ClientTypeOK
    BY <2>1, <2>2 DEF Init, ClientInit, ClientTypeOK, Transport
  <2>4. LockHeld /\ Working
    BY TaskSockAssumption DEF Init, ClientInit, LockHeld, Working
  <2>5. Opened
    <3>1. \A t \in Task : call[t] = Idle
      BY DEF Init, ClientInit
    <3>2. \A t \in Task : call[t].op = "none" /\ call[t].at = "idle"
      BY <2>2, <3>1
    <3> QED
      BY <3>2 DEF Opened
  <2> QED
    BY <2>3, <2>4, <2>5 DEF ClientInv
<1>2. CoordinatorTypeOK
  <2>1. pc \in [Task -> Label]
    BY DEF Init, Label
  <2>2. todo \in [Task -> SUBSET Exports]
    BY DEF Init
  <2>3. faults \in 0..MaxFaults
    BY OptionAssumption DEF Init
  <2> QED
    BY <2>1, <2>2, <2>3 DEF Init, CoordinatorTypeOK
<1>3. Placed
  BY TaskAssumption DEF Init, ClientInit, Placed
<1> QED
  BY <1>1, <1>2, <1>3 DEF Inv

LEMMA TasksAre ==
  /\ Entry \in Task
  /\ \A l \in Loops : l \in Task /\ l # Entry
  /\ \A f \in Forwarders : f \in Task /\ f # Entry /\ f \notin Loops
BY TaskAssumption

(* Task t goes on to another statement, out of any call of the client. *)
LEMMA ProceedKeeps ==
  ASSUME Inv, NEW t \in Task, NEW label \in Label, Proceed(t, label),
         lock # t, running \in {None, t},
         cancel' \in SUBSET Task, ConnectionUnchanged,
         todo' \in [Task -> SUBSET Exports],
         \A u \in Task : u # t => todo'[u] = todo[u],
         label \in {"register", "forward", "reach", "push"} => todo'[t] # {}
  PROVE  /\ ClientInv' /\ Placed'
         /\ pc' \in [Task -> Label]
<1>1. ClientInv'
  BY CallEndsKeeps DEF Inv, Proceed, ConnectionUnchanged
<1>2. pc' \in [Task -> Label]
  BY DEF Inv, CoordinatorTypeOK, Proceed
<1>3. Placed'
  BY DEF Inv, CoordinatorTypeOK, ClientInv, ClientTypeOK, Placed, Proceed
<1> QED
  BY <1>1, <1>2, <1>3

LEMMA NextDeviceKeeps ==
  ASSUME Inv, NEW t \in Task, NextDevice(t), running = t,
         cancel' \in SUBSET Task, ConnectionUnchanged
  PROVE  /\ ClientInv' /\ Placed'
         /\ pc' \in [Task -> Label] /\ todo' \in [Task -> SUBSET Exports]
<1> DEFINE rest == todo[t] \ {Device(t)}
           label == IF rest = {} THEN AfterRepublish(t) ELSE "register"
<1>1. todo' = [todo EXCEPT ![t] = rest] /\ Proceed(t, label)
  BY DEF NextDevice
<1>2. label \in Label
  BY DEF AfterRepublish, Label
<1>3. lock # t
  BY RunningWithoutLock DEF Inv
<1>4. todo' \in [Task -> SUBSET Exports] /\ \A u \in Task : u # t => todo'[u] = todo[u]
  BY <1>1 DEF Inv, CoordinatorTypeOK
<1>5. label \in {"register", "forward", "reach", "push"} => todo'[t] # {}
  BY <1>1 DEF AfterRepublish, Inv, CoordinatorTypeOK
<1> HIDE DEF label
<1> QED
  BY <1>1, <1>2, <1>3, <1>4, <1>5, ProceedKeeps

-------------------------------------------------------------------------------
(* The client's own steps leave the coordinator where it is. *)
LEMMA ClientStepsKeep ==
  ASSUME Inv, ClientInv', UNCHANGED <<pc, todo>>,
         \A u \in Task : call[u] = Idle => call'[u] = Idle
  PROVE  Placed'
BY DEF Inv, Placed
LEMMA CallClientKeeps ==
  ASSUME Inv, NEW t \in Task, CallClient(t) PROVE Inv'
<1>1. ClientInv'
  BY ConnectKeeps, SendKeeps, DisconnectKeeps DEF CallClient, Inv
<1>2. pc[t] \notin {"idle", "loaded"}
  BY DEF CallClient
<1>3. \A u \in Task : u # t => call'[u] = call[u]
  BY DEF CallClient, Connect, Send, Disconnect, Inv, ClientInv, ClientTypeOK
<1> QED
  BY <1>1, <1>2, <1>3
  DEF CallClient, Inv, Placed, CoordinatorTypeOK, coordinatorVars, entryVars, linkVars

LEMMA ClientProgressKeeps ==
  ASSUME Inv, NEW t \in Task, ClientProgress(t) PROVE Inv'
<1>1. ClientInv'
  BY CallStepKeeps, OpenFailsKeeps DEF ClientProgress, Inv
<1>2. \A u \in Task : call[u] = Idle => call'[u] = Idle
  BY CallStepLocal DEF ClientProgress, Inv
<1> QED
  BY <1>1, <1>2, ClientStepsKeep
  DEF ClientProgress, Inv, CoordinatorTypeOK, coordinatorVars, entryVars, linkVars

LEMMA ConnectionOpenedKeeps ==
  ASSUME Inv, NEW t \in Task, ConnectionOpened(t) PROVE Inv'
<1>1. ClientInv'
  BY OpenConnectionKeeps DEF ConnectionOpened, Inv
<1>2. \A u \in Task : call[u] = Idle => call'[u] = Idle
  BY CallStepLocal DEF ConnectionOpened, Inv
<1> QED
  BY <1>1, <1>2, ClientStepsKeep
  DEF ConnectionOpened, Inv, CoordinatorTypeOK, entryVars

LEMMA ConnectedKeeps ==
  ASSUME Inv, NEW t \in Task, Connected(t) PROVE Inv'
<1>1. lock # t /\ running = t
  BY RunningWithoutLock DEF Inv, Connected, Returned
<1>2. /\ cancel' \in SUBSET Task /\ ConnectionUnchanged
      /\ UNCHANGED <<shuttingDown, reconnectTask, known, faults>>
      /\ connectedSince' \in BOOLEAN
  BY DEF Connected, MarkConnected, Inv, ClientInv, ClientTypeOK
<1>3. CASE /\ todo' = [todo EXCEPT ![t] = Exports]
           /\ Proceed(t, "ensure") /\ UNCHANGED startupSync
  <2>1. "ensure" \in Label
    BY DEF Label
  <2>2. /\ todo' \in [Task -> SUBSET Exports]
        /\ \A u \in Task : u # t => todo'[u] = todo[u]
    BY <1>3 DEF Inv, CoordinatorTypeOK
  <2>3. ClientInv' /\ Placed' /\ pc' \in [Task -> Label]
    BY <1>1, <1>2, <1>3, <2>1, <2>2, ProceedKeeps
  <2> QED
    BY <1>2, <1>3, <2>2, <2>3 DEF Inv, CoordinatorTypeOK
<1>4. CASE /\ Proceed(t, AfterRepublish(t)) /\ UNCHANGED todo
           /\ startupSync' = (startupSync \/ (t = Entry /\ AutoRepublish))
  <2>1. /\ AfterRepublish(t) \in Label
        /\ AfterRepublish(t) \notin {"register", "forward", "reach", "push"}
    BY DEF AfterRepublish, Label
  <2>2. /\ todo' \in [Task -> SUBSET Exports] /\ startupSync' \in BOOLEAN
        /\ \A u \in Task : u # t => todo'[u] = todo[u]
    BY <1>4 DEF Inv, CoordinatorTypeOK
  <2>3. ClientInv' /\ Placed' /\ pc' \in [Task -> Label]
    BY <1>1, <1>2, <1>4, <2>1, <2>2, ProceedKeeps
  <2> QED
    BY <1>2, <2>2, <2>3 DEF Inv, CoordinatorTypeOK
<1> QED
  BY <1>3, <1>4 DEF Connected

LEMMA StartDevicesKeeps ==
  ASSUME Inv, NEW t \in Task, StartDevices(t) PROVE Inv'
<1> DEFINE label == IF todo[t] = {} THEN AfterRepublish(t) ELSE "register"
<1>1. Proceed(t, label) /\ running = t /\ ConnectionUnchanged
  BY DEF StartDevices, Returned
<1>2. lock # t
  BY <1>1, RunningWithoutLock DEF Inv
<1>3. label \in Label
  BY DEF AfterRepublish, Label
<1>4. /\ cancel' \in SUBSET Task /\ todo' \in [Task -> SUBSET Exports]
      /\ UNCHANGED <<todo, entryVars, linkVars>>
  BY DEF StartDevices, Inv, ClientInv, ClientTypeOK, CoordinatorTypeOK
<1>5. label \in {"register", "forward", "reach", "push"} => todo'[t] # {}
  BY <1>4 DEF AfterRepublish
<1> HIDE DEF label
<1>6. ClientInv' /\ Placed' /\ pc' \in [Task -> Label]
  BY <1>1, <1>2, <1>3, <1>4, <1>5, ProceedKeeps
<1> QED
  BY <1>4, <1>6 DEF Inv, CoordinatorTypeOK, entryVars, linkVars

LEMMA RegisteredKeeps ==
  ASSUME Inv, NEW t \in Task, Registered(t) PROVE Inv'
<1>1. /\ Proceed(t, "forward") /\ running = t /\ ConnectionUnchanged
      /\ pc[t] = "register"
  BY DEF Registered, Returned
<1>2. lock # t
  BY <1>1, RunningWithoutLock DEF Inv
<1>3. todo[t] # {} /\ Device(t) \in Exports
  BY <1>1 DEF Inv, Placed, CoordinatorTypeOK, Device
<1>4. /\ cancel' \in SUBSET Task /\ todo' \in [Task -> SUBSET Exports]
      /\ UNCHANGED <<todo, entryVars, connectedSince, faults>>
      /\ known' \in SUBSET Exports
  BY <1>3 DEF Registered, Inv, ClientInv, ClientTypeOK, CoordinatorTypeOK
<1>5. "forward" \in Label
  BY DEF Label
<1>6. ClientInv' /\ Placed' /\ pc' \in [Task -> Label]
  BY <1>1, <1>2, <1>3, <1>4, <1>5, ProceedKeeps
<1> QED
  BY <1>4, <1>6 DEF Inv, CoordinatorTypeOK, entryVars

LEMMA CheckShutdownKeeps ==
  ASSUME Inv, NEW t \in Task, CheckShutdown(t) PROVE Inv'
<1>1. /\ running = t /\ pc[t] = "forward" /\ ConnectionUnchanged
      /\ cancel' \in SUBSET Task /\ UNCHANGED <<entryVars, linkVars>>
  BY DEF CheckShutdown, Inv, ClientInv, ClientTypeOK
<1>2. lock # t
  BY <1>1, RunningWithoutLock DEF Inv
<1>3. CASE NextDevice(t)
  BY <1>1, <1>3, NextDeviceKeeps DEF Inv, CoordinatorTypeOK, entryVars, linkVars
<1>4. CASE Proceed(t, "reach") /\ UNCHANGED todo
  <2>1. "reach" \in Label
    BY DEF Label
  <2>2. todo' \in [Task -> SUBSET Exports] /\ todo'[t] # {}
    BY <1>1, <1>4 DEF Inv, CoordinatorTypeOK, Placed
  <2>3. ClientInv' /\ Placed' /\ pc' \in [Task -> Label]
    BY <1>1, <1>2, <1>4, <2>1, <2>2, ProceedKeeps
  <2> QED
    BY <1>1, <1>4, <2>3 DEF Inv, CoordinatorTypeOK, entryVars, linkVars
<1> QED
  BY <1>3, <1>4 DEF CheckShutdown

LEMMA ReachedKeeps ==
  ASSUME Inv, NEW t \in Task, Reached(t) PROVE Inv'
<1>1. /\ running = t /\ pc[t] = "reach" /\ ConnectionUnchanged
      /\ cancel' \in SUBSET Task /\ UNCHANGED <<entryVars, linkVars>>
  BY DEF Reached, Returned, Inv, ClientInv, ClientTypeOK
<1>2. lock # t
  BY <1>1, RunningWithoutLock DEF Inv
<1>3. CASE NextDevice(t)
  BY <1>1, <1>3, NextDeviceKeeps DEF Inv, CoordinatorTypeOK, entryVars, linkVars
<1>4. CASE Proceed(t, "push") /\ UNCHANGED todo
  <2>1. "push" \in Label
    BY DEF Label
  <2>2. todo' \in [Task -> SUBSET Exports] /\ todo'[t] # {}
    BY <1>1, <1>4 DEF Inv, CoordinatorTypeOK, Placed
  <2>3. ClientInv' /\ Placed' /\ pc' \in [Task -> Label]
    BY <1>1, <1>2, <1>4, <2>1, <2>2, ProceedKeeps
  <2> QED
    BY <1>1, <1>4, <2>3 DEF Inv, CoordinatorTypeOK, entryVars, linkVars
<1> QED
  BY <1>3, <1>4 DEF Reached

LEMMA PushedKeeps ==
  ASSUME Inv, NEW t \in Task, Pushed(t) PROVE Inv'
<1>1. /\ running = t /\ pc[t] = "push" /\ ConnectionUnchanged
      /\ cancel' \in SUBSET Task /\ UNCHANGED <<entryVars, linkVars>>
  BY DEF Pushed, Returned, Inv, ClientInv, ClientTypeOK
<1>2. lock # t
  BY <1>1, RunningWithoutLock DEF Inv
<1>3. CASE NextDevice(t)
  BY <1>1, <1>3, NextDeviceKeeps DEF Inv, CoordinatorTypeOK, entryVars, linkVars
<1>4. CASE Proceed(t, "push") /\ UNCHANGED todo
  <2>1. "push" \in Label
    BY DEF Label
  <2>2. todo' \in [Task -> SUBSET Exports] /\ todo'[t] # {}
    BY <1>1, <1>4 DEF Inv, CoordinatorTypeOK, Placed
  <2>3. ClientInv' /\ Placed' /\ pc' \in [Task -> Label]
    BY <1>1, <1>2, <1>4, <2>1, <2>2, ProceedKeeps
  <2> QED
    BY <1>1, <1>4, <2>3 DEF Inv, CoordinatorTypeOK, entryVars, linkVars
<1> QED
  BY <1>3, <1>4 DEF Pushed

LEMMA RetryLaterKeeps ==
  ASSUME Inv, NEW t \in Loops, RetryLater(t) PROVE Inv'
<1>1. t \in Task /\ running = t /\ call' = [call EXCEPT ![t] = Idle] /\ running' = None
  BY TasksAre DEF RetryLater, Returned
<1>2. lock # t
  BY <1>1, RunningWithoutLock DEF Inv
<1>3. cancel' \in SUBSET Task /\ ConnectionUnchanged /\ UNCHANGED coordinatorVars
  BY DEF RetryLater, Inv, ClientInv, ClientTypeOK
<1>4. ClientInv'
  BY <1>1, <1>2, <1>3, CallEndsKeeps DEF Inv, ConnectionUnchanged
<1>5. \A u \in Task : call[u] = Idle => call'[u] = Idle
  BY <1>1 DEF Inv, ClientInv, ClientTypeOK
<1> QED
  BY <1>3, <1>4, <1>5, ClientStepsKeep
  DEF Inv, CoordinatorTypeOK, coordinatorVars, entryVars, linkVars

LEMMA FailsKeeps ==
  ASSUME Inv, NEW t \in Task, Fails(t) PROVE Inv'
<1> DEFINE label == IF t = Entry /\ pc[t] # "disconnect" THEN "shutdown" ELSE "idle"
<1>1. /\ running = t /\ Proceed(t, label) /\ ConnectionUnchanged
      /\ UNCHANGED <<entryVars, linkVars>> /\ cancel' \in SUBSET Task
  BY DEF Fails, Inv, ClientInv, ClientTypeOK
<1>2. lock # t
  BY <1>1, RunningWithoutLock DEF Inv
<1>3. label \in Label /\ label \notin {"register", "forward", "reach", "push"}
  BY DEF Label
<1>4. /\ todo' \in [Task -> SUBSET Exports]
      /\ \A u \in Task : u # t => todo'[u] = todo[u]
  BY DEF Fails, Inv, CoordinatorTypeOK
<1> HIDE DEF label
<1>5. ClientInv' /\ Placed' /\ pc' \in [Task -> Label]
  BY <1>1, <1>2, <1>3, <1>4, ProceedKeeps
<1> QED
  BY <1>1, <1>4, <1>5 DEF Inv, CoordinatorTypeOK, entryVars, linkVars

LEMMA HandleDisconnectKeeps ==
  ASSUME Inv, NEW s \in Sock, HandleDisconnect(s) PROVE Inv'
<1>1. PICK next \in Loops \union {None} :
        /\ ReaderReports(s, next)
        /\ next \in Loops =>
             /\ pc[next] = "idle" /\ reconnectTask' = next
             /\ pc' = [pc EXCEPT ![next] = "throttle"]
        /\ next \notin Loops => UNCHANGED <<pc, reconnectTask>>
  BY TaskSockAssumption, TasksAre DEF HandleDisconnect, LoopAlive
<1>2. next \in Loops => call[next] = Idle
  BY <1>1, TasksAre DEF Inv, Placed
<1>3. rd' \in [Sock -> ReaderTask] /\ running' = next
  <2>1. Ended \in ReaderTask
    BY DEF Ended, NoReaderTask, ReaderTask
  <2> QED
    BY <1>1, <2>1 DEF ReaderReports, Inv, ClientInv, ClientTypeOK
<1>4. ClientTypeOK' /\ LockHeld' /\ Opened'
  BY <1>1, <1>3, TasksAre
  DEF ReaderReports, Inv, ClientInv, ClientTypeOK, LockHeld, Opened, streamVars,
      keepaliveVars
<1>5. Working'
  BY <1>1, <1>2, <1>3, TaskSockAssumption
  DEF ReaderReports, Working, Idle, Suspended
<1>6. /\ pc' \in [Task -> Label] /\ reconnectTask' \in Loops \union {None}
      /\ connectedSince' \in BOOLEAN
  BY <1>1 DEF HandleDisconnect, Inv, CoordinatorTypeOK, Label
<1>7. Placed'
  BY <1>1 DEF HandleDisconnect, ReaderReports, Inv, CoordinatorTypeOK, Placed
<1> QED
  BY <1>4, <1>5, <1>6, <1>7
  DEF HandleDisconnect, Inv, ClientInv, CoordinatorTypeOK

LEMMA ThrottleKeeps ==
  ASSUME Inv, NEW l \in Loops, Throttle(l) PROVE Inv'
<1>1. /\ l \in Task /\ running = l /\ running' \in {None, l}
      /\ pc[l] = "throttle" /\ pc' = [pc EXCEPT ![l] = "connect"]
  BY TasksAre DEF Throttle
<1>2. ClientInv'
  BY <1>1, TaskSockAssumption
  DEF Throttle, ConnectionUnchanged, Inv, ClientInv, ClientTypeOK, LockHeld,
      Working, Opened, streamVars, readerVars, keepaliveVars
<1> QED
  BY <1>1, <1>2
  DEF Throttle, Inv, CoordinatorTypeOK, Placed, Label, entryVars, linkVars

LEMMA LoopCancelledKeeps ==
  ASSUME Inv, NEW l \in Loops, LoopCancelled(l) PROVE Inv'
<1>1. /\ l \in Task /\ (running = l \/ call[l] = Idle) /\ running \in {None, l}
      /\ Proceed(l, "idle") /\ ConnectionUnchanged
      /\ UNCHANGED <<entryVars, linkVars>> /\ cancel' \in SUBSET Task
  BY TasksAre DEF LoopCancelled, Inv, ClientInv, ClientTypeOK
<1>2. lock # l
  BY <1>1, RunningWithoutLock DEF Inv
<1>3. "idle" \in Label
  BY DEF Label
<1>4. /\ todo' \in [Task -> SUBSET Exports]
      /\ \A u \in Task : u # l => todo'[u] = todo[u]
  BY DEF LoopCancelled, Inv, CoordinatorTypeOK
<1>5. ClientInv' /\ Placed' /\ pc' \in [Task -> Label]
  BY <1>1, <1>2, <1>3, <1>4, ProceedKeeps
<1> QED
  BY <1>1, <1>4, <1>5 DEF Inv, CoordinatorTypeOK, entryVars, linkVars

(* A task of Home Assistant begins. *)
LEMMA StartsKeeps ==
  ASSUME Inv, NEW f \in Forwarders, NEW label \in {"reach", "ensure"},
         NEW devices \in SUBSET Exports, Starts(f, label, devices),
         label = "reach" => devices # {}, startupSync' \in BOOLEAN
  PROVE  Inv'
<1>1. /\ f \in Task /\ running = None /\ running' = f /\ pc[f] = "idle"
      /\ pc' = [pc EXCEPT ![f] = label] /\ todo' = [todo EXCEPT ![f] = devices]
      /\ UNCHANGED <<call, cancel, shuttingDown, reconnectTask, linkVars>>
      /\ ConnectionUnchanged
  BY TasksAre DEF Starts
<1>2. call[f] = Idle
  BY <1>1 DEF Inv, Placed
<1>3. ClientInv'
  BY <1>1, <1>2, TaskSockAssumption
  DEF ConnectionUnchanged, Inv, ClientInv, ClientTypeOK, LockHeld, Working, Opened,
      Idle, Suspended, streamVars, readerVars, keepaliveVars
<1> QED
  BY <1>1, <1>3 DEF Inv, CoordinatorTypeOK, Placed, Label, linkVars

LEMMA TasksOfHomeAssistantKeeps ==
  ASSUME Inv, NEW f \in Forwarders,
         \/ \E d \in Exports : StateChanged(f, d)
         \/ DevicesRequested(f) \/ HomeAssistantStarted(f)
  PROVE Inv'
BY StartsKeeps
DEF StateChanged, DevicesRequested, HomeAssistantStarted, Inv, CoordinatorTypeOK

LEMMA ShutdownKeeps ==
  ASSUME Inv, Shutdown PROVE Inv'
<1>1. /\ Entry \in Task /\ running \in {None, Entry} /\ Proceed(Entry, "disconnect")
      /\ (running = Entry \/ call[Entry] = Idle) /\ ConnectionUnchanged
      /\ UNCHANGED <<todo, linkVars>>
  BY TasksAre DEF Shutdown, Inv, Placed
<1>2. lock # Entry
  BY <1>1, RunningWithoutLock DEF Inv
<1>3. cancel' \in SUBSET Task
  BY TasksAre DEF Shutdown, CancelReconnect, LoopAlive, Inv, ClientInv, ClientTypeOK
<1>4. "disconnect" \in Label /\ todo' \in [Task -> SUBSET Exports]
  BY <1>1 DEF Label, Inv, CoordinatorTypeOK
<1>5. ClientInv' /\ Placed' /\ pc' \in [Task -> Label]
  BY <1>1, <1>2, <1>3, <1>4, ProceedKeeps
<1> QED
  BY <1>1, <1>5 DEF Shutdown, Inv, CoordinatorTypeOK, linkVars

LEMMA DisconnectedKeeps ==
  ASSUME Inv, Disconnected PROVE Inv'
<1>1. /\ Entry \in Task /\ running = Entry /\ Proceed(Entry, "idle")
      /\ ConnectionUnchanged /\ UNCHANGED <<todo, entryVars, linkVars>>
      /\ cancel' \in SUBSET Task
  BY TasksAre DEF Disconnected, Returned, Inv, ClientInv, ClientTypeOK
<1>2. lock # Entry
  BY <1>1, RunningWithoutLock DEF Inv
<1>3. "idle" \in Label /\ todo' \in [Task -> SUBSET Exports]
  BY <1>1 DEF Label, Inv, CoordinatorTypeOK
<1>4. ClientInv' /\ Placed' /\ pc' \in [Task -> Label]
  BY <1>1, <1>2, <1>3, ProceedKeeps
<1> QED
  BY <1>1, <1>4 DEF Inv, CoordinatorTypeOK, entryVars, linkVars

LEMMA FaultKeeps ==
  ASSUME Inv, Fault PROVE Inv'
<1>1. PICK s \in Sock : PeerCloses(s) \/ ConnectionReset(s) \/ HandlerRaises(s)
  BY DEF Fault
<1>2. ClientInv'
  BY <1>1, PeerClosesKeeps, ConnectionResetKeeps, HandlerRaisesKeeps DEF Inv
<1>3. call' = call
  BY <1>1 DEF PeerCloses, ConnectionReset, HandlerRaises, LeaveReading, callVars
<1>4. faults' \in 0..MaxFaults
  BY OptionAssumption DEF Fault, Inv, CoordinatorTypeOK
<1> QED
  BY <1>2, <1>3, <1>4, ClientStepsKeep
  DEF Fault, Inv, CoordinatorTypeOK, entryVars

LEMMA ClientTasksKeeps ==
  ASSUME Inv, NEW s \in Sock, ClientTasks(s) \/ IncomingMessage(s) PROVE Inv'
<1>1. ClientInv'
  BY ReaderStepKeeps, ConnectionLostKeeps, HandlerWaitsKeeps
  DEF ClientTasks, IncomingMessage, Inv
<1>2. call' = call
  BY DEF ClientTasks, IncomingMessage, ReaderStep, ReaderStarts, HandlerWaits,
     HandlerReturns, ReaderSeesEnd, LeaveReading, ReaderFinishes,
     ReaderFinallyCancelled, KeepaliveEnds, ConnectionLost, callVars
<1>3. UNCHANGED coordinatorVars
  BY DEF ClientTasks, IncomingMessage
<1> QED
  BY <1>1, <1>2, <1>3, ClientStepsKeep
  DEF Inv, CoordinatorTypeOK, coordinatorVars, entryVars, linkVars

LEMMA StreamsKeep ==
  ASSUME Inv, NEW s \in Sock, KeepaliveMessage(s) \/ StreamStep(s) PROVE Inv'
<1>1. ClientInv'
  BY KeepaliveWaitsKeeps, KeepaliveResumesKeeps, WriterDroppedKeeps
  DEF KeepaliveMessage, StreamStep, Inv
<1>2. call' = call
  BY DEF KeepaliveMessage, StreamStep, KeepaliveWaits, KeepaliveResumes,
     WriterDropped, callVars
<1>3. UNCHANGED coordinatorVars
  BY DEF KeepaliveMessage, StreamStep
<1> QED
  BY <1>1, <1>2, <1>3, ClientStepsKeep
  DEF Inv, CoordinatorTypeOK, coordinatorVars, entryVars, linkVars

LEMMA StutterKeeps ==
  ASSUME Inv, UNCHANGED vars PROVE Inv'
BY DEF Inv, ClientInv, ClientTypeOK, LockHeld, Working, Opened, CoordinatorTypeOK,
   Placed, vars, clientVars, coordinatorVars, streamVars, readerVars, keepaliveVars,
   callVars, entryVars, linkVars

(* The inductive invariant: every action of the client and of the           *)
(* coordinator keeps the types, the lock with who waits for drain(), a task *)
(* or a keepalive, and idle coroutines out of the client's methods.                *)
THEOREM Invariance == Spec => []Inv
<1>1. Init => Inv
  BY InitInv
<1>2. Inv /\ [Next]_vars => Inv'
  <2> SUFFICES ASSUME Inv, [Next]_vars PROVE Inv'
    OBVIOUS
  <2>1. ASSUME NEW t \in Task, TaskStep(t) \/ ConnectionOpened(t) PROVE Inv'
    BY <2>1, CallClientKeeps, ClientProgressKeeps, ConnectionOpenedKeeps,
       ConnectedKeeps, StartDevicesKeeps, RegisteredKeeps, CheckShutdownKeeps,
       ReachedKeeps, PushedKeeps, RetryLaterKeeps, FailsKeeps
    DEF TaskStep, RetryLater
  <2>2. ASSUME NEW l \in Loops, LoopStep(l) PROVE Inv'
    BY <2>2, ThrottleKeeps, LoopCancelledKeeps DEF LoopStep
  <2>3. ASSUME NEW s \in Sock,
               \/ ClientTasks(s) \/ HandleDisconnect(s) \/ IncomingMessage(s)
               \/ KeepaliveMessage(s) \/ StreamStep(s)
        PROVE  Inv'
    BY <2>3, ClientTasksKeeps, HandleDisconnectKeeps, StreamsKeep
  <2>4. CASE \E f \in Forwarders :
               \/ \E d \in Exports : StateChanged(f, d)
               \/ DevicesRequested(f) \/ HomeAssistantStarted(f)
    BY <2>4, TasksOfHomeAssistantKeeps
  <2>5. CASE Shutdown \/ Disconnected \/ Fault
    BY <2>5, ShutdownKeeps, DisconnectedKeeps, FaultKeeps
  <2> QED
    BY <2>1, <2>2, <2>3, <2>4, <2>5, StutterKeeps DEF Next
<1> QED
  BY <1>1, <1>2, PTL DEF Spec

(* Every variable has its type, whatever the number of tasks, sockets,     *)
(* exported devices and faults.                                            *)
THEOREM Typing == Spec => []TypeOK
<1>1. Inv => TypeOK
  BY DEF Inv, ClientInv, CoordinatorTypeOK, TypeOK
<1> QED
  BY <1>1, Invariance, PTL

(* No failure, cancellation or loss inside async_send leaves the write lock *)
(* with a task that does not wait for drain(), or with a keepalive that has *)
(* ended (async_send, _async_keepalive_loop, _cancel_keepalive).           *)
THEOREM LockIsHeldAcrossDrain == Spec => []LockHeld
<1>1. Inv => LockHeld
  BY DEF Inv, ClientInv
<1> QED
  BY <1>1, Invariance, PTL

-------------------------------------------------------------------------------
(* A step that keeps the handle and the flag and starts no reconnect task  *)
(* keeps the one there is.                                                 *)
LEMMA NoNewLoop ==
  ASSUME OneReconnectLoop, UNCHANGED <<shuttingDown, reconnectTask>>,
         \A l \in Loops : pc[l] = "idle" => pc'[l] = "idle"
  PROVE  OneReconnectLoop'
BY DEF OneReconnectLoop, LoopAlive

LEMMA ProceedStartsNoLoop ==
  ASSUME Inv, NEW t \in Task, t \in Loops => pc[t] # "idle",
         NEW label, pc' = [pc EXCEPT ![t] = label]
  PROVE  \A l \in Loops : pc[l] = "idle" => pc'[l] = "idle"
BY DEF Inv, CoordinatorTypeOK

(* The coroutine that acts in a step of its own is not an idle one. *)
LEMMA TaskStepStartsNoLoop ==
  ASSUME Inv, NEW t \in Task, TaskStep(t) \/ ConnectionOpened(t)
  PROVE  /\ UNCHANGED <<shuttingDown, reconnectTask>>
         /\ \A l \in Loops : pc[l] = "idle" => pc'[l] = "idle"
<1>1. CASE CallClient(t) \/ ClientProgress(t) \/ ConnectionOpened(t) \/ RetryLater(t)
  BY <1>1 DEF CallClient, ClientProgress, ConnectionOpened, RetryLater,
     coordinatorVars, entryVars
<1>2. ASSUME NEW label, Returned(t, label, "ok"), label # "idle" PROVE pc[t] # "idle"
  BY <1>2 DEF Returned
<1>3. CASE Connected(t) \/ StartDevices(t) \/ Registered(t)
  <2>1. pc[t] # "idle"
    BY <1>2, <1>3 DEF Connected, StartDevices, Registered
  <2>2. \E label : pc' = [pc EXCEPT ![t] = label]
    BY <1>3 DEF Connected, StartDevices, Registered, Proceed
  <2> QED
    BY <1>3, <2>1, <2>2, ProceedStartsNoLoop
    DEF Connected, StartDevices, Registered, entryVars
<1>4. CASE CheckShutdown(t) \/ Reached(t) \/ Pushed(t)
  <2>1. pc[t] # "idle"
    BY <1>2, <1>4 DEF CheckShutdown, Reached, Pushed
  <2>2. \E label : pc' = [pc EXCEPT ![t] = label]
    BY <1>4 DEF CheckShutdown, Reached, Pushed, NextDevice, Proceed
  <2> QED
    BY <1>4, <2>1, <2>2, ProceedStartsNoLoop
    DEF CheckShutdown, Reached, Pushed, entryVars
<1>5. CASE Fails(t)
  <2>1. pc[t] # "idle"
    BY <1>5 DEF Fails, Inv, Placed, Idle
  <2>2. \E label : pc' = [pc EXCEPT ![t] = label]
    BY <1>5 DEF Fails, Proceed
  <2> QED
    BY <1>5, <2>1, <2>2, ProceedStartsNoLoop DEF Fails, entryVars
<1> QED
  BY <1>1, <1>3, <1>4, <1>5 DEF TaskStep

(* The only step that starts a reconnect task looks first whether the one  *)
(* it has a handle of is alive, which then is the only one.                *)
LEMMA HandleDisconnectKeepsOneLoop ==
  ASSUME Inv, OneReconnectLoop, NEW s \in Sock, HandleDisconnect(s)
  PROVE  OneReconnectLoop'
<1>1. CASE ~MayReconnect
  BY <1>1, NoNewLoop DEF HandleDisconnect
<1>2. CASE MayReconnect
  <2>1. ~shuttingDown => \A l \in Loops : ~LoopAlive(l)
    BY <1>2 DEF MayReconnect, OneReconnectLoop
  <2>2. PICK l \in Loops : reconnectTask' = l /\ pc' = [pc EXCEPT ![l] = "throttle"]
    BY <1>2 DEF HandleDisconnect
  <2>3. \A m \in Loops : m # l => pc'[m] = pc[m]
    BY <2>2 DEF Inv, CoordinatorTypeOK
  <2>4. shuttingDown' = shuttingDown
    BY DEF HandleDisconnect
  <2> QED
    BY <2>1, <2>2, <2>3, <2>4 DEF OneReconnectLoop, LoopAlive
<1> QED
  BY <1>1, <1>2

(* However many readers report a disconnect, and in whatever order tasks   *)
(* connect, async_handle_disconnect never has two reconnect tasks at work  *)
(* for an entry that is not being unloaded.                                *)
THEOREM OneLoop == Spec => []OneReconnectLoop
<1>1. Init => OneReconnectLoop
  BY TaskAssumption DEF Init, OneReconnectLoop, LoopAlive
<1>2. Inv /\ OneReconnectLoop /\ [Next]_vars => OneReconnectLoop'
  <2> SUFFICES ASSUME Inv, OneReconnectLoop, [Next]_vars PROVE OneReconnectLoop'
    OBVIOUS
  <2>1. ASSUME NEW t \in Task, TaskStep(t) \/ ConnectionOpened(t)
        PROVE  OneReconnectLoop'
    BY <2>1, TaskStepStartsNoLoop, NoNewLoop
  <2>2. ASSUME NEW l \in Loops, LoopStep(l) PROVE OneReconnectLoop'
    <3>1. UNCHANGED <<shuttingDown, reconnectTask>>
      BY <2>2 DEF LoopStep, Throttle, LoopCancelled, entryVars
    <3>2. \A m \in Loops : pc[m] = "idle" => pc'[m] = "idle"
      BY <2>2, TasksAre DEF LoopStep, Throttle, LoopCancelled, Proceed, Inv, CoordinatorTypeOK
    <3> QED
      BY <3>1, <3>2, NoNewLoop
  <2>3. ASSUME NEW s \in Sock, HandleDisconnect(s) PROVE OneReconnectLoop'
    BY <2>3, HandleDisconnectKeepsOneLoop
  <2>4. ASSUME NEW f \in Forwarders,
               \/ \E d \in Exports : StateChanged(f, d)
               \/ DevicesRequested(f) \/ HomeAssistantStarted(f)
        PROVE  OneReconnectLoop'
    <3>1. PICK label : pc' = [pc EXCEPT ![f] = label]
      BY <2>4 DEF StateChanged, DevicesRequested, HomeAssistantStarted, Starts
    <3>2. UNCHANGED <<shuttingDown, reconnectTask>>
      BY <2>4 DEF StateChanged, DevicesRequested, HomeAssistantStarted, Starts
    <3> QED
      BY <3>1, <3>2, TasksAre, ProceedStartsNoLoop, NoNewLoop
  <2>5. CASE Shutdown
    BY <2>5 DEF Shutdown, OneReconnectLoop
  <2>6. CASE Disconnected
    <3>1. UNCHANGED <<shuttingDown, reconnectTask>>
      BY <2>6 DEF Disconnected, entryVars
    <3>2. pc' = [pc EXCEPT ![Entry] = "idle"]
      BY <2>6 DEF Disconnected, Proceed
    <3> QED
      BY <3>1, <3>2, TasksAre, ProceedStartsNoLoop, NoNewLoop
  <2>7. ASSUME \/ Fault
               \/ \E s \in Sock : \/ ClientTasks(s) \/ IncomingMessage(s)
                                  \/ KeepaliveMessage(s) \/ StreamStep(s)
               \/ UNCHANGED vars
        PROVE  OneReconnectLoop'
    <3>1. UNCHANGED <<pc, shuttingDown, reconnectTask>>
      BY <2>7 DEF Fault, ClientTasks, IncomingMessage, KeepaliveMessage, StreamStep,
         vars, coordinatorVars, entryVars
    <3> QED
      BY <3>1, NoNewLoop
  <2> QED
    BY <2>1, <2>2, <2>3, <2>4, <2>5, <2>6, <2>7 DEF Next
<1> QED
  BY <1>1, <1>2, Invariance, PTL DEF Spec

-------------------------------------------------------------------------------
(* Set-up and the reconnect loop as the only callers of the client          *)

Solo == Forwarders = {} /\ ~AutoRepublish /\ QuietUnload

(* No reader task runs, no connection is open. *)
Unread == \A s \in Sock : ~ReaderAlive(s)
Shut == \A s \in Sock : sock[s] \notin {"open", "eof"}

Connecting(t) == pc[t] \in {"throttle", "connect"}

Statements ==
  /\ pc[Entry] \in {"connect", "loaded", "shutdown", "disconnect", "idle"}
  /\ \A l \in Loops : pc[l] \in {"idle", "throttle", "connect"}
  /\ \A l \in Loops : pc[l] = "throttle" => running = l
  /\ lock \notin Task

(* A task that connects has found no connection and no keepalive. *)
Connects(t) ==
  /\ call[t].op = "connect" /\ pc[t] = "connect"
  /\ call[t].at \in {"kastop", "opening", "send"} \union Result
  /\ call[t].at \in {"kastop", "opening"} => Shut /\ ka = {}
  /\ call[t].at = "send" => running = t /\ reader # None /\ ka = {}

(* The unload ends the reader, then the keepalive, then the connection. *)
Disconnects(t) ==
  /\ call[t].op = "disconnect" /\ t = Entry /\ pc[t] = "disconnect"
  /\ call[t].at \in {"d_reader", "d_keepalive", "d_close", "d_kastop", "d_wait",
                     "ok", "error"}
  /\ call[t].at = "d_reader" =>
       /\ intentional /\ call[t].s = readerTask
       /\ \A s \in Sock : ReaderAlive(s) =>
            rd[s].at # "callback" /\ (rd[s].cancelled \/ rd[s].at = "closing")
  /\ call[t].at # "d_reader" => Unread
  /\ call[t].at \notin {"d_reader", "d_keepalive"} => ka = {}
  /\ call[t].at \in {"d_wait", "ok", "error"} => Shut

Calls == \A t \in Task : call[t] = Idle \/ Connects(t) \/ Disconnects(t)

(* One task connects, and no reader runs until it is done. *)
Connectors ==
  /\ \A t, u \in Task : Connecting(t) /\ Connecting(u) => t = u
  /\ \A t \in Task : Connecting(t) => Unread \/ (running = t /\ call[t].at = "ok")

(* The reader the client has a handle of is the only one. *)
Readers ==
  \A s \in Sock :
    /\ ReaderAlive(s) => s = readerTask
    /\ rd[s].at = "new" => reader # None
    /\ rd[s].at = "closing" => Shut
    /\ rd[s].at = "callback" => running = s
    /\ rd[s].at # "failed"

Single ==
  /\ \A s \in Sock : sock[s] \in {"open", "eof"} => s = writer
  /\ ka \subseteq {keepaliveTask}

Stopping ==
  /\ shuttingDown <=> pc[Entry] \in {"disconnect", "idle"}
  /\ shuttingDown => \A l \in Loops : LoopAlive(l) => l \in cancel /\ call[l] = Idle
  /\ pc[Entry] \in {"disconnect", "shutdown"} /\ call[Entry] = Idle => running = Entry
  /\ pc[Entry] = "idle" => Unread /\ ka = {} /\ Shut

Lone == Statements /\ Calls /\ Connectors /\ Readers /\ Single /\ Stopping

-------------------------------------------------------------------------------
LEMMA SoloTasks == ASSUME Solo PROVE Task = {Entry} \union Loops
BY TaskAssumption DEF Solo

(* A reader at work while the event loop is free leaves no task connecting. *)
LEMMA ReaderAlone ==
  ASSUME Lone, NEW s \in Sock, ReaderAlive(s), running \notin Task
  PROVE  \A t \in Task : ~Connecting(t) /\ call[t].op # "connect"
<1>1. \A t \in Task : ~Connecting(t)
  BY DEF Lone, Connectors, Unread
<1> QED
  BY <1>1 DEF Lone, Calls, Connects, Disconnects, Connecting, Idle

(* A task that connects, its own connection not yet made, has no reader and *)
(* no rival, and the entry is not being unloaded.                           *)
LEMMA ConnectorAlone ==
  ASSUME Solo, Lone, NEW t \in Task, call[t].op = "connect"
  PROVE  /\ Connects(t) /\ Connecting(t) /\ ~shuttingDown
         /\ \A u \in Task \ {t} : ~Connecting(u) /\ call[u] = Idle
         /\ call[t].at # "ok" => Unread
<1>1. Connects(t) /\ Connecting(t)
  BY DEF Lone, Calls, Disconnects, Connects, Connecting, Idle
<1>2. ~shuttingDown
  <2>1. CASE t = Entry
    BY <1>1, <2>1 DEF Connects, Lone, Stopping
  <2>2. CASE t \in Loops
    BY <1>1, <2>2 DEF Connects, Lone, Stopping, LoopAlive, Idle
  <2> QED
    BY <2>1, <2>2, SoloTasks
<1>3. \A u \in Task \ {t} : ~Connecting(u)
  BY <1>1 DEF Lone, Connectors
<1>4. \A u \in Task \ {t} : call[u] = Idle
  BY <1>2, <1>3 DEF Lone, Calls, Connects, Disconnects, Connecting, Stopping
<1>5. call[t].at # "ok" => Unread
  BY <1>1 DEF Lone, Connectors
<1> QED
  BY <1>1, <1>2, <1>3, <1>4, <1>5

(* The client's view of a step: what the sockets, the readers and the      *)
(* keepalive do, every task staying where it is.                           *)
LEMMA PeerClosesAlone ==
  ASSUME Inv, Solo, Lone, NEW s \in Sock,
         \/ PeerCloses(s) \/ ConnectionReset(s)
         \/ ConnectionLost(s) \/ WriterDropped(s),
         UNCHANGED <<pc, shuttingDown>>
  PROVE  Lone'
<1>1. /\ UNCHANGED <<reader, writer, lock, readerVars, keepaliveVars, callVars>>
      /\ \A r \in Sock : sock'[r] \in {"open", "eof"} => sock[r] \in {"open", "eof"}
  BY DEF PeerCloses, ConnectionReset, ConnectionLost, WriterDropped, Inv, ClientInv,
         ClientTypeOK
<1>2. Unread' <=> Unread
  BY <1>1 DEF Unread, ReaderAlive, readerVars
<1>3. Shut => Shut'
  BY <1>1 DEF Shut
<1>4. Statements' /\ Connectors' /\ Stopping'
  BY <1>1, <1>2, <1>3
  DEF Lone, Statements, Connectors, Connecting, Stopping, LoopAlive, callVars, keepaliveVars
<1>5. Readers' /\ Single'
  BY <1>1, <1>3 DEF Lone, Readers, Single, ReaderAlive, readerVars, keepaliveVars, callVars
<1>6. Calls'
  BY <1>1, <1>2, <1>3
  DEF Lone, Calls, Connects, Disconnects, ReaderAlive, readerVars, keepaliveVars, callVars
<1> QED
  BY <1>4, <1>5, <1>6 DEF Lone

(* Reader tasks *)
LEMMA ReaderStartsAlone ==
  ASSUME Inv, Solo, Lone, NEW s \in Sock, ReaderStarts(s), UNCHANGED <<pc, shuttingDown>>
  PROVE  Lone'
<1>1. /\ running = None /\ rd[s].at = "new" /\ ReaderAlive(s) /\ reader # None
      /\ UNCHANGED <<streamVars, lock, readerTask, keepaliveVars, callVars>>
  BY DEF ReaderStarts, ReaderAlive, Lone, Readers
<1>2. /\ \A r \in Sock \ {s} : rd'[r] = rd[r]
      /\ rd[s].cancelled => rd'[s].at = "done" /\ intentional' = intentional
      /\ ~rd[s].cancelled => rd'[s].at = "reading"
  <2>1. rd \in [Sock -> ReaderTask]
    BY DEF Inv, ClientInv, ClientTypeOK
  <2>2. CASE rd[s].cancelled
    BY <2>1, <2>2 DEF ReaderStarts, Ended, NoReaderTask
  <2>3. CASE ~rd[s].cancelled
    BY <1>1, <2>1, <2>3 DEF ReaderStarts, ReaderTask
  <2> QED
    BY <2>2, <2>3
<1>3. \A t \in Task : ~Connecting(t) /\ call[t].op # "connect"
  BY <1>1, ReaderAlone, TaskSockAssumption
<1>4. \A r \in Sock : ReaderAlive(r)' => ReaderAlive(r)
  BY <1>1, <1>2 DEF ReaderAlive
<1>5. Unread => Unread'
  BY <1>4 DEF Unread
<1>6. Statements' /\ Single' /\ Stopping'
  BY <1>1, <1>5
  DEF Lone, Statements, Single, Stopping, Shut, LoopAlive, callVars, keepaliveVars, streamVars
<1>7. Readers'
  BY <1>1, <1>2, <1>4 DEF Lone, Readers, Shut, callVars, streamVars
<1>8. Connectors'
  BY <1>3 DEF Connectors, Connecting
<1>9. Calls'
  <2> SUFFICES ASSUME NEW t \in Task, Disconnects(t)
               PROVE  Disconnects(t)'
    BY <1>1, <1>3 DEF Lone, Calls, Connects, callVars
  <2>1. call[t].at = "d_reader"
    BY <1>1 DEF Disconnects, Unread
  <2>2. rd[s].cancelled
    BY <1>1, <2>1 DEF Disconnects
  <2>3. \A r \in Sock : ReaderAlive(r)' => rd'[r] = rd[r]
    BY <1>2, <2>2 DEF ReaderAlive
  <2> QED
    BY <1>1, <1>2, <1>4, <2>1, <2>2, <2>3 DEF Disconnects, callVars
<1> QED
  BY <1>6, <1>7, <1>8, <1>9 DEF Lone

LEMMA LeaveReadingAlone ==
  ASSUME Inv, Solo, Lone, NEW s \in Sock, LeaveReading(s), UNCHANGED <<pc, shuttingDown>>
  PROVE  Lone'
<1>1. /\ running = None /\ ReaderAlive(s) /\ s = readerTask /\ running' \in {None, s}
      /\ UNCHANGED <<writer, lock, readerTask, intentional, keepaliveVars, call, cancel>>
  BY DEF LeaveReading, ReaderAlive, Lone, Readers
<1>2. /\ \A r \in Sock \ {s} : rd'[r] = rd[r]
      /\ rd'[s].at = "closing"
  BY DEF LeaveReading, Inv, ClientInv, ClientTypeOK
<1>3. \A t \in Task : ~Connecting(t) /\ call[t].op # "connect"
  BY <1>1, ReaderAlone, TaskSockAssumption
<1>4. Shut'
  <2>1. \A r \in Sock : sock[r] \in {"open", "eof"} => r = writer /\ IsConnected
    BY TaskSockAssumption DEF Lone, Single, IsConnected
  <2>2. CASE IsConnected
    <3>1. sock' = [sock EXCEPT ![writer] = "closing"] /\ writer \in Sock
      BY <2>2 DEF LeaveReading, IsConnected, Inv, ClientInv, ClientTypeOK
    <3> QED
      BY <2>1, <3>1 DEF Shut, Inv, ClientInv, ClientTypeOK
  <2>3. CASE ~IsConnected
    BY <2>1, <2>3 DEF LeaveReading, Shut
  <2> QED
    BY <2>2, <2>3
<1>5. \A r \in Sock : ReaderAlive(r)' <=> ReaderAlive(r)
  BY <1>1, <1>2 DEF ReaderAlive
<1>6. Unread' <=> Unread
  BY <1>5 DEF Unread
<1>7. Statements' /\ Single' /\ Stopping'
  <2>1. \A l \in Loops : pc[l] # "throttle"
    BY <1>3, TasksAre DEF Connecting
  <2>2. pc[Entry] \in {"disconnect", "shutdown"} => call[Entry] # Idle
    BY <1>1, TaskAssumption, TaskSockAssumption, TasksAre DEF Lone, Stopping
  <2> QED
    BY <1>1, <1>4, <1>6, <2>1, <2>2
    DEF Lone, Statements, Single, Stopping, Shut, LoopAlive, keepaliveVars
<1>8. Readers'
  BY <1>1, <1>2, <1>4, <1>5, TaskSockAssumption DEF Lone, Readers, ReaderAlive
<1>9. Connectors'
  BY <1>3 DEF Connectors, Connecting
<1>10. Calls'
  <2> SUFFICES ASSUME NEW t \in Task, Disconnects(t)
               PROVE  Disconnects(t)'
    BY <1>1, <1>3 DEF Lone, Calls, Connects
  <2>1. call[t].at = "d_reader"
    BY <1>1 DEF Disconnects, Unread
  <2> QED
    BY <1>1, <1>2, <1>5, <2>1 DEF Disconnects, keepaliveVars, Readers, Lone
<1> QED
  BY <1>7, <1>8, <1>9, <1>10 DEF Lone

LEMMA HandlerAlone ==
  ASSUME Inv, Solo, Lone, NEW s \in Sock, HandlerWaits(s) \/ HandlerReturns(s),
         UNCHANGED <<pc, shuttingDown>>
  PROVE  Lone'
<1>1. /\ running = None /\ ReaderAlive(s) /\ ~rd[s].cancelled
      /\ rd[s].at \in {"reading", "handling"}
      /\ UNCHANGED <<streamVars, lock, readerTask, intentional, keepaliveVars, callVars>>
  BY DEF HandlerWaits, HandlerReturns, ReaderAlive
<1>2. /\ \A r \in Sock \ {s} : rd'[r] = rd[r]
      /\ rd'[s].at \in {"reading", "handling"}
  BY DEF HandlerWaits, HandlerReturns, Inv, ClientInv, ClientTypeOK, ReaderTask
<1>3. \A t \in Task : call[t] = Idle
  <2>1. \A t \in Task : call[t].op # "connect"
    BY <1>1, ReaderAlone, TaskSockAssumption
  <2>2. \A t \in Task : ~Disconnects(t)
    BY <1>1 DEF Disconnects, Unread
  <2> QED
    BY <2>1, <2>2 DEF Lone, Calls, Connects
<1>4. \A r \in Sock : ReaderAlive(r)' <=> ReaderAlive(r)
  BY <1>1, <1>2 DEF ReaderAlive
<1>5. Unread' <=> Unread
  BY <1>4 DEF Unread
<1>6. Statements' /\ Single' /\ Stopping' /\ Connectors'
  BY <1>1, <1>5
  DEF Lone, Statements, Single, Stopping, Connectors, Connecting, Shut, LoopAlive,
      callVars, keepaliveVars, streamVars
<1>7. Readers'
  BY <1>1, <1>2, <1>4 DEF Lone, Readers, Shut, callVars, streamVars
<1>8. Calls'
  BY <1>1, <1>3 DEF Calls, callVars
<1> QED
  BY <1>6, <1>7, <1>8 DEF Lone

(* The reader is gone; an unload under way has asked it to say nothing. *)
LEMMA ReaderFinishesAlone ==
  ASSUME Inv, Solo, Lone, NEW s \in Sock, UNCHANGED <<pc, shuttingDown>>,
         ReaderFinishes(s) \/ ReaderFinallyCancelled(s)
  PROVE  Lone'
<1>1. /\ running \in {None, s} /\ running' \in {None, s}
      /\ ReaderAlive(s) /\ rd[s].at = "closing" /\ Shut
      /\ UNCHANGED <<sock, reader, lock, readerTask, intentional, keepaliveVars, call, cancel>>
  BY DEF ReaderFinishes, ReaderFinallyCancelled, ReaderAlive, HasLoop, Lone, Readers,
         streamVars, callVars
<1>2. /\ \A r \in Sock \ {s} : rd'[r] = rd[r]
      /\ rd'[s].at = "done" \/ (rd'[s].at = "callback" /\ running' = s /\ ~intentional)
  BY DEF ReaderFinishes, ReaderFinallyCancelled, Inv, ClientInv, ClientTypeOK, Ended,
         NoReaderTask
<1>3. \A t \in Task : ~Connecting(t) /\ call[t].op # "connect"
  BY <1>1, ReaderAlone, TaskSockAssumption
<1>4. \A r \in Sock : ReaderAlive(r)' => ReaderAlive(r)
  BY <1>1, <1>2 DEF ReaderAlive
<1>5. Unread => Unread'
  BY <1>4 DEF Unread
<1>6. Shut'
  BY <1>1 DEF Shut
<1>7. Statements' /\ Single' /\ Stopping'
  <2>1. \A l \in Loops : pc[l] # "throttle"
    BY <1>3, TasksAre DEF Connecting
  <2>2. pc[Entry] \in {"disconnect", "shutdown"} => call[Entry] # Idle
    BY <1>1, TaskAssumption, TaskSockAssumption, TasksAre DEF Lone, Stopping
  <2> QED
    BY <1>1, <1>5, <1>6, <2>1, <2>2
    DEF Lone, Statements, Single, Stopping, Shut, LoopAlive, keepaliveVars
<1>8. Readers'
  <2> SUFFICES ASSUME NEW r \in Sock
               PROVE  /\ ReaderAlive(r)' => r = readerTask
                      /\ rd'[r].at = "new" => reader # None
                      /\ rd'[r].at = "callback" => running' = r
                      /\ rd'[r].at # "failed"
    BY <1>1, <1>6 DEF Readers
  <2>1. CASE r = s
    BY <1>1, <1>2, <1>4, <2>1 DEF Lone, Readers
  <2>2. CASE r # s
    <3>1. ~ReaderAlive(r)
      BY <1>1, <2>2 DEF Lone, Readers
    <3> QED
      BY <1>2, <1>4, <2>2, <3>1 DEF ReaderAlive, Lone, Readers
  <2> QED
    BY <2>1, <2>2
<1>9. Connectors'
  BY <1>3 DEF Connectors, Connecting
<1>10. Calls'
  <2> SUFFICES ASSUME NEW t \in Task, Disconnects(t)
               PROVE  Disconnects(t)'
    BY <1>1, <1>3 DEF Lone, Calls, Connects
  <2>1. call[t].at = "d_reader" /\ intentional
    BY <1>1 DEF Disconnects, Unread
  <2>2. \A r \in Sock : ReaderAlive(r)' => rd'[r] = rd[r]
    BY <1>2, <2>1 DEF ReaderAlive
  <2> QED
    BY <1>1, <1>4, <2>1, <2>2 DEF Disconnects, keepaliveVars
<1> QED
  BY <1>7, <1>8, <1>9, <1>10 DEF Lone

LEMMA KeepaliveAlone ==
  ASSUME Inv, Solo, Lone, NEW s \in Sock,
         KeepaliveEnds(s) \/ KeepaliveWaits(s) \/ KeepaliveResumes(s),
         UNCHANGED <<pc, shuttingDown>>
  PROVE  Lone'
<1>1. /\ UNCHANGED <<streamVars, readerVars, keepaliveTask, callVars>>
      /\ ka' \subseteq ka /\ lock' \in {lock, s, None}
  BY DEF KeepaliveEnds, KeepaliveWaits, KeepaliveResumes
<1>2. lock' \notin Task
  BY <1>1, TaskSockAssumption DEF Lone, Statements
<1>3. Statements' /\ Readers' /\ Single'
  BY <1>1, <1>2
  DEF Lone, Statements, Readers, Single, ReaderAlive, Shut, streamVars, readerVars, callVars
<1>4. Calls'
  BY <1>1
  DEF Lone, Calls, Connects, Disconnects, Unread, Shut, ReaderAlive, streamVars,
      readerVars, callVars
<1>5. Connectors' /\ Stopping'
  BY <1>1
  DEF Lone, Connectors, Connecting, Unread, Shut, ReaderAlive, Stopping, LoopAlive,
      streamVars, readerVars, callVars
<1> QED
  BY <1>3, <1>4, <1>5 DEF Lone

(* Tasks in async_connect *)
LEMMA ConnectMovesAlone ==
  ASSUME Inv, Solo, Lone, NEW t \in Task, NEW c, call' = [call EXCEPT ![t] = c],
         pc[t] = "connect", ~shuttingDown, Unread,
         \A u \in Task \ {t} : ~Connecting(u) /\ call[u] = Idle,
         running \in {None, t}, running' \in {None, t},
         UNCHANGED <<pc, shuttingDown, streamVars, readerVars>>, lock' \in {None, lock},
         ka' \subseteq {keepaliveTask'},
         c = Idle \/ (c.op = "connect" /\ c.at \in {"kastop", "opening"} \union Result),
         c.at \in {"kastop", "opening"} => Shut /\ ka' = {}
  PROVE  Lone'
<1>1. /\ call'[t] = c /\ \A u \in Task \ {t} : call'[u] = Idle
  BY DEF Inv, ClientInv, ClientTypeOK
<1>2. (Unread' <=> Unread) /\ (Shut' <=> Shut)
  BY DEF Unread, Shut, ReaderAlive, readerVars, streamVars
<1>3. Statements'
  <2>1. \A l \in Loops : pc[l] # "throttle"
    BY TasksAre DEF Connecting
  <2> QED
    BY <2>1, TaskSockAssumption DEF Lone, Statements
<1>4. Calls'
  <2>1. call'[t] = Idle \/ Connects(t)'
    BY <1>1, <1>2 DEF Connects, Result
  <2> QED
    BY <1>1, <2>1 DEF Calls
<1>5. Connectors' /\ Single'
  BY <1>2 DEF Lone, Connectors, Connecting, Single, streamVars
<1>6. Readers'
  BY <1>2 DEF Lone, Readers, Unread, ReaderAlive, readerVars, streamVars
<1>7. Stopping'
  <2>1. pc[Entry] \in {"connect", "loaded", "shutdown"}
    BY DEF Lone, Statements, Stopping
  <2>2. ASSUME pc[Entry] = "shutdown" PROVE running' = Entry
    <3>1. t # Entry
      BY <2>2
    <3>2. call[Entry] = Idle /\ running = Entry
      BY <2>2, <3>1, TasksAre DEF Lone, Stopping
    <3> QED
      BY <3>1, <3>2, TasksAre, TaskSockAssumption
  <2> QED
    BY <2>1, <2>2 DEF Stopping
<1> QED
  BY <1>3, <1>4, <1>5, <1>6, <1>7 DEF Lone

(* Whoever may connect finds no reader, and the entry not being unloaded. *)
LEMMA MayConnect ==
  ASSUME Inv, Solo, Lone, NEW t \in Task, pc[t] = "connect", call[t] = Idle,
         t \notin cancel
  PROVE  /\ ~shuttingDown /\ Unread
         /\ \A u \in Task \ {t} : ~Connecting(u) /\ call[u] = Idle
<1>1. ~shuttingDown
  <2>1. CASE t = Entry
    BY <2>1 DEF Lone, Stopping
  <2>2. CASE t \in Loops
    BY <2>2 DEF Lone, Stopping, LoopAlive
  <2> QED
    BY <2>1, <2>2, SoloTasks
<1>2. Connecting(t) /\ call[t].at # "ok"
  BY DEF Connecting, Idle
<1>3. Unread /\ \A u \in Task \ {t} : ~Connecting(u)
  BY <1>2 DEF Lone, Connectors
<1>4. \A u \in Task \ {t} : call[u] = Idle
  BY <1>1, <1>3 DEF Lone, Calls, Connects, Disconnects, Connecting, Stopping
<1> QED
  BY <1>1, <1>3, <1>4

LEMMA IsConnectedOrShut == ASSUME Inv, Lone PROVE IsConnected <=> ~Shut
BY TaskSockAssumption
DEF Lone, Single, IsConnected, Shut, Inv, ClientInv, ClientTypeOK

LEMMA ConnectAlone ==
  ASSUME Inv, Solo, Lone, NEW t \in Task, pc[t] = "connect", t \notin cancel, Connect(t),
         UNCHANGED <<pc, shuttingDown>>
  PROVE  Lone'
<1>1. /\ running \in {None, t} /\ call[t] = Idle
      /\ UNCHANGED <<streamVars, readerVars, cancel>> /\ lock' \in {None, lock}
  BY DEF Connect, HasLoop, CancelKeepalive
<1>2. /\ ~shuttingDown /\ Unread
      /\ \A u \in Task \ {t} : ~Connecting(u) /\ call[u] = Idle
  BY <1>1, MayConnect
<1>3. PICK c : /\ call' = [call EXCEPT ![t] = c] /\ c.op = "connect"
               /\ c.at \in {"kastop", "opening", "ok"}
               /\ c.at # "ok" => ~IsConnected /\ ka' = {}
               /\ ka' \subseteq {keepaliveTask'} /\ running' \in {None, t}
  <2>1. CASE IsConnected
    <3> DEFINE c == [Idle EXCEPT !.op = "connect", !.at = "ok"]
    <3>1. call' = [call EXCEPT ![t] = c] /\ running' = t /\ UNCHANGED keepaliveVars
      BY <2>1 DEF Connect
    <3>2. c.op = "connect" /\ c.at = "ok"
      BY DEF Idle
    <3> QED
      BY <3>1, <3>2 DEF Lone, Single, keepaliveVars
  <2>2. CASE ~IsConnected
    <3> DEFINE c == [Idle EXCEPT !.op = "connect",
                      !.at = IF keepaliveTask \in ka THEN "kastop" ELSE "opening"]
    <3>1. /\ call' = [call EXCEPT ![t] = c] /\ running' = None
          /\ ka' = ka \ {keepaliveTask}
      BY <2>2 DEF Connect, CancelKeepalive
    <3>2. c.op = "connect" /\ c.at \in {"kastop", "opening"}
      BY DEF Idle
    <3>3. ka' = {}
      BY <3>1 DEF Lone, Single
    <3> QED
      BY <2>2, <3>1, <3>2, <3>3
  <2> QED
    BY <2>1, <2>2
<1>4. c.at \in {"kastop", "opening"} => Shut /\ ka' = {}
  BY <1>3, IsConnectedOrShut
<1> QED
  BY <1>1, <1>2, <1>3, <1>4, ConnectMovesAlone DEF Result

LEMMA ConnectProgressAlone ==
  ASSUME Inv, Solo, Lone, NEW t \in Task, UNCHANGED <<pc, shuttingDown>>,
         KeepaliveStopped(t) \/ OpenFails(t) \/ Cancelled(t)
  PROVE  Lone'
<1>1. /\ running = None /\ running' \in {None, t}
      /\ call[t].at \in {"kastop", "opening", "lock", "drain", "drained"}
      /\ UNCHANGED <<streamVars, readerVars, keepaliveVars>>
  BY DEF KeepaliveStopped, OpenFails, Cancelled, Resumes, Goto
<1>2. Connects(t) /\ call[t].at \in {"kastop", "opening"}
  BY <1>1 DEF Lone, Calls, Connects, Disconnects, Idle, Result
<1>3. /\ ~shuttingDown /\ Unread /\ pc[t] = "connect"
      /\ \A u \in Task \ {t} : ~Connecting(u) /\ call[u] = Idle
  BY <1>2, ConnectorAlone DEF Connects
<1>4. PICK at \in {"opening", "error", "cancelled"} :
        call' = [call EXCEPT ![t].at = at] /\ lock' = lock
  BY DEF KeepaliveStopped, OpenFails, Cancelled, Goto, Lone, Statements
<1> DEFINE c == [call[t] EXCEPT !.at = at]
<1>5. call' = [call EXCEPT ![t] = c] /\ c.op = "connect" /\ c.at = at
  BY <1>2, <1>4 DEF Connects, Inv, ClientInv, ClientTypeOK, Call
<1> HIDE DEF c
<1>6. Shut /\ ka' = {} /\ ka' \subseteq {keepaliveTask'}
  BY <1>1, <1>2 DEF Connects, keepaliveVars
<1> QED
  BY <1>1, <1>3, <1>4, <1>5, <1>6, ConnectMovesAlone DEF Result

LEMMA RetryLaterAlone ==
  ASSUME Inv, Solo, Lone, NEW l \in Loops, RetryLater(l)
  PROVE  Lone'
<1>1. /\ l \in Task /\ running = l /\ running' = None /\ pc[l] = "connect"
      /\ call[l].at = "error" /\ call' = [call EXCEPT ![l] = Idle]
      /\ UNCHANGED <<pc, shuttingDown, streamVars, lock, readerVars, keepaliveVars>>
  BY TasksAre DEF RetryLater, Returned, ConnectionUnchanged, coordinatorVars, entryVars
<1>2. call[l].op = "connect"
  BY <1>1, TasksAre DEF Lone, Calls, Connects, Disconnects, Idle
<1>3. /\ ~shuttingDown /\ Unread
      /\ \A u \in Task \ {l} : ~Connecting(u) /\ call[u] = Idle
  BY <1>1, <1>2, ConnectorAlone
<1>4. ka' \subseteq {keepaliveTask'} /\ Idle.at \notin {"kastop", "opening"}
  BY <1>1 DEF Lone, Single, keepaliveVars, Idle
<1> QED
  BY <1>1, <1>3, <1>4, ConnectMovesAlone

(* The connection is up; nobody else has one, and no task but t runs. *)
LEMMA OpenConnectionAlone ==
  ASSUME Inv, Solo, Lone, NEW t \in Task, OpenConnection(t), UNCHANGED <<pc, shuttingDown>>
  PROVE  Lone'
<1>1. PICK s \in Sock :
        /\ sock' = [sock EXCEPT ![s] = "open"] /\ reader' = s /\ writer' = s
        /\ call' = [call EXCEPT ![t].at = "send", ![t].s = s]
        /\ running = None /\ running' = t /\ call[t].at = "opening"
        /\ rd' = [rd EXCEPT ![s] = NoReaderTask]
        /\ UNCHANGED <<lock, readerTask, intentional, keepaliveVars, cancel>>
  BY DEF OpenConnection, Resumes
<1>2. Connects(t)
  BY <1>1 DEF Lone, Calls, Disconnects, Idle
<1>3. /\ ~shuttingDown /\ Unread /\ Shut /\ ka = {} /\ pc[t] = "connect"
      /\ \A u \in Task \ {t} : ~Connecting(u) /\ call[u] = Idle
  BY <1>1, <1>2, ConnectorAlone DEF Connects
<1>4. /\ call'[t].op = "connect" /\ call'[t].at = "send"
      /\ \A u \in Task \ {t} : call'[u] = Idle
  BY <1>1, <1>2, <1>3 DEF Connects, Inv, ClientInv, ClientTypeOK, Call
<1>5. \A r \in Sock : rd'[r] = rd[r] \/ rd'[r].at = "none"
  BY <1>1 DEF Inv, ClientInv, ClientTypeOK, NoReaderTask
<1>6. Unread' /\ \A r \in Sock : rd'[r].at \in {"none", "done", "failed"}
  BY <1>3, <1>5 DEF Unread, ReaderAlive
<1>7. Statements'
  <2>1. \A l \in Loops : pc[l] # "throttle"
    BY <1>1, TasksAre, TaskSockAssumption DEF Lone, Statements
  <2> QED
    BY <1>1, <2>1 DEF Lone, Statements
<1>8. Calls'
  <2>1. Connects(t)'
    BY <1>1, <1>3, <1>4, TaskSockAssumption DEF Connects, keepaliveVars
  <2> QED
    BY <1>4, <2>1 DEF Calls
<1>9. Connectors'
  BY <1>3, <1>6 DEF Connectors, Connecting
<1>10. Readers'
  BY <1>5, <1>6 DEF Readers, ReaderAlive, Lone
<1>11. Single'
  BY <1>1, <1>3 DEF Single, Shut, keepaliveVars, Inv, ClientInv, ClientTypeOK
<1>12. Stopping'
  <2>1. pc[Entry] # "shutdown"
    BY <1>1, <1>3, TasksAre, TaskSockAssumption DEF Lone, Stopping
  <2> QED
    BY <1>3, <2>1 DEF Lone, Stopping
<1> QED
  BY <1>7, <1>8, <1>9, <1>10, <1>11, <1>12 DEF Lone

(* initvdc is out: the reader and the keepalive of the new connection start. *)
LEMMA AcquireAlone ==
  ASSUME Inv, Solo, Lone, NEW t \in Task, Acquire(t), UNCHANGED <<pc, shuttingDown>>
  PROVE  Lone'
<1>1. call[t].at = "send" /\ running = t /\ UNCHANGED <<streamVars, cancel>>
  BY DEF Acquire
<1>2. Connects(t)
  BY <1>1 DEF Lone, Calls, Disconnects, Idle
<1>3. /\ ~shuttingDown /\ Unread /\ reader # None /\ ka = {} /\ pc[t] = "connect"
      /\ \A u \in Task \ {t} : ~Connecting(u) /\ call[u] = Idle
  BY <1>1, <1>2, ConnectorAlone DEF Connects
<1>4. \A u \in Task : call[u].at # "lock"
  BY <1>1, <1>3 DEF Idle
<1>5. Write(t)
  <2>1. lock = None
    BY <1>3 DEF Lone, Statements, Inv, ClientInv, ClientTypeOK, LockHeld
  <2> QED
    BY <1>4, <2>1 DEF Acquire
<1>6. CASE Goto(t, "error") /\ UNCHANGED <<lock, readerVars, keepaliveVars>>
  <2> DEFINE c == [call[t] EXCEPT !.at = "error"]
  <2>1. call' = [call EXCEPT ![t] = c] /\ c.op = "connect" /\ c.at = "error"
    BY <1>2, <1>6 DEF Goto, Connects, Inv, ClientInv, ClientTypeOK, Call
  <2> HIDE DEF c
  <2>2. running' \in {None, t} /\ ka' \subseteq {keepaliveTask'}
    BY <1>3, <1>6 DEF Goto, keepaliveVars
  <2> QED
    BY <1>1, <1>3, <1>6, <2>1, <2>2, ConnectMovesAlone DEF Result
<1>7. CASE /\ call' = [call EXCEPT ![t].at = "ok", ![t].w = writer]
           /\ running' = t /\ Sent(t) /\ UNCHANGED lock
  <2> DEFINE s == call[t].s
  <2>1. /\ readerTask' = s /\ keepaliveTask' = s /\ ka' = {s} /\ s \in Sock
        /\ rd' = [rd EXCEPT ![s] = [NoReaderTask EXCEPT !.at = "new"]]
        /\ UNCHANGED intentional
    BY <1>1, <1>2, <1>3, <1>7 DEF Connects, Sent, Inv, ClientInv, ClientTypeOK, Opened, Call
  <2> HIDE DEF s
  <2>2. /\ call'[t].op = "connect" /\ call'[t].at = "ok"
        /\ \A u \in Task \ {t} : call'[u] = Idle
    BY <1>2, <1>3, <1>7 DEF Connects, Inv, ClientInv, ClientTypeOK, Call
  <2>3. /\ rd'[s].at = "new" /\ \A r \in Sock \ {s} : rd'[r] = rd[r] /\ ~ReaderAlive(r)
    BY <1>3, <2>1 DEF Inv, ClientInv, ClientTypeOK, Unread, NoReaderTask
  <2>4. Statements'
    <3>1. \A l \in Loops : pc[l] # "throttle"
      BY <1>3, TasksAre DEF Connecting
    <3> QED
      BY <1>7, <3>1 DEF Lone, Statements
  <2>5. Calls'
    <3>1. Connects(t)'
      BY <1>3, <2>2 DEF Connects, Result
    <3> QED
      BY <2>2, <3>1 DEF Calls
  <2>6. Connectors'
    BY <1>3, <1>7, <2>2 DEF Connectors, Connecting
  <2>7. Readers'
    BY <1>1, <1>3, <2>1, <2>3 DEF Readers, ReaderAlive, Lone, streamVars
  <2>8. Single'
    BY <1>1, <2>1 DEF Lone, Single, streamVars
  <2>9. Stopping'
    <3>1. t # Entry => pc[Entry] # "shutdown"
      BY <1>1, <1>3, TasksAre DEF Lone, Stopping
    <3> QED
      BY <1>3, <3>1 DEF Lone, Stopping
  <2> QED
    BY <2>4, <2>5, <2>6, <2>7, <2>8, <2>9 DEF Lone
<1> QED
  BY <1>2, <1>5, <1>6, <1>7 DEF Write, Connects

(* The unload in async_disconnect *)
LEMMA DisconnectMovesAlone ==
  ASSUME Inv, Solo, Lone, pc[Entry] = "disconnect",
         \A u \in Task \ {Entry} : call'[u] = call[u],
         running \in {None, Entry}, running' \in {None, Entry},
         UNCHANGED <<pc, shuttingDown, cancel>>, lock' \in {None, lock},
         \A s \in Sock : ReaderAlive(s)' => ReaderAlive(s),
         Readers', Single', Disconnects(Entry)'
  PROVE  Lone'
<1>1. shuttingDown /\ \A l \in Loops : call[l] = Idle
  <2>1. shuttingDown
    BY DEF Lone, Stopping
  <2>2. ASSUME NEW l \in Loops PROVE call[l] = Idle
    BY <2>1, TasksAre DEF Lone, Stopping, LoopAlive, Inv, Placed
  <2> QED
    BY <2>1, <2>2
<1>2. Unread => Unread'
  BY DEF Unread
<1>3. call'[Entry] # Idle /\ \A l \in Loops : call'[l] = Idle
  BY <1>1, TasksAre DEF Disconnects, Idle
<1>4. Statements'
  BY TasksAre, TaskSockAssumption DEF Lone, Statements
<1>5. Calls'
  BY <1>3, SoloTasks DEF Calls
<1>6. Connectors'
  <2> SUFFICES ASSUME NEW t \in Task, Connecting(t) PROVE Unread'
    BY DEF Connectors, Connecting, Lone
  <2>1. t # Entry
    BY DEF Connecting
  <2>2. running # t
    BY <2>1, TaskSockAssumption
  <2> QED
    BY <1>2, <2>2 DEF Lone, Connectors
<1>7. Stopping'
  BY <1>3 DEF Lone, Stopping, LoopAlive
<1> QED
  BY <1>4, <1>5, <1>6, <1>7 DEF Lone

LEMMA DisconnectAlone ==
  ASSUME Inv, Solo, Lone, NEW t \in Task, pc[t] = "disconnect", Disconnect(t),
         UNCHANGED <<pc, shuttingDown>>
  PROVE  Lone'
<1>1. t = Entry
  BY SoloTasks DEF Lone, Statements
<1>2. /\ call[Entry] = Idle /\ running = Entry /\ intentional' = TRUE /\ Entry \in Task
      /\ UNCHANGED <<streamVars, lock, keepaliveVars, cancel>>
  BY <1>1, TasksAre DEF Disconnect, Lone, Stopping
<1>3. \A s \in Sock : rd[s].at \notin {"callback", "failed"}
  BY <1>2, TaskSockAssumption DEF Lone, Readers
<1>4. PICK at \in {"d_reader", "error", "d_keepalive"} :
        call' = [call EXCEPT ![Entry] =
                   [Idle EXCEPT !.op = "disconnect", !.at = at, !.s = readerTask]]
  BY <1>1 DEF Disconnect
<1>5. /\ call'[Entry].op = "disconnect" /\ call'[Entry].at = at
      /\ call'[Entry].s = readerTask
      /\ \A u \in Task \ {Entry} : call'[u] = call[u]
  BY <1>2, <1>4 DEF Idle, Inv, ClientInv, ClientTypeOK
<1>6. Single'
  BY <1>2 DEF Lone, Single, streamVars, keepaliveVars
<1>7. CASE readerTask # None /\ ReaderAlive(readerTask)
  <2>1. /\ rd' = [rd EXCEPT ![readerTask].cancelled = TRUE] /\ UNCHANGED readerTask
        /\ call' = [call EXCEPT ![Entry] =
                      [Idle EXCEPT !.op = "disconnect", !.at = "d_reader", !.s = readerTask]]
        /\ running' = None
    BY <1>1, <1>7 DEF Disconnect, ReaderAlive
  <2>2. at = "d_reader"
    BY <1>2, <1>5, <2>1 DEF Idle, Inv, ClientInv, ClientTypeOK
  <2>3. \A s \in Sock : /\ rd'[s].at = rd[s].at
                        /\ s = readerTask => rd'[s].cancelled
    BY <2>1 DEF Inv, ClientInv, ClientTypeOK, ReaderTask
  <2>4. Readers'
    BY <1>2, <1>3, <2>1, <2>3 DEF Lone, Readers, ReaderAlive, Shut, streamVars
  <2>5. \A s \in Sock : ReaderAlive(s)' <=> ReaderAlive(s)
    BY <2>3 DEF ReaderAlive
  <2>6. \A s \in Sock : ReaderAlive(s) => s = readerTask
    BY DEF Lone, Readers
  <2>7. Disconnects(Entry)'
    BY <1>1, <1>2, <1>3, <1>5, <2>1, <2>2, <2>3, <2>5, <2>6 DEF Disconnects
  <2> QED
    BY <1>1, <1>2, <1>5, <1>6, <2>1, <2>4, <2>5, <2>7, DisconnectMovesAlone
<1>8. CASE ~(readerTask # None /\ ReaderAlive(readerTask))
  <2>1. Unread
    BY <1>8, TaskSockAssumption DEF Lone, Readers, Unread
  <2>2. ~(readerTask # None /\ rd[readerTask].at = "failed")
    BY <1>3 DEF Inv, ClientInv, ClientTypeOK
  <2>3. /\ UNCHANGED rd /\ running' = Entry
        /\ call' = [call EXCEPT ![Entry] =
                      [Idle EXCEPT !.op = "disconnect", !.at = "d_keepalive", !.s = readerTask]]
    BY <1>1, <1>8, <2>2 DEF Disconnect
  <2>4. at = "d_keepalive"
    BY <1>2, <1>5, <2>3 DEF Idle, Inv, ClientInv, ClientTypeOK
  <2>5. Unread' /\ \A s \in Sock : ReaderAlive(s)' => ReaderAlive(s)
    BY <2>1, <2>3 DEF Unread, ReaderAlive
  <2>6. Readers'
    BY <1>3, <2>1, <2>3 DEF Readers, Unread, ReaderAlive
  <2>7. Disconnects(Entry)'
    BY <1>1, <1>2, <1>5, <2>4, <2>5 DEF Disconnects
  <2> QED
    BY <1>1, <1>2, <1>5, <1>6, <2>3, <2>5, <2>6, <2>7, DisconnectMovesAlone
<1> QED
  BY <1>7, <1>8

(* The call of async_disconnect goes on to another await, or ends. *)
LEMMA DisconnectGoes ==
  ASSUME Inv, Disconnects(Entry), UNCHANGED pc, NEW at, Entry \in Task,
         \/ call' = [call EXCEPT ![Entry].at = at]
         \/ \E s : call' = [call EXCEPT ![Entry].at = at, ![Entry].s = s]
  PROVE  /\ call'[Entry].op = "disconnect" /\ call'[Entry].at = at
         /\ \A u \in Task \ {Entry} : call'[u] = call[u]
BY DEF Disconnects, Inv, ClientInv, ClientTypeOK, Call

LEMMA DisconnectProgressAlone ==
  ASSUME Inv, Solo, Lone, NEW t \in Task, UNCHANGED <<pc, shuttingDown>>,
         \/ ReaderStopped(t) \/ StopKeepalive(t) \/ CloseWriter(t)
         \/ WriterClosed(t) \/ WriterCloseFails(t)
  PROVE  Lone'
<1>1. /\ running \in {None, t} /\ running' \in {None, t}
      /\ call[t].at \in {"d_reader", "d_keepalive", "d_kastop", "d_close", "d_wait"}
      /\ UNCHANGED <<rd, cancel>> /\ lock' \in {None, lock}
  BY DEF CancelKeepalive, ReaderStopped, StopKeepalive, CloseWriter, WriterClosed, WriterCloseFails,
         ClearConnection, Resumes, Goto, readerVars
<1>2. Disconnects(t) /\ t = Entry /\ pc[Entry] = "disconnect" /\ Entry \in Task
  BY <1>1, TasksAre DEF Lone, Calls, Connects, Disconnects, Idle, Result
<1>3. \A s \in Sock : ReaderAlive(s)' <=> ReaderAlive(s)
  BY <1>1 DEF ReaderAlive
<1>4. Unread' <=> Unread
  BY <1>3 DEF Unread
<1>0. ASSUME NEW at \in {"d_keepalive", "d_close", "d_kastop", "d_wait", "ok", "error"},
             \/ call' = [call EXCEPT ![t].at = at]
             \/ \E s : call' = [call EXCEPT ![t].at = at, ![t].s = s],
             Unread, Single',
             at # "d_keepalive" => ka' = {},
             at \in {"d_wait", "ok", "error"} => Shut'
      PROVE  Lone'
  <2>1. /\ call'[Entry].op = "disconnect" /\ call'[Entry].at = at
        /\ \A u \in Task \ {Entry} : call'[u] = call[u]
    BY <1>0, <1>2, DisconnectGoes
  <2>2. Disconnects(Entry)'
    BY <1>0, <1>2, <1>4, <2>1 DEF Disconnects
  <2>3. Readers'
    BY <1>0, <1>1, <1>3 DEF Readers, Lone, Unread, ReaderAlive
  <2> QED
    BY <1>0, <1>1, <1>2, <1>3, <2>1, <2>2, <2>3, DisconnectMovesAlone
<1>5. CASE ReaderStopped(t)
  <2>1. Unread
    BY <1>2, <1>5 DEF ReaderStopped, Resumes, Disconnects, Unread, Lone, Readers
  <2>2. Single'
    BY <1>5 DEF ReaderStopped, Lone, Single, streamVars, keepaliveVars
  <2> QED
    BY <1>0, <1>5, <2>1, <2>2 DEF ReaderStopped, Goto
<1>6. CASE StopKeepalive(t)
  <2>1. ka' = {} /\ Unread
    BY <1>2, <1>6 DEF StopKeepalive, CancelKeepalive, Lone, Single, Disconnects
  <2>2. Single'
    BY <1>6, <2>1 DEF StopKeepalive, Lone, Single, streamVars
  <2>3. \E at \in {"d_kastop", "d_close"} : call' = [call EXCEPT ![t].at = at]
    BY <1>6 DEF StopKeepalive, Goto
  <2> QED
    BY <1>0, <2>1, <2>2, <2>3
<1>7. CASE CloseWriter(t)
  <2>1. call[t].at \in {"d_close", "d_kastop"} /\ ka = {} /\ Unread /\ ka' = {}
    BY <1>2, <1>7 DEF CloseWriter, Resumes, Disconnects, keepaliveVars
  <2>2. CASE IsConnected
    <3>1. /\ sock' = [sock EXCEPT ![writer] = "closing"]
          /\ call' = [call EXCEPT ![t].at = "d_wait", ![t].s = writer]
      BY <1>7, <2>2 DEF CloseWriter
    <3>2. Shut'
      BY <2>2, <3>1 DEF IsConnected, Shut, Lone, Single, Inv, ClientInv, ClientTypeOK
    <3>3. Single'
      BY <2>1, <3>2 DEF Single, Shut
    <3> QED
      BY <1>0, <2>1, <3>1, <3>2, <3>3
  <2>3. CASE ~IsConnected
    <3>1. UNCHANGED sock /\ call' = [call EXCEPT ![t].at = "ok"]
      BY <1>7, <2>3 DEF CloseWriter, ClearConnection, Goto
    <3>2. Shut'
      BY <2>3, <3>1, IsConnectedOrShut DEF Shut
    <3>3. Single'
      BY <2>1, <3>2 DEF Single, Shut
    <3> QED
      BY <1>0, <2>1, <3>1, <3>2, <3>3
  <2> QED
    BY <2>2, <2>3
<1>8. CASE WriterClosed(t) \/ WriterCloseFails(t)
  <2>1. Shut /\ Unread /\ ka = {} /\ UNCHANGED <<sock, keepaliveVars>>
    BY <1>2, <1>8
    DEF WriterClosed, WriterCloseFails, Resumes, Disconnects, streamVars
  <2>2. Shut' /\ Single' /\ ka' = {}
    BY <2>1 DEF Shut, Single, keepaliveVars
  <2>3. \E at \in {"ok", "error"} : call' = [call EXCEPT ![t].at = at]
    BY <1>8 DEF WriterClosed, WriterCloseFails, ClearConnection, Goto
  <2> QED
    BY <1>0, <2>1, <2>2, <2>3
<1> QED
  BY <1>5, <1>6, <1>7, <1>8

-------------------------------------------------------------------------------
(* Steps of the coordinator *)

LEMMA ConnectedAlone ==
  ASSUME Inv, Solo, Lone, NEW t \in Task, Connected(t)
  PROVE  Lone'
<1>1. /\ running = t /\ pc[t] = "connect" /\ call[t].at = "ok" /\ ConnectionUnchanged
      /\ Proceed(t, AfterRepublish(t)) /\ UNCHANGED <<cancel, shuttingDown>>
  BY DEF Connected, Returned, Solo
<1>2. call[t].op = "connect"
  BY <1>1 DEF Lone, Calls, Connects, Disconnects, Idle
<1>3. ~shuttingDown /\ \A u \in Task \ {t} : ~Connecting(u) /\ call[u] = Idle
  BY <1>2, ConnectorAlone
<1>4. /\ pc'[t] \in {"idle", "loaded"} /\ running' = None
      /\ t = Entry => pc'[t] = "loaded"
      /\ t # Entry => pc'[t] = "idle"
      /\ \A u \in Task \ {t} : pc'[u] = pc[u]
      /\ \A u \in Task : call'[u] = Idle
  BY <1>1, <1>3 DEF Proceed, AfterRepublish, Inv, ClientInv, ClientTypeOK, CoordinatorTypeOK
<1>5. Statements'
  <2>1. pc'[Entry] \in {"connect", "loaded", "shutdown", "disconnect", "idle"}
    BY <1>4, TasksAre DEF Lone, Statements
  <2>2. ASSUME NEW l \in Loops PROVE pc'[l] = "idle"
    BY <1>3, <1>4, TasksAre DEF Connecting, Lone, Statements
  <2> QED
    BY <1>1, <2>1, <2>2 DEF Lone, Statements, ConnectionUnchanged
<1>6. Calls' /\ Connectors'
  BY <1>3, <1>4 DEF Calls, Connectors, Connecting
<1>7. Readers' /\ Single'
  BY <1>1, TaskSockAssumption
  DEF Lone, Readers, Single, ReaderAlive, Shut, ConnectionUnchanged, streamVars,
      readerVars, keepaliveVars
<1>8. Stopping'
  <2>1. t # Entry => pc[Entry] # "shutdown"
    BY <1>1, <1>3, TasksAre DEF Lone, Stopping
  <2> QED
    BY <1>1, <1>3, <1>4, <2>1, TasksAre DEF Lone, Stopping
<1> QED
  BY <1>5, <1>6, <1>7, <1>8 DEF Lone

(* A failed set-up goes on to its shutdown, a failed unload is over. *)
LEMMA FailsAlone ==
  ASSUME Inv, Solo, Lone, NEW t \in Task, Fails(t)
  PROVE  Lone'
<1>1. /\ running = t /\ call[t].at = "error" /\ ConnectionUnchanged
      /\ UNCHANGED <<cancel, shuttingDown>>
  BY DEF Fails, entryVars
<1>2. t = Entry /\ (Connects(t) \/ Disconnects(t)) /\ Entry \in Task
  BY <1>1, TasksAre, SoloTasks DEF Fails, Lone, Calls, Connects, Disconnects, Idle
<1> DEFINE label == IF pc[Entry] # "disconnect" THEN "shutdown" ELSE "idle"
<1>3. Proceed(Entry, label)
  BY <1>2 DEF Fails
<1>4. /\ pc'[Entry] = label /\ call'[Entry] = Idle
      /\ \A u \in Task \ {Entry} : pc'[u] = pc[u] /\ call'[u] = call[u]
  BY <1>2, <1>3 DEF Proceed, Inv, ClientInv, ClientTypeOK, CoordinatorTypeOK
<1>5. Readers' /\ Single' /\ (Unread' <=> Unread) /\ (Shut' <=> Shut) /\ ka' = ka
  BY <1>1, <1>2, TaskSockAssumption
  DEF Lone, Readers, Single, Unread, ReaderAlive, Shut, ConnectionUnchanged, streamVars,
      readerVars, keepaliveVars
<1>6. \A l \in Loops : pc[l] # "throttle" /\ running # l
  BY <1>1, <1>2, TasksAre DEF Lone, Statements
<1>7. Statements'
  BY <1>1, <1>4, <1>6, TasksAre DEF Lone, Statements, ConnectionUnchanged
<1>8. CASE Connects(t)
  <2>1. ~shuttingDown /\ \A u \in Task \ {t} : ~Connecting(u) /\ call[u] = Idle
    BY <1>8, ConnectorAlone DEF Connects
  <2>2. label = "shutdown" /\ running' = Entry
    BY <1>2, <1>3, <1>8 DEF Connects, Proceed
  <2>3. Calls' /\ Connectors' /\ Stopping'
    BY <1>1, <1>2, <1>4, <2>1, <2>2 DEF Calls, Connectors, Connecting, Stopping
  <2> QED
    BY <1>5, <1>7, <2>3 DEF Lone
<1>9. CASE Disconnects(t)
  <2>1. label = "idle" /\ Unread /\ Shut /\ ka = {} /\ shuttingDown
    BY <1>1, <1>2, <1>9 DEF Disconnects, Lone, Stopping
  <2>2. \A l \in Loops : call[l] = Idle
    BY <2>1, TasksAre DEF Lone, Stopping, LoopAlive, Inv, Placed
  <2>3. Calls'
    BY <1>4, <2>2, SoloTasks DEF Calls
  <2>4. Connectors'
    BY <1>4, <1>5, <2>1 DEF Lone, Connectors, Connecting
  <2>5. Stopping'
    BY <1>1, <1>4, <1>5, <2>1, <2>2, TasksAre DEF Lone, Stopping, LoopAlive
  <2> QED
    BY <1>5, <1>7, <2>3, <2>4, <2>5 DEF Lone
<1> QED
  BY <1>2, <1>8, <1>9

LEMMA DisconnectedAlone ==
  ASSUME Inv, Solo, Lone, Disconnected
  PROVE  Lone'
<1>1. /\ running = Entry /\ pc[Entry] = "disconnect" /\ call[Entry].at = "ok"
      /\ ConnectionUnchanged /\ UNCHANGED <<cancel, shuttingDown>>
      /\ Proceed(Entry, "idle") /\ Entry \in Task
  BY TasksAre DEF Disconnected, Returned, entryVars
<1>2. Disconnects(Entry)
  BY <1>1 DEF Lone, Calls, Connects, Idle
<1>3. /\ pc'[Entry] = "idle" /\ call'[Entry] = Idle
      /\ \A u \in Task \ {Entry} : pc'[u] = pc[u] /\ call'[u] = call[u]
  BY <1>1 DEF Proceed, Inv, ClientInv, ClientTypeOK, CoordinatorTypeOK
<1>4. Readers' /\ Single' /\ (Unread' <=> Unread) /\ (Shut' <=> Shut) /\ ka' = ka
  BY <1>1, TaskSockAssumption
  DEF Lone, Readers, Single, Unread, ReaderAlive, Shut, ConnectionUnchanged, streamVars,
      readerVars, keepaliveVars
<1>5. Unread /\ Shut /\ ka = {} /\ shuttingDown
  BY <1>1, <1>2 DEF Disconnects, Lone, Stopping
<1>6. \A l \in Loops : call[l] = Idle /\ pc[l] # "throttle"
  BY <1>1, <1>5, TasksAre DEF Lone, Stopping, LoopAlive, Inv, Placed, Statements
<1>7. Statements'
  BY <1>1, <1>3, <1>6, TasksAre DEF Lone, Statements, ConnectionUnchanged
<1>8. Calls'
  BY <1>3, <1>6, SoloTasks DEF Calls
<1>9. Connectors'
  BY <1>3, <1>4, <1>5 DEF Lone, Connectors, Connecting
<1>10. Stopping'
  BY <1>1, <1>3, <1>4, <1>5, <1>6, TasksAre DEF Lone, Stopping, LoopAlive
<1> QED
  BY <1>4, <1>7, <1>8, <1>9, <1>10 DEF Lone

(* The unload tells the reconnect loop to stop, which is the only one. *)
LEMMA ShutdownAlone ==
  ASSUME Inv, Solo, Lone, OneReconnectLoop, Shutdown
  PROVE  Lone'
<1>1. /\ running \in {None, Entry} /\ pc[Entry] \in {"loaded", "shutdown"}
      /\ \A t \in Task \ {Entry} : call[t] = Idle
      /\ shuttingDown' /\ CancelReconnect /\ ConnectionUnchanged
      /\ Proceed(Entry, "disconnect") /\ Entry \in Task
  BY TasksAre DEF Shutdown, Solo
<1>2. /\ pc'[Entry] = "disconnect" /\ running' = Entry
      /\ \A u \in Task \ {Entry} : pc'[u] = pc[u]
      /\ \A u \in Task : call'[u] = Idle
  BY <1>1 DEF Proceed, Inv, ClientInv, ClientTypeOK, CoordinatorTypeOK
<1>3. ~shuttingDown
  BY <1>1 DEF Lone, Stopping
<1>4. \A l \in Loops : LoopAlive(l) => l \in cancel'
  BY <1>1, <1>3 DEF OneReconnectLoop, CancelReconnect
<1>5. \A l \in Loops : pc[l] # "throttle" /\ running # l
  BY <1>1, TasksAre, TaskSockAssumption DEF Lone, Statements
<1>6. \A s \in Sock : rd[s].at # "callback"
  BY <1>1, TaskSockAssumption DEF Lone, Readers
<1>7. Readers' /\ Single' /\ (Unread' <=> Unread)
  BY <1>1, <1>6
  DEF Lone, Readers, Single, Unread, ReaderAlive, Shut, ConnectionUnchanged, streamVars,
      readerVars, keepaliveVars
<1>8. Statements' /\ Calls'
  BY <1>1, <1>2, <1>5, TasksAre DEF Lone, Statements, Calls, ConnectionUnchanged
<1>9. Connectors'
  BY <1>1, <1>2, <1>5, <1>7, SoloTasks DEF Lone, Connectors, Connecting
<1>10. Stopping'
  BY <1>1, <1>2, <1>4, TasksAre DEF Stopping, LoopAlive
<1> QED
  BY <1>7, <1>8, <1>9, <1>10 DEF Lone

(* The reader that reports was the last one, and nobody connects already. *)
LEMMA HandleDisconnectAlone ==
  ASSUME Inv, Solo, Lone, NEW s \in Sock, HandleDisconnect(s)
  PROVE  Lone'
<1>1. PICK next \in Loops \union {None} :
        /\ ReaderReports(s, next)
        /\ next \in Loops => pc' = [pc EXCEPT ![next] = "throttle"]
        /\ next \notin Loops => UNCHANGED pc
  BY TaskSockAssumption, TasksAre DEF HandleDisconnect
<1>2. /\ running = s /\ rd[s].at = "callback" /\ ReaderAlive(s) /\ running' = next
      /\ rd' = [rd EXCEPT ![s] = Ended] /\ shuttingDown' = shuttingDown
      /\ UNCHANGED <<streamVars, lock, readerTask, intentional, keepaliveVars, call, cancel>>
  BY <1>1 DEF ReaderReports, ReaderAlive, HandleDisconnect
<1>3. \A t \in Task : ~Connecting(t) /\ call[t].op # "connect"
  BY <1>2, ReaderAlone, TaskSockAssumption
<1>4. \A t \in Task : call[t] = Idle
  <2>1. \A t \in Task : ~Disconnects(t)
    BY <1>2 DEF Disconnects, Unread
  <2> QED
    BY <1>3, <2>1 DEF Lone, Calls, Connects
<1>5. ~shuttingDown /\ pc[Entry] = "loaded"
  <2>1. pc[Entry] \notin {"disconnect", "shutdown", "idle"}
    BY <1>2, <1>4, TasksAre, TaskSockAssumption DEF Lone, Stopping, Unread
  <2> QED
    BY <1>3, <2>1, TasksAre DEF Lone, Stopping, Statements, Connecting
<1>6. Unread'
  <2>1. \A r \in Sock \ {s} : ~ReaderAlive(r)
    BY <1>2 DEF Lone, Readers
  <2>2. \A r \in Sock : IF r = s THEN rd'[r].at = "done" ELSE rd'[r] = rd[r]
    BY <1>2 DEF Ended, NoReaderTask, Inv, ClientInv, ClientTypeOK
  <2> QED
    BY <2>1, <2>2 DEF Unread, ReaderAlive
<1>7. /\ pc'[Entry] = "loaded"
      /\ \A l \in Loops : IF l = next THEN pc'[l] = "throttle" ELSE pc'[l] = "idle"
  BY <1>1, <1>3, <1>5, TasksAre
  DEF Lone, Statements, Connecting, Inv, CoordinatorTypeOK
<1>8. Statements' /\ Stopping' /\ Calls'
  BY <1>2, <1>4, <1>5, <1>7 DEF Lone, Statements, Stopping, Calls
<1>9. Connectors'
  BY <1>6, <1>7, SoloTasks DEF Connectors, Connecting
<1>10. Readers'
  <2>1. \A r \in Sock : rd'[r].at # "failed"
    BY <1>2 DEF Ended, NoReaderTask, Inv, ClientInv, ClientTypeOK, Lone, Readers
  <2> QED
    BY <1>6, <2>1 DEF Readers, Unread, ReaderAlive
<1>11. Single'
  BY <1>2 DEF Lone, Single, streamVars, keepaliveVars
<1> QED
  BY <1>8, <1>9, <1>10, <1>11 DEF Lone

(* A loop wakes up, or is cancelled. *)
LEMMA LoopStepAlone ==
  ASSUME Inv, Solo, Lone, NEW l \in Loops, LoopStep(l)
  PROVE  Lone'
<1>1. /\ l \in Task /\ running \in {None, l} /\ running' \in {None, l}
      /\ ConnectionUnchanged /\ UNCHANGED shuttingDown
      /\ \A m \in Loops \ {l} : m \in cancel => m \in cancel'
      /\ \A u \in Task \ {l} : pc'[u] = pc[u] /\ call'[u] = call[u]
      /\ \/ pc'[l] = "idle" /\ call'[l] = Idle
         \/ running = l /\ pc[l] = "throttle" /\ pc'[l] = "connect" /\ call'[l] = call[l]
              /\ cancel' = cancel
  BY TasksAre
  DEF LoopStep, Throttle, LoopCancelled, Proceed, Inv, ClientInv, ClientTypeOK,
      CoordinatorTypeOK, entryVars
<1>2. \A u \in Task : Connecting(u)' => Connecting(u)
  BY <1>1 DEF Connecting
<1>3. Single' /\ (Unread' <=> Unread) /\ (Shut' <=> Shut) /\ ka' = ka
  BY <1>1
  DEF Lone, Single, Unread, ReaderAlive, Shut, ConnectionUnchanged, streamVars,
      readerVars, keepaliveVars
<1>4. Readers'
  BY <1>1, TaskSockAssumption
  DEF Lone, Readers, ReaderAlive, Shut, ConnectionUnchanged, streamVars, readerVars
<1>5. Statements'
  BY <1>1, TasksAre, TaskSockAssumption DEF Lone, Statements, ConnectionUnchanged
<1>6. Calls'
  <2> SUFFICES ASSUME NEW u \in Task
               PROVE  call'[u] = Idle \/ Connects(u)' \/ Disconnects(u)'
    BY DEF Calls
  <2>1. CASE u = l
    <3>1. CASE call'[l] = Idle
      BY <2>1, <3>1
    <3>2. CASE pc[l] = "throttle" /\ call'[l] = call[l]
      BY <1>1, <2>1, <3>2 DEF Lone, Calls, Connects, Disconnects
    <3> QED
      BY <1>1, <3>1, <3>2
  <2>2. CASE u # l
    <3>1. running # u
      BY <1>1, <2>2, TaskSockAssumption
    <3>2. CASE Connects(u)
      BY <1>1, <1>3, <2>2, <3>1, <3>2 DEF Connects
    <3>3. CASE Disconnects(u)
      BY <1>1, <1>3, <2>2, <3>3
      DEF Disconnects, ConnectionUnchanged, readerVars, ReaderAlive
    <3> QED
      BY <1>1, <2>2, <3>2, <3>3 DEF Lone, Calls
  <2> QED
    BY <2>1, <2>2
<1>7. Connectors'
  <2>1. \A u \in Task : Connecting(u)' => Unread
    <3> SUFFICES ASSUME NEW u \in Task, Connecting(u)' PROVE Unread
      OBVIOUS
    <3>1. CASE u = l
      <4>1. pc[l] = "throttle"
        BY <1>1, <3>1 DEF Connecting
      <4>2. call[l].at # "ok"
        BY <1>1, <4>1 DEF Lone, Calls, Connects, Disconnects, Idle
      <4> QED
        BY <1>2, <3>1, <4>2 DEF Lone, Connectors
    <3>2. CASE u # l
      BY <1>1, <1>2, <3>2, TaskSockAssumption DEF Lone, Connectors
    <3> QED
      BY <3>1, <3>2
  <2> QED
    BY <1>2, <1>3, <2>1 DEF Lone, Connectors
<1>8. Stopping'
  <2>1. pc'[Entry] = pc[Entry] /\ call'[Entry] = call[Entry] /\ running # Entry
    BY <1>1, TasksAre, TaskSockAssumption
  <2>2. shuttingDown => \A m \in Loops : LoopAlive(m)' => m \in cancel' /\ call'[m] = Idle
    BY <1>1, TasksAre DEF Lone, Stopping, LoopAlive
  <2> QED
    BY <1>1, <1>3, <2>1, <2>2 DEF Lone, Stopping
<1> QED
  BY <1>3, <1>4, <1>5, <1>6, <1>7, <1>8 DEF Lone

LEMMA LoneTaskStep ==
  ASSUME Inv, Solo, Lone, NEW t \in Task, TaskStep(t) \/ ConnectionOpened(t)
  PROVE  Lone'
<1>1. pc[t] \in {"idle", "throttle", "connect", "loaded", "shutdown", "disconnect"}
  BY SoloTasks DEF Lone, Statements
<1>2. call[t].at \notin {"lock", "drain", "drained"}
  BY DEF Lone, Calls, Connects, Disconnects, Idle, Result
<1>3. CASE CallClient(t)
  <2>1. UNCHANGED <<pc, shuttingDown>>
    BY <1>3 DEF CallClient, coordinatorVars, entryVars
  <2> QED
    BY <1>1, <1>3, <2>1, ConnectAlone, DisconnectAlone DEF CallClient
<1>4. CASE ClientProgress(t)
  <2>1. UNCHANGED <<pc, shuttingDown>>
    BY <1>4 DEF ClientProgress, coordinatorVars, entryVars
  <2>2. ~LockGranted(t) /\ ~Drained(t) /\ ~DrainReturns(t) /\ ~DrainFails(t)
    BY <1>2 DEF LockGranted, Drained, DrainReturns, DrainFails, Resumes
  <2> QED
    BY <1>4, <2>1, <2>2, ConnectProgressAlone, AcquireAlone, DisconnectProgressAlone
    DEF ClientProgress, CallStep
<1>5. CASE ConnectionOpened(t)
  BY <1>5, OpenConnectionAlone DEF ConnectionOpened, entryVars
<1>6. CASE RetryLater(t)
  BY <1>6, RetryLaterAlone DEF RetryLater
<1>7. ~StartDevices(t) /\ ~Registered(t) /\ ~CheckShutdown(t) /\ ~Reached(t) /\ ~Pushed(t)
  BY <1>1 DEF StartDevices, Registered, CheckShutdown, Reached, Pushed, Returned
<1> QED
  BY <1>3, <1>4, <1>5, <1>6, <1>7, ConnectedAlone, FailsAlone DEF TaskStep

LEMMA LoneSocketStep ==
  ASSUME Inv, Solo, Lone, NEW s \in Sock,
         \/ ClientTasks(s) \/ HandleDisconnect(s) \/ IncomingMessage(s)
         \/ KeepaliveMessage(s) \/ StreamStep(s)
  PROVE  Lone'
<1>1. CASE ClientTasks(s) \/ IncomingMessage(s)
  <2>1. UNCHANGED <<pc, shuttingDown>>
    BY <1>1 DEF ClientTasks, IncomingMessage, coordinatorVars, entryVars
  <2> QED
    BY <1>1, <2>1, PeerClosesAlone, ReaderStartsAlone, HandlerAlone, LeaveReadingAlone,
       ReaderFinishesAlone, KeepaliveAlone
    DEF ClientTasks, IncomingMessage, ReaderStep, ReaderSeesEnd
<1>2. CASE KeepaliveMessage(s) \/ StreamStep(s)
  <2>1. UNCHANGED <<pc, shuttingDown>>
    BY <1>2 DEF KeepaliveMessage, StreamStep, coordinatorVars, entryVars
  <2> QED
    BY <1>2, <2>1, PeerClosesAlone, KeepaliveAlone DEF KeepaliveMessage, StreamStep
<1> QED
  BY <1>1, <1>2, HandleDisconnectAlone

LEMMA LoneStep ==
  ASSUME Inv, Solo, Lone, OneReconnectLoop, [Next]_vars
  PROVE  Lone'
<1>1. CASE Fault
  <2>1. UNCHANGED <<pc, shuttingDown>>
    BY <1>1 DEF Fault, entryVars
  <2> QED
    BY <1>1, <2>1, PeerClosesAlone, LeaveReadingAlone DEF Fault, HandlerRaises
<1>2. CASE UNCHANGED vars
  <2>1. UNCHANGED <<sock, reader, writer, lock, readerTask, keepaliveTask, rd, ka,
                    intentional, call, cancel, running, pc, shuttingDown>>
    BY <1>2 DEF vars, clientVars, streamVars, readerVars, keepaliveVars, callVars,
                coordinatorVars, entryVars
  <2>2. Statements' /\ Connectors' /\ Readers' /\ Single' /\ Stopping'
    BY <2>1 DEF Lone, Statements, Connectors, Connecting, Readers, Single, Stopping,
                Unread, Shut, ReaderAlive, LoopAlive
  <2>3. Calls'
    BY <2>1 DEF Lone, Calls, Connects, Disconnects, Unread, Shut, ReaderAlive
  <2> QED
    BY <2>2, <2>3 DEF Lone
<1> QED
  BY <1>1, <1>2, LoneTaskStep, LoneSocketStep, LoopStepAlone, ShutdownAlone,
     DisconnectedAlone DEF Next, Solo

LEMMA LoneInit == ASSUME Solo, Init PROVE Lone
<1>1. /\ pc[Entry] = "connect" /\ \A l \in Loops : pc[l] = "idle"
      /\ \A t \in Task : call[t] = Idle
      /\ Unread /\ Shut
  BY TasksAre DEF Init, ClientInit, Unread, ReaderAlive, NoReaderTask, Shut
<1>2. Statements /\ Calls
  BY <1>1, TaskSockAssumption DEF Init, ClientInit, Statements, Calls
<1>3. Connectors
  BY <1>1, SoloTasks DEF Connectors, Connecting
<1>4. Readers
  BY <1>1 DEF Init, ClientInit, Readers, Unread, NoReaderTask
<1>5. Single /\ Stopping
  BY <1>1 DEF Init, ClientInit, Single, Shut, Stopping, LoopAlive
<1> QED
  BY <1>2, <1>3, <1>4, <1>5 DEF Lone

LEMMA LoneAlways == ASSUME Solo PROVE Spec => []Lone
<1>1. Init => Lone
  BY LoneInit
<1>2. Inv /\ OneReconnectLoop /\ Lone /\ [Next]_vars => Lone'
  BY LoneStep
<1> QED
  BY <1>1, <1>2, Invariance, OneLoop, PTL DEF Spec

(* With set-up and the reconnect loop as the only callers of the client,   *)
(* and no unload in the middle of a connection attempt, the client never   *)
(* has two connections, two readers or two keepalives, however often the   *)
(* connection is lost (async_connect, _async_reader_loop, _reconnect_loop, *)
(* async_disconnect).                                                      *)
THEOREM OneConnectionAlways == ASSUME Solo PROVE Spec => []OneConnection
<1>1. Lone => OneConnection
  <2> SUFFICES ASSUME Lone PROVE OneConnection
    OBVIOUS
  <2>1. {s \in Sock : ReaderAlive(s)} \subseteq {readerTask} /\ ka \subseteq {keepaliveTask}
    BY DEF Lone, Readers, Single
  <2>2. ASSUME NEW S, NEW x, S \subseteq {x} PROVE Cardinality(S) <= 1
    <3>1. S = {} \/ S = {x}
      BY <2>2
    <3>2. Cardinality({}) = 0
      BY FS_EmptySet
    <3>3. Cardinality({x}) = 1
      BY FS_Singleton
    <3> QED
      BY <3>1, <3>2, <3>3
  <2>3. /\ Cardinality({s \in Sock : ReaderAlive(s)}) <= 1
        /\ Cardinality(ka) <= 1
    BY <2>1, <2>2
  <2> QED
    BY <2>3 DEF Lone, Single, OneConnection
<1> QED
  BY <1>1, LoneAlways, PTL

(* An unloaded entry owns no connection, no reader and no keepalive, and   *)
(* every reconnect loop has been told to stop, when no unload meets a      *)
(* connection attempt and nobody else uses the client (async_shutdown,     *)
(* async_disconnect).                                                      *)
THEOREM ShutdownIsFinalAlways == ASSUME Solo PROVE Spec => []ShutdownIsFinal
<1>1. Lone => ShutdownIsFinal
  BY DEF Lone, Stopping, Unread, Shut, Unloaded, ShutdownIsFinal
<1> QED
  BY <1>1, LoneAlways, PTL
-------------------------------------------------------------------------------
(* At rest, for any number of tasks that use the client                    *)

(* The method of the client a statement awaits. *)
MethodOf(label) ==
  CASE label \in {"connect", "ensure", "reach"} -> "connect"
    [] label \in {"register", "push"} -> "send"
    [] label = "disconnect" -> "disconnect"
    [] OTHER -> "none"

Awaits(op) ==
  CASE op = "connect" -> {"kastop", "opening", "send", "lock"} \union Result
    [] op = "send" -> {"send", "lock", "drain", "drained"} \union Result
    [] op = "disconnect" -> {"d_reader", "d_keepalive", "d_close", "d_kastop", "d_wait"}
                            \union Result
    [] OTHER -> {"idle"}

(* A coroutine is in the method its statement calls, or in none. *)
Fits(label, c) == c = Idle \/ (c.op = MethodOf(label) /\ c.op # "none" /\ c.at \in Awaits(c.op))

Matched == \A t \in Task : Fits(pc[t], call[t]) /\ (pc[t] = "disconnect" => t = Entry)

(* Before the unload nobody is cancelled and no reader told to stop. *)
Calm ==
  /\ shuttingDown <=> pc[Entry] \in {"disconnect", "idle"}
  /\ ~shuttingDown =>
       /\ cancel = {} /\ \A t \in Task : call[t].at # "cancelled"
       /\ ~intentional /\ \A s \in Sock : ~rd[s].cancelled

(* The task sends initvdc, after which it starts reader and keepalive. *)
Greets(t) == call[t].op = "connect" /\ call[t].at \in {"send", "lock"}

(* A keepalive whose message is still on its way to an earlier connection,  *)
(* and which that connection's loss may end at any time.                   *)
Stale == {s \in ka : lock = s /\ kaWriter # writer}

(* A connection has a keepalive, or gets one from the task that opened it. *)
Kept ==
  ~shuttingDown /\ IsConnected => ka \ Stale # {} \/ \E t \in Task : Greets(t)

(* A reader that reports a disconnect keeps the event loop for it. *)
Reports == ~shuttingDown => \A s \in Sock : rd[s].at = "callback" => running = s

RestInv == Matched /\ Calm /\ Kept /\ Reports

-------------------------------------------------------------------------------
(* Task t goes on to another statement and is in no method of the client. *)
Moves(t) ==
  /\ running \in {None, t} /\ running' \in {None, t}
  /\ call[t].at \in Result \union {"idle"} /\ call'[t] = Idle
  /\ \A u \in Task \ {t} : call'[u] = call[u] /\ pc'[u] = pc[u]
  /\ UNCHANGED <<streamVars, lock, readerVars, keepaliveVars, shuttingDown>>
  /\ cancel' \subseteq cancel
  /\ pc'[t] # "disconnect"
  /\ t = Entry => (pc'[t] \in {"disconnect", "idle"} <=> pc[t] \in {"disconnect", "idle"})

LEMMA ProceedMoves ==
  ASSUME Inv, NEW t \in Task, NEW label, Proceed(t, label), ConnectionUnchanged,
         running = t \/ running = None, call[t].at \in Result \union {"idle"},
         label # "disconnect", UNCHANGED shuttingDown, cancel' \subseteq cancel,
         t = Entry => (label = "idle" <=> pc[t] = "disconnect") /\ pc[t] # "idle"
  PROVE  Moves(t)
<1>1. /\ pc'[t] = label /\ call'[t] = Idle
      /\ \A u \in Task \ {t} : call'[u] = call[u] /\ pc'[u] = pc[u]
  BY DEF Proceed, Inv, ClientInv, ClientTypeOK, CoordinatorTypeOK
<1>2. running' \in {None, t}
  BY DEF Proceed
<1> QED
  BY <1>1, <1>2 DEF Moves, ConnectionUnchanged

LEMMA TaskMoves ==
  ASSUME Inv, Matched, NEW t \in Task,
         \/ Connected(t) \/ StartDevices(t) \/ Registered(t)
         \/ CheckShutdown(t) \/ Reached(t) \/ Pushed(t) \/ RetryLater(t) \/ Fails(t)
  PROVE  Moves(t)
<1>1. CASE Connected(t) \/ StartDevices(t) \/ Registered(t)
  <2>1. PICK label \in {"ensure", "loaded", "idle", "register", "forward"} :
          Proceed(t, label) /\ (t = Entry => label # "idle")
    BY <1>1 DEF Connected, StartDevices, Registered, AfterRepublish
  <2> QED
    BY <1>1, <2>1, ProceedMoves
    DEF Connected, StartDevices, Registered, Returned, ConnectionUnchanged, entryVars, Result
<1>2. CASE CheckShutdown(t) \/ Reached(t) \/ Pushed(t)
  <2>1. PICK label \in {"loaded", "idle", "register", "reach", "push"} :
          Proceed(t, label) /\ (t = Entry => label # "idle")
    BY <1>2 DEF CheckShutdown, Reached, Pushed, NextDevice, AfterRepublish
  <2>2. pc[t] \in {"forward", "reach", "push"} /\ call[t].at \in Result \union {"idle"}
    BY <1>2 DEF CheckShutdown, Reached, Pushed, Returned, Result, Matched, Fits,
                MethodOf, Idle
  <2> QED
    BY <1>2, <2>1, <2>2, ProceedMoves
    DEF CheckShutdown, Reached, Pushed, Returned, ConnectionUnchanged, entryVars
<1>3. CASE RetryLater(t)
  <2>1. /\ UNCHANGED pc /\ call'[t] = Idle /\ \A u \in Task \ {t} : call'[u] = call[u]
        /\ pc[t] = "connect" /\ t # Entry /\ call[t].at = "error" /\ running = t
        /\ running' = None /\ UNCHANGED <<cancel, shuttingDown>>
    BY <1>3, TasksAre
    DEF RetryLater, Returned, Inv, ClientInv, ClientTypeOK, coordinatorVars, entryVars
  <2> QED
    BY <1>3, <2>1 DEF Moves, RetryLater, ConnectionUnchanged, Result
<1>4. CASE Fails(t)
  <2> DEFINE label == IF t = Entry /\ pc[t] # "disconnect" THEN "shutdown" ELSE "idle"
  <2>1. Proceed(t, label) /\ running = t /\ call[t].at = "error"
    BY <1>4 DEF Fails
  <2>2. pc[t] # "idle"
    BY <2>1 DEF Inv, Placed, Idle
  <2> QED
    BY <1>4, <2>1, <2>2, ProceedMoves DEF Fails, entryVars, Result
<1> QED
  BY <1>1, <1>2, <1>3, <1>4

LEMMA LoopMoves ==
  ASSUME Inv, Matched, NEW l \in Loops, LoopStep(l)
  PROVE  l \in Task /\ Moves(l)
<1>0. l \in Task /\ l # Entry
  BY TasksAre
<1>1. CASE Throttle(l)
  <2>1. call[l] = Idle
    BY <1>0, <1>1 DEF Throttle, Matched, Fits, MethodOf
  <2>2. pc'[l] = "connect" /\ \A u \in Task \ {l} : pc'[u] = pc[u]
    BY <1>0, <1>1 DEF Throttle, Inv, CoordinatorTypeOK
  <2> QED
    BY <1>0, <1>1, <2>1, <2>2 DEF Throttle, Moves, ConnectionUnchanged, entryVars, Idle
<1>2. CASE LoopCancelled(l)
  <2>1. call[l].at \in Result \union {"idle"}
    BY <1>2 DEF LoopCancelled, Result, Idle
  <2> QED
    BY <1>0, <1>2, <2>1, ProceedMoves DEF LoopCancelled, entryVars
<1> QED
  BY <1>0, <1>1, <1>2 DEF LoopStep

LEMMA StartMoves ==
  ASSUME Inv, NEW f \in Forwarders,
         \/ \E d \in Exports : StateChanged(f, d)
         \/ DevicesRequested(f) \/ HomeAssistantStarted(f)
  PROVE  f \in Task /\ Moves(f)
<1>1. f \in Task /\ f # Entry
  BY TasksAre
<1>2. PICK label \in {"reach", "ensure"} : \E devices : Starts(f, label, devices)
  BY DEF StateChanged, DevicesRequested, HomeAssistantStarted
<1>3. call[f] = Idle
  BY <1>1, <1>2 DEF Starts, Inv, Placed
<1>4. pc'[f] = label /\ \A u \in Task \ {f} : pc'[u] = pc[u]
  BY <1>1, <1>2 DEF Starts, Inv, CoordinatorTypeOK
<1> QED
  BY <1>1, <1>2, <1>3, <1>4 DEF Starts, Moves, ConnectionUnchanged, Idle

LEMMA DisconnectedMoves ==
  ASSUME Inv, Disconnected
  PROVE  Entry \in Task /\ Moves(Entry)
<1>1. Entry \in Task
  BY TasksAre
<1> QED
  BY <1>1, ProceedMoves DEF Disconnected, Returned, entryVars, Result

(* Such a step keeps everything that is said of connections and calls. *)
LEMMA RestAfterMove ==
  ASSUME Inv, RestInv, NEW t \in Task, Moves(t)
  PROVE  RestInv'
<1>1. Matched'
  BY DEF RestInv, Matched, Moves, Fits
<1>2. Calm'
  <2>1. \A u \in Task : call'[u].at = "cancelled" => call[u].at = "cancelled"
    BY DEF Moves, Idle
  <2>2. pc'[Entry] \in {"disconnect", "idle"} <=> pc[Entry] \in {"disconnect", "idle"}
    BY TasksAre DEF Moves
  <2> QED
    BY <2>1, <2>2 DEF RestInv, Calm, Moves, readerVars
<1>3. Kept'
  <2>1. \A u \in Task : Greets(u) => Greets(u)'
    BY DEF Moves, Greets, Result
  <2> QED
    BY <2>1 DEF RestInv, Kept, Stale, IsConnected, Moves, streamVars, keepaliveVars
<1>4. Reports'
  BY TaskSockAssumption DEF RestInv, Reports, Moves, readerVars
<1> QED
  BY <1>1, <1>2, <1>3, <1>4 DEF RestInv
-------------------------------------------------------------------------------
LEMMA MatchedCalls ==
  ASSUME Inv, Matched, NEW t \in Task, UNCHANGED pc,
         NEW c, call' = [call EXCEPT ![t] = c], Fits(pc[t], c)
  PROVE  Matched' /\ call'[t] = c /\ \A u \in Task \ {t} : call'[u] = call[u]
BY DEF Matched, Fits, Inv, ClientInv, ClientTypeOK

(* A step inside a method stays in that method. *)
LEMMA GoesOn ==
  ASSUME Inv, Matched, NEW t \in Task, UNCHANGED pc,
         NEW c, call' = [call EXCEPT ![t] = c],
         call[t] # Idle, c.op = call[t].op, c.at \in Awaits(c.op)
  PROVE  Matched' /\ call'[t] = c /\ \A u \in Task \ {t} : call'[u] = call[u]
BY MatchedCalls DEF Matched, Fits

(* The calls of t and their outcome; none of them gives way to others.     *)
LEMMA CallMatched ==
  ASSUME Inv, Matched, NEW t \in Task,
         CallClient(t) \/ ClientProgress(t) \/ ConnectionOpened(t)
  PROVE  /\ Matched' /\ UNCHANGED pc
         /\ running \in {None, t} /\ running' \in {None, t}
         /\ \A u \in Task \ {t} : call'[u] = call[u]
<1>1. UNCHANGED pc
  BY DEF CallClient, ClientProgress, ConnectionOpened, coordinatorVars
<1>2. CASE CallClient(t)
  <2>1. PICK c : /\ call' = [call EXCEPT ![t] = c] /\ Fits(pc[t], c)
                 /\ running \in {None, t} /\ running' \in {None, t}
    <3>1. CASE Connect(t) /\ pc[t] \in {"connect", "ensure", "reach"}
      <4>1. PICK at \in {"ok", "kastop", "opening"} :
              /\ call' = [call EXCEPT ![t] = [Idle EXCEPT !.op = "connect", !.at = at]]
              /\ running \in {None, t} /\ running' \in {None, t}
        BY <3>1 DEF Connect, HasLoop
      <4>2. Fits(pc[t], [Idle EXCEPT !.op = "connect", !.at = at])
        BY <3>1 DEF Fits, MethodOf, Awaits, Result, Idle
      <4> QED
        BY <4>1, <4>2
    <3>2. CASE Send(t) /\ pc[t] \in {"register", "push"}
      <4>1. Fits(pc[t], [Idle EXCEPT !.op = "send", !.at = "send"])
        BY <3>2 DEF Fits, MethodOf, Awaits, Result, Idle
      <4> QED
        BY <3>2, <4>1 DEF Send, HasLoop
    <3>3. CASE Disconnect(t) /\ pc[t] = "disconnect"
      <4>1. PICK at \in {"d_reader", "error", "d_keepalive"} :
              /\ call' = [call EXCEPT ![t] =
                            [Idle EXCEPT !.op = "disconnect", !.at = at, !.s = readerTask]]
              /\ running \in {None, t} /\ running' \in {None, t}
        BY <3>3 DEF Disconnect, HasLoop
      <4>2. Fits(pc[t], [Idle EXCEPT !.op = "disconnect", !.at = at, !.s = readerTask])
        BY <3>3 DEF Fits, MethodOf, Awaits, Result, Idle
      <4> QED
        BY <4>1, <4>2
    <3> QED
      BY <1>2, <3>1, <3>2, <3>3 DEF CallClient
  <2> QED
    BY <1>1, <2>1, MatchedCalls
<1>3. CASE ClientProgress(t) \/ ConnectionOpened(t)
  <2>1. PICK c : /\ call' = [call EXCEPT ![t] = c]
                 /\ call[t] # Idle /\ c.op = call[t].op /\ c.at \in Awaits(c.op)
                 /\ running \in {None, t} /\ running' \in {None, t}
    <3>0. call[t] \in Call /\ (call[t] # Idle => call[t].op # "none" /\ call[t].at \in Awaits(call[t].op))
      BY DEF Matched, Fits, Inv, ClientInv, ClientTypeOK
    <3>1. ASSUME NEW at, Goto(t, at), running \in {None, t}, call[t] # Idle,
                 at \in Awaits(call[t].op)
          PROVE  \E c : /\ call' = [call EXCEPT ![t] = c]
                        /\ call[t] # Idle /\ c.op = call[t].op /\ c.at \in Awaits(c.op)
                        /\ running \in {None, t} /\ running' \in {None, t}
      <4>1. call' = [call EXCEPT ![t] = [call[t] EXCEPT !.at = at]]
        BY <3>1 DEF Goto, Inv, ClientInv, ClientTypeOK
      <4>2. /\ [call[t] EXCEPT !.at = at].op = call[t].op
            /\ [call[t] EXCEPT !.at = at].at = at
        BY <3>0 DEF Call
      <4>3. running' \in {None, t}
        BY <3>1 DEF Goto
      <4> QED
        BY <3>1, <4>1, <4>2, <4>3
    <3>2. CASE KeepaliveStopped(t) \/ OpenFails(t)
      BY <3>0, <3>1, <3>2 DEF KeepaliveStopped, OpenFails, Resumes, Awaits, Result, Idle
    <3>3. CASE OpenConnection(t)
      <4>1. PICK s \in Sock : call' = [call EXCEPT ![t].at = "send", ![t].s = s]
        BY <3>3 DEF OpenConnection
      <4>2. call' = [call EXCEPT ![t] = [call[t] EXCEPT !.at = "send", !.s = s]]
        BY <4>1 DEF Inv, ClientInv, ClientTypeOK
      <4>3. /\ [call[t] EXCEPT !.at = "send", !.s = s].op = call[t].op
            /\ [call[t] EXCEPT !.at = "send", !.s = s].at = "send"
        BY <3>0 DEF Call
      <4>4. call[t].at = "opening" /\ running = None /\ running' = t
        BY <3>3 DEF OpenConnection, Resumes
      <4>5. call[t] # Idle /\ "send" \in Awaits(call[t].op)
        BY <3>0, <4>4 DEF Awaits, Result, Idle
      <4> QED
        BY <4>2, <4>3, <4>4, <4>5
    <3>4. ASSUME Write(t), call[t].at \in {"send", "lock"}, running \in {None, t}
          PROVE  \E c : /\ call' = [call EXCEPT ![t] = c]
                        /\ call[t] # Idle /\ c.op = call[t].op /\ c.at \in Awaits(c.op)
                        /\ running \in {None, t} /\ running' \in {None, t}
      <4>1. call[t] # Idle /\ {"error", "ok"} \subseteq Awaits(call[t].op)
        BY <3>0, <3>4 DEF Awaits, Result, Idle
      <4>2. CASE Goto(t, "error")
        BY <3>1, <3>4, <4>1, <4>2
      <4>3. ASSUME NEW at \in {"ok", "drain"},
                   call' = [call EXCEPT ![t].at = at, ![t].w = writer],
                   at = "drain" => call[t].op = "send"
            PROVE  \E c : /\ call' = [call EXCEPT ![t] = c]
                          /\ c.op = call[t].op /\ c.at \in Awaits(c.op)
        <5>1. call' = [call EXCEPT ![t] = [call[t] EXCEPT !.at = at, !.w = writer]]
          BY <4>3 DEF Inv, ClientInv, ClientTypeOK
        <5>2. /\ [call[t] EXCEPT !.at = at, !.w = writer].op = call[t].op
              /\ [call[t] EXCEPT !.at = at, !.w = writer].at = at
          BY <3>0 DEF Call
        <5>3. at \in Awaits(call[t].op)
          BY <4>1, <4>3 DEF Awaits
        <5> QED
          BY <5>1, <5>2, <5>3
      <4> QED
        BY <3>4, <4>1, <4>2, <4>3 DEF Write
    <3>5. CASE Acquire(t) \/ LockGranted(t)
      <4>1. call[t].at \in {"send", "lock"} /\ running \in {None, t}
        BY <3>5 DEF Acquire, LockGranted, Resumes
      <4>2. CASE Write(t)
        BY <3>4, <4>1, <4>2
      <4>3. CASE Goto(t, "lock")
        <5>1. call[t] # Idle /\ "lock" \in Awaits(call[t].op)
          BY <3>0, <4>1 DEF Awaits, Result, Idle
        <5> QED
          BY <3>1, <4>1, <4>3, <5>1
      <4> QED
        BY <3>5, <4>2, <4>3 DEF Acquire, LockGranted
    <3>6. CASE Drained(t) \/ DrainReturns(t) \/ DrainFails(t) \/ Cancelled(t)
      <4>1. PICK at \in {"drained", "ok", "error", "cancelled"} :
              /\ Goto(t, at) /\ running = None
              /\ call[t].at \in {"opening", "lock", "drain", "drained"}
              /\ at = "drained" => call[t].at = "drain"
        BY <3>6 DEF Drained, DrainReturns, DrainFails, Cancelled, Resumes
      <4>2. call[t] # Idle /\ at \in Awaits(call[t].op)
        BY <3>0, <4>1 DEF Awaits, Result, Idle
      <4> QED
        BY <3>1, <4>1, <4>2
    <3>7. CASE \/ ReaderStopped(t) \/ StopKeepalive(t) \/ CloseWriter(t)
               \/ WriterClosed(t) \/ WriterCloseFails(t)
      <4>1. /\ call[t].at \in {"d_reader", "d_keepalive", "d_close", "d_kastop", "d_wait"}
            /\ running \in {None, t}
        BY <3>7 DEF ReaderStopped, StopKeepalive, CloseWriter, WriterClosed,
                    WriterCloseFails, Resumes
      <4>2. call[t].op = "disconnect" /\ call[t] # Idle
        BY <3>0, <4>1 DEF Awaits, Result, Idle
      <4>3. CASE \E at \in {"d_keepalive", "d_kastop", "d_close", "ok", "error"} : Goto(t, at)
        BY <3>1, <4>1, <4>2, <4>3 DEF Awaits, Result
      <4>4. CASE call' = [call EXCEPT ![t].at = "d_wait", ![t].s = writer] /\ running' = None
        <5> DEFINE c == [call[t] EXCEPT !.at = "d_wait", !.s = writer]
        <5>1. call' = [call EXCEPT ![t] = c]
          BY <4>4 DEF Inv, ClientInv, ClientTypeOK
        <5>2. c.op = call[t].op /\ c.at = "d_wait"
          BY <3>0 DEF Call
        <5>3. c.at \in Awaits(c.op)
          BY <4>2, <5>2 DEF Awaits
        <5> HIDE DEF c
        <5> QED
          BY <4>1, <4>2, <4>4, <5>1, <5>2, <5>3
      <4> QED
        BY <3>7, <4>3, <4>4 DEF ReaderStopped, StopKeepalive, CloseWriter, ClearConnection,
                                WriterClosed, WriterCloseFails
    <3> QED
      BY <1>3, <3>2, <3>3, <3>5, <3>6, <3>7 DEF ClientProgress, ConnectionOpened, CallStep
  <2> QED
    BY <1>1, <2>1, GoesOn
<1> QED
  BY <1>1, <1>2, <1>3

(* Before the unload, a step of a method opens a connection, starts its    *)
(* reader and keepalive, or leaves connection and readers alone.           *)
Quiet(t) ==
  /\ UNCHANGED <<streamVars, readerVars>>
  /\ IsConnected => /\ UNCHANGED <<ka, kaWriter>> /\ (lock' \in Sock => lock' = lock)
                    /\ Greets(t) => Greets(t)'
  /\ call'[t].op = "connect" =>
       call'[t].at # "send" /\ (call'[t].at = "ok" => IsConnected /\ running' = t)
  /\ call'[t].at = "lock" => call[t].at = "lock" \/ lock # None \/ \E u \in Task : call[u].at = "lock"

Opens(t, s) ==
  /\ Free(s) /\ sock' = [sock EXCEPT ![s] = "open"] /\ reader' = s /\ writer' = s
  /\ rd' = [rd EXCEPT ![s] = NoReaderTask] /\ UNCHANGED <<readerTask, intentional, keepaliveVars>>
  /\ call'[t].op = "connect" /\ call'[t].at = "send" /\ call'[t].s = s /\ running' = t

Greeted(t, s) ==
  /\ Greets(t) /\ s = call[t].s /\ IsConnected
  /\ call'[t].op = "connect" /\ call'[t].at = "ok" /\ running' = t
  /\ rd' = [rd EXCEPT ![s] = [NoReaderTask EXCEPT !.at = "new"]]
  /\ ka' = ka \union {s} /\ lock' \notin Sock /\ UNCHANGED <<streamVars, intentional>>

LEMMA CallEffects ==
  ASSUME Inv, RestInv, NEW t \in Task, ~shuttingDown',
         CallClient(t) \/ ClientProgress(t) \/ ConnectionOpened(t)
  PROVE  /\ shuttingDown' = shuttingDown /\ pc[t] # "disconnect" /\ cancel' = {}
         /\ call'[t].at # "cancelled"
         /\ Quiet(t) \/ \E s \in Sock : Opens(t, s) \/ Greeted(t, s)
<1>1. ~shuttingDown /\ UNCHANGED <<shuttingDown, pc>>
  BY DEF CallClient, ClientProgress, ConnectionOpened, coordinatorVars, entryVars
<1>2. pc[t] # "disconnect" /\ cancel = {}
  BY <1>1 DEF RestInv, Calm, Matched
<1>3. call[t].op # "disconnect"
  BY <1>2 DEF RestInv, Matched, Fits, MethodOf, Idle
<1>4. call[t].at \notin {"d_reader", "d_keepalive", "d_close", "d_kastop", "d_wait"}
  BY <1>3 DEF RestInv, Matched, Fits, Awaits, Result, Idle
<1>5. call[t] \in Call /\ Idle \in Call /\ call \in [Task -> Call]
  BY DEF Inv, ClientInv, ClientTypeOK, Idle, Call
<1>6. CASE Connect(t)
  <2>1. PICK at \in {"ok", "kastop", "opening"} :
          /\ call' = [call EXCEPT ![t] = [Idle EXCEPT !.op = "connect", !.at = at]]
          /\ at = "ok" => IsConnected /\ running' = t
          /\ call[t] = Idle
          /\ IsConnected => UNCHANGED <<lock, keepaliveVars>>
    BY <1>6 DEF Connect
  <2>2. call'[t].op = "connect" /\ call'[t].at = at
    BY <1>5, <2>1 DEF Idle
  <2>3. ~Greets(t)
    BY <2>1 DEF Greets, Idle
  <2>4. Quiet(t)
    BY <1>6, <2>1, <2>2, <2>3 DEF Quiet, Connect, keepaliveVars
  <2> QED
    BY <1>1, <1>2, <1>6, <2>2, <2>4 DEF Connect
<1>7. CASE Send(t)
  <2>1. call'[t].op = "send" /\ call'[t].at = "send" /\ ~Greets(t)
    BY <1>5, <1>7 DEF Send, Idle, Greets
  <2> QED
    BY <1>1, <1>2, <1>7, <2>1 DEF Send, Quiet, keepaliveVars
<1>8. CASE KeepaliveStopped(t) \/ OpenFails(t) \/ Drained(t) \/ DrainReturns(t) \/ DrainFails(t)
  <2>1. PICK at \in {"opening", "error", "drained", "ok"} :
          /\ Goto(t, at) /\ call[t].at \in {"kastop", "opening", "drain", "drained"}
          /\ at = "ok" => call[t].at = "drained"
    BY <1>8 DEF KeepaliveStopped, OpenFails, Drained, DrainReturns, DrainFails, Resumes
  <2>2. call'[t].op = call[t].op /\ call'[t].at = at
    BY <1>5, <2>1 DEF Goto, Call
  <2>3. ~Greets(t) /\ (at = "ok" => call[t].op # "connect")
    BY <2>1 DEF Greets, RestInv, Matched, Fits, Awaits, Result, Idle
  <2>4. /\ UNCHANGED <<streamVars, readerVars, keepaliveVars>> /\ cancel' \subseteq cancel
        /\ lock' \in {lock, None}
    BY <1>8 DEF KeepaliveStopped, OpenFails, Drained, DrainReturns, DrainFails
  <2> QED
    BY <1>1, <1>2, <2>1, <2>2, <2>3, <2>4, TaskSockAssumption DEF Quiet, keepaliveVars
<1>9. CASE OpenConnection(t)
  <2>1. PICK s \in Sock :
          /\ Free(s) /\ sock' = [sock EXCEPT ![s] = "open"] /\ reader' = s /\ writer' = s
          /\ call' = [call EXCEPT ![t].at = "send", ![t].s = s] /\ running' = t
          /\ rd' = [rd EXCEPT ![s] = NoReaderTask]
    BY <1>9 DEF OpenConnection
  <2>2. call[t].op = "connect"
    BY <1>9 DEF OpenConnection, Resumes, RestInv, Matched, Fits, Awaits, Result, Idle
  <2>3. call'[t].op = "connect" /\ call'[t].at = "send" /\ call'[t].s = s
    BY <1>5, <2>1, <2>2 DEF Call
  <2> QED
    BY <1>1, <1>2, <1>9, <2>1, <2>3 DEF Opens, OpenConnection
<1>10. CASE Acquire(t) \/ LockGranted(t)
  <2>1. /\ call[t].at \in {"send", "lock"} /\ UNCHANGED <<streamVars, cancel>>
        /\ \/ Write(t)
           \/ /\ Goto(t, "lock") /\ UNCHANGED <<lock, readerVars, keepaliveVars>>
              /\ lock # None \/ \E u \in Task : call[u].at = "lock"
    BY <1>10 DEF Acquire, LockGranted, Resumes
  <2>2. call[t].op \in {"connect", "send"}
    BY <2>1 DEF RestInv, Matched, Fits, Awaits, Result, Idle
  <2>3. CASE Goto(t, "lock") /\ UNCHANGED <<lock, readerVars, keepaliveVars>>
             /\ (lock # None \/ \E u \in Task : call[u].at = "lock")
    <3>1. call'[t].op = call[t].op /\ call'[t].at = "lock"
      BY <1>5, <2>3 DEF Goto, Call
    <3> QED
      BY <1>1, <1>2, <2>1, <2>3, <3>1 DEF Quiet, Greets, keepaliveVars
  <2>4. CASE ~IsConnected /\ Goto(t, "error") /\ UNCHANGED <<lock, readerVars, keepaliveVars>>
    <3>1. call'[t].op = call[t].op /\ call'[t].at = "error"
      BY <1>5, <2>4 DEF Goto, Call
    <3> QED
      BY <1>1, <1>2, <2>1, <2>4, <3>1 DEF Quiet
  <2>5. CASE /\ IsConnected /\ Sent(t) /\ running' = t /\ lock' = lock
             /\ call' = [call EXCEPT ![t].at = "ok", ![t].w = writer]
    <3>1. call'[t].op = call[t].op /\ call'[t].at = "ok" /\ lock' = lock
      BY <1>5, <2>5 DEF Call
    <3>2. CASE call[t].op = "connect"
      <4>1. call[t].s \in Sock /\ Greets(t)
        BY <1>5, <2>1, <3>2 DEF Call, Greets, Inv, ClientInv, Opened
      <4>2. lock' \notin Sock
        BY <1>5, <1>10, <3>1, TaskSockAssumption DEF Acquire, LockGranted, Goto, Call
      <4>3. Greeted(t, call[t].s)
        BY <2>1, <2>5, <3>1, <3>2, <4>1, <4>2 DEF Greeted, Sent
      <4> QED
        BY <1>1, <1>2, <2>1, <3>1, <4>1, <4>3
    <3>3. CASE call[t].op = "send"
      <4>1. UNCHANGED <<readerVars, keepaliveVars>> /\ ~Greets(t)
        BY <2>5, <3>3 DEF Sent, Greets
      <4> QED
        BY <1>1, <1>2, <2>1, <3>1, <3>3, <4>1 DEF Quiet, keepaliveVars
    <3> QED
      BY <2>2, <3>2, <3>3
  <2>6. CASE /\ IsConnected /\ call[t].op = "send" /\ UNCHANGED <<readerVars, keepaliveVars>>
             /\ lock' = t
             /\ call' = [call EXCEPT ![t].at = "drain", ![t].w = writer]
    <3>1. call'[t].op = "send" /\ call'[t].at = "drain" /\ ~Greets(t)
      BY <1>5, <2>6 DEF Call, Greets
    <3> QED
      BY <1>1, <1>2, <2>1, <2>6, <3>1, TaskSockAssumption DEF Quiet, keepaliveVars
  <2> QED
    BY <2>1, <2>3, <2>4, <2>5, <2>6 DEF Write
<1>11. ~Cancelled(t) /\ ~ReaderStopped(t) /\ ~StopKeepalive(t) /\ ~CloseWriter(t)
       /\ ~WriterClosed(t) /\ ~WriterCloseFails(t)
  BY <1>2, <1>4 DEF Cancelled, ReaderStopped, StopKeepalive, CloseWriter, WriterClosed,
                    WriterCloseFails, Resumes
<1> QED
  BY <1>2, <1>6, <1>7, <1>8, <1>9, <1>10, <1>11
  DEF CallClient, ClientProgress, ConnectionOpened, CallStep

LEMMA RestAfterCall ==
  ASSUME Inv, RestInv, NEW t \in Task,
         CallClient(t) \/ ClientProgress(t) \/ ConnectionOpened(t)
  PROVE  RestInv'
<1>1. Matched' /\ UNCHANGED <<pc, shuttingDown>>
      /\ running \in {None, t} /\ running' \in {None, t}
      /\ \A u \in Task \ {t} : call'[u] = call[u]
  BY CallMatched DEF RestInv, CallClient, ClientProgress, ConnectionOpened,
     coordinatorVars, entryVars
<1>2. CASE shuttingDown'
  BY <1>1, <1>2 DEF RestInv, Calm, Kept, Reports
<1>3. CASE ~shuttingDown'
  <2>1. /\ cancel' = {} /\ call'[t].at # "cancelled"
        /\ Quiet(t) \/ \E s \in Sock : Opens(t, s) \/ Greeted(t, s)
    BY <1>3, CallEffects
  <2>2. \A s \in Sock : rd[s].at # "callback"
    BY <1>1, <1>3, TaskSockAssumption DEF RestInv, Reports
  <2>3. /\ \A s \in Sock : rd'[s].at # "callback" /\ ~rd'[s].cancelled
        /\ intentional' = intentional
    BY <1>1, <1>3, <2>1, <2>2
    DEF Quiet, Opens, Greeted, NoReaderTask, readerVars, RestInv, Calm,
        Inv, ClientInv, ClientTypeOK
  <2>4. Calm' /\ Reports'
    BY <1>1, <1>3, <2>1, <2>3 DEF RestInv, Calm, Reports
  <2>5. Kept'
    <3>1. CASE Quiet(t)
      <4>1. \A u \in Task \ {t} : Greets(u) => Greets(u)'
        BY <1>1 DEF Greets
      <4>2. IsConnected' = IsConnected
        BY <3>1 DEF Quiet, IsConnected, streamVars
      <4>3. IsConnected => ka' = ka /\ Stale' \subseteq Stale
        BY <3>1 DEF Quiet, Stale, streamVars, Inv, ClientInv, ClientTypeOK
      <4> QED
        BY <1>1, <3>1, <4>1, <4>2, <4>3 DEF Quiet, RestInv, Kept
    <3>2. CASE \E s \in Sock : Opens(t, s)
      BY <3>2 DEF Opens, Greets, Kept
    <3>3. CASE \E s \in Sock : Greeted(t, s)
      BY <3>3 DEF Greeted, Kept, Stale
    <3> QED
      BY <2>1, <3>1, <3>2, <3>3
  <2> QED
    BY <1>1, <2>4, <2>5 DEF RestInv
<1> QED
  BY <1>2, <1>3

-------------------------------------------------------------------------------
(* A step of the network, of a reader, of a keepalive or of a stream. *)
SocketStep(s) ==
  ClientTasks(s) \/ IncomingMessage(s) \/ KeepaliveMessage(s) \/ StreamStep(s) \/ Fault

LEMMA SocketFrame ==
  ASSUME NEW s \in Sock,
         SocketStep(s) \/ HandleDisconnect(s)
  PROVE  UNCHANGED <<call, cancel, shuttingDown, keepaliveTask>>
BY DEF SocketStep, ClientTasks, HandleDisconnect, IncomingMessage, KeepaliveMessage,
       StreamStep, KeepaliveWaits, KeepaliveResumes, WriterDropped, Fault, ReaderStep, ReaderStarts,
       HandlerReturns, ReaderSeesEnd, LeaveReading, ReaderFinishes, ReaderFinallyCancelled,
       KeepaliveEnds, HandlerWaits, HandlerRaises, ReaderReports, ConnectionLost,
       PeerCloses, ConnectionReset, coordinatorVars, entryVars, callVars, keepaliveVars

(* The network changes transports, and none into one that is in use. *)
Network ==
  /\ running = None
  /\ UNCHANGED <<reader, writer, lock, rd, intentional, ka, kaWriter, callVars, pc, shuttingDown>>
  /\ \E x \in Sock :
       \/ x # writer /\ sock' = [sock EXCEPT ![x] = "closing"]
       \/ sock[x] = "open" /\ sock' = [sock EXCEPT ![x] = "eof"]
       \/ sock[x] \in {"open", "eof", "closing"} /\ sock' = [sock EXCEPT ![x] = "lost"]

LEMMA SocketEffects ==
  ASSUME NEW s \in Sock, SocketStep(s)
  PROVE  /\ UNCHANGED pc
         /\ \/ Network \/ KeepaliveWaits(s) \/ KeepaliveResumes(s)
            \/ KeepaliveEnds(s) \/ ReaderStarts(s) \/ HandlerWaits(s) \/ HandlerReturns(s)
            \/ ReaderFinishes(s) \/ ReaderFinallyCancelled(s)
            \/ \E r \in Sock : LeaveReading(r)
<1>0. UNCHANGED <<pc, shuttingDown>>
  BY DEF SocketStep, ClientTasks, IncomingMessage, KeepaliveMessage, StreamStep, Fault,
         coordinatorVars, entryVars
<1>1. CASE ConnectionLost(s) \/ WriterDropped(s) \/ \E x \in Sock : PeerCloses(x) \/ ConnectionReset(x)
  <2> QED
    BY <1>0, <1>1 DEF Network, ConnectionLost, WriterDropped, Forgotten, PeerCloses, ConnectionReset, readerVars,
                      keepaliveVars, callVars
<1>2. CASE IncomingMessage(s) \/ KeepaliveMessage(s) \/ KeepaliveResumes(s)
  BY <1>0, <1>2 DEF IncomingMessage, KeepaliveMessage
<1>3. CASE ReaderStep(s)
  BY <1>0, <1>3 DEF ReaderStep, ReaderSeesEnd
<1>4. CASE \E x \in Sock : HandlerRaises(x)
  BY <1>0, <1>4 DEF HandlerRaises
<1> QED
  BY <1>1, <1>2, <1>3, <1>4 DEF SocketStep, ClientTasks, StreamStep, Fault

LEMMA RestAfterSocket ==
  ASSUME Inv, RestInv, NEW s \in Sock, SocketStep(s)
  PROVE  RestInv'
<1>1. UNCHANGED <<call, cancel, shuttingDown, pc>>
  BY SocketFrame, SocketEffects
<1>2. Matched'
  BY <1>1 DEF RestInv, Matched
<1>3. CASE shuttingDown
  BY <1>1, <1>2, <1>3 DEF RestInv, Calm, Kept, Reports
<1>4. ASSUME ~shuttingDown,
             ~intentional', \A r \in Sock : ~rd'[r].cancelled,
             IsConnected' => IsConnected /\ ka \ Stale \subseteq (ka \ Stale)',
             \A r \in Sock : rd'[r].at = "callback" => running' = r
      PROVE  RestInv'
  <2>1. Calm' /\ Reports'
    BY <1>1, <1>4 DEF RestInv, Calm, Reports
  <2>2. Kept'
    BY <1>1, <1>4 DEF RestInv, Kept, Greets
  <2> QED
    BY <1>2, <2>1, <2>2 DEF RestInv
<1>5. CASE ~shuttingDown
  <2>1. ~intentional /\ \A r \in Sock : ~rd[r].cancelled
    BY <1>5 DEF RestInv, Calm
  <2>2. \A r \in Sock : rd[r].at = "callback" => running = r
    BY <1>5 DEF RestInv, Reports
  <2>3. /\ rd \in [Sock -> ReaderTask] /\ sock \in [Sock -> Transport]
        /\ writer \in Sock \union {None}
    BY DEF Inv, ClientInv, ClientTypeOK
  <2>4. CASE Network
    <3>1. (IsConnected' => IsConnected) /\ (ka \ Stale)' = ka \ Stale
      BY <2>3, <2>4 DEF Network, IsConnected, Stale
    <3> QED
      BY <1>4, <1>5, <2>1, <2>2, <2>4, <3>1, TaskSockAssumption DEF Network, callVars
  <2>5. CASE KeepaliveEnds(s)
    <3>1. /\ UNCHANGED <<sock, writer, rd, intentional, running>> /\ ~IsConnected
      BY <2>5 DEF KeepaliveEnds, streamVars, readerVars, callVars
    <3> QED
      BY <1>4, <1>5, <2>1, <2>2, <3>1 DEF IsConnected
  <2>6. CASE ReaderStarts(s) \/ HandlerWaits(s) \/ HandlerReturns(s) \/ ReaderFinallyCancelled(s)
    <3>1. /\ running = None /\ UNCHANGED <<running, sock, writer, lock, ka, kaWriter>>
          /\ intentional' \in {FALSE, intentional}
      BY <2>6 DEF ReaderStarts, HandlerWaits, HandlerReturns, ReaderFinallyCancelled,
                  callVars, streamVars, keepaliveVars
    <3>2. \A r \in Sock : rd[r].at # "callback"
      BY <2>2, <3>1, TaskSockAssumption
    <3>3. \A r \in Sock : ~rd'[r].cancelled /\ rd'[r].at # "callback"
      BY <2>1, <2>3, <2>6, <3>2
      DEF ReaderStarts, HandlerWaits, HandlerReturns, ReaderFinallyCancelled, ReaderTask,
          Ended, NoReaderTask
    <3> QED
      BY <1>4, <1>5, <2>1, <3>1, <3>3 DEF IsConnected, Stale
  <2>7. CASE ReaderFinishes(s)
    <3>1. /\ running \in {None, s} /\ running' = s /\ writer' = None /\ UNCHANGED <<intentional, ka>>
      BY <2>1, <2>7 DEF ReaderFinishes, HasLoop, keepaliveVars
    <3>2. \A r \in Sock : ~rd'[r].cancelled /\ (rd'[r].at = "callback" => r = s)
      BY <2>1, <2>2, <2>3, <2>7, <3>1, TaskSockAssumption
      DEF ReaderFinishes, ReaderTask, Ended, NoReaderTask
    <3> QED
      BY <1>4, <1>5, <2>1, <3>1, <3>2 DEF IsConnected
  <2>8. ASSUME NEW r \in Sock, LeaveReading(r) PROVE RestInv'
    <3>1. /\ running = None /\ UNCHANGED <<writer, intentional, ka>> /\ ~IsConnected'
      BY <2>3, <2>8 DEF LeaveReading, IsConnected, keepaliveVars
    <3>2. \A x \in Sock : ~rd'[x].cancelled /\ rd'[x].at # "callback"
      BY <2>1, <2>2, <2>3, <2>8, <3>1, TaskSockAssumption DEF LeaveReading, ReaderTask
    <3> QED
      BY <1>4, <1>5, <2>1, <3>1, <3>2
  <2>9. CASE KeepaliveWaits(s) \/ KeepaliveResumes(s)
    <3>1. /\ running = None /\ UNCHANGED <<sock, writer, rd, intentional, running>>
          /\ IsConnected' = IsConnected
      BY <2>9 DEF KeepaliveWaits, KeepaliveResumes, streamVars, readerVars, callVars, IsConnected
    <3>2. IsConnected => ka \ Stale \subseteq (ka \ Stale)'
      <4>1. ka \in SUBSET Sock /\ None \notin Sock
        BY TaskSockAssumption DEF Inv, ClientInv, ClientTypeOK
      <4>2. CASE KeepaliveWaits(s)
        BY <4>1, <4>2 DEF KeepaliveWaits, Stale, streamVars
      <4>3. CASE KeepaliveResumes(s)
        <5>1. Stale' = {}
          BY <4>1, <4>3 DEF KeepaliveResumes, Stale
        <5>2. IsConnected /\ s \in ka \ ka' => s \in Stale
          BY <4>3 DEF KeepaliveResumes, Stale, IsConnected
        <5>3. ka \ {s} \subseteq ka'
          BY <4>3 DEF KeepaliveResumes
        <5> QED
          BY <5>1, <5>2, <5>3
      <4> QED
        BY <2>9, <4>2, <4>3
    <3> QED
      BY <1>4, <1>5, <2>1, <2>2, <3>1, <3>2
  <2> QED
    BY <2>4, <2>5, <2>6, <2>7, <2>8, <2>9, SocketEffects
<1> QED
  BY <1>3, <1>5

(* Its callback starts a reconnect task, or finds one at work. *)
LEMMA DisconnectHandled ==
  ASSUME Inv, RestInv, NEW s \in Sock, HandleDisconnect(s)
  PROVE  /\ RestInv'
         /\ rd[s].at = "callback" /\ rd' = [rd EXCEPT ![s] = Ended]
         /\ UNCHANGED <<streamVars, lock, keepaliveVars, call, shuttingDown>>
         /\ \E l \in Loops : LoopAlive(l)'
         /\ \A t \in Task : pc'[t] = pc[t] \/ (t \in Loops /\ pc[t] = "idle" /\ pc'[t] = "throttle")
<1>1. /\ running = s /\ rd[s].at = "callback" /\ rd' = [rd EXCEPT ![s] = Ended]
      /\ UNCHANGED <<streamVars, lock, keepaliveVars, call, cancel, shuttingDown, intentional>>
      /\ running' \in {None} \union Loops
  BY DEF HandleDisconnect, ReaderReports
<1>2. /\ \E l \in Loops : LoopAlive(l)'
      /\ \A t \in Task : pc'[t] = pc[t] \/ (t \in Loops /\ pc[t] = "idle" /\ pc'[t] = "throttle")
  <2>1. CASE ~MayReconnect /\ UNCHANGED pc
    BY <2>1 DEF MayReconnect, LoopAlive
  <2>2. CASE \E l \in Loops : ~LoopAlive(l) /\ pc' = [pc EXCEPT ![l] = "throttle"]
    BY <2>2, TasksAre DEF LoopAlive, Inv, CoordinatorTypeOK
  <2> QED
    BY <2>1, <2>2 DEF HandleDisconnect
<1>3. Matched'
  <2>1. \A t \in Task : pc[t] = "idle" => call[t] = Idle
    BY DEF Inv, Placed
  <2> QED
    BY <1>1, <1>2, <2>1 DEF RestInv, Matched, Fits
<1>4. Calm'
  <2>1. pc'[Entry] = pc[Entry]
    BY <1>2, TasksAre
  <2>2. \A r \in Sock : rd'[r].cancelled => rd[r].cancelled
    BY <1>1 DEF Ended, NoReaderTask, Inv, ClientInv, ClientTypeOK
  <2> QED
    BY <1>1, <2>1, <2>2 DEF RestInv, Calm
<1>5. Kept'
  BY <1>1 DEF RestInv, Kept, Stale, IsConnected, Greets, streamVars, keepaliveVars
<1>6. Reports'
  <2>1. \A r \in Sock : rd'[r].at = "callback" => rd[r].at = "callback" /\ r # s
    BY <1>1 DEF Ended, NoReaderTask, Inv, ClientInv, ClientTypeOK
  <2> QED
    BY <1>1, <2>1 DEF RestInv, Reports
<1> QED
  BY <1>1, <1>2, <1>3, <1>4, <1>5, <1>6 DEF RestInv

LEMMA RestAfterShutdown ==
  ASSUME Inv, RestInv, Shutdown PROVE RestInv'
<1>1. /\ shuttingDown' /\ pc'[Entry] = "disconnect" /\ call'[Entry] = Idle
      /\ \A t \in Task \ {Entry} : pc'[t] = pc[t] /\ call'[t] = call[t]
  BY TasksAre DEF Shutdown, Proceed, Inv, ClientInv, ClientTypeOK, CoordinatorTypeOK
<1> QED
  BY <1>1 DEF RestInv, Matched, Fits, Calm, Kept, Reports

LEMMA RestStart == ASSUME Init PROVE RestInv
<1>1. Matched /\ Calm
  BY TasksAre DEF Init, ClientInit, Matched, Fits, Calm, Idle, NoReaderTask
<1>2. Kept /\ Reports
  BY DEF Init, ClientInit, Kept, IsConnected, Reports, NoReaderTask
<1> QED
  BY <1>1, <1>2 DEF RestInv

LEMMA RestStep == ASSUME Inv, RestInv, [Next]_vars PROVE RestInv'
<1>1. ASSUME NEW t \in Task, TaskStep(t) \/ ConnectionOpened(t) PROVE RestInv'
  BY <1>1, RestAfterCall, TaskMoves, RestAfterMove DEF TaskStep, RestInv
<1>2. ASSUME NEW l \in Loops, LoopStep(l) PROVE RestInv'
  BY <1>2, LoopMoves, RestAfterMove DEF RestInv
<1>3. ASSUME NEW s \in Sock, SocketStep(s) \/ HandleDisconnect(s) PROVE RestInv'
  BY <1>3, RestAfterSocket, DisconnectHandled
<1>4. ASSUME NEW f \in Forwarders,
             \/ \E d \in Exports : StateChanged(f, d)
             \/ DevicesRequested(f) \/ HomeAssistantStarted(f)
      PROVE  RestInv'
  BY <1>4, StartMoves, RestAfterMove
<1>5. CASE Shutdown
  BY <1>5, RestAfterShutdown
<1>6. CASE Disconnected
  BY <1>6, DisconnectedMoves, RestAfterMove
<1>7. CASE Fault
  BY <1>7, RestAfterSocket DEF Fault, SocketStep
<1>8. CASE UNCHANGED vars
  BY <1>8 DEF vars, clientVars, coordinatorVars, entryVars, streamVars, readerVars,
     keepaliveVars, callVars, RestInv, Matched, Calm, Kept, Stale, Greets, IsConnected, Reports
<1> QED
  BY <1>1, <1>2, <1>3, <1>4, <1>5, <1>6, <1>7, <1>8 DEF Next, SocketStep

LEMMA RestAlways == Spec => []RestInv
<1>1. Init => RestInv
  BY RestStart
<1>2. Inv /\ RestInv /\ [Next]_vars => RestInv'
  BY RestStep
<1> QED
  BY <1>1, <1>2, Invariance, PTL DEF Spec

(* When the program comes to rest, its connection is kept alive by a       *)
(* keepalive task, however many tasks raced to connect and cancelled each  *)
(* other's (async_connect, _cancel_keepalive, _async_keepalive_loop).      *)
THEOREM KeptAliveAlways == Spec => []KeptAlive
<1>1. ASSUME Inv, RestInv PROVE KeptAlive
  <2>1. SUFFICES ASSUME Settled, Up PROVE ka # {}
    BY DEF KeptAlive
  <2>2. \A t \in Task : ~Greets(t)
    <3>1. \A t \in Task : call[t] = Idle
      BY <1>1, <2>1, TasksAre DEF Settled, Inv, Placed
    <3> QED
      BY <3>1 DEF Greets, Idle
  <2>3. ~shuttingDown
    BY <2>1, <1>1 DEF Settled, RestInv, Calm
  <2>4. IsConnected
    BY <2>1 DEF Up, IsConnected
  <2> QED
    BY <1>1, <2>2, <2>3, <2>4 DEF RestInv, Kept
<1> QED
  BY <1>1, RestAlways, Invariance, PTL

-------------------------------------------------------------------------------
(* Without auto-republish, where a reconnect task only connects            *)

(* Set-up and reconnect tasks register nothing. *)
Plain ==
  /\ pc[Entry] \in {"connect", "loaded", "shutdown", "disconnect", "idle"}
  /\ \A l \in Loops : pc[l] \in {"idle", "throttle", "connect"}

(* While the entry shows a lost connection, set-up or a reconnect task is  *)
(* about to connect.                                                       *)
Reconnecting == pc[Entry] \in {"connect", "shutdown"} \/ \E l \in Loops : LoopAlive(l)

StatusKept == ~shuttingDown => connectedSince \/ Reconnecting

PlainInv == Plain /\ StatusKept

(* Only a task that has found or made a connection stops to reconnect. *)
LEMMA StillReconnecting ==
  ASSUME ~AutoRepublish, Inv, RestInv, Plain, NEW t \in Task,
         TaskStep(t) \/ ConnectionOpened(t)
  PROVE  /\ Plain' /\ shuttingDown' = shuttingDown
         /\ \/ /\ connectedSince' = connectedSince
               /\ ~shuttingDown /\ Reconnecting => Reconnecting'
            \/ Connected(t)
<1>1. CASE CallClient(t) \/ ClientProgress(t) \/ ConnectionOpened(t) \/ RetryLater(t)
  BY <1>1 DEF CallClient, ClientProgress, ConnectionOpened, RetryLater, coordinatorVars,
     entryVars, linkVars, Plain, Reconnecting, LoopAlive
<1>2. CASE Connected(t)
  <2>1. Proceed(t, AfterRepublish(t)) /\ UNCHANGED shuttingDown
    BY <1>2 DEF Connected
  <2>2. \A u \in Task : pc'[u] = (IF u = t THEN AfterRepublish(t) ELSE pc[u])
    BY <2>1 DEF Proceed, Inv, CoordinatorTypeOK
  <2>3. Plain'
    BY <2>2, TasksAre DEF Plain, AfterRepublish
  <2> QED
    BY <1>2, <2>1, <2>3
<1>3. CASE StartDevices(t) \/ Registered(t) \/ CheckShutdown(t) \/ Reached(t) \/ Pushed(t)
  <2>1. pc[t] \in {"ensure", "register", "forward", "reach", "push"}
    BY <1>3 DEF StartDevices, Registered, CheckShutdown, Reached, Pushed, Returned
  <2>2. t # Entry /\ t \notin Loops
    BY <2>1 DEF Plain
  <2>3. /\ \E label : pc' = [pc EXCEPT ![t] = label]
        /\ UNCHANGED <<shuttingDown, connectedSince>>
    BY <1>3 DEF StartDevices, Registered, CheckShutdown, Reached, Pushed, NextDevice,
                Proceed, entryVars, linkVars
  <2>4. \A u \in Task \ {t} : pc'[u] = pc[u]
    BY <2>3 DEF Inv, CoordinatorTypeOK
  <2> QED
    BY <2>2, <2>3, <2>4, TasksAre DEF Plain, Reconnecting, LoopAlive
<1>4. CASE Fails(t)
  <2>1. /\ Proceed(t, IF t = Entry /\ pc[t] # "disconnect" THEN "shutdown" ELSE "idle")
        /\ call[t].at = "error" /\ ~(t \in Loops /\ pc[t] = "connect")
        /\ UNCHANGED <<shuttingDown, connectedSince>>
    BY <1>4 DEF Fails, entryVars, linkVars
  <2>2. pc[t] \notin {"idle", "throttle"}
    BY <2>1 DEF RestInv, Matched, Fits, MethodOf, Idle
  <2>3. t \notin Loops
    BY <2>1, <2>2 DEF Plain
  <2>4. t = Entry /\ pc[t] = "disconnect" => shuttingDown
    BY DEF RestInv, Calm
  <2>5. /\ \A u \in Task \ {t} : pc'[u] = pc[u]
        /\ t = Entry => pc'[t] = "shutdown" \/ (shuttingDown /\ pc'[t] = "idle")
    BY <2>1, <2>4 DEF Proceed, Inv, CoordinatorTypeOK
  <2> QED
    BY <2>1, <2>3, <2>5, TasksAre DEF Plain, Reconnecting, LoopAlive
<1> QED
  BY <1>1, <1>2, <1>3, <1>4 DEF TaskStep

LEMMA LoopStillReconnecting ==
  ASSUME Inv, RestInv, Plain, NEW l \in Loops, LoopStep(l)
  PROVE  /\ Plain' /\ UNCHANGED <<shuttingDown, connectedSince>>
         /\ ~shuttingDown => Reconnecting'
<1>1. l \in Task /\ l # Entry
  BY TasksAre
<1>2. CASE Throttle(l)
  <2>1. pc' = [pc EXCEPT ![l] = "connect"] /\ UNCHANGED <<shuttingDown, connectedSince>>
    BY <1>2 DEF Throttle, entryVars, linkVars
  <2> QED
    BY <1>1, <2>1, TasksAre DEF Plain, Reconnecting, LoopAlive, Inv, CoordinatorTypeOK
<1>3. CASE LoopCancelled(l)
  <2>1. pc' = [pc EXCEPT ![l] = "idle"] /\ UNCHANGED <<shuttingDown, connectedSince>>
    BY <1>3 DEF LoopCancelled, Proceed, entryVars, linkVars
  <2>2. shuttingDown
    BY <1>1, <1>3 DEF LoopCancelled, RestInv, Calm
  <2> QED
    BY <1>1, <2>1, <2>2, TasksAre DEF Plain, Inv, CoordinatorTypeOK
<1> QED
  BY <1>2, <1>3 DEF LoopStep

LEMMA StartStillReconnecting ==
  ASSUME Inv, Plain, NEW f \in Forwarders,
         \/ \E d \in Exports : StateChanged(f, d)
         \/ DevicesRequested(f) \/ HomeAssistantStarted(f)
  PROVE  /\ Plain' /\ UNCHANGED <<shuttingDown, connectedSince>>
         /\ Reconnecting => Reconnecting'
<1>1. f \in Task /\ f # Entry /\ f \notin Loops
  BY TasksAre
<1>2. PICK label : pc' = [pc EXCEPT ![f] = label] /\ UNCHANGED <<shuttingDown, connectedSince>>
  BY DEF StateChanged, DevicesRequested, HomeAssistantStarted, Starts, linkVars
<1> QED
  BY <1>1, <1>2, TasksAre DEF Plain, Reconnecting, LoopAlive, Inv, CoordinatorTypeOK

LEMMA PlainStep ==
  ASSUME ~AutoRepublish, Inv, RestInv, PlainInv, [Next]_vars
  PROVE  PlainInv'
<1>1. ASSUME NEW t \in Task, TaskStep(t) \/ ConnectionOpened(t) PROVE PlainInv'
  <2>1. CASE Connected(t)
    BY <1>1, <2>1, StillReconnecting DEF PlainInv, StatusKept, Connected, MarkConnected
  <2> QED
    BY <1>1, <2>1, StillReconnecting DEF PlainInv, StatusKept
<1>2. ASSUME NEW l \in Loops, LoopStep(l) PROVE PlainInv'
  BY <1>2, LoopStillReconnecting DEF PlainInv, StatusKept
<1>3. ASSUME NEW s \in Sock, HandleDisconnect(s) PROVE PlainInv'
  <2>1. /\ \E l \in Loops : LoopAlive(l)'
        /\ \A t \in Task : pc'[t] = pc[t] \/ (t \in Loops /\ pc[t] = "idle" /\ pc'[t] = "throttle")
    BY <1>3, DisconnectHandled
  <2> QED
    BY <2>1, TasksAre DEF PlainInv, Plain, StatusKept, Reconnecting
<1>4. ASSUME NEW f \in Forwarders,
             \/ \E d \in Exports : StateChanged(f, d)
             \/ DevicesRequested(f) \/ HomeAssistantStarted(f)
      PROVE  PlainInv'
  BY <1>4, StartStillReconnecting DEF PlainInv, StatusKept
<1>5. CASE Shutdown
  <2>1. shuttingDown' /\ pc' = [pc EXCEPT ![Entry] = "disconnect"]
    BY <1>5 DEF Shutdown, Proceed
  <2> QED
    BY <2>1, TasksAre DEF PlainInv, Plain, StatusKept, Inv, CoordinatorTypeOK
<1>6. CASE Disconnected
  <2>1. /\ pc' = [pc EXCEPT ![Entry] = "idle"] /\ pc[Entry] = "disconnect"
        /\ shuttingDown' = shuttingDown
    BY <1>6 DEF Disconnected, Proceed, Returned, entryVars
  <2>2. shuttingDown
    BY <2>1 DEF RestInv, Calm
  <2> QED
    BY <2>1, <2>2, TasksAre DEF PlainInv, Plain, StatusKept, Inv, CoordinatorTypeOK
<1>7. CASE (\E s \in Sock : SocketStep(s)) \/ Fault \/ UNCHANGED vars
  <2>1. UNCHANGED <<pc, shuttingDown, connectedSince>>
    BY <1>7 DEF SocketStep, Fault, ClientTasks, IncomingMessage, KeepaliveMessage, StreamStep,
                vars, coordinatorVars, entryVars, linkVars
  <2> QED
    BY <2>1 DEF PlainInv, Plain, StatusKept, Reconnecting, LoopAlive
<1> QED
  BY <1>1, <1>2, <1>3, <1>4, <1>5, <1>6, <1>7 DEF Next, SocketStep

LEMMA PlainAlways == ASSUME ~AutoRepublish PROVE Spec => []PlainInv
<1>1. Init => PlainInv
  BY TasksAre DEF Init, PlainInv, Plain, StatusKept, Reconnecting
<1>2. Inv /\ RestInv /\ PlainInv /\ [Next]_vars => PlainInv'
  BY PlainStep
<1> QED
  BY <1>1, <1>2, Invariance, RestAlways, PTL DEF Spec

(* Without auto-republish no report of a lost connection outlives the      *)
(* reconnect, whichever tasks raced for it: at rest the coordinator says   *)
(* connected (async_handle_disconnect, _set_connected, _reconnect_loop).   *)
THEOREM StatusTrueAlways == ASSUME ~AutoRepublish PROVE Spec => []StatusTrue
<1>1. ASSUME Inv, RestInv, PlainInv PROVE StatusTrue
  <2>1. SUFFICES ASSUME Settled PROVE connectedSince
    BY DEF StatusTrue
  <2>2. ~Reconnecting
    BY <2>1, TasksAre DEF Settled, Reconnecting, LoopAlive
  <2>3. ~shuttingDown
    BY <1>1, <2>1 DEF Settled, RestInv, Calm
  <2> QED
    BY <1>1, <2>2, <2>3 DEF PlainInv, StatusKept
<1> QED
  BY <1>1, Invariance, RestAlways, PlainAlways, PTL

-------------------------------------------------------------------------------
(* ... and where no drain() suspends, so that the write lock is always free *)
Undrained == lock = None

(* Reader s reads the client's connection, or will once it starts.         *)
Watched == \E s \in Sock : rd[s].at = "new" \/ (rd[s].at \in {"reading", "handling"} /\ rd[s].src = writer)

(* The client's connection has a reader, or is just being greeted.         *)
Tended ==
  /\ writer # None /\ reader = writer
  /\ Watched \/ \E t \in Task : call[t].op = "connect" /\ call[t].at = "send"

(* A reader is about to report a disconnect. *)
Leaving == \E s \in Sock : rd[s].at \in {"closing", "callback"}

NoQueue == \A t \in Task : call[t].at # "lock"

(* A task whose connect succeeds does not give up the loop before it used it. *)
Fresh ==
  \A t \in Task : call[t].op = "connect" =>
    /\ call[t].at \in {"send", "ok"} => running = t /\ IsConnected
    /\ call[t].at = "send" => call[t].s \in Sock /\ rd[call[t].s].at = "none"

(* The client's transport was closed by a reader that waits for its loss.  *)
Closers ==
  writer # None /\ sock[writer] = "closing" =>
    \E s \in Sock : rd[s].at = "closing" /\ rd[s].w = writer

WriterUsed == writer # None => sock[writer] # "free"

(* A working connection is read, a lost one is reported or replaced. *)
Answered == (IsConnected => Tended) /\ (Reconnecting \/ Leaving \/ Tended)

Answering == NoQueue /\ Fresh /\ Closers /\ WriterUsed /\ Answered

OutageInv == ~shuttingDown => Answering

-------------------------------------------------------------------------------
(* A step of a coroutine out of the client's methods. *)
LEMMA OutageAfterMove ==
  ASSUME Inv, RestInv, Answering, NEW t \in Task, Moves(t),
         (Reconnecting => Reconnecting') \/ Tended
  PROVE  Answering'
<1>1. NoQueue'
  BY DEF Answering, NoQueue, Moves, Idle
<1>2. Fresh'
  <2>1. \A u \in Task \ {t} : call[u].op = "connect" => call[u].at \notin {"send", "ok"}
    BY TaskSockAssumption DEF Answering, Fresh, Moves
  <2> QED
    BY <2>1 DEF Fresh, Moves, Idle
<1>3. Closers' /\ WriterUsed'
  BY DEF Answering, Closers, WriterUsed, Moves, streamVars, readerVars
<1>4. Tended => Tended'
  <2>1. call[t].at # "send"
    BY DEF Moves, Result
  <2>2. \A u \in Task : call[u].op = "connect" /\ call[u].at = "send" => call'[u] = call[u]
    BY <2>1 DEF Moves
  <2> QED
    BY <2>2 DEF Tended, Watched, Moves, streamVars, readerVars
<1>5. Answered'
  <2>1. IsConnected' = IsConnected /\ (Leaving' <=> Leaving)
    BY DEF IsConnected, Leaving, Moves, streamVars, readerVars
  <2> QED
    BY <1>4, <2>1 DEF Answering, Answered
<1> QED
  BY <1>1, <1>2, <1>3, <1>5 DEF Answering

(* A step inside a method, while no drain() suspends. *)
LEMMA OutageAfterCall ==
  ASSUME ~AutoRepublish, Inv, RestInv, PlainInv, Answering, Undrained, NEW t \in Task,
         CallClient(t) \/ ClientProgress(t) \/ ConnectionOpened(t), ~shuttingDown'
  PROVE  Answering'
<1>1. /\ UNCHANGED <<pc, shuttingDown>> /\ Matched'
      /\ running \in {None, t} /\ running' \in {None, t}
      /\ \A u \in Task \ {t} : call'[u] = call[u]
      /\ Quiet(t) \/ \E s \in Sock : Opens(t, s) \/ Greeted(t, s)
  BY CallMatched, CallEffects DEF RestInv
<1>2. \A u \in Task \ {t} : call[u].op = "connect" => call[u].at \notin {"send", "ok"}
  BY <1>1, TaskSockAssumption DEF Answering, Fresh
<1>3. Reconnecting' <=> Reconnecting
  BY <1>1 DEF Reconnecting, LoopAlive
<1>4. NoQueue'
  <2>1. call'[t].at # "lock"
    BY <1>1 DEF Quiet, Opens, Greeted, Answering, NoQueue, Undrained
  <2> QED
    BY <1>1, <2>1 DEF Answering, NoQueue
<1>5. ~shuttingDown
  BY <1>1
<1>6. rd \in [Sock -> ReaderTask] /\ sock \in [Sock -> Transport] /\ writer \in Sock \union {None}
  BY DEF Inv, ClientInv, ClientTypeOK
<1>7. CASE Quiet(t)
  <2>1. UNCHANGED <<sock, reader, writer, rd>> /\ IsConnected' = IsConnected
    BY <1>7 DEF Quiet, streamVars, readerVars, IsConnected
  <2>2. Fresh'
    BY <1>1, <1>2, <1>7, <2>1 DEF Quiet, Fresh
  <2>3. Closers' /\ WriterUsed'
    BY <1>1, <2>1 DEF Answering, Closers, WriterUsed
  <2>4. Tended => Tended'
    <3>1. CASE call[t].op = "connect" /\ call[t].at = "send"
      <4>1. IsConnected /\ Greets(t)
        BY <3>1 DEF Answering, Fresh, Greets
      <4>2. call'[t].at = "lock"
        BY <1>7, <4>1 DEF Quiet, Greets
      <4> QED
        BY <1>4, <4>2 DEF NoQueue
    <3>2. CASE ~(call[t].op = "connect" /\ call[t].at = "send")
      BY <1>2, <2>1, <3>2 DEF Tended, Watched
    <3> QED
      BY <3>1, <3>2
  <2>5. Answered'
    BY <1>1, <1>3, <2>1, <2>4 DEF Answering, Answered, Leaving
  <2> QED
    BY <1>4, <2>2, <2>3, <2>5 DEF Answering
<1>8. ASSUME NEW s \in Sock, Opens(t, s) PROVE Answering'
  <2>1. /\ sock' = [sock EXCEPT ![s] = "open"] /\ reader' = s /\ writer' = s
        /\ rd' = [rd EXCEPT ![s] = NoReaderTask]
        /\ call'[t].op = "connect" /\ call'[t].at = "send" /\ call'[t].s = s
        /\ running' = t /\ ~ReaderAlive(s)
    BY <1>8 DEF Opens, Free
  <2>2. s # None /\ IsConnected'
    BY <1>6, <2>1, TaskSockAssumption DEF IsConnected
  <2>3. Fresh'
    BY <1>1, <1>2, <1>6, <2>1, <2>2 DEF Fresh, NoReaderTask
  <2>4. Closers'
    <3>1. \A r \in Sock : rd[r].at = "closing" => rd'[r] = rd[r]
      BY <1>6, <2>1 DEF ReaderAlive
    <3> QED
      BY <1>1, <1>5, <1>6, <2>1, <3>1 DEF Answering, Closers
  <2>5. WriterUsed' /\ Tended'
    BY <1>6, <2>1, <2>2 DEF WriterUsed, Tended
  <2> QED
    BY <1>4, <2>3, <2>4, <2>5 DEF Answering, Answered
<1>9. ASSUME NEW s \in Sock, Greeted(t, s) PROVE Answering'
  <2>1. /\ call[t].op = "connect" /\ call[t].at = "send" /\ s = call[t].s /\ IsConnected
        /\ call'[t].op = "connect" /\ call'[t].at = "ok" /\ running' = t
        /\ rd' = [rd EXCEPT ![s] = [NoReaderTask EXCEPT !.at = "new"]]
        /\ UNCHANGED <<sock, reader, writer>>
    BY <1>9 DEF Greeted, Greets, Answering, NoQueue, streamVars
  <2>2. rd[s].at = "none" /\ rd'[s].at = "new" /\ IsConnected'
    BY <1>6, <2>1 DEF Answering, Fresh, NoReaderTask, IsConnected
  <2>3. Fresh'
    BY <1>1, <1>2, <2>1, <2>2 DEF Fresh
  <2>4. Closers' /\ WriterUsed'
    <3>1. \A r \in Sock : rd[r].at = "closing" => rd'[r] = rd[r]
      BY <1>6, <2>1, <2>2
    <3>2. sock' = sock /\ writer' = writer
      BY <2>1
    <3>3. Closers'
      BY <3>1, <3>2 DEF Answering, Closers
    <3> QED
      BY <3>2, <3>3 DEF Answering, WriterUsed
  <2>5. Tended'
    BY <1>5, <2>1, <2>2 DEF Answering, Answered, Tended, Watched
  <2> QED
    BY <1>4, <2>3, <2>4, <2>5 DEF Answering, Answered
<1> QED
  BY <1>1, <1>7, <1>8, <1>9

-------------------------------------------------------------------------------
(* A step of the network, of a reader or of a keepalive. *)
LEMMA OutageAfterSocket ==
  ASSUME Inv, RestInv, Answering, ~shuttingDown,
         NEW s \in Sock, SocketStep(s)
  PROVE  Answering'
<1>1. UNCHANGED <<call, pc>>
  BY SocketFrame, SocketEffects
<1>2. NoQueue' /\ (Reconnecting' <=> Reconnecting)
  BY <1>1 DEF Answering, NoQueue, Reconnecting, LoopAlive
<1>3. /\ rd \in [Sock -> ReaderTask] /\ sock \in [Sock -> Transport]
      /\ reader \in Sock \union {None} /\ writer \in Sock \union {None}
  BY DEF Inv, ClientInv, ClientTypeOK
<1>4. ~intentional /\ \A r \in Sock : ~rd[r].cancelled
  BY DEF RestInv, Calm
<1>5. ASSUME running \notin Task,
             Closers', WriterUsed',
             IsConnected' => IsConnected,
             (writer # None /\ reader = writer /\ Watched)
               => (writer # None /\ reader = writer /\ Watched)' \/ (~IsConnected' /\ Leaving'),
             Leaving => Leaving'
      PROVE  Answering'
  <2>1. \A t \in Task : call[t].op = "connect" => call[t].at \notin {"send", "ok"}
    BY <1>5 DEF Answering, Fresh
  <2>2. Fresh'
    BY <1>1, <2>1 DEF Fresh
  <2>3. Tended => Tended' \/ (~IsConnected' /\ Leaving')
    BY <1>5, <2>1 DEF Tended
  <2>4. Answered'
    BY <1>2, <1>5, <2>3 DEF Answering, Answered
  <2> QED
    BY <1>2, <1>5, <2>2, <2>4 DEF Answering
<1>6. None \notin Task /\ s \notin Task
  BY TaskSockAssumption
<1>7. CASE Network
  <2>1. UNCHANGED <<reader, writer, rd>> /\ running = None
    BY <1>7 DEF Network
  <2>2. Closers' /\ WriterUsed'
    BY <1>3, <1>7, <2>1 DEF Network, Answering, Closers, WriterUsed
  <2>3. IsConnected' => IsConnected
    BY <1>3, <1>7 DEF Network, IsConnected
  <2> QED
    BY <1>5, <1>6, <2>1, <2>2, <2>3 DEF Watched, Leaving
<1>8. CASE KeepaliveEnds(s) \/ KeepaliveWaits(s) \/ KeepaliveResumes(s)
  <2>1. UNCHANGED <<sock, reader, writer, rd>> /\ running = None
    BY <1>8 DEF KeepaliveEnds, KeepaliveWaits, KeepaliveResumes, streamVars, readerVars
  <2> QED
    BY <1>5, <1>6, <2>1 DEF Answering, Closers, WriterUsed, IsConnected, Watched, Leaving
<1>9. CASE ReaderStarts(s) \/ HandlerWaits(s) \/ HandlerReturns(s)
  <2>1. /\ running = None /\ UNCHANGED <<sock, reader, writer>>
        /\ \A r \in Sock \ {s} : rd'[r] = rd[r]
        /\ rd[s].at \in {"new", "reading", "handling"}
    BY <1>3, <1>9 DEF ReaderStarts, HandlerWaits, HandlerReturns, streamVars
  <2>2. writer # None /\ reader = writer /\ Watched => Watched'
    <3>1. CASE ReaderStarts(s)
      <4>1. reader # None => rd'[s].at = "reading" /\ rd'[s].src = reader
        BY <1>3, <1>4, <3>1 DEF ReaderStarts, ReaderTask
      <4> QED
        BY <2>1, <4>1 DEF Watched
    <3>2. CASE HandlerWaits(s) \/ HandlerReturns(s)
      <4>1. /\ rd[s].at \in {"reading", "handling"} /\ rd'[s].at \in {"reading", "handling"}
            /\ rd'[s].src = rd[s].src
        BY <1>3, <3>2 DEF HandlerWaits, HandlerReturns, ReaderTask
      <4> QED
        BY <2>1, <4>1 DEF Watched
    <3> QED
      BY <1>9, <3>1, <3>2
  <2>3. Closers' /\ WriterUsed'
    BY <2>1 DEF Answering, Closers, WriterUsed
  <2>4. (Leaving => Leaving') /\ IsConnected' = IsConnected
    BY <2>1 DEF Leaving, IsConnected
  <2> QED
    BY <1>5, <1>6, <2>1, <2>2, <2>3, <2>4
<1>10. CASE ReaderFinishes(s)
  <2>1. /\ running \in {None, s} /\ rd[s].at = "closing" /\ writer' = None
        /\ rd[s].w # None => sock[rd[s].w] = "lost"
        /\ rd' = [rd EXCEPT ![s] = [Ended EXCEPT !.at = "callback"]]
        /\ sock' = sock
    BY <1>4, <1>10 DEF ReaderFinishes, HasLoop
  <2>2. Leaving' /\ ~IsConnected'
    BY <1>3, <2>1 DEF Leaving, IsConnected, Ended, NoReaderTask
  <2>3. Closers' /\ WriterUsed'
    BY <1>3, <1>6, <2>1, TaskSockAssumption DEF Answering, Closers, WriterUsed
  <2> QED
    BY <1>5, <1>6, <2>1, <2>2, <2>3
<1>11. ~ReaderFinallyCancelled(s)
  BY <1>4 DEF ReaderFinallyCancelled
<1>12. ASSUME NEW r \in Sock, LeaveReading(r) PROVE Answering'
  <2>1. /\ running = None /\ rd[r].at \in {"reading", "handling"} /\ writer' = writer
        /\ sock' = IF IsConnected THEN [sock EXCEPT ![writer] = "closing"] ELSE sock
    BY <1>12 DEF LeaveReading
  <2>2. /\ rd'[r].at = "closing" /\ rd'[r].w = writer
        /\ \A q \in Sock \ {r} : rd'[q] = rd[q]
    BY <1>3, <1>12 DEF LeaveReading, ReaderTask
  <2>3. Leaving' /\ ~IsConnected'
    BY <1>3, <2>1, <2>2 DEF Leaving, IsConnected
  <2>4. Closers' /\ WriterUsed'
    BY <1>3, <2>1, <2>2 DEF Answering, Closers, WriterUsed, IsConnected
  <2> QED
    BY <1>5, <1>6, <2>1, <2>3, <2>4
<1> QED
  BY <1>7, <1>8, <1>9, <1>10, <1>11, <1>12, SocketEffects

(* The report of a lost connection, which a reconnect task answers.        *)
LEMMA OutageAfterReport ==
  ASSUME Inv, RestInv, Answering, NEW s \in Sock, HandleDisconnect(s)
  PROVE  Answering'
<1>1. /\ rd[s].at = "callback" /\ rd' = [rd EXCEPT ![s] = Ended]
      /\ UNCHANGED <<sock, reader, writer, call>>
      /\ Reconnecting'
  BY DisconnectHandled DEF streamVars, Reconnecting
<1>2. \A r \in Sock : rd[r].at # "callback" => rd'[r] = rd[r]
  BY <1>1 DEF Inv, ClientInv, ClientTypeOK
<1>3. \A t \in Task : call[t].op = "connect" => call[t].at \notin {"send", "ok"}
  BY TaskSockAssumption DEF HandleDisconnect, ReaderReports, Answering, Fresh
<1>4. NoQueue' /\ Fresh'
  BY <1>1, <1>3 DEF Answering, NoQueue, Fresh
<1>5. Closers' /\ WriterUsed'
  BY <1>1, <1>2 DEF Answering, Closers, WriterUsed
<1>6. Tended => Tended'
  BY <1>1, <1>2, <1>3 DEF Tended, Watched
<1>7. IsConnected' = IsConnected
  BY <1>1 DEF IsConnected
<1> QED
  BY <1>1, <1>4, <1>5, <1>6, <1>7 DEF Answering, Answered

LEMMA OutageStep ==
  ASSUME ~AutoRepublish, Inv, RestInv, PlainInv, Undrained, OutageInv, [Next]_vars
  PROVE  OutageInv'
<1> SUFFICES ASSUME ~shuttingDown' PROVE Answering'
  BY DEF OutageInv
<1>1. ASSUME NEW t \in Task, TaskStep(t) \/ ConnectionOpened(t) PROVE Answering'
  <2>1. ~shuttingDown
    BY <1>1, StillReconnecting DEF PlainInv
  <2>2. CASE CallClient(t) \/ ClientProgress(t) \/ ConnectionOpened(t)
    BY <2>1, <2>2, OutageAfterCall DEF OutageInv
  <2>3. CASE \/ Connected(t) \/ StartDevices(t) \/ Registered(t)
             \/ CheckShutdown(t) \/ Reached(t) \/ Pushed(t) \/ RetryLater(t) \/ Fails(t)
    <3>1. Moves(t)
      BY <2>3, TaskMoves DEF RestInv
    <3>2. Connected(t) => Tended
      <4>1. Connected(t) => call[t].op = "connect" /\ call[t].at = "ok"
        BY DEF Connected, Returned, RestInv, Matched, Fits, MethodOf, Idle
      <4> QED
        BY <2>1, <4>1 DEF OutageInv, Answering, Fresh, Answered
    <3>3. (Reconnecting => Reconnecting') \/ Tended
      BY <1>1, <2>1, <3>2, StillReconnecting DEF PlainInv
    <3> QED
      BY <2>1, <3>1, <3>3, OutageAfterMove DEF OutageInv
  <2> QED
    BY <1>1, <2>2, <2>3 DEF TaskStep
<1>2. ASSUME NEW l \in Loops, LoopStep(l) PROVE Answering'
  <2>1. l \in Task /\ Moves(l)
    BY <1>2, LoopMoves DEF RestInv
  <2>2. ~shuttingDown /\ Reconnecting'
    BY <1>2, LoopStillReconnecting DEF PlainInv
  <2> QED
    BY <2>1, <2>2, OutageAfterMove DEF OutageInv
<1>3. ASSUME NEW f \in Forwarders,
             \/ \E d \in Exports : StateChanged(f, d)
             \/ DevicesRequested(f) \/ HomeAssistantStarted(f)
      PROVE  Answering'
  <2>1. f \in Task /\ Moves(f)
    BY <1>3, StartMoves
  <2>2. ~shuttingDown /\ (Reconnecting => Reconnecting')
    BY <1>3, StartStillReconnecting DEF PlainInv
  <2> QED
    BY <2>1, <2>2, OutageAfterMove DEF OutageInv
<1>4. ASSUME NEW s \in Sock, SocketStep(s) PROVE Answering'
  <2>1. ~shuttingDown
    BY <1>4, SocketFrame
  <2> QED
    BY <1>4, <2>1, OutageAfterSocket DEF OutageInv
<1>5. ASSUME NEW s \in Sock, HandleDisconnect(s) PROVE Answering'
  <2>1. ~shuttingDown
    BY <1>5, DisconnectHandled
  <2> QED
    BY <1>5, <2>1, OutageAfterReport DEF OutageInv
<1>6. CASE Shutdown \/ Disconnected
  <2>1. pc[Entry] = "disconnect" => shuttingDown
    BY DEF RestInv, Calm
  <2> QED
    BY <1>6, <2>1 DEF Shutdown, Disconnected, Returned, entryVars
<1>7. CASE UNCHANGED vars
  BY <1>7 DEF vars, clientVars, coordinatorVars, entryVars, streamVars, readerVars, callVars,
     OutageInv, Answering, NoQueue, Fresh, Closers, WriterUsed, Answered, Tended, Watched,
     Leaving, Reconnecting, LoopAlive, IsConnected
<1> QED
  BY <1>1, <1>2, <1>3, <1>4, <1>5, <1>6, <1>7 DEF Next, SocketStep, Fault

LEMMA OutageAlways == ASSUME ~AutoRepublish PROVE Spec /\ []Undrained => []OutageInv
<1>1. Init => OutageInv
  BY TasksAre DEF Init, ClientInit, OutageInv, Answering, NoQueue, Fresh, Closers, WriterUsed,
     Answered, IsConnected, Reconnecting, Idle
<1>2. Inv /\ RestInv /\ PlainInv /\ Undrained /\ OutageInv /\ [Next]_vars => OutageInv'
  BY OutageStep
<1> QED
  BY <1>1, <1>2, Invariance, RestAlways, PlainAlways, PTL DEF Spec

(* At rest nothing but a reader of an open connection is left of Answering. *)
LEMMA RestIsUp ==
  ASSUME Inv, RestInv, OutageInv, Settled
  PROVE  Up
<1>1. ~shuttingDown /\ ~Reconnecting
  BY TasksAre DEF Settled, RestInv, Calm, Reconnecting, LoopAlive
<1>2. \A t \in Task : call[t] = Idle
  BY TasksAre DEF Settled, Inv, Placed
<1>3. ~Leaving
  BY <1>1, TaskSockAssumption DEF Settled, RestInv, Reports, Leaving
<1>4. writer # None /\ reader = writer /\ Watched
  BY <1>1, <1>2, <1>3 DEF OutageInv, Answering, Answered, Tended, Idle
<1>5. PICK s \in Sock : rd[s].at = "reading" /\ rd[s].src = writer
  BY <1>4 DEF Watched, Settled, ReaderRunnable, ReaderAroused
<1>6. sock[writer] \in Transport /\ sock[writer] \notin {"eof", "lost"}
  BY <1>4, <1>5 DEF Settled, ReaderRunnable, ReaderReady, Inv, ClientInv, ClientTypeOK
<1>7. sock[writer] \notin {"closing", "free"}
  BY <1>1, <1>3, <1>4 DEF OutageInv, Answering, Closers, WriterUsed, Leaving,
     Inv, ClientInv, ClientTypeOK
<1> QED
  BY <1>4, <1>5, <1>6, <1>7 DEF Up, Transport

(* Without auto-republish, and as long as no drain() of a message or of a  *)
(* keepalive has to wait, the coordinator never comes to rest without a working connection, *)
(* however many outages it sees and however many tasks race to connect     *)
(* (async_connect, _async_reader_loop, async_handle_disconnect).           *)
THEOREM NeverGivesUpUndrained ==
  ASSUME ~AutoRepublish PROVE Spec /\ []Undrained => []NeverGivesUp
<1>1. Inv /\ RestInv /\ OutageInv => NeverGivesUp
  BY RestIsUp DEF NeverGivesUp
<1> QED
  BY <1>1, Invariance, RestAlways, OutageAlways, PTL

LEMMA UndrainedAlways == ASSUME ~Backpressure PROVE Spec => []Undrained
<1>1. Init => Undrained
  BY DEF Init, ClientInit, Undrained
<1>2. Undrained /\ [Next]_vars => Undrained'
  <2> SUFFICES ASSUME Undrained, [Next]_vars PROVE lock' \in {lock, None}
    BY DEF Undrained
  <2>1. ASSUME NEW t \in Task, TaskStep(t) \/ ConnectionOpened(t) PROVE lock' \in {lock, None}
    <3>1. CASE ConnectionOpened(t)
      BY <3>1 DEF ConnectionOpened, OpenConnection
    <3>2. CASE CallClient(t)
      BY <3>2 DEF CallClient, Connect, Send, Disconnect, CancelKeepalive
    <3>3. CASE ClientProgress(t)
      BY <3>3 DEF ClientProgress, CallStep, OpenFails, KeepaliveStopped, Acquire, LockGranted,
         Write, Drained, DrainReturns, DrainFails, Cancelled, ReaderStopped, StopKeepalive,
         CancelKeepalive, CloseWriter, WriterClosed, WriterCloseFails
    <3> QED
      BY <2>1, <3>1, <3>2, <3>3 DEF TaskStep, Connected, StartDevices, Registered, CheckShutdown,
         Reached, Pushed, RetryLater, Fails, ConnectionUnchanged
  <2>2. ASSUME NEW s \in Sock, SocketStep(s) \/ HandleDisconnect(s) PROVE lock' \in {lock, None}
    <3>1. CASE HandleDisconnect(s)
      BY <3>1 DEF HandleDisconnect, ReaderReports
    <3>2. CASE SocketStep(s)
      BY <3>2, SocketEffects DEF Network, KeepaliveWaits, KeepaliveResumes, KeepaliveEnds,
         ReaderStarts, HandlerWaits, HandlerReturns, ReaderFinishes, ReaderFinallyCancelled,
         LeaveReading
    <3> QED
      BY <2>2, <3>1, <3>2
  <2>3. CASE \/ \E l \in Loops : LoopStep(l)
             \/ \E f \in Forwarders :
                  \/ \E d \in Exports : StateChanged(f, d)
                  \/ DevicesRequested(f) \/ HomeAssistantStarted(f)
             \/ Shutdown \/ Disconnected \/ UNCHANGED vars
    BY <2>3 DEF LoopStep, Throttle, LoopCancelled, StateChanged, DevicesRequested,
       HomeAssistantStarted, Starts, Shutdown, Disconnected, ConnectionUnchanged, vars, clientVars
  <2> QED
    BY <2>1, <2>2, <2>3 DEF Next, SocketStep, Fault
<1> QED
  BY <1>1, <1>2, PTL DEF Spec

(* Where the bridge reads what it is sent, so that no drain() waits, an    *)
(* entry without auto-republish always reconnects (_async_reconnect_loop). *)
THEOREM NeverGivesUpAlways ==
  ASSUME ~AutoRepublish, ~Backpressure PROVE Spec => []NeverGivesUp
BY UndrainedAlways, NeverGivesUpUndrained, PTL
===============================================================================
