--------------------------- MODULE Plan44Coordinator ---------------------------
(***************************************************************************)
(* One config entry's coordinator (coordinator.py) over its TCP client:    *)
(* set-up, reconnect loops, forwarding of state changes, registration of   *)
(* the exported devices, and unload.  Every coroutine is a task with a     *)
(* program counter; an await inside the client is a call of Plan44Client,  *)
(* and code between two awaits runs without giving up the event loop.      *)
(*                                                                         *)
(* Left out: how long the loop sleeps (module ReconnectBackoff), which     *)
(* state a push carries and whether a cooldown drops it (EchoGuard).       *)
(***************************************************************************)
EXTENDS Plan44Client

CONSTANTS
  Entry,          \* async_setup_entry, and later async_unload_entry
  Loops,          \* identities for _async_reconnect_loop tasks
  Forwarders,     \* tasks of state changes, of services and of startup
  Exports,        \* the exported devices, their entities having a state
  AutoRepublish,  \* self.auto_republish
  QuietUnload,    \* assume that no unload meets a connection attempt
  MaxFaults       \* bound: how often the connection fails in a behaviour

ASSUME TaskAssumption ==
  /\ Task = {Entry} \union Loops \union Forwarders
  /\ Entry \notin Loops \union Forwarders
  /\ Loops \cap Forwarders = {}
ASSUME OptionAssumption ==
  AutoRepublish \in BOOLEAN /\ QuietUnload \in BOOLEAN /\ MaxFaults \in Nat

VARIABLES
  pc,             \* the statement each coroutine executes next
  todo,           \* devices a coroutine has still to register and push
  shuttingDown,   \* self._shutting_down
  reconnectTask,  \* self._reconnect_task
  startupSync,    \* self._startup_sync_unsub is not None
  connectedSince, \* self.connected_since is not None
  known,          \* the devices registered on the newest connection
  faults          \* failures of the connection so far

entryVars == <<shuttingDown, reconnectTask, startupSync>>
linkVars == <<connectedSince, known, faults>>
coordinatorVars == <<pc, todo, entryVars, linkVars>>
vars == <<clientVars, coordinatorVars>>

Label == {"idle", "throttle", "connect", "ensure", "register", "forward",
          "reach", "push", "loaded", "shutdown", "disconnect"}

TypeOK ==
  /\ ClientTypeOK
  /\ pc \in [Task -> Label]
  /\ todo \in [Task -> SUBSET Exports]
  /\ shuttingDown \in BOOLEAN
  /\ reconnectTask \in Loops \union {None}
  /\ startupSync \in BOOLEAN
  /\ connectedSince \in BOOLEAN
  /\ known \in SUBSET Exports
  /\ faults \in 0..MaxFaults

Init ==
  /\ ClientInit
  /\ pc = [t \in Task |-> IF t = Entry THEN "connect" ELSE "idle"]
  /\ todo = [t \in Task |-> {}]
  /\ shuttingDown = FALSE
  /\ reconnectTask = None
  /\ startupSync = FALSE
  /\ connectedSince = FALSE
  /\ known = {}
  /\ faults = 0

-------------------------------------------------------------------------------
(* Mutant of Device: the wrong kind of identity is registered. *)
DeviceOfTask(t) == t

Device(t) == CHOOSE d \in todo[t] : TRUE

AfterRepublish(t) == IF t = Entry THEN "loaded" ELSE "idle"

(* Task t goes on to `label' with the event loop, unless it ends there or  *)
(* waits for the unload.                                                   *)
Proceed(t, label) ==
  /\ pc' = [pc EXCEPT ![t] = label]
  /\ call' = [call EXCEPT ![t] = Idle]
  /\ running' = IF label \in {"idle", "loaded"} THEN None ELSE t

NextDevice(t) ==
  LET rest == todo[t] \ {Device(t)}
  IN /\ todo' = [todo EXCEPT ![t] = rest]
     /\ Proceed(t, IF rest = {} THEN AfterRepublish(t) ELSE "register")

(* A method of the client has returned to the coroutine that called it. *)
Returned(t, label, result) ==
  /\ running = t
  /\ pc[t] = label
  /\ call[t].at = result

ConnectionUnchanged == UNCHANGED <<streamVars, lock, readerVars, keepaliveVars>>

LoopAlive(l) == l \in Loops /\ pc[l] # "idle"

(* The state listener is installed by set-up and removed by unload. *)
Listening == ~shuttingDown /\ pc[Entry] # "connect"

-------------------------------------------------------------------------------
(* A coroutine awaits the client. *)
CallClient(t) ==
  /\ \/ pc[t] \in {"connect", "ensure", "reach"} /\ t \notin cancel /\ Connect(t)
     \/ pc[t] \in {"register", "push"} /\ Send(t)
     \/ pc[t] = "disconnect" /\ Disconnect(t)
  /\ UNCHANGED coordinatorVars

ClientProgress(t) ==
  /\ CallStep(t) \/ OpenFails(t)
  /\ UNCHANGED coordinatorVars

ConnectionOpened(t) ==
  /\ OpenConnection(t)
  /\ known' = {}
  /\ UNCHANGED <<pc, todo, entryVars, connectedSince, faults>>

(* Mutant of MarkConnected: only set-up records the connection. *)
MarkConnectedAtSetup(t) == connectedSince' = (connectedSince \/ t = Entry)

MarkConnected(t) == connectedSince' = TRUE

(* async_initialize and _async_reconnect_loop after their async_connect.   *)
(* Set-up leaves republishing to a startup listener while Home Assistant   *)
(* is not running yet.                                                     *)
Connected(t) ==
  /\ Returned(t, "connect", "ok")
  /\ MarkConnected(t)
  /\ \/ /\ AutoRepublish
        /\ todo' = [todo EXCEPT ![t] = Exports]
        /\ Proceed(t, "ensure")
        /\ UNCHANGED startupSync
     \/ /\ t = Entry \/ ~AutoRepublish
        /\ Proceed(t, AfterRepublish(t))
        /\ startupSync' = (startupSync \/ (t = Entry /\ AutoRepublish))
        /\ UNCHANGED todo
  /\ ConnectionUnchanged
  /\ UNCHANGED <<cancel, shuttingDown, reconnectTask, known, faults>>

(* async_republish_virtual_devices and its likes, once connected. *)
StartDevices(t) ==
  /\ Returned(t, "ensure", "ok")
  /\ Proceed(t, IF todo[t] = {} THEN AfterRepublish(t) ELSE "register")
  /\ ConnectionUnchanged
  /\ UNCHANGED <<cancel, todo, entryVars, linkVars>>

Registered(t) ==
  /\ Returned(t, "register", "ok")
  /\ known' = IF call[t].w = writer THEN known \union {Device(t)} ELSE known
  /\ Proceed(t, "forward")
  /\ ConnectionUnchanged
  /\ UNCHANGED <<cancel, todo, entryVars, connectedSince, faults>>

(* The head of async_forward_entity_state; a disabled export is not pushed. *)
CheckShutdown(t) ==
  /\ running = t
  /\ pc[t] = "forward"
  /\ \/ NextDevice(t)
     \/ ~shuttingDown /\ Proceed(t, "reach") /\ UNCHANGED todo
  /\ ConnectionUnchanged
  /\ UNCHANGED <<cancel, entryVars, linkVars>>

Reached(t) ==
  /\ Returned(t, "reach", "ok")
  /\ NextDevice(t) \/ (Proceed(t, "push") /\ UNCHANGED todo)
  /\ ConnectionUnchanged
  /\ UNCHANGED <<cancel, entryVars, linkVars>>

(* A state may take several messages. *)
Pushed(t) ==
  /\ Returned(t, "push", "ok")
  /\ NextDevice(t) \/ (Proceed(t, "push") /\ UNCHANGED todo)
  /\ ConnectionUnchanged
  /\ UNCHANGED <<cancel, entryVars, linkVars>>

(* Mutant of RetryLater: a bounded number of attempts. *)
RetryLaterGivesUp(l) ==
  /\ l \in Loops
  /\ Returned(l, "connect", "error")
  /\ Proceed(l, "idle")
  /\ ConnectionUnchanged
  /\ UNCHANGED <<cancel, todo, entryVars, linkVars>>

(* A failed connect makes the loop sleep and try again. *)
RetryLater(l) ==
  /\ l \in Loops
  /\ Returned(l, "connect", "error")
  /\ call' = [call EXCEPT ![l] = Idle]
  /\ running' = None
  /\ ConnectionUnchanged
  /\ UNCHANGED <<cancel, coordinatorVars>>

(* Any other failure ends the task; a failed set-up shuts down first. *)
Fails(t) ==
  /\ running = t /\ call[t].at = "error"
  /\ ~(t \in Loops /\ pc[t] = "connect")
  /\ todo' = [todo EXCEPT ![t] = {}]
  /\ Proceed(t, IF t = Entry /\ pc[t] # "disconnect" THEN "shutdown" ELSE "idle")
  /\ ConnectionUnchanged
  /\ UNCHANGED <<cancel, entryVars, linkVars>>

-------------------------------------------------------------------------------
(* Reconnecting *)

(* Mutant of MayReconnect: the task that is at it already is not looked at. *)
MayReconnectAlways == TRUE

MayReconnect == ~LoopAlive(reconnectTask)

(* async_handle_disconnect, called by the reader of s; the new task starts *)
(* at once, before the handler returns.                                    *)
HandleDisconnect(s) ==
  /\ connectedSince' = FALSE
  /\ \/ /\ ~MayReconnect
        /\ ReaderReports(s, None)
        /\ UNCHANGED <<pc, reconnectTask>>
     \/ /\ MayReconnect
        /\ \E l \in Loops :
             /\ ~LoopAlive(l)
             /\ ReaderReports(s, l)
             /\ reconnectTask' = l
             /\ pc' = [pc EXCEPT ![l] = "throttle"]
  /\ UNCHANGED <<todo, shuttingDown, startupSync, known, faults>>

(* A short-lived session makes the loop sleep before it tries. *)
Throttle(l) ==
  /\ running = l
  /\ pc[l] = "throttle"
  /\ pc' = [pc EXCEPT ![l] = "connect"]
  /\ running' \in {None, l}
  /\ ConnectionUnchanged
  /\ UNCHANGED <<call, cancel, todo, entryVars, linkVars>>

(* CancelledError in a sleep of the loop, or out of a method of the client. *)
LoopCancelled(l) ==
  /\ \/ /\ running = None /\ l \in cancel
        /\ call[l] = Idle /\ pc[l] = "connect"
     \/ running = l /\ call[l].at = "cancelled"
  /\ cancel' = cancel \ {l}
  /\ todo' = [todo EXCEPT ![l] = {}]
  /\ Proceed(l, "idle")
  /\ ConnectionUnchanged
  /\ UNCHANGED <<entryVars, linkVars>>

-------------------------------------------------------------------------------
(* Tasks of Home Assistant, and the end of the entry *)

Starts(f, label, devices) ==
  /\ running = None
  /\ pc[f] = "idle" /\ Listening
  /\ pc' = [pc EXCEPT ![f] = label]
  /\ todo' = [todo EXCEPT ![f] = devices]
  /\ running' = f
  /\ ConnectionUnchanged
  /\ UNCHANGED <<call, cancel, shuttingDown, reconnectTask, linkVars>>

(* A state change of device d: async_forward_entity_state as a task. *)
StateChanged(f, d) == Starts(f, "reach", {d}) /\ UNCHANGED startupSync

(* The republish service and button register every device, a new or        *)
(* changed export only its own.                                            *)
DevicesRequested(f) ==
  /\ \E devices \in SUBSET Exports : Starts(f, "ensure", devices)
  /\ UNCHANGED startupSync

HomeAssistantStarted(f) ==
  /\ startupSync
  /\ Starts(f, "ensure", Exports)
  /\ startupSync' = FALSE

(* Mutant of CancelReconnect: the handle is dropped, the task not cancelled. *)
CancelReconnectNever == UNCHANGED cancel

CancelReconnect == cancel' = cancel \union {l \in {reconnectTask} : LoopAlive(l)}

(* async_shutdown up to its async_disconnect, on unload or failed set-up. *)
Shutdown ==
  /\ \/ running = None /\ pc[Entry] = "loaded"
     \/ running = Entry /\ pc[Entry] = "shutdown"
  /\ QuietUnload => \A t \in Task \ {Entry} : call[t] = Idle
  /\ shuttingDown' = TRUE
  /\ startupSync' = FALSE
  /\ CancelReconnect
  /\ reconnectTask' = None
  /\ Proceed(Entry, "disconnect")
  /\ ConnectionUnchanged
  /\ UNCHANGED <<todo, linkVars>>

Disconnected ==
  /\ Returned(Entry, "disconnect", "ok")
  /\ Proceed(Entry, "idle")
  /\ ConnectionUnchanged
  /\ UNCHANGED <<cancel, todo, entryVars, linkVars>>

-------------------------------------------------------------------------------
Fault ==
  /\ faults < MaxFaults
  /\ faults' = faults + 1
  /\ \E s \in Sock : PeerCloses(s) \/ ConnectionReset(s) \/ HandlerRaises(s)
  /\ UNCHANGED <<pc, todo, entryVars, connectedSince, known>>

(* A message of the bridge whose handler waits for Home Assistant. *)
IncomingMessage(s) == HandlerWaits(s) /\ UNCHANGED coordinatorVars

(* The message of a keepalive meets a bridge that reads too slowly. *)
KeepaliveMessage(s) == KeepaliveWaits(s) /\ UNCHANGED coordinatorVars

(* A drain() ends, or a writer without a reference is collected. *)
StreamStep(s) ==
  /\ KeepaliveResumes(s) \/ WriterDropped(s)
  /\ UNCHANGED coordinatorVars

ClientTasks(s) ==
  /\ ReaderStep(s) \/ ConnectionLost(s)
  /\ UNCHANGED coordinatorVars

TaskStep(t) ==
  \/ CallClient(t) \/ ClientProgress(t)
  \/ Connected(t) \/ StartDevices(t) \/ Registered(t) \/ CheckShutdown(t)
  \/ Reached(t) \/ Pushed(t) \/ RetryLater(t) \/ Fails(t)

LoopStep(l) == Throttle(l) \/ LoopCancelled(l)

Next ==
  \/ \E t \in Task : TaskStep(t) \/ ConnectionOpened(t)
  \/ \E l \in Loops : LoopStep(l)
  \/ \E s \in Sock : ClientTasks(s) \/ HandleDisconnect(s) \/ IncomingMessage(s)
                     \/ KeepaliveMessage(s) \/ StreamStep(s)
  \/ \E f \in Forwarders, d \in Exports : StateChanged(f, d)
  \/ \E f \in Forwarders : DevicesRequested(f) \/ HomeAssistantStarted(f)
  \/ Shutdown \/ Disconnected \/ Fault

Spec == Init /\ [][Next]_vars

(* The event loop runs every task that can run, the write lock serves its   *)
(* waiters in turn, a drain() ends and a bridge that keeps being asked, by  *)
(* whichever task, is back in the end.                                      *)
Fairness ==
  /\ \A t \in Task : SF_vars(TaskStep(t))
  /\ SF_vars(\E t \in Task : ConnectionOpened(t))
  /\ \A s \in Sock : SF_vars(ClientTasks(s))
  /\ SF_vars(\E s \in Sock : StreamStep(s))
  /\ SF_vars(\E l \in Loops : LoopStep(l))
  /\ WF_vars(\/ \E s \in Sock : HandleDisconnect(s)
             \/ running = Entry /\ (Shutdown \/ Disconnected))

FairSpec == Spec /\ Fairness

-------------------------------------------------------------------------------
(* Properties                                                              *)

(* One outage, one retry: while the entry is loaded there is never a second *)
(* reconnect task beside the one async_handle_disconnect keeps a handle of, *)
(* however many readers report a disconnect.                               *)
OneReconnectLoop ==
  ~shuttingDown => \A l \in Loops : LoopAlive(l) => l = reconnectTask

(* The client has an open connection and a reader task on that connection. *)
Up == /\ writer # None /\ sock[writer] = "open"
      /\ \E s \in Sock : rd[s].at \in {"reading", "handling"} /\ rd[s].src = writer

(* Nothing is in progress: left alone, the program stays as it is. *)
Settled ==
  /\ running = None
  /\ pc[Entry] = "loaded"
  /\ \A t \in Task \ {Entry} : pc[t] = "idle"
  /\ \A s \in Sock : ~ReaderRunnable(s) /\ rd[s].at \notin {"handling", "closing"}

(* The coordinator never comes to rest without a working connection: some  *)
(* task is left that ends in a reconnect, whichever tasks raced to connect *)
(* and whichever reader tore down whose writer (async_handle_disconnect,   *)
(* _async_reconnect_loop and the finally block of the reader).             *)
NeverGivesUp == Settled => Up

(* At rest the connectivity the diagnostic entities show is the real one:  *)
(* no late _set_connected(False) of an old reader outlives a reconnect.    *)
StatusTrue == Settled /\ Up => connectedSince

(* At rest a working connection has a keepalive task, or the bridge would  *)
(* drop it after 30 s: two racing connects do not cancel each other's.     *)
KeptAlive == Settled /\ Up => ka # {}

(* With set-up and the reconnect loop as the only callers, and nothing to  *)
(* republish, at most one transport, one reader and one keepalive exist at *)
(* any time.                                                               *)
OneConnection ==
  /\ \A s \in Sock : sock[s] \in {"open", "eof"} => s = writer
  /\ Cardinality({s \in Sock : ReaderAlive(s)}) <= 1
  /\ Cardinality(ka) <= 1

Unloaded == shuttingDown /\ pc[Entry] = "idle" /\ running = None

(* An unloaded entry owns nothing: no transport is open, no reader or      *)
(* keepalive runs and every reconnect loop has been told to stop.          *)
ShutdownIsFinal ==
  Unloaded =>
    /\ \A s \in Sock : sock[s] \notin {"open", "eof"} /\ ~ReaderAlive(s)
    /\ ka = {}
    /\ \A l \in Loops : LoopAlive(l) => l \in cancel

(* async_forward_entity_state opens no connection once the unload has begun *)
(* (the guard at its head): there would be nobody left to close it.        *)
ForwardsStayDown ==
  [][\A f \in Forwarders :
       shuttingDown /\ pc[f] = "reach" => ~OpenConnection(f)]_vars

(* A lost connection of a loaded entry is always replaced in the end. *)
Reconnects == (Listening /\ ~Up) ~> (shuttingDown \/ Up)
===============================================================================
