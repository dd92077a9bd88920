----------------------------- MODULE Plan44Client -----------------------------
(***************************************************************************)
(* The TCP client of the plan44 external-device API (plan44_client.py):    *)
(* one asyncio event loop, on which tasks call async_connect, async_send   *)
(* and async_disconnect while the client's own reader and keepalive tasks  *)
(* run.  A task keeps the loop until it reaches an await that suspends it, *)
(* so `running' names the task that has the loop (None: the loop is free)  *)
(* and every action of another party waits for running = None.             *)
(*                                                                         *)
(* Left out: payloads, logging, the 15 s connect timeout (an OpenFails),   *)
(* the time between two messages of a keepalive, and the order in which    *)
(* asyncio serves the waiters of the write lock.                           *)
(***************************************************************************)
EXTENDS Naturals, FiniteSets

CONSTANTS
  Task,          \* the tasks that call the client's methods
  Sock,          \* socket identities; a dead one is used again
  Backpressure,  \* whether a drain() may have to wait for the bridge to read
  None

ASSUME TaskSockAssumption ==
  /\ Task \cap Sock = {}
  /\ None \notin Task \union Sock
  /\ Backpressure \in BOOLEAN

VARIABLES
  sock,           \* state of the transport of each socket
  reader,         \* self._reader
  writer,         \* self._writer
  lock,           \* the task that holds self._write_lock, or None; a keepalive
                  \* task has the name of its socket
  kaWriter,       \* the writer whose drain() that keepalive waits for, or None
  readerTask,     \* self._reader_task, named for the socket it was made for
  keepaliveTask,  \* self._keepalive_task, named in the same way
  rd,             \* the reader tasks, one for each socket
  ka,             \* the sockets whose keepalive task is alive
  intentional,    \* self._intentional_disconnect
  call,           \* where each task stands inside a method of the client
  cancel,         \* tasks with a cancellation not yet delivered
  running         \* the task that has the event loop, or None

readerVars == <<rd, readerTask, intentional>>
keepaliveVars == <<keepaliveTask, ka, kaWriter>>
streamVars == <<sock, reader, writer>>
callVars == <<call, cancel, running>>
clientVars == <<streamVars, lock, readerVars, keepaliveVars, callVars>>

(* "eof": the peer has closed its side, which does not close ours;         *)
(* "closing": close() was called, connection_lost() is still to come.      *)
Transport == {"free", "open", "eof", "closing", "lost"}

(* A reader task: the stream it reads, the writer its finally block closes *)
(* and whether a cancellation waits for it.  "handling": the callback for  *)
(* an incoming message waits, for a blocking service call say.             *)
ReaderTask ==
  [at : {"none", "new", "reading", "handling", "closing", "callback", "done",
         "failed"},
   src : Sock \union {None}, w : Sock \union {None}, cancelled : BOOLEAN]

NoReaderTask == [at |-> "none", src |-> None, w |-> None, cancelled |-> FALSE]

Ended == [NoReaderTask EXCEPT !.at = "done"]

(* A call: the method, the await it is suspended at (or its result), the   *)
(* socket it opened or waits for and the writer its line went to.          *)
Result == {"ok", "error", "cancelled"}
Suspended == {"kastop", "opening", "lock", "drain", "drained",
              "d_reader", "d_kastop", "d_wait"}
Call ==
  [op : {"none", "connect", "send", "disconnect"},
   at : {"idle", "send", "d_keepalive", "d_close"} \union Suspended \union Result,
   s : Sock \union {None}, w : Sock \union {None}]

Idle == [op |-> "none", at |-> "idle", s |-> None, w |-> None]

ClientTypeOK ==
  /\ sock \in [Sock -> Transport]
  /\ reader \in Sock \union {None}
  /\ writer \in Sock \union {None}
  /\ lock \in Task \union Sock \union {None}
  /\ readerTask \in Sock \union {None}
  /\ keepaliveTask \in Sock \union {None}
  /\ rd \in [Sock -> ReaderTask]
  /\ ka \in SUBSET Sock
  /\ kaWriter \in Sock \union {None}
  /\ intentional \in BOOLEAN
  /\ call \in [Task -> Call]
  /\ cancel \in SUBSET Task
  /\ running \in Task \union Sock \union {None}

ClientInit ==
  /\ sock = [s \in Sock |-> "free"]
  /\ reader = None /\ writer = None
  /\ lock = None
  /\ readerTask = None /\ keepaliveTask = None
  /\ rd = [s \in Sock |-> NoReaderTask]
  /\ ka = {} /\ kaWriter = None
  /\ intentional = FALSE
  /\ call = [t \in Task |-> Idle]
  /\ cancel = {}
  /\ running = None

-------------------------------------------------------------------------------

(* is_connected: a half-closed transport still counts as connected. *)
IsConnected == writer # None /\ sock[writer] \in {"open", "eof"}

HasLoop(x) == running \in {None, x}

(* Task t goes on to `at'; it gives the loop up exactly at an await. *)
Goto(t, at) ==
  /\ call' = [call EXCEPT ![t].at = at]
  /\ running' = IF at \in Suspended THEN None ELSE t

(* Task t resumes from the await it is suspended at, no cancellation having *)
(* been asked for.                                                          *)
Resumes(t, at) == running = None /\ call[t].at = at /\ t \notin cancel

ReaderAlive(s) == rd[s].at \notin {"none", "done", "failed"}

(* Two readers of one stream: asyncio allows one to wait for data, and     *)
(* raises RuntimeError in the other when it comes to wait, which is the    *)
(* one that starts last or, when a line arrives meanwhile, the first.      *)
Contended(s) ==
  \E r \in Sock \ {s} : rd[r].at = "reading" /\ rd[r].src = rd[s].src

(* A StreamWriter that neither the client nor a drain() refers to any more. *)
Forgotten(s) ==
  /\ sock[s] \in {"open", "eof"} /\ s \notin {writer, kaWriter}
  /\ \A t \in Task : call[t].w = s => call[t].at \notin {"drain", "drained"}

(* A reader task just created or cancelled, which has not run since. *)
ReaderAroused(s) == rd[s].at = "new" \/ (ReaderAlive(s) /\ rd[s].cancelled)

(* A reader task whose await has come to an end. *)
ReaderReady(s) ==
  \/ rd[s].at = "reading" /\ (sock[rd[s].src] \in {"eof", "lost"} \/ Contended(s))
  \/ rd[s].at = "closing" /\ (rd[s].w # None => sock[rd[s].w] = "lost")

ReaderRunnable(s) == ReaderAroused(s) \/ ReaderReady(s)

(* What is ready runs in this pass of the event loop or the next, while a  *)
(* TCP handshake takes several.  Only a reader aroused in the very pass in *)
(* which the handshake ends, by another one that ended or by an unload,    *)
(* and the unload that waits for it, may have to wait until after it; what *)
(* the network has made ready might as well have become so later.          *)
NothingReady ==
  /\ \A s \in Sock : ~ReaderReady(s) /\ ~Forgotten(s)
  /\ \A t \in Task : /\ call[t].at \notin {"kastop", "drained", "d_kastop"}
                     /\ call[t].at = "drain" => sock[call[t].w] # "lost"
  /\ kaWriter # None => sock[kaWriter] # "lost"
  /\ lock = None => \A t \in Task : call[t].at # "lock"

(* A socket no variable of the program refers to any more. *)
Free(s) ==
  /\ sock[s] \in {"free", "lost"}
  /\ s \notin {reader, writer, readerTask, keepaliveTask, kaWriter}
  /\ s \notin ka /\ ~ReaderAlive(s)
  /\ \A r \in Sock : ReaderAlive(r) => s \notin {rd[r].src, rd[r].w}
  /\ \A t \in Task : s \notin {call[t].s, call[t].w}

-------------------------------------------------------------------------------
(* The network. *)

PeerCloses(s) ==
  /\ running = None
  /\ sock[s] = "open"
  /\ sock' = [sock EXCEPT ![s] = "eof"]
  /\ UNCHANGED <<reader, writer, lock, readerVars, keepaliveVars, callVars>>

ConnectionReset(s) ==
  /\ running = None
  /\ sock[s] \in {"open", "eof"}
  /\ sock' = [sock EXCEPT ![s] = "lost"]
  /\ UNCHANGED <<reader, writer, lock, readerVars, keepaliveVars, callVars>>

ConnectionLost(s) ==
  /\ running = None
  /\ sock[s] = "closing"
  /\ sock' = [sock EXCEPT ![s] = "lost"]
  /\ UNCHANGED <<reader, writer, lock, readerVars, keepaliveVars, callVars>>

(* A StreamWriter that is forgotten closes its transport (__del__). *)
WriterDropped(s) ==
  /\ running = None
  /\ Forgotten(s)
  /\ sock' = [sock EXCEPT ![s] = "closing"]
  /\ UNCHANGED <<reader, writer, lock, readerVars, keepaliveVars, callVars>>

-------------------------------------------------------------------------------
(* async_connect *)

(* _cancel_keepalive: the task ends wherever it is, and lets the lock go. *)
CancelKeepalive ==
  /\ keepaliveTask' = None
  /\ ka' = ka \ {keepaliveTask}
  /\ IF keepaliveTask # None /\ lock = keepaliveTask
     THEN lock' = None /\ kaWriter' = None
     ELSE UNCHANGED <<lock, kaWriter>>

(* Mutant of Connect: the keepalive of the last connection is left alone. *)
ConnectBesideKeepalive(t) ==
  /\ HasLoop(t)
  /\ call[t] = Idle
  /\ call' = [call EXCEPT ![t] = [Idle EXCEPT !.op = "connect",
                !.at = IF IsConnected THEN "ok" ELSE "opening"]]
  /\ running' = IF IsConnected THEN t ELSE None
  /\ UNCHANGED <<streamVars, lock, readerVars, keepaliveVars, cancel>>

Connect(t) ==
  /\ HasLoop(t)
  /\ call[t] = Idle
  /\ IF IsConnected
     THEN /\ call' = [call EXCEPT ![t] = [Idle EXCEPT !.op = "connect", !.at = "ok"]]
          /\ running' = t
          /\ UNCHANGED <<lock, keepaliveVars>>
     ELSE /\ CancelKeepalive
          /\ call' = [call EXCEPT ![t] = [Idle EXCEPT !.op = "connect",
                        !.at = IF keepaliveTask \in ka THEN "kastop" ELSE "opening"]]
          /\ running' = None
  /\ UNCHANGED <<streamVars, readerVars, cancel>>

(* _cancel_keepalive catches CancelledError: the one of the keepalive task  *)
(* it awaits, and just as well one that was meant for t itself.             *)
KeepaliveStopped(t) ==
  /\ running = None
  /\ call[t].at = "kastop"
  /\ Goto(t, "opening")
  /\ cancel' = cancel \ {t}
  /\ UNCHANGED <<streamVars, lock, readerVars, keepaliveVars>>

OpenConnection(t) ==
  /\ Resumes(t, "opening") /\ NothingReady
  /\ \E s \in Sock :
       /\ Free(s)
       /\ sock' = [sock EXCEPT ![s] = "open"]
       /\ reader' = s
       /\ writer' = s
       /\ call' = [call EXCEPT ![t].at = "send", ![t].s = s]
       /\ running' = t
       /\ rd' = [rd EXCEPT ![s] = NoReaderTask]
  /\ UNCHANGED <<lock, readerTask, intentional, keepaliveVars, cancel>>

OpenFails(t) ==
  /\ Resumes(t, "opening") /\ NothingReady
  /\ Goto(t, "error")
  /\ UNCHANGED <<streamVars, lock, readerVars, keepaliveVars, cancel>>

-------------------------------------------------------------------------------
(* async_send, called by a task or by async_connect for the initvdc message *)

Send(t) ==
  /\ HasLoop(t)
  /\ call[t] = Idle
  /\ call' = [call EXCEPT ![t] = [Idle EXCEPT !.op = "send", !.at = "send"]]
  /\ running' = t
  /\ UNCHANGED <<streamVars, lock, readerVars, keepaliveVars, cancel>>

(* The line is out: async_send returns, and async_connect, if it was the   *)
(* caller, starts the reader and the keepalive of the socket it opened.    *)
Sent(t) ==
  IF call[t].op = "connect"
  THEN /\ readerTask' = call[t].s
       /\ rd' = [rd EXCEPT ![call[t].s] = [NoReaderTask EXCEPT !.at = "new"]]
       /\ keepaliveTask' = call[t].s
       /\ ka' = ka \union {call[t].s}
       /\ UNCHANGED <<intentional, kaWriter>>
  ELSE UNCHANGED <<readerVars, keepaliveVars>>

(* The body of async_send, the lock being free: the line is written and    *)
(* drain() returns at once or waits for the transport to take it.  It never *)
(* waits for initvdc, the first line of a fresh transport's empty buffer.  *)
Write(t) ==
  \/ /\ ~IsConnected
     /\ Goto(t, "error")
     /\ UNCHANGED <<lock, readerVars, keepaliveVars>>
  \/ /\ IsConnected
     /\ call' = [call EXCEPT ![t].at = "ok", ![t].w = writer]
     /\ running' = t
     /\ Sent(t)
     /\ UNCHANGED lock
  \/ /\ Backpressure
     /\ IsConnected /\ call[t].op = "send"
     /\ call' = [call EXCEPT ![t].at = "drain", ![t].w = writer]
     /\ running' = None
     /\ lock' = t
     /\ UNCHANGED <<readerVars, keepaliveVars>>

Acquire(t) ==
  /\ running = t
  /\ call[t].at = "send"
  /\ IF lock = None /\ \A u \in Task : call[u].at # "lock"
     THEN Write(t)
     ELSE Goto(t, "lock") /\ UNCHANGED <<lock, readerVars, keepaliveVars>>
  /\ UNCHANGED <<streamVars, cancel>>

LockGranted(t) ==
  /\ Resumes(t, "lock")
  /\ lock = None
  /\ Write(t)
  /\ UNCHANGED <<streamVars, cancel>>

(* The buffer was flushed, or the transport closed without an error. *)
Drained(t) ==
  /\ running = None
  /\ call[t].at = "drain"
  /\ Goto(t, "drained")
  /\ UNCHANGED <<streamVars, lock, readerVars, keepaliveVars, cancel>>

DrainReturns(t) ==
  /\ Resumes(t, "drained")
  /\ lock' = None
  /\ Goto(t, "ok")
  /\ UNCHANGED <<streamVars, readerVars, keepaliveVars, cancel>>

(* Mutant of DrainFails: the lock is not released on an error. *)
DrainFailsHolding(t) ==
  /\ Resumes(t, "drain")
  /\ sock[call[t].w] = "lost"
  /\ Goto(t, "error")
  /\ UNCHANGED <<streamVars, lock, readerVars, keepaliveVars, cancel>>

DrainFails(t) ==
  /\ Resumes(t, "drain")
  /\ sock[call[t].w] = "lost"
  /\ lock' = None
  /\ Goto(t, "error")
  /\ UNCHANGED <<streamVars, readerVars, keepaliveVars, cancel>>

(* Anywhere else CancelledError leaves the method and frees what it holds.  *)
Cancelled(t) ==
  /\ running = None
  /\ t \in cancel
  /\ call[t].at \in {"opening", "lock", "drain", "drained"}
  /\ lock' = IF lock = t THEN None ELSE lock
  /\ Goto(t, "cancelled")
  /\ cancel' = cancel \ {t}
  /\ UNCHANGED <<streamVars, readerVars, keepaliveVars>>

-------------------------------------------------------------------------------
(* _async_reader_loop *)

ReaderStarts(s) ==
  /\ running = None
  /\ rd[s].at = "new"
  /\ IF rd[s].cancelled
     THEN /\ rd' = [rd EXCEPT ![s] = Ended]
          /\ UNCHANGED intentional
     ELSE /\ intentional' = FALSE
          /\ rd' = [rd EXCEPT ![s].at = IF reader = None THEN "failed" ELSE "reading",
                              ![s].src = reader]
  /\ UNCHANGED <<streamVars, lock, readerTask, keepaliveVars, callVars>>

(* The finally block up to `await writer.wait_closed()': it closes the     *)
(* writer the client has now, whichever connection that belongs to.        *)
LeaveReading(s) ==
  /\ running = None
  /\ rd[s].at \in {"reading", "handling"}
  /\ rd' = [rd EXCEPT ![s].at = "closing", ![s].w = writer, ![s].cancelled = FALSE]
  /\ reader' = None
  /\ sock' = IF IsConnected THEN [sock EXCEPT ![writer] = "closing"] ELSE sock
  /\ running' = IF writer = None THEN s
                ELSE IF sock[writer] = "lost" THEN s ELSE None
  /\ UNCHANGED <<writer, lock, readerTask, intentional, keepaliveVars, call, cancel>>

ReaderSeesEnd(s) ==
  /\ \/ rd[s].cancelled
     \/ rd[s].at = "reading" /\ (sock[rd[s].src] \in {"eof", "lost"} \/ Contended(s))
  /\ LeaveReading(s)

HandlerWaits(s) ==
  /\ running = None
  /\ rd[s].at = "reading" /\ ~rd[s].cancelled
  /\ sock[rd[s].src] = "open"
  /\ rd' = [rd EXCEPT ![s].at = "handling"]
  /\ UNCHANGED <<streamVars, lock, readerTask, intentional, keepaliveVars, callVars>>

HandlerReturns(s) ==
  /\ running = None
  /\ rd[s].at = "handling" /\ ~rd[s].cancelled
  /\ rd' = [rd EXCEPT ![s].at = "reading"]
  /\ UNCHANGED <<streamVars, lock, readerTask, intentional, keepaliveVars, callVars>>

(* An exception of the incoming-message callback ends the loop too. *)
HandlerRaises(s) ==
  /\ ~rd[s].cancelled
  /\ rd[s].at = "reading" => sock[rd[s].src] = "open"
  /\ LeaveReading(s)

(* The rest of the finally block: the disconnect callback is next, unless   *)
(* the disconnect is one the client was asked for.                          *)
ReaderFinishes(s) ==
  /\ HasLoop(s)
  /\ rd[s].at = "closing" /\ ~rd[s].cancelled
  /\ rd[s].w # None => sock[rd[s].w] = "lost"
  /\ writer' = None
  /\ rd' = [rd EXCEPT ![s] = IF intentional THEN Ended ELSE [Ended EXCEPT !.at = "callback"]]
  /\ running' = IF intentional THEN None ELSE s
  /\ UNCHANGED <<sock, reader, lock, readerTask, intentional, keepaliveVars,
                 call, cancel>>

(* A cancellation that meets the finally block skips the rest of it. *)
ReaderFinallyCancelled(s) ==
  /\ running = None
  /\ rd[s].at = "closing" /\ rd[s].cancelled
  /\ rd' = [rd EXCEPT ![s] = Ended]
  /\ UNCHANGED <<streamVars, lock, readerTask, intentional, keepaliveVars, callVars>>

(* The disconnect callback has run; `next' has the loop now. *)
ReaderReports(s, next) ==
  /\ running = s
  /\ rd[s].at = "callback"
  /\ rd' = [rd EXCEPT ![s] = Ended]
  /\ running' = next
  /\ UNCHANGED <<streamVars, lock, readerTask, intentional, keepaliveVars,
                 call, cancel>>

(* Mutant of KeepaliveEnds: the keepalive is sent once, not in a loop. *)
KeepaliveEndsAfterOne(s) ==
  /\ running = None
  /\ s \in ka
  /\ ka' = ka \ {s}
  /\ UNCHANGED <<streamVars, lock, readerVars, keepaliveTask, kaWriter, callVars>>

(* _async_keepalive_loop wakes up and finds the client disconnected. *)
KeepaliveEnds(s) ==
  /\ running = None
  /\ s \in ka /\ lock # s
  /\ ~IsConnected
  /\ ka' = ka \ {s}
  /\ UNCHANGED <<streamVars, lock, readerVars, keepaliveTask, kaWriter, callVars>>

(* It finds the client connected, and its message waits for drain(); one   *)
(* that does not have to wait changes nothing.                             *)
KeepaliveWaits(s) ==
  /\ Backpressure
  /\ running = None
  /\ s \in ka /\ lock = None
  /\ IsConnected
  /\ lock' = s
  /\ kaWriter' = writer
  /\ UNCHANGED <<streamVars, readerVars, keepaliveTask, ka, callVars>>

(* drain() returns, or raises the error the transport was lost with.       *)
KeepaliveResumes(s) ==
  /\ running = None
  /\ lock = s
  /\ lock' = None
  /\ kaWriter' = None
  /\ \/ UNCHANGED ka
     \/ sock[kaWriter] = "lost" /\ ka' = ka \ {s}
  /\ UNCHANGED <<streamVars, readerVars, keepaliveTask, callVars>>

-------------------------------------------------------------------------------
(* async_disconnect *)

Disconnect(t) ==
  /\ HasLoop(t)
  /\ call[t] = Idle
  /\ intentional' = TRUE
  /\ LET begun(at) == [Idle EXCEPT !.op = "disconnect", !.at = at, !.s = readerTask]
         awaits == readerTask # None /\ ReaderAlive(readerTask)
         raises == readerTask # None /\ rd[readerTask].at = "failed"
     IN \/ /\ awaits
           /\ rd' = [rd EXCEPT ![readerTask].cancelled = TRUE]
           /\ call' = [call EXCEPT ![t] = begun("d_reader")]
           /\ running' = None
           /\ UNCHANGED readerTask
        \/ /\ raises
           /\ call' = [call EXCEPT ![t] = begun("error")]
           /\ running' = t
           /\ UNCHANGED <<rd, readerTask>>
        \/ /\ ~awaits /\ ~raises
           /\ readerTask' = None
           /\ call' = [call EXCEPT ![t] = begun("d_keepalive")]
           /\ running' = t
           /\ UNCHANGED rd
  /\ UNCHANGED <<streamVars, lock, keepaliveVars, cancel>>

ReaderStopped(t) ==
  /\ Resumes(t, "d_reader")
  /\ ~ReaderAlive(call[t].s)
  /\ readerTask' = None
  /\ Goto(t, "d_keepalive")
  /\ UNCHANGED <<streamVars, lock, rd, intentional, keepaliveVars, cancel>>

StopKeepalive(t) ==
  /\ running = t
  /\ call[t].at = "d_keepalive"
  /\ CancelKeepalive
  /\ Goto(t, IF keepaliveTask \in ka THEN "d_kastop" ELSE "d_close")
  /\ UNCHANGED <<streamVars, readerVars, cancel>>

ClearConnection(t) ==
  /\ reader' = None
  /\ writer' = None
  /\ intentional' = FALSE
  /\ Goto(t, "ok")

CloseWriter(t) ==
  /\ \/ running = t /\ call[t].at = "d_close"
     \/ Resumes(t, "d_kastop")
  /\ \/ /\ IsConnected
        /\ sock' = [sock EXCEPT ![writer] = "closing"]
        /\ call' = [call EXCEPT ![t].at = "d_wait", ![t].s = writer]
        /\ running' = None
        /\ UNCHANGED <<reader, writer, intentional>>
     \/ /\ ~IsConnected
        /\ ClearConnection(t)
        /\ UNCHANGED sock
  /\ UNCHANGED <<lock, rd, readerTask, keepaliveVars, cancel>>

WriterClosed(t) ==
  /\ Resumes(t, "d_wait")
  /\ sock[call[t].s] = "lost"
  /\ ClearConnection(t)
  /\ UNCHANGED <<sock, lock, rd, readerTask, keepaliveVars, cancel>>

(* wait_closed() hands on the error the transport was lost with. *)
WriterCloseFails(t) ==
  /\ Resumes(t, "d_wait")
  /\ sock[call[t].s] = "lost"
  /\ Goto(t, "error")
  /\ UNCHANGED <<streamVars, lock, readerVars, keepaliveVars, cancel>>

-------------------------------------------------------------------------------

(* What the client does of its own accord once a method was called. *)
CallStep(t) ==
  \/ KeepaliveStopped(t)
  \/ Acquire(t) \/ LockGranted(t)
  \/ Drained(t) \/ DrainReturns(t) \/ DrainFails(t)
  \/ Cancelled(t)
  \/ ReaderStopped(t) \/ StopKeepalive(t) \/ CloseWriter(t)
  \/ WriterClosed(t) \/ WriterCloseFails(t)

ReaderStep(s) ==
  \/ ReaderStarts(s) \/ HandlerReturns(s) \/ ReaderSeesEnd(s)
  \/ ReaderFinishes(s) \/ ReaderFinallyCancelled(s)
  \/ KeepaliveEnds(s)

(* The write lock is with a task or a keepalive that waits for drain(): no *)
(* failure and no cancellation inside async_send leaves it behind and      *)
(* blocks all senders.                                                     *)
LockHeld ==
  /\ lock \in Task => call[lock].at \in {"drain", "drained"}
  /\ lock \in Sock => lock \in ka /\ kaWriter # None
===============================================================================
