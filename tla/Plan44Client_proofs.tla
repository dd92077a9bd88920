------------------------- MODULE Plan44Client_proofs -------------------------
(***************************************************************************)
(* The invariant of the TCP client, for any number of tasks and sockets:   *)
(* its type, and who can hold the write lock.  One lemma for each action;  *)
(* Plan44Coordinator_proofs puts them together for the whole program.      *)
(***************************************************************************)
EXTENDS Plan44Client, TLAPS

(* The task that has the event loop is not suspended. *)
Working == \A t \in Task : running = t => call[t].at \notin Suspended

(* A connect that has its connection knows which socket it opened. *)
Opened ==
  \A t \in Task :
    call[t].op = "connect" /\ call[t].at \in {"send", "lock"} => call[t].s # None

ClientInv == ClientTypeOK /\ LockHeld /\ Working /\ Opened

(* What LockHeld says of a keepalive that holds the write lock. *)
KeepaliveHolds == lock \in Sock => lock \in ka /\ kaWriter # None

-------------------------------------------------------------------------------
LEMMA KeepaliveStillHolds ==
  ASSUME ClientInv, UNCHANGED keepaliveVars, lock' \in Task \union {None, lock}
  PROVE  KeepaliveHolds'
BY TaskSockAssumption DEF ClientInv, LockHeld, KeepaliveHolds, keepaliveVars

(* A task moves to another place in a client call, and takes or frees the  *)
(* write lock accordingly: what the invariant says of calls still holds.   *)
LEMMA CallMoves ==
  ASSUME ClientInv, NEW t \in Task, NEW c \in Call,
         call' = [call EXCEPT ![t] = c],
         running \in {None, t}, running' \in {None, t},
         running' = t => c.at \notin Suspended,
         c.op = "connect" /\ c.at \in {"send", "lock"} => c.s # None,
         lock' \in {None, t, lock},
         lock' = t => c.at \in {"drain", "drained"},
         KeepaliveHolds'
  PROVE  /\ call' \in [Task -> Call] /\ lock' \in Task \union Sock \union {None}
         /\ running' \in Task \union Sock \union {None}
         /\ LockHeld' /\ Working' /\ Opened'
BY TaskSockAssumption
DEF ClientInv, ClientTypeOK, LockHeld, KeepaliveHolds, Working, Opened

(* A keepalive is cancelled: whoever has the write lock now had it before,  *)
(* and a keepalive that has it goes on.                                     *)
LEMMA CancelKeepaliveKeeps ==
  ASSUME ClientInv, CancelKeepalive
  PROVE  /\ keepaliveTask' \in Sock \union {None} /\ ka' \in SUBSET Sock
         /\ kaWriter' \in Sock \union {None} /\ lock' \in {None, lock}
         /\ KeepaliveHolds'
BY TaskSockAssumption
DEF ClientInv, ClientTypeOK, LockHeld, CancelKeepalive, KeepaliveHolds

LEMMA ConnectKeeps ==
  ASSUME ClientInv, NEW t \in Task, Connect(t) PROVE ClientInv'
<1>1. PICK at \in {"ok", "kastop", "opening"} :
        /\ call' = [call EXCEPT ![t] = [Idle EXCEPT !.op = "connect", !.at = at]]
        /\ running' = IF at = "ok" THEN t ELSE None
  BY DEF Connect
<1> DEFINE c == [Idle EXCEPT !.op = "connect", !.at = at]
<1>2. c \in Call /\ c.at = at
  BY DEF Call, Idle, Suspended, Result
<1>4. /\ keepaliveTask' \in Sock \union {None} /\ ka' \in SUBSET Sock
      /\ kaWriter' \in Sock \union {None} /\ lock' \in {None, lock}
      /\ KeepaliveHolds'
  <2>1. CASE CancelKeepalive
    BY <2>1, CancelKeepaliveKeeps
  <2>2. CASE UNCHANGED <<lock, keepaliveVars>>
    BY <2>2, KeepaliveStillHolds DEF ClientInv, ClientTypeOK, keepaliveVars
  <2> QED
    BY <2>1, <2>2 DEF Connect
<1>3. /\ call' \in [Task -> Call] /\ running' \in Task \union Sock \union {None}
      /\ lock' \in Task \union Sock \union {None}
      /\ LockHeld' /\ Working' /\ Opened'
  <2>1. running \in {None, t} /\ call[t] = Idle
    BY DEF Connect, HasLoop
  <2>2. lock # t
    BY <2>1, TaskSockAssumption DEF ClientInv, LockHeld, Idle
  <2>3. running' = t => at \notin Suspended
    BY <1>1, TaskSockAssumption DEF Suspended
  <2> QED
    BY <1>1, <1>2, <1>4, <2>1, <2>2, <2>3, CallMoves, TaskSockAssumption
<1> QED
  BY <1>3, <1>4
  DEF Connect, ClientInv, ClientTypeOK, streamVars, readerVars

LEMMA KeepaliveStoppedKeeps ==
  ASSUME ClientInv, NEW t \in Task, KeepaliveStopped(t) PROVE ClientInv'
BY TaskSockAssumption
DEF ClientInv, ClientTypeOK, LockHeld, Working, Opened, KeepaliveStopped,
    Goto, streamVars, readerVars, keepaliveVars, Call, Suspended, Result

LEMMA OpenConnectionKeeps ==
  ASSUME ClientInv, NEW t \in Task, OpenConnection(t) PROVE ClientInv'
<1>1. PICK s \in Sock :
        /\ sock' = [sock EXCEPT ![s] = "open"]
        /\ reader' = s /\ writer' = s
        /\ call' = [call EXCEPT ![t].at = "send", ![t].s = s]
        /\ rd' = [rd EXCEPT ![s] = NoReaderTask]
  BY DEF OpenConnection
<1> DEFINE c == [call[t] EXCEPT !.at = "send", !.s = s]
<1>2. c \in Call /\ c.at = "send" /\ c.s = s
  BY DEF ClientInv, ClientTypeOK, Call, Suspended, Result
<1>3. call' = [call EXCEPT ![t] = c]
  BY <1>1 DEF ClientInv, ClientTypeOK
<1>4. /\ call' \in [Task -> Call] /\ running' \in Task \union Sock \union {None}
      /\ LockHeld' /\ Working' /\ Opened'
  <2>1. lock' = lock /\ running = None /\ running' = t /\ call[t].at = "opening"
    BY DEF OpenConnection, Resumes
  <2>2. lock # t
    BY <2>1, TaskSockAssumption DEF ClientInv, LockHeld
  <2>3. s # None /\ c.at \notin Suspended
    BY <1>2, TaskSockAssumption DEF Suspended
  <2>4. KeepaliveHolds'
    BY KeepaliveStillHolds DEF OpenConnection
  <2> QED
    BY <1>2, <1>3, <2>1, <2>2, <2>3, <2>4, CallMoves
<1>5. rd' \in [Sock -> ReaderTask] /\ sock' \in [Sock -> Transport]
  BY <1>1 DEF ClientInv, ClientTypeOK, ReaderTask, NoReaderTask, Transport
<1> QED
  BY <1>1, <1>4, <1>5
  DEF OpenConnection, ClientInv, ClientTypeOK, keepaliveVars

LEMMA OpenFailsKeeps ==
  ASSUME ClientInv, NEW t \in Task, OpenFails(t) PROVE ClientInv'
BY TaskSockAssumption
DEF ClientInv, ClientTypeOK, LockHeld, Working, Opened, OpenFails, Goto,
    Resumes, streamVars, readerVars, keepaliveVars, Call, Suspended, Result

LEMMA SendKeeps ==
  ASSUME ClientInv, NEW t \in Task, Send(t) PROVE ClientInv'
<1> DEFINE c == [Idle EXCEPT !.op = "send", !.at = "send"]
<1>1. c \in Call /\ c.at = "send" /\ c.op = "send" /\ c.at \notin Suspended
  BY DEF Call, Idle, Suspended, Result
<1>2. /\ call' = [call EXCEPT ![t] = c] /\ lock' = lock
      /\ running \in {None, t} /\ running' = t /\ call[t] = Idle
  BY DEF Send, HasLoop
<1>3. lock # t
  BY <1>2, TaskSockAssumption DEF ClientInv, LockHeld, Idle
<1>4. /\ call' \in [Task -> Call] /\ running' \in Task \union Sock \union {None}
      /\ LockHeld' /\ Working' /\ Opened'
  <2>1. KeepaliveHolds'
    BY KeepaliveStillHolds DEF Send
  <2> QED
    BY <1>1, <1>2, <1>3, <2>1, CallMoves
<1> QED
  BY <1>4
  DEF Send, ClientInv, ClientTypeOK, streamVars, readerVars, keepaliveVars

(* The critical part of async_send, entered with or without a wait. *)
LEMMA WriteKeeps ==
  ASSUME ClientInv, NEW t \in Task, Write(t), call[t].at \in {"send", "lock"},
         running \in {None, t}, UNCHANGED <<streamVars, cancel>>
  PROVE  ClientInv'
<1>1. lock # t /\ call[t] \in Call
  BY TaskSockAssumption DEF ClientInv, ClientTypeOK, LockHeld
<1>2. CASE ~IsConnected /\ Goto(t, "error") /\ UNCHANGED <<lock, readerVars, keepaliveVars>>
  <2> DEFINE c == [call[t] EXCEPT !.at = "error"]
  <2>1. c \in Call /\ c.at = "error" /\ "error" \notin Suspended
    BY <1>1 DEF Call, Suspended, Result
  <2>2. call' = [call EXCEPT ![t] = c] /\ running' = t
    BY <1>2, <2>1 DEF Goto, ClientInv, ClientTypeOK
  <2>3. /\ call' \in [Task -> Call] /\ running' \in Task \union Sock \union {None}
        /\ LockHeld' /\ Working' /\ Opened'
    BY <1>1, <1>2, <2>1, <2>2, CallMoves, KeepaliveStillHolds
  <2> QED
    BY <1>2, <2>3
    DEF ClientInv, ClientTypeOK, streamVars, readerVars, keepaliveVars
<1>3. CASE /\ IsConnected
           /\ call' = [call EXCEPT ![t].at = "ok", ![t].w = writer]
           /\ running' = t /\ Sent(t) /\ UNCHANGED lock
  <2> DEFINE c == [call[t] EXCEPT !.at = "ok", !.w = writer]
  <2>1. c \in Call /\ c.at = "ok" /\ "ok" \notin Suspended
    BY <1>1 DEF ClientInv, ClientTypeOK, Call, Suspended, Result
  <2>2. call' = [call EXCEPT ![t] = c]
    BY <1>3 DEF ClientInv, ClientTypeOK
  <2>3. /\ call' \in [Task -> Call] /\ running' \in Task \union Sock \union {None}
        /\ LockHeld' /\ Working' /\ Opened'
    <3>1. kaWriter' = kaWriter /\ ka \subseteq ka'
      BY <1>3 DEF Sent, keepaliveVars
    <3>2. KeepaliveHolds'
      BY <1>3, <3>1 DEF ClientInv, LockHeld, KeepaliveHolds
    <3> QED
      BY <1>1, <1>3, <2>1, <2>2, <3>2, CallMoves
  <2>4. call[t].op = "connect" => call[t].s \in Sock
    BY <1>1 DEF ClientInv, Opened, Call
  <2>5. /\ readerTask' \in Sock \union {None} /\ rd' \in [Sock -> ReaderTask]
        /\ keepaliveTask' \in Sock \union {None} /\ ka' \in SUBSET Sock
        /\ kaWriter' = kaWriter
        /\ intentional' \in BOOLEAN
    <3>1. CASE call[t].op = "connect"
      <4> DEFINE r == [NoReaderTask EXCEPT !.at = "new"]
      <4>1. r \in ReaderTask
        BY DEF ReaderTask, NoReaderTask
      <4> QED
        BY <1>3, <2>4, <3>1, <4>1 DEF Sent, ClientInv, ClientTypeOK
    <3>2. CASE call[t].op # "connect"
      BY <1>3, <3>2 DEF Sent, ClientInv, ClientTypeOK, readerVars, keepaliveVars
    <3> QED
      BY <3>1, <3>2
  <2> QED
    BY <1>3, <2>3, <2>5 DEF ClientInv, ClientTypeOK, streamVars
<1>4. CASE /\ IsConnected /\ call[t].op = "send"
           /\ call' = [call EXCEPT ![t].at = "drain", ![t].w = writer]
           /\ running' = None /\ lock' = t
           /\ UNCHANGED <<readerVars, keepaliveVars>>
  <2> DEFINE c == [call[t] EXCEPT !.at = "drain", !.w = writer]
  <2>1. c \in Call /\ c.at = "drain"
    BY <1>1 DEF ClientInv, ClientTypeOK, Call, Suspended, Result
  <2>2. call' = [call EXCEPT ![t] = c]
    BY <1>4 DEF ClientInv, ClientTypeOK
  <2>3. /\ call' \in [Task -> Call] /\ running' \in Task \union Sock \union {None}
        /\ lock' \in Task \union Sock \union {None}
        /\ LockHeld' /\ Working' /\ Opened'
    BY <1>1, <1>4, <2>1, <2>2, CallMoves, KeepaliveStillHolds, TaskSockAssumption
  <2> QED
    BY <1>4, <2>3
    DEF ClientInv, ClientTypeOK, streamVars, readerVars, keepaliveVars
<1> QED
  BY <1>2, <1>3, <1>4 DEF Write

LEMMA AcquireKeeps ==
  ASSUME ClientInv, NEW t \in Task, Acquire(t) PROVE ClientInv'
<1>1. CASE Write(t)
  BY <1>1, WriteKeeps DEF Acquire
<1>2. CASE Goto(t, "lock") /\ UNCHANGED <<lock, readerVars, keepaliveVars>>
  BY <1>2, TaskSockAssumption
  DEF Acquire, Goto, ClientInv, ClientTypeOK, LockHeld, Working, Opened, Call,
      Suspended, Result, streamVars, readerVars, keepaliveVars
<1> QED
  BY <1>1, <1>2 DEF Acquire

LEMMA LockGrantedKeeps ==
  ASSUME ClientInv, NEW t \in Task, LockGranted(t) PROVE ClientInv'
BY WriteKeeps DEF LockGranted, Resumes

LEMMA DrainedKeeps ==
  ASSUME ClientInv, NEW t \in Task, Drained(t) PROVE ClientInv'
BY TaskSockAssumption
DEF ClientInv, ClientTypeOK, LockHeld, Working, Opened, Drained, Goto,
    streamVars, readerVars, keepaliveVars, Call, Suspended, Result

LEMMA DrainReturnsKeeps ==
  ASSUME ClientInv, NEW t \in Task, DrainReturns(t) PROVE ClientInv'
BY TaskSockAssumption
DEF ClientInv, ClientTypeOK, LockHeld, Working, Opened, DrainReturns, Goto,
    Resumes, streamVars, readerVars, keepaliveVars, Call, Suspended, Result

LEMMA DrainFailsKeeps ==
  ASSUME ClientInv, NEW t \in Task, DrainFails(t) PROVE ClientInv'
BY TaskSockAssumption
DEF ClientInv, ClientTypeOK, LockHeld, Working, Opened, DrainFails, Goto,
    Resumes, streamVars, readerVars, keepaliveVars, Call, Suspended, Result

LEMMA CancelledKeeps ==
  ASSUME ClientInv, NEW t \in Task, Cancelled(t) PROVE ClientInv'
BY TaskSockAssumption
DEF ClientInv, ClientTypeOK, LockHeld, Working, Opened, Cancelled, Goto,
    streamVars, readerVars, keepaliveVars, Call, Suspended, Result

LEMMA DisconnectKeeps ==
  ASSUME ClientInv, NEW t \in Task, Disconnect(t) PROVE ClientInv'
<1>1. PICK at \in {"d_reader", "error", "d_keepalive"} :
        /\ call' = [call EXCEPT ![t] =
                      [Idle EXCEPT !.op = "disconnect", !.at = at, !.s = readerTask]]
        /\ running' = IF at = "d_reader" THEN None ELSE t
  BY DEF Disconnect
<1> DEFINE c == [Idle EXCEPT !.op = "disconnect", !.at = at, !.s = readerTask]
<1>2. c \in Call /\ c.at = at /\ c.op = "disconnect"
  BY DEF ClientInv, ClientTypeOK, Call, Idle, Suspended, Result
<1>3. /\ call' \in [Task -> Call] /\ running' \in Task \union Sock \union {None}
      /\ LockHeld' /\ Working' /\ Opened'
  <2>1. lock' = lock /\ running \in {None, t} /\ call[t] = Idle
    BY DEF Disconnect, HasLoop
  <2>2. lock # t
    BY <2>1, TaskSockAssumption DEF ClientInv, LockHeld, Idle
  <2>3. running' = t => at \notin Suspended
    BY <1>1, TaskSockAssumption DEF Suspended
  <2>4. KeepaliveHolds'
    BY KeepaliveStillHolds DEF Disconnect
  <2> QED
    BY <1>1, <1>2, <2>1, <2>2, <2>3, <2>4, CallMoves
<1>4. /\ rd' \in [Sock -> ReaderTask] /\ readerTask' \in Sock \union {None}
      /\ intentional' \in BOOLEAN
  <2>1. CASE UNCHANGED rd
    BY <2>1 DEF Disconnect, ClientInv, ClientTypeOK
  <2>2. CASE rd' # rd
    <3>1. /\ readerTask \in Sock /\ rd' = [rd EXCEPT ![readerTask].cancelled = TRUE]
          /\ UNCHANGED readerTask /\ intentional' = TRUE
      BY <2>2 DEF Disconnect, ClientInv, ClientTypeOK
    <3> QED
      BY <3>1 DEF ClientInv, ClientTypeOK, ReaderTask
  <2> QED
    BY <2>1, <2>2
<1> QED
  BY <1>3, <1>4
  DEF Disconnect, ClientInv, ClientTypeOK, streamVars, keepaliveVars

LEMMA ReaderStoppedKeeps ==
  ASSUME ClientInv, NEW t \in Task, ReaderStopped(t) PROVE ClientInv'
BY TaskSockAssumption
DEF ClientInv, ClientTypeOK, LockHeld, Working, Opened, ReaderStopped, Goto,
    Resumes, streamVars, keepaliveVars, Call, Suspended, Result

LEMMA StopKeepaliveKeeps ==
  ASSUME ClientInv, NEW t \in Task, StopKeepalive(t) PROVE ClientInv'
<1> DEFINE at == IF keepaliveTask \in ka THEN "d_kastop" ELSE "d_close"
           c == [call[t] EXCEPT !.at = at]
<1>1. /\ call[t].at = "d_keepalive" /\ call[t] \in Call /\ running = t
      /\ CancelKeepalive /\ UNCHANGED <<streamVars, readerVars, cancel>>
  BY DEF StopKeepalive, ClientInv, ClientTypeOK
<1>2. c \in Call /\ c.at = at
  BY <1>1 DEF Call, Suspended
<1>3. /\ call' = [call EXCEPT ![t] = c]
      /\ running' \in {None, t} /\ (running' = t => at \notin Suspended)
  BY <1>2, TaskSockAssumption DEF StopKeepalive, Goto, ClientInv, ClientTypeOK
<1>4. lock # t
  BY <1>1, TaskSockAssumption DEF ClientInv, LockHeld
<1>5. /\ call' \in [Task -> Call] /\ lock' \in Task \union Sock \union {None}
      /\ running' \in Task \union Sock \union {None}
      /\ LockHeld' /\ Working' /\ Opened'
  <2>1. /\ lock' \in {None, lock} /\ KeepaliveHolds'
        /\ c.at \notin {"send", "lock"}
    BY <1>1, <1>2, CancelKeepaliveKeeps
  <2> HIDE DEF c
  <2> QED
    BY <1>1, <1>2, <1>3, <1>4, <2>1, CallMoves, TaskSockAssumption
<1> QED
  BY <1>1, <1>5, CancelKeepaliveKeeps
  DEF ClientInv, ClientTypeOK, streamVars, readerVars

LEMMA ClearConnectionKeeps ==
  ASSUME ClientInv, NEW t \in Task, ClearConnection(t), running \in {None, t},
         lock # t,
         UNCHANGED <<sock, lock, rd, readerTask, keepaliveVars, cancel>>
  PROVE  ClientInv'
<1> DEFINE c == [call[t] EXCEPT !.at = "ok"]
<1>1. /\ c \in Call /\ c.at = "ok" /\ c.at \notin Suspended
      /\ call' = [call EXCEPT ![t] = c] /\ running' = t
  BY DEF ClearConnection, Goto, ClientInv, ClientTypeOK, Call, Suspended, Result
<1>2. /\ call' \in [Task -> Call] /\ running' \in Task \union Sock \union {None}
      /\ LockHeld' /\ Working' /\ Opened'
  BY <1>1, CallMoves, KeepaliveStillHolds
<1> QED
  BY <1>2 DEF ClearConnection, ClientInv, ClientTypeOK, keepaliveVars

LEMMA CloseWriterKeeps ==
  ASSUME ClientInv, NEW t \in Task, CloseWriter(t) PROVE ClientInv'
<1>0. /\ call[t] \in Call /\ lock # t /\ lock' = lock /\ running \in {None, t}
  BY TaskSockAssumption DEF CloseWriter, Resumes, ClientInv, ClientTypeOK, LockHeld
<1>1. CASE IsConnected
  <2> DEFINE c == [call[t] EXCEPT !.at = "d_wait", !.s = writer]
  <2>1. /\ call' = [call EXCEPT ![t].at = "d_wait", ![t].s = writer]
        /\ running' = None /\ sock' = [sock EXCEPT ![writer] = "closing"]
        /\ UNCHANGED <<reader, writer, intentional>>
    BY <1>1 DEF CloseWriter
  <2>2. c \in Call /\ c.at = "d_wait"
    BY <1>0 DEF ClientInv, ClientTypeOK, Call, Suspended, Result
  <2>3. call' = [call EXCEPT ![t] = c]
    BY <2>1 DEF ClientInv, ClientTypeOK
  <2>4. /\ call' \in [Task -> Call] /\ running' \in Task \union Sock \union {None}
        /\ LockHeld' /\ Working' /\ Opened'
    <3>1. KeepaliveHolds'
      BY KeepaliveStillHolds DEF CloseWriter
    <3> QED
      BY <1>0, <2>1, <2>2, <2>3, <3>1, CallMoves, TaskSockAssumption
  <2>5. sock' \in [Sock -> Transport]
    BY <2>1 DEF ClientInv, ClientTypeOK, Transport
  <2> QED
    BY <2>1, <2>4, <2>5 DEF CloseWriter, ClientInv, ClientTypeOK, keepaliveVars
<1>2. CASE ~IsConnected
  <2>1. ClearConnection(t) /\ UNCHANGED sock
    BY <1>2 DEF CloseWriter
  <2> QED
    BY <1>0, <2>1, ClearConnectionKeeps DEF CloseWriter
<1> QED
  BY <1>1, <1>2

LEMMA WriterClosedKeeps ==
  ASSUME ClientInv, NEW t \in Task, WriterClosed(t) PROVE ClientInv'
BY ClearConnectionKeeps, TaskSockAssumption
DEF WriterClosed, Resumes, ClientInv, LockHeld

LEMMA WriterCloseFailsKeeps ==
  ASSUME ClientInv, NEW t \in Task, WriterCloseFails(t) PROVE ClientInv'
BY TaskSockAssumption
DEF ClientInv, ClientTypeOK, LockHeld, Working, Opened, WriterCloseFails,
    Goto, Resumes, streamVars, readerVars, keepaliveVars, Call, Suspended,
    Result

LEMMA PeerClosesKeeps ==
  ASSUME ClientInv, NEW s \in Sock, PeerCloses(s) PROVE ClientInv'
BY TaskSockAssumption
DEF ClientInv, ClientTypeOK, LockHeld, Working, Opened, PeerCloses,
    readerVars, keepaliveVars, callVars, Transport

LEMMA ConnectionResetKeeps ==
  ASSUME ClientInv, NEW s \in Sock, ConnectionReset(s) PROVE ClientInv'
BY TaskSockAssumption
DEF ClientInv, ClientTypeOK, LockHeld, Working, Opened, ConnectionReset,
    readerVars, keepaliveVars, callVars, Transport

LEMMA ConnectionLostKeeps ==
  ASSUME ClientInv, NEW s \in Sock, ConnectionLost(s) PROVE ClientInv'
BY TaskSockAssumption
DEF ClientInv, ClientTypeOK, LockHeld, Working, Opened, ConnectionLost,
    readerVars, keepaliveVars, callVars, Transport

LEMMA WriterDroppedKeeps ==
  ASSUME ClientInv, NEW s \in Sock, WriterDropped(s) PROVE ClientInv'
BY TaskSockAssumption
DEF ClientInv, ClientTypeOK, LockHeld, Working, Opened, WriterDropped,
    readerVars, keepaliveVars, callVars, Transport

LEMMA ReaderStartsKeeps ==
  ASSUME ClientInv, NEW s \in Sock, ReaderStarts(s) PROVE ClientInv'
<1>1. rd' \in [Sock -> ReaderTask] /\ intentional' \in BOOLEAN
  <2>1. CASE rd[s].cancelled
    <3>1. Ended \in ReaderTask
      BY DEF Ended, NoReaderTask, ReaderTask
    <3> QED
      BY <2>1, <3>1 DEF ReaderStarts, ClientInv, ClientTypeOK
  <2>2. CASE ~rd[s].cancelled
    <3> DEFINE r == [rd[s] EXCEPT !.at = IF reader = None THEN "failed" ELSE "reading",
                                  !.src = reader]
    <3>1. r \in ReaderTask
      BY DEF ClientInv, ClientTypeOK, ReaderTask
    <3>2. rd' = [rd EXCEPT ![s] = r] /\ intentional' = FALSE
      BY <2>2 DEF ReaderStarts, ClientInv, ClientTypeOK
    <3> QED
      BY <3>1, <3>2 DEF ClientInv, ClientTypeOK
  <2> QED
    BY <2>1, <2>2
<1> QED
  BY <1>1
  DEF ReaderStarts, ClientInv, ClientTypeOK, LockHeld, Working, Opened,
      streamVars, keepaliveVars, callVars

LEMMA HandlerWaitsKeeps ==
  ASSUME ClientInv, NEW s \in Sock, HandlerWaits(s) PROVE ClientInv'
BY TaskSockAssumption
DEF ClientInv, ClientTypeOK, LockHeld, Working, Opened, HandlerWaits,
    streamVars, keepaliveVars, callVars, ReaderTask

LEMMA HandlerReturnsKeeps ==
  ASSUME ClientInv, NEW s \in Sock, HandlerReturns(s) PROVE ClientInv'
BY TaskSockAssumption
DEF ClientInv, ClientTypeOK, LockHeld, Working, Opened, HandlerReturns,
    streamVars, keepaliveVars, callVars, ReaderTask

LEMMA LeaveReadingKeeps ==
  ASSUME ClientInv, NEW s \in Sock, LeaveReading(s) PROVE ClientInv'
<1>1. rd' \in [Sock -> ReaderTask]
  <2>1. rd \in [Sock -> ReaderTask] /\ writer \in Sock \union {None}
    BY DEF ClientInv, ClientTypeOK
  <2>2. rd' = [rd EXCEPT ![s].at = "closing", ![s].w = writer, ![s].cancelled = FALSE]
    BY DEF LeaveReading
  <2> QED
    BY <2>1, <2>2 DEF ReaderTask
<1>2. sock' \in [Sock -> Transport]
  BY DEF LeaveReading, ClientInv, ClientTypeOK, Transport
<1>3. running' \in {None, s}
  BY DEF LeaveReading
<1>4. Working'
  BY <1>3, TaskSockAssumption DEF LeaveReading, Working
<1> QED
  BY <1>1, <1>2, <1>3, <1>4
  DEF LeaveReading, ClientInv, ClientTypeOK, LockHeld, Opened, keepaliveVars

LEMMA ReaderSeesEndKeeps ==
  ASSUME ClientInv, NEW s \in Sock, ReaderSeesEnd(s) PROVE ClientInv'
BY LeaveReadingKeeps DEF ReaderSeesEnd

LEMMA HandlerRaisesKeeps ==
  ASSUME ClientInv, NEW s \in Sock, HandlerRaises(s) PROVE ClientInv'
BY LeaveReadingKeeps DEF HandlerRaises

LEMMA ReaderFinishesKeeps ==
  ASSUME ClientInv, NEW s \in Sock, ReaderFinishes(s) PROVE ClientInv'
BY TaskSockAssumption
DEF ClientInv, ClientTypeOK, LockHeld, Working, Opened, ReaderFinishes,
    HasLoop, Ended, keepaliveVars, NoReaderTask, ReaderTask

LEMMA ReaderFinallyCancelledKeeps ==
  ASSUME ClientInv, NEW s \in Sock, ReaderFinallyCancelled(s) PROVE ClientInv'
BY TaskSockAssumption
DEF ClientInv, ClientTypeOK, LockHeld, Working, Opened,
    ReaderFinallyCancelled, Ended, streamVars, keepaliveVars, callVars,
    NoReaderTask, ReaderTask

LEMMA KeepaliveEndsKeeps ==
  ASSUME ClientInv, NEW s \in Sock, KeepaliveEnds(s) PROVE ClientInv'
BY TaskSockAssumption
DEF ClientInv, ClientTypeOK, LockHeld, Working, Opened, KeepaliveEnds,
    streamVars, readerVars, callVars

LEMMA KeepaliveWaitsKeeps ==
  ASSUME ClientInv, NEW s \in Sock, KeepaliveWaits(s) PROVE ClientInv'
BY TaskSockAssumption
DEF ClientInv, ClientTypeOK, LockHeld, Working, Opened, KeepaliveWaits,
    IsConnected, streamVars, readerVars, callVars

LEMMA KeepaliveResumesKeeps ==
  ASSUME ClientInv, NEW s \in Sock, KeepaliveResumes(s) PROVE ClientInv'
BY TaskSockAssumption
DEF ClientInv, ClientTypeOK, LockHeld, Working, Opened, KeepaliveResumes,
    streamVars, readerVars, callVars

(* A call returns to the coroutine that made it. *)
LEMMA CallEndsKeeps ==
  ASSUME ClientInv, NEW t \in Task, lock # t,
         running \in {None, t}, running' \in {None, t},
         call' = [call EXCEPT ![t] = Idle], cancel' \in SUBSET Task,
         UNCHANGED <<streamVars, lock, readerVars, keepaliveVars>>
  PROVE  ClientInv'
<1>1. Idle \in Call /\ Idle.at = "idle" /\ Idle.at \notin Suspended
  BY DEF Idle, Call, Suspended, Result
<1>2. /\ call' \in [Task -> Call] /\ running' \in Task \union Sock \union {None}
      /\ LockHeld' /\ Working' /\ Opened'
  BY <1>1, CallMoves, KeepaliveStillHolds
<1> QED
  BY <1>2 DEF ClientInv, ClientTypeOK, streamVars, readerVars, keepaliveVars

(* Whoever has the event loop does not hold the write lock. *)
LEMMA RunningWithoutLock ==
  ASSUME ClientInv, NEW t \in Task, running = t \/ call[t] = Idle PROVE lock # t
BY TaskSockAssumption DEF ClientInv, LockHeld, Working, Idle, Suspended

(* A step of t inside a call leaves the calls of all others alone. *)
LEMMA CallStepLocal ==
  ASSUME ClientInv, NEW t \in Task, CallStep(t) \/ OpenFails(t) \/ OpenConnection(t),
         NEW u \in Task, call[u] = Idle
  PROVE  call'[u] = Idle
<1>1. call[t] # Idle
  BY DEF CallStep, OpenFails, OpenConnection, KeepaliveStopped, Acquire,
     LockGranted, Drained, DrainReturns, DrainFails, Cancelled, ReaderStopped,
     StopKeepalive, CloseWriter, WriterClosed, WriterCloseFails, Resumes, Idle
<1>2. u # t
  BY <1>1
<1> QED
  BY <1>2
  DEF CallStep, OpenFails, OpenConnection, KeepaliveStopped, Acquire,
      LockGranted, Write, Drained, DrainReturns, DrainFails, Cancelled,
      ReaderStopped, StopKeepalive, CloseWriter, ClearConnection, WriterClosed,
      WriterCloseFails, Goto, ClientInv, ClientTypeOK

LEMMA CallStepKeeps ==
  ASSUME ClientInv, NEW t \in Task, CallStep(t) PROVE ClientInv'
BY KeepaliveStoppedKeeps, AcquireKeeps, LockGrantedKeeps, DrainedKeeps,
   DrainReturnsKeeps, DrainFailsKeeps, CancelledKeeps, ReaderStoppedKeeps,
   StopKeepaliveKeeps, CloseWriterKeeps, WriterClosedKeeps, WriterCloseFailsKeeps
DEF CallStep

LEMMA ReaderStepKeeps ==
  ASSUME ClientInv, NEW s \in Sock, ReaderStep(s) PROVE ClientInv'
BY ReaderStartsKeeps, HandlerReturnsKeeps, ReaderSeesEndKeeps, ReaderFinishesKeeps,
   ReaderFinallyCancelledKeeps, KeepaliveEndsKeeps
DEF ReaderStep

===============================================================================
