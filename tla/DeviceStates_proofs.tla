-------------------------- MODULE DeviceStates_proofs --------------------------
(***************************************************************************)
(* The data coordinator keeps its types and does not hide a broken web     *)
(* API, for any devices, values, polling interval and numbers of changes   *)
(* and pushes.                                                             *)
(***************************************************************************)
EXTENDS DeviceStates, TLAPS

Request == {"sensors", "lights", "radio"}

(* A poll that is under way waits for one of the requests it makes. *)
Polling == poll # "idle" => \E i \in 1..Len(Requests) : poll = Requests[i]

Inv == TypeOK /\ Polling /\ NotMasked

-------------------------------------------------------------------------------
LEMMA SomeRequest == Requests \in Seq(Request) /\ Requests # <<>>
<1>. DEFINE s == IF Sensors # {} THEN <<"sensors">> ELSE <<>>
            l == IF Lights # {} THEN <<"lights">> ELSE <<>>
            r == IF RadioDiagnostics THEN <<"radio">> ELSE <<>>
<1>1. /\ s \in Seq(Request) /\ l \in Seq(Request) /\ r \in Seq(Request)
      /\ Len(s) + Len(l) > 0
  <2>1. Sensors # {} \/ Lights # {}
    BY SourceAssumption
  <2>2. Len(<<"sensors">>) = 1 /\ Len(<<"lights">>) = 1 /\ Len(<<>>) = 0
    OBVIOUS
  <2>3. s \in Seq(Request) /\ l \in Seq(Request) /\ r \in Seq(Request)
    <3>1. \A q \in Request : <<q>> \in Seq(Request)
      OBVIOUS
    <3>2. {"sensors", "lights", "radio"} = Request /\ <<>> \in Seq(Request)
      BY DEF Request
    <3>. QED  BY <3>1, <3>2
  <2>4. Len(s) \in Nat /\ Len(l) \in Nat
    BY <2>3
  <2>5. Len(s) > 0 \/ Len(l) > 0
    BY <2>1, <2>2
  <2>. QED  BY <2>3, <2>4, <2>5
<1>2. Requests = s \o l \o r
  BY DEF Requests
<1>. HIDE DEF s, l, r
<1>3. Requests \in Seq(Request) /\ Len(Requests) = Len(s) + Len(l) + Len(r)
  BY <1>1, <1>2
<1>4. Len(r) \in Nat /\ Len(s) \in Nat /\ Len(l) \in Nat
  BY <1>1
<1>. QED  BY <1>1, <1>3, <1>4

LEMMA NoStateIsState == NoState \in State
BY DEF NoState, State

LEMMA InitInv == ASSUME Init PROVE Inv
<1>1. PICK v \in Value :
        real = [d \in Device |-> [sensor |-> v, light |-> v, active |-> TRUE]]
  BY DEF Init
<1>2. real \in [Device -> State]
  BY <1>1 DEF State
<1>3. data \in [Device -> State] /\ states \in [Device -> State]
  BY NoStateIsState DEF Init
<1>4. /\ pushes = <<>> /\ changes = 0 /\ poll = "idle" /\ timer = 0
      /\ lastUpdateSuccess = TRUE /\ issue = FALSE /\ asked = FALSE
  BY DEF Init
<1>5. pushes \in Seq(Device \X Value) /\ Len(pushes) <= MaxPushes
  BY <1>4, SourceAssumption
<1>6. changes \in 0..MaxChanges /\ timer \in 0..Interval
  BY <1>4, SourceAssumption
<1>7. TypeOK
  BY <1>2, <1>3, <1>4, <1>5, <1>6 DEF TypeOK
<1>. QED  BY <1>4, <1>7 DEF Inv, Polling, NotMasked

-------------------------------------------------------------------------------
(* A device changes: one field of it, by a count of the changes. *)
LEMMA DeviceChanges ==
  ASSUME TypeOK, NEW d \in Device, NEW r \in State,
         real' = [real EXCEPT ![d] = r],
         changes < MaxChanges, changes' = changes + 1
  PROVE  real' \in [Device -> State] /\ changes' \in 0..MaxChanges
<1>1. changes \in Nat /\ MaxChanges \in Nat
  BY SourceAssumption DEF TypeOK
<1>. QED  BY <1>1 DEF TypeOK

LEMMA BridgeKeeps == ASSUME Inv, Bridge PROVE Inv'
<1>. USE DEF bridgeVars, pollVars, updateVars
<1>1. ASSUME NEW d \in Device, NEW v \in Value, Reports(d, v) PROVE Inv'
  <2>1. real' \in [Device -> State] /\ changes' \in 0..MaxChanges
    <3>1. CASE UNCHANGED <<real, changes>>
      BY <3>1 DEF Inv, TypeOK
    <3>2. CASE /\ changes < MaxChanges /\ changes' = changes + 1
               /\ real' = [real EXCEPT ![d].sensor = v, ![d].active = TRUE]
      <4>. DEFINE r == [real[d] EXCEPT !.sensor = v, !.active = TRUE]
      <4>1. real \in [Device -> State]
        BY DEF Inv, TypeOK
      <4>2. r \in State /\ real' = [real EXCEPT ![d] = r]
        BY <3>2, <4>1 DEF State
      <4>. QED  BY <3>2, <4>2, DeviceChanges DEF Inv
    <3>. QED  BY <1>1, <3>1, <3>2 DEF Reports
  <2>2. pushes' \in Seq(Device \X Value) /\ Len(pushes') <= MaxPushes
    <3>1. /\ pushes \in Seq(Device \X Value) /\ <<d, v>> \in Device \X Value
          /\ Len(pushes) < MaxPushes /\ MaxPushes \in Nat
      BY <1>1, SourceAssumption DEF Reports, Inv, TypeOK
    <3>2. pushes' = Append(pushes, <<d, v>>)
      BY <1>1 DEF Reports
    <3>. DEFINE p == <<d, v>>
    <3>. HIDE DEF p
    <3>3. pushes' = Append(pushes, p) /\ p \in Device \X Value
      BY <3>1, <3>2 DEF p
    <3>4. pushes' \in Seq(Device \X Value) /\ Len(pushes') = Len(pushes) + 1 /\ Len(pushes) \in Nat
      BY <3>1, <3>3
    <3>. QED  BY <3>1, <3>4
  <2>3. UNCHANGED <<data, poll, states, timer, lastUpdateSuccess, issue, asked>>
    BY <1>1 DEF Reports
  <2>. QED  BY <2>1, <2>2, <2>3 DEF Inv, TypeOK, Polling, NotMasked
<1>2. ASSUME NEW d \in Device, NEW v \in Value, LightChanges(d, v) PROVE Inv'
  <2>. DEFINE r == [real[d] EXCEPT !.light = v]
  <2>1. real \in [Device -> State]
    BY DEF Inv, TypeOK
  <2>2. r \in State /\ real' = [real EXCEPT ![d] = r]
    BY <1>2, <2>1 DEF State, LightChanges
  <2>3. real' \in [Device -> State] /\ changes' \in 0..MaxChanges
    BY <1>2, <2>2, DeviceChanges DEF LightChanges, Inv
  <2>. QED  BY <1>2, <2>3 DEF LightChanges, Inv, TypeOK, Polling, NotMasked
<1>3. ASSUME NEW d \in Device, FallsSilent(d) PROVE Inv'
  <2>. DEFINE r == [real[d] EXCEPT !.active = FALSE]
  <2>1. real \in [Device -> State]
    BY DEF Inv, TypeOK
  <2>2. r \in State /\ real' = [real EXCEPT ![d] = r]
    BY <1>3, <2>1 DEF State, FallsSilent
  <2>3. real' \in [Device -> State] /\ changes' \in 0..MaxChanges
    BY <1>3, <2>2, DeviceChanges DEF FallsSilent, Inv
  <2>. QED  BY <1>3, <2>3 DEF FallsSilent, Inv, TypeOK, Polling, NotMasked
<1>4. ASSUME TunnelLost PROVE Inv'
  <2>1. pushes' \in Seq(Device \X Value) /\ Len(pushes') <= MaxPushes
    BY <1>4, SourceAssumption DEF TunnelLost
  <2>. QED  BY <1>4, <2>1 DEF TunnelLost, Inv, TypeOK, Polling, NotMasked
<1>. QED  BY <1>1, <1>2, <1>3, <1>4 DEF Bridge

(* A push changes one device of the data, and nothing of the poll. *)
LEMMA ApplyPushKeeps == ASSUME Inv, ApplyPush PROVE Inv'
<1>1. /\ pushes # <<>> /\ pushes' = Tail(pushes)
      /\ UNCHANGED <<real, changes, poll, states, timer, lastUpdateSuccess, issue, asked>>
  BY DEF ApplyPush, TouchesPoll, pollVars, updateVars
<1>2. pushes \in Seq(Device \X Value) /\ Len(pushes) <= MaxPushes
  BY DEF Inv, TypeOK
<1>3. /\ pushes' \in Seq(Device \X Value) /\ Len(pushes') = Len(pushes) - 1
      /\ Head(pushes) \in Device \X Value /\ Len(pushes) \in Nat
  BY <1>1, <1>2
<1>4. Len(pushes') <= MaxPushes
  BY <1>2, <1>3, SourceAssumption
<1>5. data' \in [Device -> State]
  <2>. DEFINE d == Head(pushes)[1]
              v == Head(pushes)[2]
              r == [data[d] EXCEPT !.sensor = v, !.active = TRUE]
  <2>1. d \in Device /\ v \in Value
    BY <1>3
  <2>2. data \in [Device -> State]
    BY DEF Inv, TypeOK
  <2>3. data' = IF d \in Imported THEN [data EXCEPT ![d].sensor = v, ![d].active = TRUE] ELSE data
    BY DEF ApplyPush
  <2>. HIDE DEF d, v
  <2>4. r \in State
    BY <2>1, <2>2 DEF State
  <2>5. data' = IF d \in Imported THEN [data EXCEPT ![d] = r] ELSE data
    BY <2>1, <2>2, <2>3 DEF State
  <2>. QED  BY <2>2, <2>4, <2>5
<1>6. TypeOK'
  BY <1>1, <1>3, <1>4, <1>5 DEF Inv, TypeOK
<1>. QED  BY <1>1, <1>6 DEF Inv, Polling, NotMasked

LEMMA TickKeeps == ASSUME Inv, Tick PROVE Inv'
<1>1. timer \in 0..Interval /\ timer > 0 /\ timer' = timer - 1 /\ Interval \in Nat
  BY SourceAssumption DEF Tick, Inv, TypeOK
<1>2. timer' \in 0..Interval
  BY <1>1
<1>. QED
  BY <1>2 DEF Tick, bridgeVars, pollVars, Inv, TypeOK, Polling, NotMasked

(* The first request of a poll is one of its requests, and so is the one   *)
(* that follows another.                                                   *)
LEMMA PollStartsKeeps == ASSUME Inv, PollStarts PROVE Inv'
<1>1. poll' = Requests[1] /\ 1 \in 1..Len(Requests) /\ Requests[1] \in Request
  BY SomeRequest DEF PollStarts
<1>2. states' \in [Device -> State]
  BY NoStateIsState DEF PollStarts
<1>3. UNCHANGED <<real, pushes, changes, data, timer, lastUpdateSuccess, issue, asked>>
  BY DEF PollStarts, bridgeVars, updateVars
<1>4. TypeOK'
  BY <1>1, <1>2, <1>3 DEF Inv, TypeOK, Request
<1>5. Polling'
  <2>1. Requests' = Requests
    BY DEF Requests
  <2>. QED  BY <1>1, <2>1 DEF Polling
<1>. QED  BY <1>3, <1>4, <1>5 DEF Inv, NotMasked

LEMMA AnsweredKeeps ==
  ASSUME Inv, NEW request \in Request, NEW answer \in [Device -> State],
         Answered(request, answer)
  PROVE  Inv'
<1>1. /\ poll = request /\ states' = answer
      /\ UNCHANGED <<real, pushes, changes, asked>>
  BY DEF Answered, bridgeVars
<1>2. CASE request = Last(Requests)
  <2>1. /\ poll' = "idle" /\ data' = answer /\ timer' = Interval
        /\ lastUpdateSuccess' = TRUE /\ issue' = FALSE
    BY <1>2 DEF Answered
  <2>2. timer' \in 0..Interval
    BY <2>1, SourceAssumption
  <2>3. TypeOK'
    BY <1>1, <2>1, <2>2 DEF Inv, TypeOK
  <2>. QED  BY <2>1, <2>3 DEF Inv, Polling, NotMasked
<1>3. CASE request # Last(Requests)
  <2>. DEFINE Follows(i) == Requests[i - 1] = request
              n == CHOOSE i \in 2..Len(Requests) : Follows(i)
  <2>1. poll' = Requests[n] /\ UNCHANGED <<data, timer, lastUpdateSuccess, issue>>
    BY <1>3 DEF Answered, updateVars
  <2>2. PICK j \in 1..Len(Requests) : request = Requests[j]
    BY <1>1 DEF Inv, Polling, Request
  <2>3. j # Len(Requests) /\ Len(Requests) \in Nat
    BY <1>3, <2>2, SomeRequest DEF Last
  <2>4. j + 1 \in 2..Len(Requests) /\ Follows(j + 1)
    BY <2>2, <2>3
  <2>5. n \in 2..Len(Requests)
    BY <2>4
  <2>. HIDE DEF n
  <2>6. n \in 1..Len(Requests) /\ Requests[n] \in Request
    BY <2>5, SomeRequest
  <2>7. TypeOK'
    BY <1>1, <2>1, <2>6 DEF Inv, TypeOK, Request
  <2>8. Requests' = Requests
    BY DEF Requests
  <2>. QED  BY <2>1, <2>6, <2>7, <2>8 DEF Inv, Polling, NotMasked
<1>. QED  BY <1>2, <1>3

LEMMA PollKeeps == ASSUME Inv, Poll PROVE Inv'
<1>1. real \in [Device -> State] /\ states \in [Device -> State]
  BY DEF Inv, TypeOK
<1>2. ASSUME SensorsAnswered PROVE Inv'
  <2>. DEFINE answer == [d \in Device |->
                IF d \in Sensors THEN [real[d] EXCEPT !.light = None] ELSE states[d]]
  <2>1. \A d \in Device : [real[d] EXCEPT !.light = None] \in State
    BY <1>1 DEF State
  <2>2. answer \in [Device -> State]
    BY <1>1, <2>1
  <2>3. Answered("sensors", answer)
    BY <1>2 DEF SensorsAnswered
  <2>. QED  BY <2>2, <2>3, AnsweredKeeps DEF Request
<1>3. ASSUME LightsAnswered PROVE Inv'
  <2>. DEFINE answer == [d \in Device |->
                IF d \in Lights THEN [real[d] EXCEPT !.sensor = states[d].sensor] ELSE states[d]]
  <2>1. \A d \in Device : [real[d] EXCEPT !.sensor = states[d].sensor] \in State
    BY <1>1 DEF State
  <2>2. answer \in [Device -> State]
    BY <1>1, <2>1
  <2>3. Answered("lights", answer)
    BY <1>3 DEF LightsAnswered
  <2>. QED  BY <2>2, <2>3, AnsweredKeeps DEF Request
<1>4. ASSUME RadioAnswered PROVE Inv'
  BY <1>1, <1>4, AnsweredKeeps DEF RadioAnswered, Request
<1>5. ASSUME PollFails PROVE Inv'
  <2>1. timer' \in 0..Interval
    BY <1>5, SourceAssumption DEF PollFails
  <2>. QED  BY <1>5, <2>1 DEF PollFails, IssueOfFailure, bridgeVars, Inv, TypeOK,
                                  Polling, NotMasked
<1>. QED  BY <1>2, <1>3, <1>4, <1>5, PollStartsKeeps DEF Poll

LEMMA CommandKeeps == ASSUME Inv, Command PROVE Inv'
<1>. USE DEF bridgeVars, pollVars, updateVars
<1>1. ASSUME NEW d \in Device, NEW v \in Value, TurnLight(d, v) PROVE Inv'
  <2>. DEFINE r == [real[d] EXCEPT !.light = v]
  <2>1. real \in [Device -> State]
    BY DEF Inv, TypeOK
  <2>2. r \in State /\ real' = [real EXCEPT ![d] = r]
    BY <1>1, <2>1 DEF State, TurnLight
  <2>3. real' \in [Device -> State] /\ changes' \in 0..MaxChanges
    BY <1>1, <2>2, DeviceChanges DEF TurnLight, Inv
  <2>. QED  BY <1>1, <2>3 DEF TurnLight, Inv, TypeOK, Polling, NotMasked
<1>2. ASSUME RequestRefresh PROVE Inv'
  <2>1. timer' \in 0..Interval
    <3>1. timer \in 0..Interval /\ Interval \in Nat
      BY SourceAssumption DEF Inv, TypeOK
    <3>. QED  BY <1>2, <3>1 DEF RequestRefresh
  <2>. QED  BY <1>2, <2>1 DEF RequestRefresh, Inv, TypeOK, Polling, NotMasked
<1>3. ASSUME CommandFails PROVE Inv'
  BY <1>3 DEF CommandFails, Inv, TypeOK, Polling, NotMasked
<1>. QED  BY <1>1, <1>2, <1>3 DEF Command

LEMMA InvStep == ASSUME Inv, [Next]_vars PROVE Inv'
<1>1. CASE UNCHANGED vars
  <2>1. Requests' = Requests
    BY DEF Requests
  <2>. QED  BY <1>1, <2>1 DEF vars, bridgeVars, pollVars, updateVars, Inv, TypeOK, Polling,
              NotMasked
<1>2. CASE Next
  BY <1>2, BridgeKeeps, ApplyPushKeeps, TickKeeps, PollKeeps, CommandKeeps DEF Next
<1>. QED  BY <1>1, <1>2

LEMMA Invariance == Spec => []Inv
<1>1. Init => Inv
  BY InitInv
<1>2. Inv /\ [Next]_vars => Inv'
  BY InvStep
<1>. QED  BY <1>1, <1>2, PTL DEF Spec

(* Polls, pushes and commands leave a result of devices' states, at most   *)
(* one request at a time and a timer that is not past the interval.        *)
THEOREM DeviceTyping == Spec => []TypeOK
<1>1. Inv => TypeOK
  BY DEF Inv
<1>. QED  BY <1>1, Invariance, PTL

(* While the issue "web API unreachable" is raised the entities are        *)
(* unavailable, whatever is pushed (apply_push_update).                    *)
THEOREM NeverMasked == Spec => []NotMasked
<1>1. Inv => NotMasked
  BY DEF Inv
<1>. QED  BY <1>1, Invariance, PTL
===============================================================================
