----------------------------- MODULE DeviceStates -----------------------------
(***************************************************************************)
(* The data of imported devices (device_coordinator.py), from two sources: *)
(* a poll of the web API, with one request for the sensors and others for  *)
(* the lights and the radio links, each answered with what the bridge has  *)
(* at that moment, and the pushes of the bridge API, which arrive in order *)
(* but at any time, also between two requests of a poll, or are lost with  *)
(* their tunnel.  Service calls of lights bring the next poll forward.     *)
(*                                                                         *)
(* A device has one sensor channel and, as a light, a brightness; what the *)
(* poll says of its radio link is left out.                                *)
(***************************************************************************)
EXTENDS NoValue, Integers, SequencesExt

CONSTANTS
  Sensors,     \* imported_sensor_dsuids
  Lights,      \* imported_light_dsuids
  Strangers,   \* devices of the bridge that are not imported
  Value,       \* values of a channel
  RadioDiagnostics,  \* self._radio_diagnostics
  Interval,    \* update_interval, in ticks
  MaxChanges,  \* bound: changes of the bridge's devices in a behaviour
  MaxPushes    \* bound: pushes on their way at any time

ASSUME SourceAssumption ==
  /\ Sensors \union Lights # {}
  /\ Strangers \cap (Sensors \union Lights) = {}
  /\ None \notin Value
  /\ RadioDiagnostics \in BOOLEAN
  /\ Interval \in Nat \ {0} /\ MaxChanges \in Nat /\ MaxPushes \in Nat

Imported == Sensors \union Lights
Device == Imported \union Strangers

VARIABLES
  real,               \* the devices as the bridge has them
  pushes,             \* pushes on their way
  changes,            \* changes of the devices so far
  data,               \* self.data, a field a device does not have being None
  poll,               \* what _async_update_data waits for
  states,             \* its local `states'
  timer,              \* ticks until the next poll is due
  lastUpdateSuccess,  \* self.last_update_success
  issue,              \* the repair issue "web API unreachable"
  asked               \* a light's service call waits for its answer

bridgeVars == <<real, pushes, changes>>
pollVars == <<poll, states>>
updateVars == <<timer, lastUpdateSuccess, issue>>
vars == <<bridgeVars, data, pollVars, updateVars, asked>>

State == [sensor : Value \union {None}, light : Value \union {None},
          active : BOOLEAN \union {None}]

NoState == [sensor |-> None, light |-> None, active |-> None]

TypeOK ==
  /\ real \in [Device -> State]
  /\ pushes \in Seq(Device \X Value) /\ Len(pushes) <= MaxPushes
  /\ changes \in 0..MaxChanges
  /\ data \in [Device -> State]
  /\ poll \in {"idle", "sensors", "lights", "radio"}
  /\ states \in [Device -> State]
  /\ timer \in 0..Interval
  /\ lastUpdateSuccess \in BOOLEAN
  /\ issue \in BOOLEAN /\ asked \in BOOLEAN

Init ==
  /\ \E v \in Value :
       real = [d \in Device |-> [sensor |-> v, light |-> v, active |-> TRUE]]
  /\ pushes = <<>> /\ changes = 0
  /\ data = [d \in Device |-> NoState]
  /\ poll = "idle" /\ states = [d \in Device |-> NoState]
  /\ timer = 0
  /\ lastUpdateSuccess = TRUE /\ issue = FALSE
  /\ asked = FALSE

-------------------------------------------------------------------------------
(* The bridge *)

(* A device reports a value, a new one or the one it had. *)
Reports(d, v) ==
  /\ Len(pushes) < MaxPushes
  /\ IF real[d].sensor = v /\ real[d].active
     THEN UNCHANGED <<real, changes>>
     ELSE /\ changes < MaxChanges
          /\ changes' = changes + 1
          /\ real' = [real EXCEPT ![d].sensor = v, ![d].active = TRUE]
  /\ pushes' = Append(pushes, <<d, v>>)
  /\ UNCHANGED <<data, pollVars, updateVars, asked>>

LightChanges(d, v) ==
  /\ changes < MaxChanges
  /\ changes' = changes + 1
  /\ real' = [real EXCEPT ![d].light = v]
  /\ UNCHANGED <<pushes, data, pollVars, updateVars, asked>>

(* Nothing was heard of the device for its alive interval. *)
FallsSilent(d) ==
  /\ real[d].active
  /\ changes < MaxChanges
  /\ changes' = changes + 1
  /\ real' = [real EXCEPT ![d].active = FALSE]
  /\ UNCHANGED <<pushes, data, pollVars, updateVars, asked>>

TunnelLost ==
  /\ pushes # <<>>
  /\ pushes' = <<>>
  /\ UNCHANGED <<real, changes, data, pollVars, updateVars, asked>>

-------------------------------------------------------------------------------
(* apply_push_update *)

(* Mutant of TouchesPoll: a push is an update like that of a poll. *)
PushIsAnUpdate == timer' = Interval /\ lastUpdateSuccess' = TRUE /\ UNCHANGED issue

(* What a push does to the timer and to the outcome of the last poll. *)
TouchesPoll == UNCHANGED updateVars

ApplyPush ==
  /\ pushes # <<>>
  /\ LET d == Head(pushes)[1]
         v == Head(pushes)[2]
     IN data' = IF d \in Imported
                THEN [data EXCEPT ![d].sensor = v, ![d].active = TRUE]
                ELSE data
  /\ pushes' = Tail(pushes)
  /\ TouchesPoll
  /\ UNCHANGED <<real, changes, pollVars, asked>>

-------------------------------------------------------------------------------
(* The poll: _async_update_data and the timer around it *)

Tick ==
  /\ poll = "idle" /\ timer > 0
  /\ timer' = timer - 1
  /\ UNCHANGED <<bridgeVars, data, pollVars, lastUpdateSuccess, issue, asked>>

(* The requests a poll makes, in this order *)
Requests ==
  (IF Sensors # {} THEN <<"sensors">> ELSE <<>>)
    \o (IF Lights # {} THEN <<"lights">> ELSE <<>>)
    \o (IF RadioDiagnostics THEN <<"radio">> ELSE <<>>)

PollStarts ==
  /\ poll = "idle" /\ timer = 0
  /\ poll' = Head(Requests)
  /\ states' = [d \in Device |-> NoState]
  /\ UNCHANGED <<bridgeVars, data, updateVars, asked>>

(* The answer is in: the next request, or the result, which replaces what  *)
(* there was, pushes included.                                             *)
Answered(request, answer) ==
  /\ poll = request
  /\ states' = answer
  /\ IF request = Last(Requests)
     THEN /\ poll' = "idle"
          /\ data' = answer
          /\ timer' = Interval
          /\ lastUpdateSuccess' = TRUE /\ issue' = FALSE
     ELSE /\ poll' = Requests[CHOOSE i \in 2..Len(Requests) : Requests[i - 1] = request]
          /\ UNCHANGED <<data, updateVars>>
  /\ UNCHANGED <<bridgeVars, asked>>

SensorsAnswered ==
  Answered("sensors", [d \in Device |->
    IF d \in Sensors THEN [real[d] EXCEPT !.light = None] ELSE states[d]])

(* Mutant of LightsAnswered: a device that is a sensor as well is replaced. *)
LightsReplace ==
  Answered("lights", [d \in Device |->
    IF d \in Lights THEN [real[d] EXCEPT !.sensor = None] ELSE states[d]])

(* states.setdefault(dsuid, {}).update(entry) *)
LightsAnswered ==
  Answered("lights", [d \in Device |->
    IF d \in Lights THEN [real[d] EXCEPT !.sensor = states[d].sensor] ELSE states[d]])

(* The radio link is kept beside the channels. *)
RadioAnswered == Answered("radio", states)

(* The issue is raised for what the web client reports as its error; a     *)
(* body that is not text fails the poll without it, and leaves the issue   *)
(* as it was.                                                              *)
IssueOfFailure == issue' \in {TRUE, issue}

(* Mutant of PollFails: the next poll is put off. *)
PollFailsLonger ==
  /\ poll # "idle"
  /\ poll' = "idle"
  /\ timer' = 2 * Interval
  /\ lastUpdateSuccess' = FALSE /\ IssueOfFailure
  /\ UNCHANGED <<bridgeVars, data, states, asked>>

PollFails ==
  /\ poll # "idle"
  /\ poll' = "idle"
  /\ timer' = Interval
  /\ lastUpdateSuccess' = FALSE /\ IssueOfFailure
  /\ UNCHANGED <<bridgeVars, data, states, asked>>

-------------------------------------------------------------------------------
(* async_turn_on and async_turn_off of a light *)

TurnLight(d, v) ==
  /\ d \in Lights /\ ~asked
  /\ changes < MaxChanges
  /\ changes' = changes + 1
  /\ real' = [real EXCEPT ![d].light = v]
  /\ asked' = TRUE
  /\ UNCHANGED <<pushes, data, pollVars, updateVars>>

(* The bridge has answered: async_request_refresh brings the next poll     *)
(* forward, by as much as its cool-down allows, but not past a poll that   *)
(* is under way.                                                           *)
RequestRefresh ==
  /\ asked /\ asked' = FALSE
  /\ IF poll = "idle" THEN timer' \in 0..timer ELSE UNCHANGED timer
  /\ UNCHANGED <<bridgeVars, data, pollVars, lastUpdateSuccess, issue>>

(* The answer is lost, though not the command. *)
CommandFails ==
  /\ asked /\ asked' = FALSE
  /\ UNCHANGED <<bridgeVars, data, pollVars, updateVars>>

-------------------------------------------------------------------------------
Bridge ==
  \/ \E d \in Device, v \in Value : Reports(d, v) \/ LightChanges(d, v)
  \/ \E d \in Device : FallsSilent(d)
  \/ TunnelLost

Poll == PollStarts \/ SensorsAnswered \/ LightsAnswered \/ RadioAnswered \/ PollFails

Command == (\E d \in Device, v \in Value : TurnLight(d, v)) \/ RequestRefresh \/ CommandFails

Next == Bridge \/ ApplyPush \/ Tick \/ Poll \/ Command

Spec == Init /\ [][Next]_vars

(* Time passes, pushes arrive, a poll ends one way or the other, and a web *)
(* API that is asked again and again answers in the end.                   *)
Fairness ==
  /\ WF_vars(Tick) /\ WF_vars(ApplyPush)
  /\ WF_vars(PollStarts)
  /\ SF_vars(SensorsAnswered) /\ SF_vars(LightsAnswered) /\ SF_vars(RadioAnswered)

-------------------------------------------------------------------------------
(* Properties                                                              *)

(* What Home Assistant shows of the imported devices is what they are. *)
Agrees ==
  \A d \in Imported :
    /\ d \in Sensors => data[d].sensor = real[d].sensor
    /\ d \in Lights => data[d].light = real[d].light
    /\ data[d].active = real[d].active

(* However pushes and the answers of a poll overtake each other, and       *)
(* whatever is lost, once the devices stop changing the data is right.     *)
Converges == <>[]Agrees

(* A steady stream of pushes does not stop the polling. *)
PollsGoOn == []<>(poll # "idle")

(* Pushes do not hide a broken web API: entities are unavailable as long   *)
(* as the issue is raised.                                                 *)
NotMasked == issue => ~lastUpdateSuccess
===============================================================================
