------------------------------- MODULE EchoGuard -------------------------------
(***************************************************************************)
(* The two cool-downs between an exported entity and its device on the     *)
(* bridge (coordinator.py, async_forward_entity_state and                  *)
(* async_apply_reverse_command), one entity, one connection that stays up. *)
(*                                                                         *)
(* A state change of the entity is forwarded by a task of its own; a       *)
(* command of the bridge is applied by the reader, one at a time, through  *)
(* a blocking service call, during or after which the entity changes.      *)
(* Ages are counted in ticks, up to the longer of the cool-downs.          *)
(***************************************************************************)
EXTENDS NoValue, Naturals, Sequences

CONSTANTS
  Value,       \* states of the entity and values of its device
  Forward,     \* FORWARD_COOLDOWN_SECONDS, in ticks
  Reverse,     \* REVERSE_COOLDOWN_SECONDS, in ticks
  MaxChanges,  \* bound: changes by users, at either side
  MaxLines     \* bound: lines on their way in one direction

CooldownAssumption ==
  /\ None \notin Value \union [value : Value, age : Nat, applied : BOOLEAN]
  /\ Forward \in Nat /\ Reverse \in Nat /\ MaxChanges \in Nat /\ MaxLines \in Nat

VARIABLES
  state,      \* the state of the entity
  channel,    \* the value the device has on the bridge
  toBridge,   \* lines sent and not yet received
  toHa,       \* commands sent and not yet read
  forwards,   \* forwards inside async_push_state_messages; the first has sent
  command,    \* the command whose service call is under way, or None
  late,       \* what the entity will still become by an earlier call, or None
  origin,     \* self._last_origin_by_entity[entity_id]
  age,        \* how long ago self._last_write_ts_by_entity[entity_id] is
  dropped,    \* a cool-down has dropped something
  changes     \* changes by users so far

lines == <<toBridge, toHa>>
record == <<origin, age>>
echoVars == <<state, channel, lines, forwards, command, late, record, dropped, changes>>

Longest == IF Forward >= Reverse THEN Forward ELSE Reverse

Age == 0..Longest

(* A forward with the state it read and how long ago it did. *)
ForwardTask == [value : Value, age : Age]

EchoTypeOK ==
  /\ state \in Value /\ channel \in Value
  /\ toBridge \in Seq(Value) /\ toHa \in Seq(Value)
  /\ forwards \in Seq(ForwardTask)
  /\ command \in [value : Value, age : Age, applied : BOOLEAN] \union {None}
  /\ late \in Value \union {None}
  /\ origin \in {"ha", "p44", None}
  /\ age \in Age
  /\ dropped \in BOOLEAN
  /\ changes \in 0..MaxChanges

(* Registered, with nothing written yet in either direction *)
EchoInit ==
  /\ state \in Value /\ channel = state
  /\ toBridge = <<>> /\ toHa = <<>> /\ forwards = <<>>
  /\ command = None /\ late = None
  /\ origin = None /\ age = Longest
  /\ dropped = FALSE /\ changes = 0

-------------------------------------------------------------------------------
(* async_forward_entity_state *)

(* Mutant of Send: a state is skipped while another is being sent. *)
SendUnlessBusy(v) ==
  /\ Len(toBridge) < MaxLines
  /\ forwards' = IF forwards = <<>> THEN <<[value |-> v, age |-> 0]>> ELSE forwards
  /\ toBridge' = IF forwards = <<>> THEN Append(toBridge, v) ELSE toBridge

(* Mutant of Send: a state that could not be converted is sent as well. *)
SendUnconverted(v) ==
  /\ Len(toBridge) < MaxLines
  /\ \E message \in {v, None} :
       /\ forwards' = Append(forwards, [value |-> message, age |-> 0])
       /\ toBridge' = IF forwards = <<>> THEN Append(toBridge, message) ELSE toBridge

(* The state read is sent as soon as the write lock is free. *)
Send(v) ==
  /\ Len(toBridge) < MaxLines
  /\ forwards' = Append(forwards, [value |-> v, age |-> 0])
  /\ toBridge' = IF forwards = <<>> THEN Append(toBridge, v) ELSE toBridge

ForwardSuppressed == origin = "p44" /\ age < Forward

(* The state changes, for which the listener starts a forward. *)
Becomes(v) ==
  /\ state' = v
  /\ IF v = state
     THEN UNCHANGED <<toBridge, forwards, dropped>>
     ELSE IF ForwardSuppressed
          THEN dropped' = TRUE /\ UNCHANGED <<toBridge, forwards>>
          ELSE Send(v) /\ UNCHANGED dropped

UserSets(v) ==
  /\ changes < MaxChanges /\ changes' = changes + 1
  /\ v # state
  /\ Becomes(v)
  /\ UNCHANGED <<channel, toHa, command, late, record>>

(* force: a republish or the service push_entity_state *)
ForcedForward ==
  /\ changes < MaxChanges /\ changes' = changes + 1
  /\ Send(state)
  /\ UNCHANGED <<state, channel, toHa, command, late, record, dropped>>

(* drain() returns; the time recorded is the one the forward began at. The *)
(* next forward has the lock.                                              *)
ForwardDone ==
  /\ forwards # <<>>
  /\ origin' = "ha" /\ age' = Head(forwards).age
  /\ forwards' = Tail(forwards)
  /\ IF Len(forwards) = 1
     THEN UNCHANGED toBridge
     ELSE Len(toBridge) < MaxLines /\ toBridge' = Append(toBridge, forwards[2].value)
  /\ UNCHANGED <<state, channel, toHa, command, late, dropped, changes>>

-------------------------------------------------------------------------------
(* async_apply_reverse_command *)

ReverseSuppressed == origin = "ha" /\ age < Reverse

CommandRead ==
  /\ command = None /\ toHa # <<>>
  /\ toHa' = Tail(toHa)
  /\ IF ReverseSuppressed
     THEN dropped' = TRUE /\ UNCHANGED command
     ELSE /\ command' = [value |-> Head(toHa), age |-> 0, applied |-> FALSE]
          /\ UNCHANGED dropped
  /\ UNCHANGED <<state, channel, toBridge, forwards, late, record, changes>>

(* The entity changes while the service call is under way. *)
ServiceApplies ==
  /\ command # None /\ ~command.applied
  /\ command' = [command EXCEPT !.applied = TRUE]
  /\ Becomes(command.value)
  /\ UNCHANGED <<channel, toHa, late, record, changes>>

ServiceReturns ==
  /\ command # None
  /\ command' = None
  /\ origin' = "p44" /\ age' = command.age
  /\ late' = IF command.applied THEN late ELSE command.value
  /\ UNCHANGED <<state, channel, lines, forwards, dropped, changes>>

(* The entity changes after the call, when it hears from its device. *)
LateEffect ==
  /\ late # None
  /\ late' = None
  /\ Becomes(late)
  /\ UNCHANGED <<channel, toHa, command, record, changes>>

-------------------------------------------------------------------------------
(* The bridge *)

BridgeSets(v) ==
  /\ changes < MaxChanges /\ changes' = changes + 1
  /\ v # channel /\ Len(toHa) < MaxLines
  /\ channel' = v
  /\ toHa' = Append(toHa, v)
  /\ UNCHANGED <<state, toBridge, forwards, command, late, record, dropped>>

BridgeReceives ==
  /\ toBridge # <<>>
  /\ channel' = Head(toBridge)
  /\ toBridge' = Tail(toBridge)
  /\ UNCHANGED <<state, toHa, forwards, command, late, record, dropped, changes>>

-------------------------------------------------------------------------------
Older(n) == IF n < Longest THEN n + 1 ELSE Longest

Tick ==
  /\ age' = Older(age)
  /\ forwards' = [i \in DOMAIN forwards |->
                    [forwards[i] EXCEPT !.age = Older(@)]]
  /\ command' = IF command = None THEN None ELSE [command EXCEPT !.age = Older(@)]
  /\ UNCHANGED <<state, channel, lines, late, origin, dropped, changes>>

EchoNext ==
  \/ \E v \in Value : UserSets(v) \/ BridgeSets(v)
  \/ ForcedForward \/ ForwardDone
  \/ CommandRead \/ ServiceApplies \/ ServiceReturns \/ LateEffect
  \/ BridgeReceives \/ Tick

EchoSpec == EchoInit /\ [][EchoNext]_echoVars

-------------------------------------------------------------------------------
(* Properties                                                              *)

NothingUnderWay ==
  /\ toBridge = <<>> /\ toHa = <<>> /\ forwards = <<>>
  /\ command = None /\ late = None

(* Bidirectional control: however forwards and commands overtake each      *)
(* other, entity and device agree in the end, unless a cool-down has       *)
(* dropped a forward or a command.                                         *)
InSync == NothingUnderWay => state = channel \/ dropped
===============================================================================
