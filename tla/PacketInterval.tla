---------------------------- MODULE PacketInterval -----------------------------
(***************************************************************************)
(* The radio link of a device as the polls see it: the bridge tells how    *)
(* long ago it received the last packet, the integration makes a time of   *)
(* it when the reply arrives, and the time between two packets from two of *)
(* these (web_client.py, device_coordinator.py), which the diagnostic      *)
(* entities show (radio.py, sensor.py).                                    *)
(*                                                                         *)
(* Time is counted in ticks and does not jump.                             *)
(***************************************************************************)
EXTENDS NoValue, Integers

CONSTANTS
  Jitter,     \* _LAST_PACKET_JITTER
  Transit,    \* how long a reply may be on its way
  MaxTime     \* bound: ticks in a behaviour

RadioAssumption ==
  /\ None \notin Int
  /\ {Jitter, Transit, MaxTime} \subseteq Nat /\ Transit <= Jitter

VARIABLES
  now,        \* the clock
  packets,    \* when the bridge received packets
  last,       \* when it received the last of them since it has started
  listed,     \* the bridge has the device
  reply,      \* the reply on its way: what it says, or None
  radio,      \* the RadioState in self.data, or None
  success,    \* self.last_update_success
  entity      \* what the entities of the device show, None before they exist

radioVars == <<now, packets, last, listed, reply, radio, success, entity>>

Time == 0..MaxTime
Interval == 1..MaxTime

RadioState == [last : Time \union {None}, interval : Interval \union {None}]
Absent == [age |-> None, listed |-> FALSE, at |-> None]

RadioTypeOK ==
  /\ now \in Time /\ packets \subseteq Time /\ last \in packets \union {None}
  /\ listed \in BOOLEAN /\ success \in BOOLEAN
  /\ reply \in [age : Time \union {None}, listed : BOOLEAN, at : Time] \union {None}
  /\ radio \in RadioState \union {None}
  /\ entity \in [available : BOOLEAN, state : RadioState] \union {None}

RadioInit ==
  /\ now = 0 /\ packets = {} /\ last = None /\ listed \in BOOLEAN
  /\ reply = None /\ radio = None /\ success = TRUE /\ entity = None

TimePasses ==
  /\ now < MaxTime /\ now' = now + 1
  /\ reply # None => now < reply.at + Transit
  /\ UNCHANGED <<packets, last, listed, reply, radio, success, entity>>

PacketReceived ==
  /\ listed
  /\ packets' = packets \union {now} /\ last' = now
  /\ UNCHANGED <<now, listed, reply, radio, success, entity>>

(* vdcd restarts and knows of no packet, or the device is taught in or out. *)
BridgeChanges ==
  /\ last' = None /\ listed' \in BOOLEAN
  /\ UNCHANGED <<now, packets, reply, radio, success, entity>>

(* _RADIO_QUERY is answered. *)
Reply ==
  /\ reply = None
  /\ reply' = [age |-> IF last = None THEN None ELSE now - last,
               listed |-> listed, at |-> now]
  /\ UNCHANGED <<now, packets, last, listed, radio, success, entity>>

-------------------------------------------------------------------------------
(* The poll *)

(* parse_radio_states *)
Parsed(age) ==
  [last |-> IF age = None THEN None ELSE now - age, interval |-> None]

Abs(n) == IF n < 0 THEN -n ELSE n

(* Mutant of SamePacket: only the very same time is the same packet. *)
SamePacketExactly(previous, current) == current = previous

(* Mutant of SamePacket: any time after the first is the same packet. *)
SamePacketAlways(previous, current) == TRUE

SamePacket(previous, current) == Abs(current - previous) <= Jitter

(* steady_last_packet *)
Steady(previous, current) ==
  IF /\ previous # None
     /\ previous.last # None /\ current.last # None
     /\ SamePacket(previous.last, current.last)
  THEN [current EXCEPT !.last = previous.last]
  ELSE current

(* Mutant of WithPacketInterval: the same packet again counts as well. *)
WithAnyInterval(previous, current) ==
  IF previous = None THEN current
  ELSE [current EXCEPT !.interval =
          IF /\ current.last # None /\ previous.last # None
             /\ current.last >= previous.last
          THEN current.last - previous.last
          ELSE previous.interval]

WithPacketInterval(previous, current) ==
  IF previous = None THEN current
  ELSE [current EXCEPT !.interval =
          IF /\ current.last # None /\ previous.last # None
             /\ current.last > previous.last
          THEN current.last - previous.last
          ELSE previous.interval]

(* Plan44RadioEntity._handle_update; setup_radio_entities adds entities as  *)
(* soon as there is a state, and they stay.                                *)
Listeners ==
  entity' =
    IF radio' # None THEN [available |-> success', state |-> radio']
    ELSE IF entity = None THEN None
    ELSE [entity EXCEPT !.available = FALSE]

(* The rest of _async_update_data. *)
Arrived ==
  /\ reply # None /\ reply' = None
  /\ LET current == Parsed(reply.age)
     IN radio' = IF reply.listed
                 THEN WithPacketInterval(radio, Steady(radio, current))
                 ELSE None
  /\ success' = TRUE
  /\ Listeners
  /\ UNCHANGED <<now, packets, last, listed>>

(* The request fails, and self.data stays what it is. *)
PollFails ==
  /\ reply' = None /\ success' = FALSE
  /\ UNCHANGED radio
  /\ Listeners
  /\ UNCHANGED <<now, packets, last, listed>>

RadioNext ==
  TimePasses \/ PacketReceived \/ BridgeChanges \/ Reply \/ Arrived \/ PollFails

RadioSpec == RadioInit /\ [][RadioNext]_radioVars

-------------------------------------------------------------------------------
(* Properties                                                              *)

(* The packet interval an entity shows is, but for the time a reply takes, *)
(* the time between two packets the bridge has really received: a packet   *)
(* seen by several polls is never taken for two, through failed polls,     *)
(* restarts of the bridge and devices that come and go.                    *)
RealInterval ==
  entity # None /\ entity.state.interval # None =>
    \E p, q \in packets :
      p < q /\ Abs(entity.state.interval - (q - p)) <= Transit

(* After a poll, the last packet shown is the last one the bridge had, or  *)
(* one at most _LAST_PACKET_JITTER before it, and never a later time than  *)
(* the arrival of the reply that told of it.                               *)
LastPacketFresh ==
  [][Arrived /\ entity' # None /\ entity'.available =>
       LET told == reply.at - reply.age
           seen == entity'.state.last
       IN IF reply.age = None THEN seen = None
          ELSE seen \in (told - Jitter)..(told + Transit)]_radioVars
===============================================================================
