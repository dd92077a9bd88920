--------------------------------- MODULE Levels --------------------------------
(***************************************************************************)
(* What values become on their way between Home Assistant and the bridge:  *)
(* the level of an exported light (state_mapping.py, protocol.py), the     *)
(* brightness of an imported lamp (web_client.py, light.py) and the names  *)
(* of imported channels (naming.py).  One change is followed to its end    *)
(* before the next; EchoGuard and DeviceStates let them overtake.          *)
(*                                                                         *)
(* Levels of the bridge's devices are counted in tenths of a percent, of   *)
(* its lamps in hundredths.  Colours are left out.                         *)
(***************************************************************************)
EXTENDS NoValue, Integers, FiniteSets, Sequences

CONSTANTS
  Levels,      \* tenths of a percent the bridge may set a device to
  Lamps,       \* hundredths of a percent the bridge may set a lamp to
  Bases,       \* what a channel is called, but for case and value ranges
  Ranges,      \* value ranges
  MaxRanges,   \* bound: ranges in a name
  MaxChannels  \* bound: channels of a device

LevelsAssumption ==
  /\ Levels \subseteq 0..1000 /\ Lamps \subseteq 0..10000
  /\ None \notin Int
  /\ MaxRanges \in Nat /\ MaxChannels \in Nat

VARIABLES
  subject,     \* what a behaviour is about: "export", "import" or "names"
  exported,    \* the state of the exported light
  device,      \* the level of its device at the bridge
  lamp,        \* the brightness of the lamp, None when it is not a number
  known,       \* what the last poll said of it, None when nothing
  shown,       \* what its entity shows
  dimmed,      \* the brightness it was last turned on with
  channels     \* the names of an imported device's channels

levelVars == <<subject, exported, device, lamp, known, shown, dimmed, channels>>

Brightness == 0..255
LightState == [on : BOOLEAN, brightness : Brightness \union {None}]
Off == [on |-> FALSE, brightness |-> None]

Case == {"lower", "upper"}

(* A name, or the key of a channel that has none: a base, value ranges or  *)
(* both.  The pattern reads whatever follows a range and a blank as its    *)
(* unit, so all but the last of several ranges here are without one.       *)
ChannelName ==
  {n \in [base : Bases \union {None}, case : Case,
          ranges : UNION {[1..k -> Ranges] : k \in 0..MaxRanges}] :
     n.base # None \/ Len(n.ranges) > 0}

LevelsTypeOK ==
  /\ subject \in {"export", "import", "names"}
  /\ exported \in LightState /\ device \in 0..1000
  /\ {lamp, known} \subseteq 0..10000 \union {None}
  /\ shown \in [on : BOOLEAN \union {None}, brightness : Brightness \union {None}]
  /\ dimmed \in Brightness \union {None}
  /\ channels \in Seq(ChannelName)

LevelsInit ==
  /\ exported = Off /\ device = 0
  /\ lamp = 0 /\ known = None /\ dimmed = None
  /\ shown = [on |-> None, brightness |-> None]
  /\ \/ subject \in {"export", "import"} /\ channels = <<>>
     \/ subject = "names" /\ channels \in [1..MaxChannels -> ChannelName]

-------------------------------------------------------------------------------
(* Python's round(): a half goes to the even number. *)
Round(n, d) ==
  LET q == n \div d
      r == n % d
  IN IF 2 * r > d \/ (2 * r = d /\ q % 2 = 1) THEN q + 1 ELSE q

AtLeast(n, m) == IF n < m THEN m ELSE n
Within(n, m) == IF n > m THEN m ELSE n

(* Mutant of LightStateToP44: a light that is hardly on counts as off. *)
LightStateToP44Unbounded(s) ==
  IF ~s.on THEN 0
  ELSE IF s.brightness = None THEN 100
  ELSE Round(s.brightness * 100, 255)

(* light_state_to_p44_value *)
LightStateToP44(s) ==
  IF ~s.on THEN 0
  ELSE IF s.brightness = None THEN 100
  ELSE AtLeast(Within(Round(s.brightness * 100, 255), 100), 1)

(* Mutant of P44ToBrightness: the brightness of Home Assistant ends at 255. *)
P44ToBrightness256(level) == Round((level \div 10) * 256, 100)

(* p44_value_to_brightness: int() drops the fraction of a percent. *)
P44ToBrightness(level) ==
  LET percent == Within(level \div 10, 100)
  IN IF percent = 0 THEN 0 ELSE AtLeast(Round(percent * 255, 100), 1)

(* parse_incoming_message and async_apply_reverse_command; Home Assistant  *)
(* turns a light off that is turned on with brightness 0.                  *)
Commanded(level) ==
  IF level <= 0 \/ P44ToBrightness(level) = 0 THEN Off
  ELSE [on |-> TRUE, brightness |-> P44ToBrightness(level)]

(* ha_state_to_core and state_to_messages. *)
UserSets(s) ==
  /\ subject = "export"
  /\ exported' = s
  /\ device' = 10 * LightStateToP44(s)
  /\ UNCHANGED <<subject, lamp, known, shown, dimmed, channels>>

DeviceSets(level) ==
  /\ subject = "export"
  /\ device' = level
  /\ exported' = Commanded(level)
  /\ UNCHANGED <<subject, lamp, known, shown, dimmed, channels>>

-------------------------------------------------------------------------------
(* The imported lamp *)

(* Plan44RestLight._handle_update *)
Shown(level) ==
  IF level = None THEN [on |-> None, brightness |-> None]
  ELSE [on |-> level > 0, brightness |-> Round(level * 255, 10000)]

(* A poll; a value that is not finite counts as none. *)
Poll ==
  /\ subject = "import"
  /\ known' = lamp /\ shown' = Shown(lamp)
  /\ UNCHANGED <<subject, exported, device, lamp, dimmed, channels>>

LampSets(level) ==
  /\ subject = "import"
  /\ lamp' = level /\ dimmed' = None
  /\ UNCHANGED <<subject, exported, device, known, shown, channels>>

(* Mutant of Percent: whole percents. *)
PercentWhole(b) == 100 * Round(b * 100, 255)

Percent(b) == Round(b * 10000, 255)

(* async_turn_on; no channel to set means no request and no refresh. *)
TurnOn(b) ==
  /\ subject = "import"
  /\ b # None \/ known \in {0, None}
  /\ lamp' = IF b = None THEN 10000 ELSE Percent(b)
  /\ known' = lamp' /\ shown' = Shown(lamp')
  /\ dimmed' = b
  /\ UNCHANGED <<subject, exported, device, channels>>

TurnOff ==
  /\ subject = "import"
  /\ lamp' = 0 /\ known' = 0 /\ shown' = Shown(0) /\ dimmed' = None
  /\ UNCHANGED <<subject, exported, device, channels>>

LevelsNext ==
  \/ \E s \in LightState : UserSets(s)
  \/ \E level \in Levels : DeviceSets(level)
  \/ \E level \in Lamps \union {None} : LampSets(level)
  \/ \E b \in 1..255 \union {None} : TurnOn(b)
  \/ Poll \/ TurnOff

LevelsSpec == LevelsInit /\ [][LevelsNext]_levelVars

-------------------------------------------------------------------------------
(* Names *)

(* display_name: the range at the end is cut off; a name that is nothing   *)
(* but a range is kept.                                                    *)
DisplayName(n) ==
  IF n.base = None /\ Len(n.ranges) = 1 THEN n
  ELSE [n EXCEPT !.ranges = SubSeq(@, 1, Len(@) - 1)]

(* casefold() *)
Folded(n) == [n EXCEPT !.case = "lower"]

(* Mutant of Collide: names that differ in case are different. *)
CollideExactly(m, n) == m = n

Collide(m, n) == Folded(m) = Folded(n)

(* display_names *)
DisplayNames(names) ==
  [i \in DOMAIN names |->
     IF \E j \in DOMAIN names \ {i} :
          Collide(DisplayName(names[i]), DisplayName(names[j]))
     THEN names[i]
     ELSE DisplayName(names[i])]

Distinct(names) == Cardinality({Folded(names[i]) : i \in DOMAIN names}) = Len(names)

-------------------------------------------------------------------------------
(* Properties                                                              *)

(* A device set in whole percents keeps its level when the state of its    *)
(* light is forwarded again, a fraction of a percent is all that is ever   *)
(* lost, and light and device are both on or both off; but for a level     *)
(* above 0 and below one percent, which turns the light off.               *)
LevelKept ==
  device = 0 \/ device >= 10 =>
    /\ exported.on <=> device > 0
    /\ 10 * LightStateToP44(exported) = device - (device % 10)

(* A lamp turned on with some brightness shows that brightness after the   *)
(* next poll: conversion to percent and back moves no slider.              *)
SliderStays == dimmed # None /\ known = lamp => shown = [on |-> TRUE, brightness |-> dimmed]

(* No two channels collide for being displayed, as the docstring of        *)
(* display_names has it.  The code breaks it: what is left of a name with  *)
(* two ranges may be the name another channel has kept.                    *)
NamesDistinct == Distinct(channels) => Distinct(DisplayNames(channels))

(* Channels whose names differ for an entity id still do when displayed,   *)
(* as long as no shortened name could be shortened again: a name kept for  *)
(* its range and one made by leaving a range out never meet.               *)
CleanNamesDistinct ==
  /\ Distinct(channels)
  /\ \A i \in DOMAIN channels :
       DisplayName(DisplayName(channels[i])) = DisplayName(channels[i])
  => Distinct(DisplayNames(channels))
===============================================================================
