--------------------------- MODULE Conversions_proofs --------------------------
(***************************************************************************)
(* What PacketInterval and Levels promise of the values they convert: the  *)
(* one for any jitter, any transit time within it and any length of a      *)
(* behaviour, the other for any levels the bridge may set, in any order,   *)
(* and any number of channels with any names.                              *)
(***************************************************************************)
EXTENDS PacketInterval, Levels, FiniteSetTheorems, TLAPS

(***************************************************************************)
(* PacketInterval                                                          *)
(***************************************************************************)
(* The time told of a packet differs from the packet's by the transit.     *)
Seen(t) == \E p \in packets : p <= t /\ t <= p + Transit

Real(interval) ==
  \E p, q \in packets : p < q /\ Abs(interval - (q - p)) <= Transit

Past ==
  /\ \A p \in packets : p <= now
  /\ reply # None => reply.at <= now /\ now <= reply.at + Transit

(* What the reply and the radio state say of packets. *)
Told == reply.at - reply.age

ToldOf ==
  reply # None /\ reply.age # None =>
    Told \in packets /\ (last # None => Told <= last)

RadioSeen == radio # None /\ radio.last # None => Seen(radio.last) /\ radio.last <= now

RadioReal == radio # None /\ radio.interval # None => Real(radio.interval)

(* The state kept is of no later packet than the bridge's last one, nor    *)
(* than the one on its way.                                                *)
NoneLater ==
  radio # None /\ radio.last # None =>
    /\ last # None => radio.last <= last + Transit
    /\ reply # None /\ reply.age # None => radio.last <= Told + Transit

Inv == RadioTypeOK /\ Past /\ ToldOf /\ RadioSeen /\ RadioReal /\ NoneLater /\ RealInterval

-------------------------------------------------------------------------------
(* The two functions a poll applies *)

LEMMA Delays ==
  ASSUME RadioAssumption
  PROVE  /\ Jitter \in Nat /\ Transit \in Nat /\ MaxTime \in Nat
         /\ Transit <= Jitter /\ None \notin Int
BY DEF RadioAssumption

LEMMA AbsBound ==
  ASSUME NEW n \in Int, NEW b \in Int
  PROVE  Abs(n) <= b <=> -b <= n /\ n <= b
BY DEF Abs

LEMMA SteadyIs ==
  ASSUME RadioAssumption, NEW p \in RadioState \union {None}, NEW c \in RadioState
  PROVE  /\ Steady(p, c) \in RadioState
         /\ Steady(p, c).interval = c.interval
         /\ \/ Steady(p, c).last = c.last
            \/ /\ p # None /\ p.last # None /\ c.last # None
               /\ Steady(p, c).last = p.last
               /\ Abs(c.last - p.last) <= Jitter
         /\ p # None /\ p.last # None /\ c.last # None
              /\ Abs(c.last - p.last) <= Jitter => Steady(p, c).last = p.last
<1>1. CASE /\ p # None
           /\ p.last # None /\ c.last # None
           /\ SamePacket(p.last, c.last)
  <2>1. Steady(p, c) = [c EXCEPT !.last = p.last]
    BY <1>1 DEF Steady
  <2>2. p.last \in Time
    BY <1>1 DEF RadioState
  <2> QED
    BY <1>1, <2>1, <2>2 DEF RadioState, SamePacket
<1>2. CASE ~(/\ p # None
             /\ p.last # None /\ c.last # None
             /\ SamePacket(p.last, c.last))
  <2>1. Steady(p, c) = c
    BY <1>2 DEF Steady
  <2> QED
    BY <1>2, <2>1 DEF SamePacket
<1> QED
  BY <1>1, <1>2

LEMMA IntervalIs ==
  ASSUME RadioAssumption, NEW p \in RadioState \union {None}, NEW c \in RadioState,
         c.interval = None
  PROVE  LET r == WithPacketInterval(p, c)
         IN /\ r \in RadioState /\ r.last = c.last
            /\ \/ r.interval = None
               \/ p # None /\ r.interval = p.interval
               \/ /\ p # None /\ p.last # None /\ c.last # None /\ c.last > p.last
                  /\ r.interval = c.last - p.last
<1> DEFINE r == WithPacketInterval(p, c)
<1>1. CASE p = None
  BY <1>1 DEF WithPacketInterval
<1>2. CASE p # None /\ c.last # None /\ p.last # None /\ c.last > p.last
  <2>1. r = [c EXCEPT !.interval = c.last - p.last]
    BY <1>2 DEF WithPacketInterval
  <2>2. c.last \in Time /\ p.last \in Time
    BY <1>2 DEF RadioState
  <2>3. c.last - p.last \in Interval
    BY <1>2, <2>2, Delays DEF Time, Interval
  <2> QED
    BY <1>2, <2>1, <2>3 DEF RadioState
<1>3. CASE p # None /\ ~(c.last # None /\ p.last # None /\ c.last > p.last)
  <2>1. r = [c EXCEPT !.interval = p.interval]
    BY <1>3 DEF WithPacketInterval
  <2>2. p.interval \in Interval \union {None}
    BY <1>3 DEF RadioState
  <2> QED
    BY <1>3, <2>1, <2>2 DEF RadioState
<1> QED
  BY <1>1, <1>2, <1>3

(* A time that is not taken for that of the packet known before is one of  *)
(* a later packet, at the distance of the two packets.                     *)
LEMMA TwoPackets ==
  ASSUME RadioAssumption, NEW a \in Int, NEW b \in Int, NEW p \in Int, NEW q \in Int,
         p <= a, a <= p + Transit, q <= b, b <= q + Transit,
         b > a, ~(Abs(b - a) <= Jitter)
  PROVE  p < q /\ Abs((b - a) - (q - p)) <= Transit
<1>1. Jitter \in Nat /\ Transit \in Nat /\ Transit <= Jitter
  BY Delays
<1>2. b - a > Jitter
  BY <1>1 DEF Abs
<1>3. p < q
  BY <1>1, <1>2
<1>4. (b - a) - (q - p) <= Transit /\ -Transit <= (b - a) - (q - p)
  BY <1>1
<1> QED
  BY <1>1, <1>3, <1>4, AbsBound

-------------------------------------------------------------------------------
(* The answer to a poll *)

LEMMA ParsedIs ==
  ASSUME RadioAssumption, Inv, reply # None
  PROVE  LET c == Parsed(reply.age)
         IN /\ c \in RadioState /\ c.interval = None
            /\ reply.age = None => c.last = None
            /\ reply.age # None =>
                 /\ c.last = now - reply.age /\ c.last <= now
                 /\ Told <= c.last /\ c.last <= Told + Transit
                 /\ Told \in packets /\ Told \in Int
<1> DEFINE c == Parsed(reply.age)
<1>1. c = [last |-> IF reply.age = None THEN None ELSE now - reply.age,
           interval |-> None]
  BY DEF Parsed
<1>2. CASE reply.age = None
  BY <1>1, <1>2 DEF RadioState
<1>3. CASE reply.age # None
  <2>1. reply.age \in Time /\ reply.at \in Time /\ now \in Time
    BY <1>3 DEF Inv, RadioTypeOK
  <2>2. Told \in packets /\ Told \in Time
    BY <1>3 DEF Inv, ToldOf, RadioTypeOK
  <2>3. reply.at <= now /\ now <= reply.at + Transit
    BY DEF Inv, Past
  <2>4. Transit \in Nat /\ MaxTime \in Nat
    BY Delays
  <2>5. Told = reply.at - reply.age
    BY DEF Told
  <2>6. /\ now - reply.age \in Time /\ now - reply.age <= now
        /\ Told <= now - reply.age /\ now - reply.age <= Told + Transit
    BY <2>1, <2>2, <2>3, <2>4, <2>5 DEF Time
  <2>7. Told \in Int
    BY <2>2, <2>4 DEF Time
  <2>8. c.last = now - reply.age /\ c.interval = None /\ c \in RadioState
    BY <1>1, <1>3, <2>6 DEF RadioState
  <2> QED
    BY <1>3, <2>2, <2>6, <2>7, <2>8
<1> QED
  BY <1>2, <1>3

LEMMA ArrivedIs ==
  ASSUME RadioAssumption, Inv, Arrived, radio' # None
  PROVE  /\ radio' \in RadioState
         /\ radio'.interval # None => Real(radio'.interval)
         /\ radio'.last # None => Seen(radio'.last) /\ radio'.last <= now
         /\ IF reply.age = None THEN radio'.last = None
            ELSE /\ radio'.last \in (Told - Jitter)..(Told + Transit)
                 /\ Told \in Int
<1> DEFINE c == Parsed(reply.age)
           s == Steady(radio, c)
<1>a. reply # None
  BY DEF Arrived
<1>b. radio' = WithPacketInterval(radio, s)
  BY DEF Arrived
<1>c. /\ c \in RadioState /\ c.interval = None
      /\ reply.age = None => c.last = None
      /\ reply.age # None =>
           /\ c.last = now - reply.age /\ c.last <= now
           /\ Told <= c.last /\ c.last <= Told + Transit
           /\ Told \in packets /\ Told \in Int
  BY <1>a, ParsedIs
<1>d. radio \in RadioState \union {None}
  BY DEF Inv, RadioTypeOK
<1>e. Jitter \in Nat /\ Transit \in Nat /\ Transit <= Jitter /\ MaxTime \in Nat
      /\ None \notin Int
  BY Delays
<1>f. \A p \in packets : p \in Int
  BY <1>e DEF Inv, RadioTypeOK, Time
<1>g. now \in Int
  BY <1>e DEF Inv, RadioTypeOK, Time
<1>h. c.last # None => c.last \in Int
  BY <1>c, <1>e DEF RadioState, Time
<1>i. radio # None /\ radio.last # None =>
        radio.last \in Int /\ Seen(radio.last) /\ radio.last <= now
  BY <1>d, <1>e DEF Inv, RadioSeen, RadioState, Time
<1> HIDE DEF c
<1>j. /\ s \in RadioState /\ s.interval = None
      /\ \/ s.last = c.last
         \/ /\ radio # None /\ radio.last # None /\ c.last # None
            /\ s.last = radio.last /\ Abs(c.last - radio.last) <= Jitter
      /\ radio # None /\ radio.last # None /\ c.last # None
           /\ Abs(c.last - radio.last) <= Jitter => s.last = radio.last
  BY <1>c, <1>d, SteadyIs
<1> HIDE DEF s
<1>k. /\ radio' \in RadioState /\ radio'.last = s.last
      /\ \/ radio'.interval = None
         \/ radio # None /\ radio'.interval = radio.interval
         \/ /\ radio # None /\ radio.last # None /\ s.last # None
            /\ s.last > radio.last /\ radio'.interval = s.last - radio.last
  BY <1>b, <1>d, <1>j, IntervalIs
<1>1. c.last # None => Seen(c.last) /\ c.last <= now
  BY <1>c DEF Seen
<1>2. s.last # None => Seen(s.last) /\ s.last <= now
  BY <1>1, <1>i, <1>j
<1>3. radio'.interval # None => Real(radio'.interval)
  <2>1. CASE radio # None /\ radio'.interval = radio.interval
    BY <2>1 DEF Inv, RadioReal
  <2>2. CASE /\ radio # None /\ radio.last # None /\ s.last # None
             /\ s.last > radio.last /\ radio'.interval = s.last - radio.last
    <3>1. s.last = c.last /\ c.last # None
      BY <1>i, <1>j, <2>2
    <3>2. ~(Abs(c.last - radio.last) <= Jitter)
      BY <1>i, <1>j, <2>2, <3>1
    <3>3. PICK p \in packets : p <= radio.last /\ radio.last <= p + Transit
      BY <1>i, <2>2 DEF Seen
    <3>4. PICK q \in packets : q <= c.last /\ c.last <= q + Transit
      BY <1>1, <3>1 DEF Seen
    <3>5. /\ c.last \in Int /\ radio.last \in Int /\ p \in Int /\ q \in Int
          /\ c.last > radio.last
      BY <1>f, <1>h, <1>i, <2>2, <3>1
    <3>6. p < q /\ Abs((c.last - radio.last) - (q - p)) <= Transit
      BY <3>2, <3>3, <3>4, <3>5, TwoPackets
    <3> QED
      BY <2>2, <3>1, <3>6 DEF Real
  <2> QED
    BY <1>k, <2>1, <2>2
<1>4. ASSUME reply.age # None
      PROVE  radio'.last \in (Told - Jitter)..(Told + Transit)
  <2>1. c.last # None /\ c.last \in Int /\ Told \in Int
    BY <1>c, <1>h, <1>4, <1>e, <1>g, <1>a DEF Inv, RadioTypeOK, Time
  <2>2. CASE s.last = c.last
    BY <1>c, <1>e, <1>k, <1>4, <2>1, <2>2
  <2>3. CASE /\ radio # None /\ radio.last # None
             /\ s.last = radio.last /\ Abs(c.last - radio.last) <= Jitter
    <3>1. radio.last <= Told + Transit
      BY <1>a, <1>4, <2>3 DEF Inv, NoneLater
    <3>2. radio.last \in Int
      BY <1>i, <2>3
    <3>3. c.last - radio.last <= Jitter
      BY <1>e, <2>1, <2>3, <3>2 DEF Abs
    <3>4. radio.last >= Told - Jitter
      BY <1>c, <1>e, <1>4, <2>1, <3>2, <3>3
    <3> QED
      BY <1>e, <1>k, <2>1, <2>3, <3>1, <3>2, <3>4
  <2> QED
    BY <1>j, <2>1, <2>2, <2>3
<1>5. reply.age = None => radio'.last = None
  BY <1>c, <1>j, <1>k
<1> QED
  BY <1>2, <1>3, <1>4, <1>5, <1>k, <1>c

-------------------------------------------------------------------------------
(* The steps *)

LEMMA MorePackets ==
  ASSUME packets \subseteq packets'
  PROVE  /\ \A t : Seen(t) => Seen(t)'
         /\ \A t : Real(t) => Real(t)'
BY DEF Seen, Real

LEMMA ShownAreReal ==
  ASSUME Listeners, RealInterval, packets' = packets,
         radio' # None /\ radio'.interval # None => Real(radio'.interval)
  PROVE  RealInterval'
<1>1. CASE radio' # None
  <2>1. entity'.state = radio'
    BY <1>1 DEF Listeners
  <2> QED
    BY <1>1, <2>1 DEF RealInterval, Real
<1>2. CASE radio' = None /\ entity = None
  BY <1>2 DEF Listeners, RealInterval
<1>3. CASE radio' = None /\ entity # None
  <2>1. entity' = [entity EXCEPT !.available = FALSE]
    BY <1>3 DEF Listeners
  <2>2. entity'.state = entity.state
    BY <2>1
  <2> QED
    BY <1>3, <2>2 DEF RealInterval
<1> QED
  BY <1>1, <1>2, <1>3

LEMMA ShownTypes ==
  ASSUME RadioAssumption, RadioTypeOK, Listeners,
         radio' \in RadioState \union {None}, success' \in BOOLEAN
  PROVE  entity' \in [available : BOOLEAN, state : RadioState] \union {None}
BY DEF RadioTypeOK, Listeners

LEMMA InvStep == ASSUME RadioAssumption, Inv, [RadioNext]_radioVars PROVE Inv'
<1>a. Jitter \in Nat /\ Transit \in Nat /\ MaxTime \in Nat /\ None \notin Int
  BY Delays
<1>b. RadioTypeOK /\ Past /\ ToldOf /\ RadioSeen /\ RadioReal /\ NoneLater /\ RealInterval
  BY DEF Inv
<1>c. now \in Int /\ now >= 0 /\ now <= MaxTime
  BY <1>a, <1>b DEF RadioTypeOK, Time
<1>1. CASE TimePasses
  <2>1. now' \in Time
    BY <1>1, <1>a, <1>c DEF TimePasses, Time
  <2>2. RadioTypeOK'
    BY <1>1, <1>b, <2>1 DEF TimePasses, RadioTypeOK
  <2>3. \A p \in packets : p \in Int
    BY <1>a, <1>b DEF RadioTypeOK, Time
  <2>4. reply # None => reply.at \in Int
    BY <1>a, <1>b DEF RadioTypeOK, Time
  <2>5. Past'
    BY <1>1, <1>a, <1>b, <1>c, <2>3, <2>4 DEF TimePasses, Past
  <2>6. radio # None /\ radio.last # None => radio.last \in Int
    BY <1>a, <1>b DEF RadioTypeOK, RadioState, Time
  <2>7. RadioSeen'
    BY <1>1, <1>b, <1>c, <2>6 DEF TimePasses, RadioSeen, Seen
  <2> QED
    BY <1>1, <1>b, <2>2, <2>5, <2>7
    DEF TimePasses, Inv, ToldOf, Told, RadioReal, Real, NoneLater, RealInterval
<1>2. CASE PacketReceived
  <2>1. packets \subseteq packets'
    BY <1>2 DEF PacketReceived
  <2>2. RadioTypeOK'
    BY <1>2, <1>b DEF PacketReceived, RadioTypeOK
  <2>3. Past'
    BY <1>2, <1>b, <1>c DEF PacketReceived, Past
  <2>4. ToldOf'
    BY <1>2, <1>b, <2>1 DEF PacketReceived, ToldOf, Told, Past
  <2>5. RadioSeen' /\ RadioReal'
    BY <1>2, <1>b, <2>1, MorePackets DEF PacketReceived, RadioSeen, RadioReal
  <2>6. radio # None /\ radio.last # None => radio.last \in Int
    BY <1>a, <1>b DEF RadioTypeOK, RadioState, Time
  <2>7. radio # None /\ radio.last # None => radio.last <= now + Transit
    BY <1>a, <1>b, <1>c, <2>6 DEF RadioSeen
  <2>8. NoneLater'
    BY <1>2, <1>b, <2>7 DEF PacketReceived, NoneLater, Told
  <2>9. RealInterval'
    BY <1>2, <1>b, <2>1 DEF PacketReceived, RealInterval
  <2> QED
    BY <2>2, <2>3, <2>4, <2>5, <2>8, <2>9 DEF Inv
<1>3. CASE BridgeChanges
  <2>1. RadioTypeOK'
    BY <1>3, <1>b DEF BridgeChanges, RadioTypeOK
  <2> QED
    BY <1>3, <1>b, <2>1
    DEF BridgeChanges, Inv, Past, ToldOf, Told, RadioSeen, Seen, RadioReal, Real,
        NoneLater, RealInterval
<1>4. CASE Reply
  <2>1. last # None => last \in packets /\ last \in Int /\ last >= 0 /\ last <= now
    BY <1>a, <1>b DEF RadioTypeOK, Past, Time
  <2>2. last # None => now - last \in Time
    BY <1>c, <2>1, <1>a DEF Time
  <2>3. RadioTypeOK'
    BY <1>4, <1>b, <2>2 DEF Reply, RadioTypeOK
  <2>4. Past'
    BY <1>4, <1>a, <1>b, <1>c DEF Reply, Past
  <2>5. /\ last = None => reply'.age = None
        /\ last # None => reply'.age = now - last /\ reply'.at = now
    BY <1>4 DEF Reply
  <2>6. last # None => Told' = last
    BY <1>c, <2>1, <2>5 DEF Told
  <2>7. ToldOf'
    BY <1>4, <2>1, <2>5, <2>6 DEF Reply, ToldOf
  <2>8. NoneLater'
    BY <1>4, <1>b, <2>5, <2>6 DEF Reply, NoneLater
  <2> QED
    BY <1>4, <1>b, <2>3, <2>4, <2>7, <2>8
    DEF Reply, Inv, RadioSeen, Seen, RadioReal, Real, RealInterval
<1>5. CASE Arrived
  <2>1. reply' = None /\ UNCHANGED <<now, packets, last, listed>> /\ success' = TRUE
    BY <1>5 DEF Arrived
  <2>2. radio' # None =>
          /\ radio' \in RadioState
          /\ radio'.interval # None => Real(radio'.interval)
          /\ radio'.last # None => Seen(radio'.last) /\ radio'.last <= now
    BY <1>5, ArrivedIs
  <2>3. RadioTypeOK'
    BY <1>5, <1>b, <2>1, <2>2, ShownTypes DEF Arrived, RadioTypeOK
  <2>4. Past' /\ ToldOf'
    BY <1>b, <2>1 DEF Past, ToldOf
  <2>5. RadioSeen' /\ RadioReal'
    BY <2>1, <2>2 DEF RadioSeen, RadioReal, Seen, Real
  <2>6. RealInterval'
    BY <1>5, <1>b, <2>1, <2>2, ShownAreReal DEF Arrived
  <2>7. NoneLater'
    <3>1. SUFFICES ASSUME radio' # None, radio'.last # None, last # None
                   PROVE  radio'.last <= last + Transit
      BY <2>1 DEF NoneLater
    <3>2. /\ reply.age # None /\ Told \in Int
          /\ radio'.last \in (Told - Jitter)..(Told + Transit)
      BY <1>5, <3>1, ArrivedIs
    <3>3. Told <= last
      BY <1>5, <1>b, <2>1, <3>1, <3>2 DEF Arrived, ToldOf
    <3>4. last \in Int
      <4>1. packets \subseteq 0..MaxTime /\ last \in packets \union {None}
        BY <1>b DEF RadioTypeOK, Time
      <4> QED
        BY <1>a, <3>1, <4>1
    <3> QED
      BY <1>a, <3>2, <3>3, <3>4
  <2> QED
    BY <2>3, <2>4, <2>5, <2>6, <2>7 DEF Inv
<1>6. CASE PollFails
  <2>1. /\ reply' = None /\ success' = FALSE
        /\ UNCHANGED <<radio, now, packets, last, listed>> /\ Listeners
    BY <1>6 DEF PollFails
  <2>2. radio' \in RadioState \union {None} /\ success' \in BOOLEAN
    BY <1>b, <2>1 DEF RadioTypeOK
  <2>3. RadioTypeOK'
    BY <1>b, <2>1, <2>2, ShownTypes DEF RadioTypeOK
  <2>4. RealInterval'
    BY <1>b, <2>1, ShownAreReal DEF RadioReal
  <2> QED
    BY <1>b, <2>1, <2>3, <2>4
    DEF Inv, Past, ToldOf, RadioSeen, Seen, RadioReal, Real, NoneLater
<1>7. CASE UNCHANGED radioVars
  <2>1. UNCHANGED <<now, packets, last, listed, reply, radio, success, entity>>
    BY <1>7 DEF radioVars
  <2> QED
    BY <1>b, <2>1
    DEF Inv, RadioTypeOK, Past, ToldOf, Told, RadioSeen, Seen, RadioReal, Real, NoneLater,
        RealInterval
<1> QED
  BY <1>1, <1>2, <1>3, <1>4, <1>5, <1>6, <1>7 DEF RadioNext

LEMMA InitInv == ASSUME RadioAssumption, RadioInit PROVE Inv
<1>1. RadioTypeOK
  BY Delays DEF RadioInit, RadioTypeOK, Time
<1> QED
  BY <1>1 DEF RadioInit, Inv, Past, ToldOf, RadioSeen, RadioReal, NoneLater, RealInterval

(* Inv holds in every state of every behaviour.                            *)
THEOREM RadioInvariance == ASSUME RadioAssumption PROVE RadioSpec => []Inv
<1>1. RadioInit => Inv
  BY InitInv
<1>2. Inv /\ [RadioNext]_radioVars => Inv'
  BY InvStep
<1> QED
  BY <1>1, <1>2, PTL DEF RadioSpec

(* Clock, packets, the reply on its way and the radio state keep their     *)
(* types: no time told of a packet is before the first (RadioState).       *)
THEOREM RadioTyping == ASSUME RadioAssumption PROVE RadioSpec => []RadioTypeOK
<1>1. Inv => RadioTypeOK
  BY DEF Inv
<1> QED
  BY <1>1, RadioInvariance, PTL

(* with_packet_interval: an interval shown is, but for a reply's time on   *)
(* its way, that of two packets, whenever that time is within the jitter   *)
(* steady_last_packet allows for.                                          *)
THEOREM RealIntervalAlways == ASSUME RadioAssumption PROVE RadioSpec => []RealInterval
<1>1. Inv => RealInterval
  BY DEF Inv
<1> QED
  BY <1>1, RadioInvariance, PTL

(* steady_last_packet keeps an earlier time only within the jitter: what a *)
(* poll shows as the last packet is the one the bridge told of.            *)
THEOREM LastPacketIsFresh == ASSUME RadioAssumption PROVE RadioSpec => LastPacketFresh
<1>1. ASSUME Inv, [RadioNext]_radioVars, Arrived, entity' # None, entity'.available
      PROVE  LET told == reply.at - reply.age
                 seen == entity'.state.last
             IN IF reply.age = None THEN seen = None
                ELSE seen \in (told - Jitter)..(told + Transit)
  <2>1. radio' # None /\ entity'.state = radio'
    <3>1. CASE radio' # None
      BY <1>1, <3>1 DEF Arrived, Listeners
    <3>2. CASE radio' = None
      <4>1. entity # None /\ entity' = [entity EXCEPT !.available = FALSE]
        BY <1>1, <3>2 DEF Arrived, Listeners
      <4>2. entity \in [available : BOOLEAN, state : RadioState]
        BY <1>1, <4>1 DEF Inv, RadioTypeOK
      <4> QED
        BY <1>1, <4>1, <4>2
    <3> QED
      BY <3>1, <3>2
  <2> QED
    BY <1>1, <2>1, ArrivedIs DEF Told
<1>2. Inv /\ [RadioNext]_radioVars =>
        [Arrived /\ entity' # None /\ entity'.available =>
           LET told == reply.at - reply.age
               seen == entity'.state.last
           IN IF reply.age = None THEN seen = None
              ELSE seen \in (told - Jitter)..(told + Transit)]_radioVars
  BY <1>1
<1> QED
  BY <1>2, RadioInvariance, PTL DEF RadioSpec, LastPacketFresh

(***************************************************************************)
(* Levels                                                                  *)
(***************************************************************************)
LEMMA NoneIsNoNumber == ASSUME LevelsAssumption, NEW i \in Int PROVE i # None
BY DEF LevelsAssumption

(* Rounding is off by half a unit at most, for the three scales in use. *)
LEMMA RoundByPercent ==
  ASSUME NEW n \in Nat
  PROVE  Round(n, 100) \in Nat /\ 2 * n - 100 <= 200 * Round(n, 100)
         /\ 200 * Round(n, 100) <= 2 * n + 100
<1>1. n = 100 * (n \div 100) + (n % 100) /\ n % 100 \in 0..99 /\ n \div 100 \in Nat
  OBVIOUS
<1>. QED  BY <1>1 DEF Round

LEMMA RoundByBrightness ==
  ASSUME NEW n \in Nat
  PROVE  Round(n, 255) \in Nat /\ 2 * n - 255 <= 510 * Round(n, 255)
         /\ 510 * Round(n, 255) <= 2 * n + 255
<1>1. n = 255 * (n \div 255) + (n % 255) /\ n % 255 \in 0..254 /\ n \div 255 \in Nat
  OBVIOUS
<1>. QED  BY <1>1 DEF Round

LEMMA RoundByLampLevel ==
  ASSUME NEW n \in Nat
  PROVE  Round(n, 10000) \in Nat /\ 2 * n - 10000 <= 20000 * Round(n, 10000)
         /\ 20000 * Round(n, 10000) <= 2 * n + 10000
<1>1. n = 10000 * (n \div 10000) + (n % 10000) /\ n % 10000 \in 0..9999 /\ n \div 10000 \in Nat
  OBVIOUS
<1>. QED  BY <1>1 DEF Round

LEMMA RoundOfLevel ==
  ASSUME NEW p \in Nat
  PROVE  /\ Round(p * 255, 10000) \in Nat
         /\ 510 * p - 10000 <= 20000 * Round(p * 255, 10000)
         /\ 20000 * Round(p * 255, 10000) <= 510 * p + 10000
<1>1. p * 255 \in Nat
  OBVIOUS
<1>. QED  BY <1>1, RoundByLampLevel

(* What light_state_to_p44_value makes of a light that is on is at least 1 *)
(* percent and at most 100.                                                *)
LEMMA OnIsAboveZero ==
  ASSUME LevelsAssumption, NEW s \in LightState
  PROVE  /\ LightStateToP44(s) \in 0..100
         /\ s.on <=> LightStateToP44(s) > 0
<1>1. CASE ~s.on
  BY <1>1 DEF LightStateToP44
<1>2. CASE s.on /\ s.brightness = None
  BY <1>2 DEF LightStateToP44
<1>3. CASE s.on /\ s.brightness # None
  <2>1. s.brightness \in 0..255
    BY <1>3 DEF LightState, Brightness
  <2>2. s.brightness * 100 \in Nat
    BY <2>1
  <2>3. Round(s.brightness * 100, 255) \in Nat
    BY <2>2, RoundByBrightness
  <2>4. LightStateToP44(s) = AtLeast(Within(Round(s.brightness * 100, 255), 100), 1)
    BY <1>3 DEF LightStateToP44
  <2>. QED  BY <1>3, <2>3, <2>4 DEF AtLeast, Within
<1>4. s.on \in BOOLEAN
  BY DEF LightState
<1>. QED  BY <1>1, <1>2, <1>3, <1>4

(* A whole percent becomes a brightness and that brightness becomes the    *)
(* percent again: 255 steps tell 100 apart.                                *)
LEMMA PercentReturns ==
  ASSUME NEW p \in 1..100
  PROVE  LET b == AtLeast(Round(p * 255, 100), 1)
         IN  b \in 1..255 /\ AtLeast(Within(Round(b * 100, 255), 100), 1) = p
<1>. DEFINE r == Round(p * 255, 100)
            b == AtLeast(r, 1)
            q == Round(b * 100, 255)
<1>1. r \in Nat /\ 510 * p - 100 <= 200 * r /\ 200 * r <= 510 * p + 100
  <2>1. p * 255 \in Nat
    OBVIOUS
  <2>. QED  BY <2>1, RoundByPercent
<1>. HIDE DEF r
<1>2. r \in 2..255 /\ b = r
  BY <1>1 DEF AtLeast
<1>. HIDE DEF b
<1>3. q \in Nat /\ 200 * b - 255 <= 510 * q /\ 510 * q <= 200 * b + 255
  <2>1. b * 100 \in Nat
    BY <1>2
  <2>. QED  BY <1>2, <2>1, RoundByBrightness
<1>. HIDE DEF q
<1>4. q = p
  <2>1. 510 * p - 100 - 255 <= 510 * q /\ 510 * q <= 510 * p + 100 + 255
    BY <1>1, <1>2, <1>3
  <2>2. 510 * (q - p) < 510 /\ 510 * (p - q) < 510
    BY <2>1, <1>3
  <2>. QED  BY <2>2, <1>3
<1>5. AtLeast(Within(q, 100), 1) = p
  BY <1>4 DEF AtLeast, Within
<1>. QED  BY <1>2, <1>5 DEF b, q, r

(* What a command leaves the light in *)
LEMMA CommandedLevel ==
  ASSUME LevelsAssumption, NEW level \in Levels
  PROVE  /\ Commanded(level) \in LightState
         /\ level < 10 => ~Commanded(level).on
         /\ level >= 10 => /\ Commanded(level).on
                           /\ LightStateToP44(Commanded(level)) = level \div 10
<1>1. level \in 0..1000
  BY DEF LevelsAssumption
<1>2. Off \in LightState /\ ~Off.on
  BY DEF Off, LightState
<1>3. CASE level < 10
  <2>1. level \div 10 = 0
    BY <1>1, <1>3
  <2>2. P44ToBrightness(level) = 0
    BY <2>1 DEF P44ToBrightness, Within
  <2>3. Commanded(level) = Off
    BY <2>2 DEF Commanded
  <2>. QED  BY <1>1, <1>2, <1>3, <2>3
<1>4. CASE level >= 10
  <2>. DEFINE p == level \div 10
              b == AtLeast(Round(p * 255, 100), 1)
              s == [on |-> TRUE, brightness |-> b]
  <2>1. p \in 1..100
    BY <1>1, <1>4
  <2>2. Within(p, 100) = p /\ p # 0
    BY <2>1 DEF Within
  <2>3. P44ToBrightness(level) = b
    BY <2>2 DEF P44ToBrightness
  <2>4. b \in 1..255 /\ AtLeast(Within(Round(b * 100, 255), 100), 1) = p
    <3>. HIDE DEF p
    <3>. QED  BY <2>1, PercentReturns
  <2>. HIDE DEF b
  <2>5. Commanded(level) = s
    BY <1>1, <1>4, <2>3, <2>4 DEF Commanded
  <2>6. s \in LightState /\ s.on /\ s.brightness = b
    BY <2>4 DEF LightState, Brightness
  <2>7. b # None
    BY <2>4, NoneIsNoNumber
  <2>8. LightStateToP44(s) = AtLeast(Within(Round(b * 100, 255), 100), 1)
    BY <2>6, <2>7 DEF LightStateToP44
  <2>9. LightStateToP44(s) = p
    BY <2>4, <2>8
  <2>. HIDE DEF s
  <2>. QED  BY <1>1, <1>4, <2>5, <2>6, <2>9
<1>. QED  BY <1>1, <1>3, <1>4

(* Levels of a lamp, what it can be turned on with, and what is shown of it *)
LampLevel == 0..10000

Dim == 1..255

Showable == [on : BOOLEAN \union {None}, brightness : Brightness \union {None}]

LEMMA ShownIsShowable ==
  ASSUME LevelsAssumption, NEW level \in LampLevel \union {None}
  PROVE  Shown(level) \in Showable
<1>1. CASE level = None
  BY <1>1 DEF Shown, Showable
<1>2. CASE level # None
  <2>1. level \in 0..10000
    BY <1>2 DEF LampLevel
  <2>. DEFINE r == Round(level * 255, 10000)
  <2>2. level \in Nat
    BY <2>1
  <2>3. r \in Nat /\ 20000 * r <= 510 * level + 10000
    BY <2>2, RoundOfLevel
  <2>. HIDE DEF r
  <2>4. r \in Brightness
    <3>1. 510 * level <= 5100000
      BY <2>1
    <3>2. 20000 * r <= 5110000
      BY <2>1, <2>3, <3>1
    <3>3. r <= 255
      BY <2>3, <3>2
    <3>. QED  BY <2>3, <3>3 DEF Brightness
  <2>5. Shown(level) = [on |-> level > 0, brightness |-> r]
    BY <1>2 DEF Shown, r
  <2>6. (level > 0) \in BOOLEAN
    BY <2>1
  <2>. QED  BY <2>4, <2>5, <2>6 DEF Showable
<1>. QED  BY <1>1, <1>2

(* A brightness becomes hundredths of a percent and becomes that brightness *)
(* again.                                                                   *)
LEMMA BrightnessReturns ==
  ASSUME LevelsAssumption, NEW b \in Dim
  PROVE  Percent(b) \in LampLevel /\ Shown(Percent(b)) = [on |-> TRUE, brightness |-> b]
<1>. DEFINE p == Percent(b)
            r == Round(p * 255, 10000)
<1>. USE DEF Dim
<1>1. p \in Nat /\ 20000 * b - 255 <= 510 * p /\ 510 * p <= 20000 * b + 255
  <2>1. b * 10000 \in Nat
    OBVIOUS
  <2>. QED  BY <2>1, RoundByBrightness DEF Percent
<1>. HIDE DEF p
<1>2. p \in 1..10000
  BY <1>1
<1>3. r \in Nat /\ 510 * p - 10000 <= 20000 * r /\ 20000 * r <= 510 * p + 10000
  <2>1. p \in Nat
    BY <1>2
  <2>. QED  BY <2>1, RoundOfLevel
<1>. HIDE DEF r
<1>4. r = b
  <2>1. 20000 * b - 255 - 10000 <= 20000 * r /\ 20000 * r <= 20000 * b + 255 + 10000
    BY <1>1, <1>2, <1>3
  <2>2. 20000 * (r - b) < 20000 /\ 20000 * (b - r) < 20000
    BY <1>3, <2>1
  <2>. QED  BY <1>3, <2>2
<1>5. p # None /\ p > 0
  BY <1>2, NoneIsNoNumber
<1>6. Shown(p) = [on |-> p > 0, brightness |-> r]
  BY <1>5 DEF Shown, r
<1>7. (p > 0) = TRUE
  BY <1>2
<1>8. Shown(p) = [on |-> TRUE, brightness |-> b]
  BY <1>4, <1>6, <1>7
<1>. QED  BY <1>2, <1>8 DEF p, LampLevel

-------------------------------------------------------------------------------
(* Distinct counts; what it means is that no two names are folded to one.  *)
LEMMA DistinctByName ==
  ASSUME NEW n \in Nat, NEW names, DOMAIN names = 1..n, Len(names) = n
  PROVE  Distinct(names)
           <=> \A i, j \in 1..n : Folded(names[i]) = Folded(names[j]) => i = j
<1>. DEFINE T == {Folded(names[i]) : i \in 1..n}
            f == [i \in 1..n |-> Folded(names[i])]
<1>1. f \in Surjection(1..n, T)
  BY DEF Surjection
<1>2. IsFiniteSet(1..n) /\ Cardinality(1..n) = n
  BY FS_Interval
<1>3. Cardinality(T) = n <=> f \in Injection(1..n, T)
  <2>. HIDE DEF T, f
  <2>. QED  BY <1>1, <1>2, FS_Surjection
<1>4. f \in Injection(1..n, T)
        <=> \A i, j \in 1..n : Folded(names[i]) = Folded(names[j]) => i = j
  BY DEF Injection, IsInjective
<1>5. Distinct(names) <=> Cardinality(T) = n
  BY DEF Distinct
<1>. QED  BY <1>3, <1>4, <1>5

(* What is left of a name when a range is cut off is a name. *)
LEMMA ShortenedName ==
  ASSUME LevelsAssumption, NEW n \in ChannelName
  PROVE  DisplayName(n) \in ChannelName
<1>1. CASE n.base = None /\ Len(n.ranges) = 1
  BY <1>1 DEF DisplayName
<1>2. CASE ~(n.base = None /\ Len(n.ranges) = 1)
  <2>. DEFINE s == SubSeq(n.ranges, 1, Len(n.ranges) - 1)
  <2>1. PICK k \in 0..MaxRanges : n.ranges \in [1..k -> Ranges]
    BY DEF ChannelName
  <2>2. Len(n.ranges) = k /\ n.ranges \in Seq(Ranges)
    BY <2>1
  <2>3. CASE k = 0
    <3>1. s = n.ranges
      BY <2>1, <2>2, <2>3
    <3>2. DisplayName(n) = n
      BY <1>2, <3>1 DEF DisplayName, ChannelName
    <3>. QED  BY <3>2
  <2>4. CASE k > 0
    <3>1. s \in [1..(k - 1) -> Ranges] /\ Len(s) = k - 1
      <4>1. Len(s) = k - 1
        BY <2>2, <2>4
      <4>2. s \in Seq(Ranges)
        BY <2>2, <2>4
      <4>. HIDE DEF s
      <4>. QED  BY <4>1, <4>2
    <3>2. k - 1 \in 0..MaxRanges
      BY <2>1, <2>4 DEF LevelsAssumption
    <3>3. n.base # None \/ k - 1 > 0
      BY <1>2, <2>2, <2>4
    <3>. HIDE DEF s
    <3>4. [n EXCEPT !.ranges = s] \in ChannelName
      BY <3>1, <3>2, <3>3 DEF ChannelName
    <3>. QED  BY <1>2, <3>4 DEF DisplayName, s
  <2>. QED  BY <2>1, <2>3, <2>4
<1>. QED  BY <1>1, <1>2

(* Case plays no part in the ranges that are cut off. *)
LEMMA FoldedIsDisplayed ==
  ASSUME NEW n \in ChannelName
  PROVE  Folded(DisplayName(n)) = DisplayName(Folded(n))
BY DEF Folded, DisplayName, ChannelName

(* Two displayed names that are folded to one come of such channels: the   *)
(* shortened name of one cannot be the whole name of another, which would  *)
(* have been shortened to the same.                                        *)
LEMMA DisplayKeepsApart ==
  ASSUME LevelsAssumption,
         NEW n \in Nat, NEW names \in [1..n -> ChannelName],
         \A i, j \in 1..n : Folded(names[i]) = Folded(names[j]) => i = j,
         \A i \in 1..n : DisplayName(DisplayName(names[i])) = DisplayName(names[i]),
         NEW i \in 1..n, NEW j \in 1..n,
         Folded(DisplayNames(names)[i]) = Folded(DisplayNames(names)[j])
  PROVE  i = j
<1>. DEFINE D(k) == DisplayName(names[k])
            Kept(k) == \E m \in 1..n \ {k} : Collide(D(k), D(m))
<1>1. DisplayNames(names) = [k \in 1..n |-> IF Kept(k) THEN names[k] ELSE D(k)]
  BY DEF DisplayNames
<1>2. ASSUME NEW k \in 1..n, NEW m \in 1..n, Kept(k), ~Kept(m),
             Folded(names[k]) = Folded(D(m))
      PROVE  k = m
  <2>1. names[k] \in ChannelName /\ names[m] \in ChannelName
    OBVIOUS
  <2>2. Folded(D(k)) = DisplayName(Folded(D(m)))
    BY <1>2, <2>1, FoldedIsDisplayed
  <2>3. Folded(D(k)) = Folded(D(m))
    <3>1. D(m) \in ChannelName
      BY <2>1, ShortenedName
    <3>2. DisplayName(Folded(D(m))) = Folded(DisplayName(D(m)))
      BY <3>1, FoldedIsDisplayed
    <3>3. DisplayName(D(m)) = D(m)
      OBVIOUS
    <3>. QED  BY <2>2, <3>2, <3>3
  <2>. HIDE DEF D
  <2>. QED  BY <1>2, <2>3 DEF Collide
<1>3. CASE Kept(i) /\ Kept(j)
  BY <1>1, <1>3
<1>4. CASE Kept(i) /\ ~Kept(j)
  <2>1. Folded(names[i]) = Folded(D(j))
    BY <1>1, <1>4
  <2>. HIDE DEF D, Kept
  <2>. QED  BY <1>2, <1>4, <2>1
<1>5. CASE ~Kept(i) /\ Kept(j)
  <2>1. Folded(names[j]) = Folded(D(i))
    BY <1>1, <1>5
  <2>. HIDE DEF D, Kept
  <2>. QED  BY <1>2, <1>5, <2>1
<1>6. CASE ~Kept(i) /\ ~Kept(j)
  <2>1. Folded(D(i)) = Folded(D(j))
    BY <1>1, <1>6
  <2>. QED  BY <1>6, <2>1 DEF Collide
<1>. QED  BY <1>3, <1>4, <1>5, <1>6

-------------------------------------------------------------------------------
(* The entity shows what the last poll or request said, and the lamp has   *)
(* the level it was last turned on with.                                   *)
Answered == shown = Shown(known)

Dimmed == dimmed # None => dimmed \in Dim /\ lamp = Percent(dimmed)

LevelsInv == LevelsTypeOK /\ LevelKept /\ Answered /\ Dimmed

LEMMA LevelsStart == ASSUME LevelsAssumption, LevelsInit PROVE LevelsInv
<1>1. exported = Off /\ device = 0 /\ lamp = 0 /\ known = None /\ dimmed = None
      /\ shown = [on |-> None, brightness |-> None]
  BY DEF LevelsInit
<1>2. Off \in LightState /\ ~Off.on /\ LightStateToP44(Off) = 0
  BY DEF Off, LightState, LightStateToP44
<1>3. subject \in {"export", "import", "names"} /\ channels \in Seq(ChannelName)
  <2>1. CASE subject \in {"export", "import"} /\ channels = <<>>
    BY <2>1
  <2>2. CASE subject = "names" /\ channels \in [1..MaxChannels -> ChannelName]
    <3>1. MaxChannels \in Nat
      BY DEF LevelsAssumption
    <3>2. channels \in Seq(ChannelName)
      BY <2>2, <3>1
    <3>. QED  BY <2>2, <3>2
  <2>. QED  BY <2>1, <2>2 DEF LevelsInit
<1>4. LevelsTypeOK
  BY <1>1, <1>2, <1>3 DEF LevelsTypeOK
<1>5. LevelKept
  BY <1>1, <1>2 DEF LevelKept
<1>. QED  BY <1>1, <1>4, <1>5 DEF LevelsInv, Answered, Dimmed, Shown

LEMMA LevelsStep ==
  ASSUME LevelsAssumption, LevelsInv, [LevelsNext]_levelVars PROVE LevelsInv'
<1>0. LevelsTypeOK
  BY DEF LevelsInv
<1>1. ASSUME NEW s \in LightState, UserSets(s) PROVE LevelsInv'
  <2>1. exported' = s /\ device' = 10 * LightStateToP44(s)
        /\ UNCHANGED <<subject, lamp, known, shown, dimmed, channels>>
    BY <1>1 DEF UserSets
  <2>. DEFINE l == LightStateToP44(s)
  <2>2. l \in 0..100 /\ (s.on <=> l > 0) /\ device' = 10 * l
    BY <2>1, OnIsAboveZero
  <2>. HIDE DEF l
  <2>3. device' \in 0..1000 /\ device' % 10 = 0 /\ (device' > 0 <=> l > 0)
    BY <2>2
  <2>4. LevelsTypeOK'
    BY <1>0, <2>1, <2>3 DEF LevelsTypeOK
  <2>5. LevelKept'
    BY <2>1, <2>2, <2>3 DEF LevelKept, l
  <2>. QED  BY <2>1, <2>4, <2>5 DEF LevelsInv, Answered, Dimmed
<1>2. ASSUME NEW level \in Levels, DeviceSets(level) PROVE LevelsInv'
  <2>1. exported' = Commanded(level) /\ device' = level
        /\ UNCHANGED <<subject, lamp, known, shown, dimmed, channels>>
    BY <1>2 DEF DeviceSets
  <2>2. level \in 0..1000
    BY DEF LevelsAssumption
  <2>3. LevelsTypeOK'
    <3>1. exported' \in LightState
      BY <2>1, CommandedLevel
    <3>. QED  BY <1>0, <2>1, <2>2, <3>1 DEF LevelsTypeOK
  <2>4. LevelKept'
    <3>1. CASE level = 0
      <4>1. ~Commanded(level).on /\ Commanded(level) \in LightState
        BY <3>1, CommandedLevel
      <4>2. LightStateToP44(Commanded(level)) = 0
        BY <4>1 DEF LightStateToP44
      <4>. QED  BY <2>1, <3>1, <4>1, <4>2 DEF LevelKept
    <3>2. CASE level >= 10
      <4>1. /\ Commanded(level) \in LightState /\ Commanded(level).on
            /\ LightStateToP44(Commanded(level)) = level \div 10
        BY <3>2, CommandedLevel
      <4>2. 10 * (level \div 10) = level - (level % 10) /\ level > 0
        BY <2>2, <3>2
      <4>. QED  BY <2>1, <4>1, <4>2 DEF LevelKept
    <3>3. CASE level # 0 /\ ~(level >= 10)
      BY <2>1, <3>3 DEF LevelKept
    <3>. QED  BY <3>1, <3>2, <3>3
  <2>. QED  BY <2>1, <2>3, <2>4 DEF LevelsInv, Answered, Dimmed
<1>3. ASSUME NEW level \in Lamps \union {None}, LampSets(level) PROVE LevelsInv'
  <2>1. lamp' = level /\ dimmed' = None
        /\ UNCHANGED <<subject, exported, device, known, shown, channels>>
    BY <1>3 DEF LampSets
  <2>2. level \in 0..10000 \union {None}
    BY DEF LevelsAssumption
  <2>3. LevelsTypeOK'
    BY <1>0, <2>1, <2>2 DEF LevelsTypeOK
  <2>. QED  BY <2>1, <2>3 DEF LevelsInv, LevelKept, Answered, Dimmed
<1>4. ASSUME NEW b \in 1..255 \union {None}, TurnOn(b) PROVE LevelsInv'
  <2>1. /\ lamp' = IF b = None THEN 10000 ELSE Percent(b)
        /\ known' = lamp' /\ shown' = Shown(lamp') /\ dimmed' = b
        /\ UNCHANGED <<subject, exported, device, channels>>
    BY <1>4 DEF TurnOn
  <2>2. lamp' \in LampLevel
    <3>1. CASE b = None
      BY <2>1, <3>1 DEF LampLevel
    <3>2. CASE b # None
      <4>1. b \in Dim
        BY <3>2 DEF Dim
      <4>2. Percent(b) \in LampLevel
        BY <4>1, BrightnessReturns
      <4>. QED  BY <2>1, <3>2, <4>2
    <3>. QED  BY <3>1, <3>2
  <2>3. LevelsTypeOK'
    <3>1. dimmed' \in Brightness \union {None}
      BY <2>1 DEF Brightness
    <3>2. shown' \in Showable
      BY <2>1, <2>2, ShownIsShowable
    <3>. QED  BY <1>0, <2>1, <2>2, <3>1, <3>2 DEF LevelsTypeOK, Showable, LampLevel
  <2>. QED  BY <2>1, <2>3 DEF LevelsInv, LevelKept, Answered, Dimmed, Dim
<1>5. ASSUME Poll PROVE LevelsInv'
  <2>1. known' = lamp /\ shown' = Shown(lamp)
        /\ UNCHANGED <<subject, exported, device, lamp, dimmed, channels>>
    BY <1>5 DEF Poll
  <2>2. lamp \in LampLevel \union {None}
    BY <1>0 DEF LevelsTypeOK, LampLevel
  <2>3. shown' \in Showable
    BY <2>1, <2>2, ShownIsShowable
  <2>4. LevelsTypeOK'
    BY <1>0, <2>1, <2>3 DEF LevelsTypeOK, Showable
  <2>. QED  BY <2>1, <2>4 DEF LevelsInv, LevelKept, Answered, Dimmed
<1>6. ASSUME TurnOff PROVE LevelsInv'
  <2>1. lamp' = 0 /\ known' = 0 /\ shown' = Shown(0) /\ dimmed' = None
        /\ UNCHANGED <<subject, exported, device, channels>>
    BY <1>6 DEF TurnOff
  <2>2. 0 \in LampLevel \union {None}
    BY DEF LampLevel
  <2>3. shown' \in Showable
    BY <2>1, <2>2, ShownIsShowable
  <2>4. LevelsTypeOK'
    BY <1>0, <2>1, <2>2, <2>3 DEF LevelsTypeOK, Showable, LampLevel
  <2>. QED  BY <2>1, <2>4 DEF LevelsInv, LevelKept, Answered, Dimmed
<1>7. CASE UNCHANGED levelVars
  BY <1>7 DEF levelVars, LevelsInv, LevelsTypeOK, LevelKept, Answered, Dimmed
<1>. QED  BY <1>1, <1>2, <1>3, <1>4, <1>5, <1>6, <1>7 DEF LevelsNext

LEMMA LevelsInvariance == ASSUME LevelsAssumption PROVE LevelsSpec => []LevelsInv
<1>1. LevelsInit => LevelsInv
  BY LevelsStart
<1>2. LevelsInv /\ [LevelsNext]_levelVars => LevelsInv'
  BY LevelsStep
<1>. QED  BY <1>1, <1>2, PTL DEF LevelsSpec

(* Conversions there and back stay within the scales of both ends. *)
THEOREM LevelsTyping == ASSUME LevelsAssumption PROVE LevelsSpec => []LevelsTypeOK
<1>1. LevelsInv => LevelsTypeOK
  BY DEF LevelsInv
<1>. QED  BY <1>1, LevelsInvariance, PTL

(* A level the bridge sets, in tenths of a percent, comes back as that     *)
(* level but for a fraction of a percent, and light and device are both on *)
(* or both off (light_state_to_p44_value, p44_value_to_brightness).        *)
THEOREM LevelKeptAlways == ASSUME LevelsAssumption PROVE LevelsSpec => []LevelKept
<1>1. LevelsInv => LevelKept
  BY DEF LevelsInv
<1>. QED  BY <1>1, LevelsInvariance, PTL

(* A slider does not move when the next poll brings the brightness back    *)
(* that async_turn_on has converted to percent.                            *)
THEOREM SliderStaysAlways == ASSUME LevelsAssumption PROVE LevelsSpec => []SliderStays
<1>1. ASSUME LevelsInv PROVE SliderStays
  <2>1. SUFFICES ASSUME dimmed # None, known = lamp
                 PROVE  shown = [on |-> TRUE, brightness |-> dimmed]
    BY DEF SliderStays
  <2>2. dimmed \in Dim /\ lamp = Percent(dimmed) /\ shown = Shown(known)
    BY <1>1, <2>1 DEF LevelsInv, Answered, Dimmed
  <2>3. Shown(Percent(dimmed)) = [on |-> TRUE, brightness |-> dimmed]
    BY <2>2, BrightnessReturns
  <2>. QED  BY <2>1, <2>2, <2>3
<1>2. LevelsInv => SliderStays
  BY <1>1
<1>. QED  BY <1>2, LevelsInvariance, PTL

(* Channels whose names Home Assistant could tell apart can still be told  *)
(* apart when their ranges are left out (display_names), for any number of *)
(* channels, unless a shortened name could be shortened again.             *)
THEOREM CleanNamesDistinctAlways ==
  ASSUME LevelsAssumption PROVE LevelsSpec => []CleanNamesDistinct
<1>1. ASSUME LevelsInv PROVE CleanNamesDistinct
  <2>. DEFINE n == Len(channels)
              shorter == DisplayNames(channels)
  <2>1. n \in Nat /\ channels \in [1..n -> ChannelName]
    BY <1>1 DEF LevelsInv, LevelsTypeOK
  <2>2. DOMAIN channels = 1..n /\ DOMAIN shorter = 1..n
    BY <2>1 DEF DisplayNames
  <2>3. Len(shorter) = n
    BY <2>1, <2>2
  <2>4. SUFFICES ASSUME Distinct(channels),
                        \A i \in DOMAIN channels :
                          DisplayName(DisplayName(channels[i])) = DisplayName(channels[i])
                 PROVE  Distinct(shorter)
    BY DEF CleanNamesDistinct
  <2>5. \A i, j \in 1..n : Folded(channels[i]) = Folded(channels[j]) => i = j
    <3>. HIDE DEF n
    <3>1. Len(channels) = n
      BY DEF n
    <3>. QED  BY <2>1, <2>2, <2>4, <3>1, DistinctByName
  <2>6. \A i, j \in 1..n : Folded(shorter[i]) = Folded(shorter[j]) => i = j
    <3>. HIDE DEF n
    <3>1. \A i \in 1..n : DisplayName(DisplayName(channels[i])) = DisplayName(channels[i])
      BY <2>2, <2>4
    <3>. HIDE DEF shorter
    <3>2. ASSUME NEW i \in 1..n, NEW j \in 1..n, Folded(shorter[i]) = Folded(shorter[j])
          PROVE  i = j
      BY <2>1, <2>5, <3>1, <3>2, DisplayKeepsApart DEF shorter
    <3>. QED  BY <3>2
  <2>. HIDE DEF n, shorter
  <2>. QED  BY <2>1, <2>2, <2>3, <2>6, DistinctByName
<1>2. LevelsInv => CleanNamesDistinct
  BY <1>1
<1>. QED  BY <1>2, LevelsInvariance, PTL
===============================================================================
