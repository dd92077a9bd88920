----------------------------- MODULE Exchange_proofs ----------------------------
(***************************************************************************)
(* What Inbound and EchoGuard promise: the one for any subentries, tags,   *)
(* channels and values, any bound of the cache and any number of changes,  *)
(* the other for any values, cool-downs and numbers of changes and lines.  *)
(***************************************************************************)
EXTENDS Inbound, EchoGuard, FiniteSetTheorems, TLAPS

(***************************************************************************)
(* Inbound                                                                 *)
(***************************************************************************)
Present == planned \union entities

(* Entities exist from the set-up of the platforms to their unload. *)
Staged ==
  /\ stage \in {"down", "open"} => Present = {}
  /\ stage \in {"up", "closing"} => planned = {}

(* A callback is one of an entity that is there, under its key. *)
Claimed ==
  \A k \in Key : callbacks[k] # None =>
    callbacks[k] \in entities /\ KeyOf(callbacks[k]) = k

(* Unless tags are shared, subentries and entities have keys of their own, *)
(* and so every entity keeps its callback.                                 *)
OwnTags ==
  \A r, s \in Device : imports[r].tag # None /\ imports[r].tag = imports[s].tag => r = s

OwnKeys == \A x, y \in Present : KeyOf(x) = KeyOf(y) => x = y

OwnCallbacks == \A x \in entities : callbacks[KeyOf(x)] = x

Unshared == ~SharedTags => OwnTags /\ OwnKeys /\ OwnCallbacks /\ shown = pushed

(* Set-up makes the entities of the subentries, or a reload is due. *)
Complete == stage \in {"adding", "up"} /\ ~reload => Present = Resolved

Inv == InboundTypeOK /\ Staged /\ Claimed /\ Unshared /\ Complete

-------------------------------------------------------------------------------
LEMMA KeysAreKeys == \A x \in EntityOf : KeyOf(x) \in Key
BY DEF EntityOf, KeyOf, Key

LEMMA InitInv == ASSUME ImportAssumption, InboundInit PROVE Inv
<1>1. InboundTypeOK
  <2>1. imports \in [Device -> [tag : Tag, chs : SUBSET Channel] \union {NoImport}]
    BY DEF InboundInit
  <2>2. /\ callbacks \in [Key -> EntityOf \union {None}]
        /\ {shown, pushed} \subseteq [EntityOf -> Number \union {None}]
        /\ found \in [Tag -> SUBSET Channel]
    BY DEF InboundInit
  <2>3. imported \in 0..MaxImports
    BY DEF ImportAssumption, InboundInit
  <2> QED
    BY <2>1, <2>2, <2>3 DEF InboundInit, InboundTypeOK
<1>2. Staged /\ Claimed /\ Unshared /\ Complete
  BY DEF InboundInit, Staged, Claimed, Unshared, OwnTags, OwnKeys, OwnCallbacks, Complete,
         Present, NoImport
<1> QED
  BY <1>1, <1>2 DEF Inv

LEMMA ImportKeeps ==
  ASSUME ImportAssumption, Inv, NEW s \in Device, NEW tag \in Tag,
         NEW chs \in SUBSET Channel, Import(s, tag, chs)
  PROVE  Inv'
<1>1. InboundTypeOK'
  <2>1. imported' \in 0..MaxImports
    BY DEF Inv, InboundTypeOK, Import, Edits, ImportAssumption
  <2>2. imports' \in [Device -> [tag : Tag, chs : SUBSET Channel] \union {NoImport}]
    BY DEF Inv, InboundTypeOK, Import
  <2> QED
    BY <2>1, <2>2 DEF Inv, InboundTypeOK, Import, ScheduleReload
<1>2. Staged' /\ Claimed' /\ Complete'
  BY DEF Inv, Staged, Claimed, Complete, Present, Import, ScheduleReload
<1>3. Unshared'
  <2>1. ~SharedTags => OwnTags'
    BY DEF Inv, InboundTypeOK, Unshared, OwnTags, Import, TagFree, NoImport
  <2> QED
    BY <2>1 DEF Inv, Unshared, OwnKeys, OwnCallbacks, Present, Import
<1> QED
  BY <1>1, <1>2, <1>3 DEF Inv

(* Entities that go leave the others their callbacks. *)
LEMMA GoneKeeps ==
  ASSUME InboundTypeOK, Claimed, Unshared, NEW X \in SUBSET entities, Gone(X),
         planned' \in SUBSET planned
  PROVE  /\ entities' \in SUBSET EntityOf
         /\ callbacks' \in [Key -> EntityOf \union {None}]
         /\ {shown', pushed'} \subseteq [EntityOf -> Number \union {None}]
         /\ Claimed'
         /\ ~SharedTags => OwnKeys' /\ OwnCallbacks' /\ shown' = pushed'
<1>1. entities' \in SUBSET EntityOf
  BY DEF InboundTypeOK, Gone
<1>2. callbacks' \in [Key -> EntityOf \union {None}]
  BY DEF InboundTypeOK, Gone, Forget
<1>3. {shown', pushed'} \subseteq [EntityOf -> Number \union {None}]
  BY DEF InboundTypeOK, Gone
<1>4. Claimed'
  <2> SUFFICES ASSUME NEW k \in Key, callbacks'[k] # None
               PROVE  callbacks'[k] \in entities' /\ KeyOf(callbacks'[k]) = k
    BY DEF Claimed
  <2>1. callbacks'[k] = callbacks[k] /\ ~\E x \in X : KeyOf(x) = k
    BY DEF Gone, Forget
  <2> QED
    BY <2>1 DEF Claimed, Gone
<1>5. ASSUME ~SharedTags PROVE OwnKeys' /\ OwnCallbacks' /\ shown' = pushed'
  <2>1. OwnKeys'
    BY <1>5 DEF Unshared, OwnKeys, Present, Gone
  <2>2. OwnCallbacks'
    <3> SUFFICES ASSUME NEW x \in entities' PROVE callbacks'[KeyOf(x)] = x
      BY DEF OwnCallbacks
    <3>1. x \in entities /\ x \notin X /\ KeyOf(x) \in Key
      BY KeysAreKeys DEF Gone, InboundTypeOK
    <3>2. \A y \in X : KeyOf(y) # KeyOf(x)
      BY <1>5, <3>1 DEF Unshared, OwnKeys, Present
    <3> QED
      BY <1>5, <3>1, <3>2 DEF Gone, Forget, Unshared, OwnCallbacks
  <2>3. shown' = pushed'
    BY <1>5 DEF Unshared, Gone
  <2> QED
    BY <2>1, <2>2, <2>3
<1> QED
  BY <1>1, <1>2, <1>3, <1>4, <1>5

LEMMA RemoveSubentryKeeps ==
  ASSUME ImportAssumption, Inv, NEW s \in Device, RemoveSubentry(s)
  PROVE  Inv'
<1> DEFINE X == {x \in entities : x.s = s}
<1>1. /\ Gone(X) /\ imports' = [imports EXCEPT ![s] = NoImport]
      /\ planned' = {x \in planned : x.s # s} /\ entities' = entities \ X
      /\ imported' \in 0..MaxImports /\ UNCHANGED <<stage, reload, found, unclaimed>>
  BY DEF RemoveSubentry, Gone, Edits, Inv, InboundTypeOK, ImportAssumption
<1>2. imports' \in [Device -> [tag : Tag, chs : SUBSET Channel] \union {NoImport}]
  BY <1>1 DEF Inv, InboundTypeOK
<1>3. X \in SUBSET entities /\ UNCHANGED <<found, unclaimed>> /\ planned' \in SUBSET planned
  BY <1>1
<1>4. /\ entities' \in SUBSET EntityOf
      /\ callbacks' \in [Key -> EntityOf \union {None}]
      /\ {shown', pushed'} \subseteq [EntityOf -> Number \union {None}]
      /\ Claimed'
      /\ ~SharedTags => OwnKeys' /\ OwnCallbacks' /\ shown' = pushed'
  BY <1>1, <1>3, GoneKeeps DEF Inv
<1>5. InboundTypeOK'
  BY <1>1, <1>2, <1>4 DEF Inv, InboundTypeOK
<1>6. Staged'
  BY <1>1 DEF Inv, Staged, Present
<1>7. Unshared'
  <2>1. ~SharedTags => OwnTags'
    BY <1>1 DEF Inv, InboundTypeOK, Unshared, OwnTags, NoImport
  <2> QED
    BY <1>4, <2>1 DEF Unshared
<1>8. Complete'
  <2>1. Resolved' = {x \in Resolved : x.s # s}
    BY <1>1 DEF Resolved, NoImport, ImportAssumption, EntityOf, Inv, InboundTypeOK
  <2> QED
    BY <1>1, <2>1 DEF Inv, Complete, Present
<1> QED
  BY <1>4, <1>5, <1>6, <1>7, <1>8 DEF Inv

LEMMA ForwardSetupsKeeps ==
  ASSUME ImportAssumption, Inv, ForwardSetups PROVE Inv'
<1>1. Resolved \in SUBSET EntityOf /\ planned' = Resolved /\ Present' = Resolved'
  BY DEF Resolved, ForwardSetups, Present, Inv, Staged
<1>2. InboundTypeOK'
  BY <1>1 DEF Inv, InboundTypeOK, ForwardSetups
<1>3. Staged' /\ Claimed' /\ Complete'
  BY <1>1 DEF Inv, Staged, Claimed, Complete, Present, ForwardSetups
<1>4. Unshared'
  <2>1. ~SharedTags => OwnKeys'
    <3> SUFFICES ASSUME ~SharedTags, NEW x \in Resolved, NEW y \in Resolved,
                        KeyOf(x) = KeyOf(y)
                 PROVE  x = y
      BY <1>1 DEF OwnKeys, ForwardSetups, Resolved
    <3>1. x.tag = y.tag /\ x.ch = y.ch
      BY DEF KeyOf
    <3>2. /\ x.s \in Device /\ y.s \in Device /\ x.tag \in Tag
          /\ imports[x.s].tag = x.tag /\ imports[y.s].tag = y.tag
      BY DEF Resolved, EntityOf
    <3>3. x.s = y.s
      BY <3>1, <3>2 DEF Inv, Unshared, OwnTags, ImportAssumption
    <3> QED
      BY <3>1, <3>3 DEF Resolved, EntityOf
  <2> QED
    BY <2>1 DEF Inv, Unshared, OwnTags, OwnCallbacks, ForwardSetups
<1> QED
  BY <1>2, <1>3, <1>4 DEF Inv

LEMMA AddEntityKeeps ==
  ASSUME ImportAssumption, Inv, NEW x \in EntityOf, AddEntity(x) PROVE Inv'
<1>1. KeyOf(x) \in Key /\ x \in Present /\ Present' = Present /\ Resolved' = Resolved
  BY KeysAreKeys DEF AddEntity, Present, Resolved
<1>2. callbacks' = [callbacks EXCEPT ![KeyOf(x)] = x] /\ entities' = entities \union {x}
  BY DEF AddEntity
<1>3. InboundTypeOK'
  <2>1. callbacks' \in [Key -> EntityOf \union {None}]
    BY <1>1, <1>2 DEF Inv, InboundTypeOK
  <2> QED
    BY <2>1 DEF Inv, InboundTypeOK, AddEntity
<1>4. Staged' /\ Complete'
  BY <1>1 DEF Inv, Staged, Complete, AddEntity
<1>5. Claimed'
  BY <1>1, <1>2 DEF Inv, InboundTypeOK, Claimed
<1>6. Unshared'
  <2>1. ~SharedTags => OwnCallbacks'
    <3> SUFFICES ASSUME ~SharedTags, NEW y \in entities' PROVE callbacks'[KeyOf(y)] = y
      BY DEF OwnCallbacks
    <3>1. CASE y = x
      BY <1>1, <1>2, <3>1 DEF Inv, InboundTypeOK
    <3>2. CASE y # x
      <4>1. y \in entities /\ KeyOf(y) \in Key
        BY <1>2, <3>2, KeysAreKeys DEF Inv, InboundTypeOK
      <4>2. KeyOf(y) # KeyOf(x)
        BY <1>1, <3>2, <4>1 DEF Inv, Unshared, OwnKeys, Present
      <4> QED
        BY <1>2, <4>1, <4>2 DEF Inv, InboundTypeOK, Unshared, OwnCallbacks
    <3> QED
      BY <3>1, <3>2
  <2> QED
    BY <1>1, <2>1 DEF Inv, Unshared, OwnTags, OwnKeys, AddEntity
<1> QED
  BY <1>3, <1>4, <1>5, <1>6 DEF Inv

(* Initialize, SetUp, Unload and Shutdown. *)
LEMMA LifeKeeps ==
  ASSUME Inv, Initialize \/ SetUp \/ Unload \/ Shutdown PROVE Inv'
<1>1. InboundTypeOK'
  BY DEF Inv, InboundTypeOK, Initialize, SetUp, Unload, Shutdown
<1>2. Staged' /\ Complete'
  BY DEF Inv, Staged, Complete, Present, Resolved, Initialize, SetUp, Unload, Shutdown
<1>3. UNCHANGED <<imports, planned, entities, callbacks, shown, pushed>>
  BY DEF Initialize, SetUp, Unload, Shutdown
<1>4. Claimed' /\ Unshared'
  BY <1>3 DEF Inv, Claimed, Unshared, OwnTags, OwnKeys, OwnCallbacks, Present
<1> QED
  BY <1>1, <1>2, <1>4 DEF Inv

LEMMA RemoveEntityKeeps ==
  ASSUME Inv, NEW x \in EntityOf, RemoveEntity(x) PROVE Inv'
<1>1. /\ Gone({x}) /\ {x} \in SUBSET entities /\ planned' \in SUBSET planned
      /\ UNCHANGED <<imports, stage, reload, planned, found, imported, unclaimed>>
      /\ stage = "closing" /\ entities' = entities \ {x}
  BY DEF RemoveEntity, Gone
<1>2. /\ entities' \in SUBSET EntityOf
      /\ callbacks' \in [Key -> EntityOf \union {None}]
      /\ {shown', pushed'} \subseteq [EntityOf -> Number \union {None}]
      /\ Claimed'
      /\ ~SharedTags => OwnKeys' /\ OwnCallbacks' /\ shown' = pushed'
  BY <1>1, GoneKeeps DEF Inv
<1>3. InboundTypeOK'
  BY <1>1, <1>2 DEF Inv, InboundTypeOK
<1>4. Staged' /\ Complete'
  BY <1>1 DEF Inv, Staged, Complete, Present
<1>5. Unshared'
  BY <1>1, <1>2 DEF Inv, Unshared, OwnTags
<1> QED
  BY <1>2, <1>3, <1>4, <1>5 DEF Inv

LEMMA PushKeeps ==
  ASSUME ImportAssumption, Inv, NEW tag \in Tag, NEW ch \in Channel,
         NEW v \in Number \union Malformed, PushValue(tag, ch, v)
  PROVE  Inv'
<1> DEFINE k == [tag |-> tag, ch |-> ch]
<1>1. /\ k \in Key /\ v \in Number
      /\ UNCHANGED <<imports, stage, reload, planned, entities, callbacks, imported>>
      /\ pushed' = [x \in EntityOf |->
                      IF x \in entities /\ x.tag = tag /\ x.ch = ch
                      THEN v ELSE pushed[x]]
  BY DEF PushValue, Accepted, Key
<1>2. \/ callbacks[k] # None /\ shown' = [shown EXCEPT ![callbacks[k]] = v]
         /\ UNCHANGED <<found, unclaimed>>
      \/ callbacks[k] = None /\ Notify(tag, ch) /\ UNCHANGED shown
         /\ unclaimed' = unclaimed \union {k}
  BY DEF PushValue
<1>3. InboundTypeOK'
  <2>1. {shown', pushed'} \subseteq [EntityOf -> Number \union {None}]
    BY <1>1, <1>2 DEF Inv, InboundTypeOK
  <2>2. found' \in [Tag -> SUBSET Channel]
    BY <1>2 DEF Notify, Inv, InboundTypeOK
  <2>3. unclaimed' \in SUBSET Key
    BY <1>1, <1>2 DEF Inv, InboundTypeOK
  <2> QED
    BY <1>1, <2>1, <2>2, <2>3 DEF Inv, InboundTypeOK
<1>4. Staged' /\ Claimed' /\ Complete'
  BY <1>1 DEF Inv, Staged, Claimed, Complete, Present, Resolved
<1>5. ASSUME ~SharedTags PROVE shown' = pushed'
  <2>1. \A x \in EntityOf : x.tag = tag /\ x.ch = ch <=> KeyOf(x) = k
    BY DEF KeyOf
  <2>2. shown = pushed /\ OwnCallbacks /\ Claimed
    BY <1>5 DEF Inv, Unshared
  <2>3. ASSUME NEW x \in EntityOf PROVE shown'[x] = pushed'[x]
    <3>1. CASE x \in entities /\ KeyOf(x) = k
      <4>1. callbacks[k] = x /\ x # None
        BY <2>2, <3>1 DEF OwnCallbacks, ImportAssumption, EntityOf
      <4> QED
        BY <1>1, <1>2, <2>1, <3>1, <4>1 DEF Inv, InboundTypeOK
    <3>2. CASE ~(x \in entities /\ KeyOf(x) = k)
      <4>1. callbacks[k] # None => callbacks[k] # x
        BY <1>1, <2>2, <3>2 DEF Claimed
      <4> QED
        BY <1>1, <1>2, <2>1, <2>2, <3>2, <4>1 DEF Inv, InboundTypeOK
    <3> QED
      BY <3>1, <3>2
  <2>4. shown' \in [EntityOf -> Number \union {None}]
        /\ pushed' \in [EntityOf -> Number \union {None}]
    BY <1>3 DEF InboundTypeOK
  <2> QED
    BY <2>3, <2>4
<1>6. Unshared'
  BY <1>1, <1>5 DEF Inv, Unshared, OwnTags, OwnKeys, OwnCallbacks, Present
<1> QED
  BY <1>3, <1>4, <1>6 DEF Inv

LEMMA StutterKeeps == ASSUME Inv, UNCHANGED inboundVars PROVE Inv'
<1>1. InboundTypeOK'
  BY DEF Inv, InboundTypeOK, inboundVars
<1>2. Staged' /\ Claimed' /\ Unshared' /\ Complete'
  BY DEF Inv, Staged, Claimed, Unshared, OwnTags, OwnKeys, OwnCallbacks, Complete,
         Present, Resolved, inboundVars
<1> QED
  BY <1>1, <1>2 DEF Inv

LEMMA Step ==
  ASSUME ImportAssumption, Inv, [InboundNext]_inboundVars PROVE Inv'
BY ImportKeeps, RemoveSubentryKeeps, ForwardSetupsKeeps, AddEntityKeeps, LifeKeeps,
   RemoveEntityKeeps, PushKeeps, StutterKeeps DEF InboundNext

THEOREM InboundInvariance == ASSUME ImportAssumption PROVE InboundSpec => []Inv
<1>1. InboundInit => Inv
  BY InitInv
<1>2. Inv /\ [InboundNext]_inboundVars => Inv'
  BY Step
<1> QED
  BY <1>1, <1>2, PTL DEF InboundSpec

(* No push, import, removal or reload leaves the fields without their type: *)
(* dispatch_inbound_channel, register_ and unregister_inbound_callback.    *)
THEOREM InboundTyping == ASSUME ImportAssumption PROVE InboundSpec => []InboundTypeOK
<1>1. Inv => InboundTypeOK
  BY DEF Inv
<1> QED
  BY <1>1, InboundInvariance, PTL

(* Every entity shows the latest value pushed for it, if no tag is shared:  *)
(* dispatch_inbound_channel finds the callback of the entity that is there. *)
THEOREM DeliveredAlways == ASSUME ImportAssumption PROVE InboundSpec => []Delivered
<1>1. Inv => Delivered
  BY DEF Inv, Unshared, Delivered
<1> QED
  BY <1>1, InboundInvariance, PTL

(* The import flow's reload leaves no subentry without its entities, even  *)
(* if it is asked for while the entry is being set up.                     *)
THEOREM UpToDateAlways == ASSUME ImportAssumption PROVE InboundSpec => []UpToDate
<1>1. Inv => UpToDate
  BY DEF Inv, Staged, Complete, UpToDate, Present
<1> QED
  BY <1>1, InboundInvariance, PTL

-------------------------------------------------------------------------------
(* The cache of discovered channels *)

Cache == IsFiniteSet(FoundTags) /\ Discovered

LEMMA EmptyCache == ASSUME found = [t \in Tag |-> {}] PROVE FoundTags = {}
BY DEF FoundTags

LEMMA NotifyKeeps ==
  ASSUME ImportAssumption, InboundTypeOK, Cache, NEW tag \in Tag, NEW ch \in Channel,
         Notify(tag, ch), unclaimed' = unclaimed \union {[tag |-> tag, ch |-> ch]}
  PROVE  Cache'
<1> DEFINE k == [tag |-> tag, ch |-> ch]
           n == Cardinality(FoundTags)
<1>1. n \in Nat /\ n <= MaxTags /\ MaxTags \in Nat
  BY FS_CardinalityType DEF Cache, Discovered, ImportAssumption
<1>2. \A u \in unclaimed : u \in Key /\ u.tag \in Tag
  BY DEF InboundTypeOK, Key
<1>3. CASE HasRoom(tag)
  <2>1. found' = [found EXCEPT ![tag] = @ \union {ch}]
    BY <1>3 DEF Notify
  <2>2. FoundTags' = FoundTags \union {tag}
    BY <2>1 DEF FoundTags, InboundTypeOK
  <2>3. /\ IsFiniteSet(FoundTags')
        /\ Cardinality(FoundTags') = IF tag \in FoundTags THEN n ELSE n + 1
    BY <2>2, FS_AddElement DEF Cache
  <2>4. Cardinality(FoundTags') <= MaxTags
    BY <1>1, <1>3, <2>3 DEF HasRoom
  <2>5. ASSUME NEW u \in unclaimed'
        PROVE  \/ u.ch \in found'[u.tag]
               \/ u.tag \notin FoundTags' /\ Cardinality(FoundTags') = MaxTags
    <3>1. CASE u = k
      BY <2>1, <3>1 DEF InboundTypeOK
    <3>2. CASE u \in unclaimed /\ u.ch \in found[u.tag]
      BY <1>2, <2>1, <3>2 DEF InboundTypeOK
    <3>3. CASE u \in unclaimed /\ u.tag \notin FoundTags /\ n = MaxTags
      <4>1. tag \in FoundTags
        BY <1>1, <1>3, <3>3 DEF HasRoom
      <4>2. FoundTags' = FoundTags
        BY <2>2, <4>1
      <4> QED
        BY <3>3, <4>2
    <3> QED
      BY <3>1, <3>2, <3>3 DEF Cache, Discovered
  <2> QED
    BY <2>3, <2>4, <2>5 DEF Cache, Discovered
<1>4. CASE ~HasRoom(tag)
  <2>1. found' = found /\ FoundTags' = FoundTags
    BY <1>4 DEF Notify, FoundTags
  <2>2. tag \notin FoundTags /\ n = MaxTags
    BY <1>1, <1>4 DEF HasRoom
  <2> QED
    BY <2>1, <2>2 DEF Cache, Discovered
<1> QED
  BY <1>3, <1>4

LEMMA CacheStep ==
  ASSUME ImportAssumption, InboundTypeOK, Cache, [InboundNext]_inboundVars PROVE Cache'
<1>1. CASE UNCHANGED <<found, unclaimed>>
  BY <1>1 DEF Cache, Discovered, FoundTags
<1>2. CASE Initialize
  <2>1. found' = [t \in Tag |-> {}] /\ unclaimed' = {}
    BY <1>2 DEF Initialize
  <2>2. FoundTags' = {}
    BY <2>1 DEF FoundTags
  <2> QED
    BY <2>1, <2>2, FS_EmptySet DEF Cache, Discovered, ImportAssumption
<1>3. ASSUME NEW tag \in Tag, NEW ch \in Channel, NEW v \in Number \union Malformed,
             PushValue(tag, ch, v)
      PROVE  Cache'
  <2>1. CASE Notify(tag, ch) /\ unclaimed' = unclaimed \union {[tag |-> tag, ch |-> ch]}
    BY <2>1, NotifyKeeps
  <2> QED
    BY <1>1, <1>3, <2>1 DEF PushValue
<1> QED
  BY <1>1, <1>2, <1>3
     DEF InboundNext, Import, RemoveSubentry, ForwardSetups, SetUp, Unload, Shutdown,
         AddEntity, RemoveEntity, inboundVars

(* The cache of _notify_discovered_channel never holds more than            *)
(* MAX_DISCOVERED_TAGS tags, and a full one is the only reason for a        *)
(* channel without entity to go unreported.                                *)
THEOREM CacheIsBounded == ASSUME ImportAssumption PROVE InboundSpec => []Discovered
<1>1. InboundInit => Cache
  <2> SUFFICES ASSUME InboundInit PROVE Cache
    OBVIOUS
  <2>1. FoundTags = {} /\ unclaimed = {}
    BY EmptyCache DEF InboundInit
  <2> QED
    BY <2>1, FS_EmptySet DEF Cache, Discovered, ImportAssumption
<1>2. InboundTypeOK /\ Cache /\ [InboundNext]_inboundVars => Cache'
  BY CacheStep
<1>3. Cache => Discovered
  BY DEF Cache
<1> QED
  BY <1>1, <1>2, <1>3, InboundTyping, PTL DEF InboundSpec

(***************************************************************************)
(* EchoGuard                                                               *)
(***************************************************************************)
(* What the bridge has still to receive, and the last of it.  The first    *)
(* forward has sent already.                                               *)
Underway == toBridge # <<>> \/ Len(forwards) > 1

LastSent ==
  IF Len(forwards) > 1 THEN forwards[Len(forwards)].value ELSE toBridge[Len(toBridge)]

(* What Home Assistant has still to take over of the bridge comes in this  *)
(* order: the effect of an earlier call, the command, the lines.           *)
LastCommand ==
  IF toHa # <<>> THEN toHa[Len(toHa)]
  ELSE IF command # None /\ ~command.applied THEN command.value
  ELSE late

(* Whoever is to change last changes to what the other is. *)
Forwarded == ~dropped /\ Underway => LastSent = state

Following == ~dropped /\ ~Underway /\ state # channel => LastCommand = channel

EchoInv == EchoTypeOK /\ Forwarded /\ Following

-------------------------------------------------------------------------------
LEMMA EchoStarts == ASSUME CooldownAssumption, EchoInit PROVE EchoInv
<1>1. Longest \in Age
  BY DEF CooldownAssumption, Age, Longest
<1>2. EchoTypeOK
  <2>1. <<>> \in Seq(Value) /\ <<>> \in Seq(ForwardTask) /\ 0 \in 0..MaxChanges
    BY DEF CooldownAssumption
  <2>2. /\ toBridge = <<>> /\ toHa = <<>> /\ forwards = <<>> /\ changes = 0
        /\ state \in Value /\ channel = state /\ command = None /\ late = None
        /\ origin = None /\ age = Longest /\ dropped = FALSE
    BY DEF EchoInit
  <2>. QED  BY <1>1, <2>1, <2>2 DEF EchoTypeOK
<1>3. ~Underway /\ state = channel
  BY DEF EchoInit, Underway
<1>. QED  BY <1>2, <1>3 DEF EchoInv, Forwarded, Following

LEMMA AgesGrow ==
  ASSUME CooldownAssumption, NEW n \in Age PROVE 0 \in Age /\ Older(n) \in Age
BY DEF CooldownAssumption, Age, Longest, Older

(* A value that is sent is the last under way. *)
LEMMA SendsLast ==
  ASSUME CooldownAssumption, EchoTypeOK, NEW v \in Value, Send(v)
  PROVE  /\ forwards' \in Seq(ForwardTask) /\ toBridge' \in Seq(Value)
         /\ Underway' /\ LastSent' = v
<1>. DEFINE f == [value |-> v, age |-> 0]
<1>1. f \in ForwardTask /\ f.value = v
  BY AgesGrow, EchoTypeOK DEF ForwardTask, EchoTypeOK
<1>2. forwards \in Seq(ForwardTask) /\ toBridge \in Seq(Value)
  BY DEF EchoTypeOK
<1>3. forwards' = Append(forwards, f)
  BY DEF Send
<1>. HIDE DEF f
<1>4. forwards' \in Seq(ForwardTask) /\ Len(forwards') = Len(forwards) + 1
      /\ forwards'[Len(forwards')] = f
  BY <1>1, <1>2, <1>3
<1>5. CASE forwards = <<>>
  <2>1. toBridge' = Append(toBridge, v)
    BY <1>5 DEF Send
  <2>2. toBridge' \in Seq(Value) /\ toBridge' # <<>> /\ toBridge'[Len(toBridge')] = v
    BY <1>2, <2>1
  <2>3. Len(forwards') = 1
    BY <1>4, <1>5
  <2>4. Underway' /\ LastSent' = toBridge'[Len(toBridge')]
    BY <2>2, <2>3 DEF Underway, LastSent
  <2>. QED  BY <1>4, <2>2, <2>4
<1>6. CASE forwards # <<>>
  <2>1. toBridge' = toBridge /\ Len(forwards') > 1
    BY <1>2, <1>4, <1>6 DEF Send
  <2>. QED  BY <1>1, <1>2, <1>4, <2>1 DEF Underway, LastSent
<1>. QED  BY <1>5, <1>6

(* A change of the entity is sent, unless there is none or it is dropped. *)
LEMMA ChangesAreSent ==
  ASSUME CooldownAssumption, EchoInv, NEW v \in Value, Becomes(v)
  PROVE  /\ state' \in Value /\ forwards' \in Seq(ForwardTask)
         /\ toBridge' \in Seq(Value) /\ dropped' \in BOOLEAN
         /\ Forwarded'
         /\ ~dropped' /\ ~Underway' => ~dropped /\ ~Underway /\ state' = state
<1>1. state' = v /\ EchoTypeOK
  BY DEF Becomes, EchoInv
<1>2. CASE UNCHANGED <<toBridge, forwards, dropped>> /\ v = state
  BY <1>1, <1>2 DEF EchoInv, EchoTypeOK, Forwarded, Underway, LastSent
<1>3. CASE dropped' = TRUE /\ UNCHANGED <<toBridge, forwards>>
  BY <1>1, <1>3 DEF EchoTypeOK, Forwarded
<1>4. CASE Send(v) /\ UNCHANGED dropped
  BY <1>1, <1>4, SendsLast DEF EchoTypeOK, Forwarded
<1>. QED  BY <1>2, <1>3, <1>4 DEF Becomes

-------------------------------------------------------------------------------
LEMMA UserSetsKeeps ==
  ASSUME CooldownAssumption, EchoInv, NEW v \in Value, UserSets(v)
  PROVE  EchoInv'
<1>1. Becomes(v) /\ UNCHANGED <<channel, toHa, command, late, origin, age>>
      /\ changes' = changes + 1 /\ changes < MaxChanges
  BY DEF UserSets, record
<1>2. EchoTypeOK'
  BY <1>1, ChangesAreSent DEF EchoInv, EchoTypeOK, CooldownAssumption
<1>3. Following'
  BY <1>1, ChangesAreSent DEF EchoInv, Following, LastCommand
<1>. QED  BY <1>1, <1>2, <1>3, ChangesAreSent DEF EchoInv

LEMMA ForcedForwardKeeps ==
  ASSUME CooldownAssumption, EchoInv, ForcedForward PROVE EchoInv'
<1>1. Send(state) /\ UNCHANGED <<state, channel, toHa, command, late, origin, age, dropped>>
      /\ changes' = changes + 1 /\ changes < MaxChanges
  BY DEF ForcedForward, record
<1>2. /\ forwards' \in Seq(ForwardTask) /\ toBridge' \in Seq(Value)
      /\ Underway' /\ LastSent' = state
  BY <1>1, SendsLast DEF EchoInv, EchoTypeOK
<1>3. EchoTypeOK'
  BY <1>1, <1>2 DEF EchoInv, EchoTypeOK, CooldownAssumption
<1>. QED  BY <1>1, <1>2, <1>3 DEF EchoInv, Forwarded, Following

LEMMA ForwardDoneKeeps ==
  ASSUME CooldownAssumption, EchoInv, ForwardDone PROVE EchoInv'
<1>1. /\ forwards # <<>> /\ forwards' = Tail(forwards)
      /\ origin' = "ha" /\ age' = Head(forwards).age
      /\ UNCHANGED <<state, channel, toHa, command, late, dropped, changes>>
  BY DEF ForwardDone
<1>2. forwards \in Seq(ForwardTask) /\ toBridge \in Seq(Value)
  BY DEF EchoInv, EchoTypeOK
<1>3. /\ forwards' \in Seq(ForwardTask) /\ Len(forwards') = Len(forwards) - 1
      /\ Head(forwards) \in ForwardTask /\ Len(forwards) \in Nat \ {0}
  BY <1>1, <1>2
<1>4. age' \in Age
  BY <1>1, <1>3 DEF ForwardTask
<1>5. toBridge' \in Seq(Value) /\ Underway' = Underway /\ (Underway => LastSent' = LastSent)
  <2>1. CASE Len(forwards) = 1
    <3>1. toBridge' = toBridge
      BY <2>1 DEF ForwardDone
    <3>. QED  BY <1>2, <1>3, <2>1, <3>1 DEF Underway, LastSent
  <2>2. CASE Len(forwards) > 1
    <3>1. toBridge' = Append(toBridge, forwards[2].value) /\ forwards[2] \in ForwardTask
      BY <1>2, <2>2 DEF ForwardDone
    <3>2. forwards[2].value \in Value
      BY <3>1 DEF ForwardTask
    <3>3. /\ toBridge' \in Seq(Value) /\ toBridge' # <<>>
          /\ toBridge'[Len(toBridge')] = forwards[2].value
      BY <1>2, <3>1, <3>2
    <3>4. CASE Len(forwards) = 2
      BY <1>3, <2>2, <3>3, <3>4 DEF Underway, LastSent
    <3>5. CASE Len(forwards) > 2
      <4>1. forwards'[Len(forwards')] = forwards[Len(forwards)]
        BY <1>1, <1>2, <1>3, <3>5
      <4>. QED  BY <1>3, <2>2, <3>3, <3>5, <4>1 DEF Underway, LastSent
    <3>. QED  BY <1>3, <2>2, <3>4, <3>5
  <2>. QED  BY <1>3, <2>1, <2>2
<1>6. EchoTypeOK'
  BY <1>1, <1>3, <1>4, <1>5 DEF EchoInv, EchoTypeOK
<1>. QED  BY <1>1, <1>5, <1>6 DEF EchoInv, Forwarded, Following, LastCommand

LEMMA CommandReadKeeps ==
  ASSUME CooldownAssumption, EchoInv, CommandRead PROVE EchoInv'
<1>1. /\ command = None /\ toHa # <<>> /\ toHa' = Tail(toHa)
      /\ UNCHANGED <<state, channel, toBridge, forwards, late, origin, age, changes>>
  BY DEF CommandRead, record
<1>2. toHa \in Seq(Value)
  BY DEF EchoInv, EchoTypeOK
<1>3. /\ toHa' \in Seq(Value) /\ Head(toHa) \in Value /\ Len(toHa') = Len(toHa) - 1
      /\ toHa' # <<>> => toHa'[Len(toHa')] = toHa[Len(toHa)]
      /\ toHa' = <<>> => Head(toHa) = toHa[Len(toHa)]
  <2>1. Len(toHa) \in Nat \ {0} /\ Len(toHa') = Len(toHa) - 1
        /\ toHa' \in Seq(Value) /\ Head(toHa) \in Value
    BY <1>1, <1>2
  <2>2. toHa' # <<>> => Len(toHa') \in Nat \ {0}
    BY <2>1
  <2>3. toHa' = <<>> => Len(toHa) = 1
    BY <2>1
  <2>. QED  BY <1>1, <1>2, <2>1, <2>2, <2>3
<1>4. Forwarded'  \/ dropped'
  BY <1>1 DEF CommandRead, EchoInv, Forwarded, Underway, LastSent
<1>5. CASE dropped' = TRUE /\ UNCHANGED command
  BY <1>1, <1>3, <1>4, <1>5 DEF EchoInv, EchoTypeOK, Forwarded, Following
<1>6. CASE command' = [value |-> Head(toHa), age |-> 0, applied |-> FALSE] /\ UNCHANGED dropped
  <2>1. /\ command' \in [value : Value, age : Age, applied : BOOLEAN]
        /\ command' # None /\ ~command'.applied /\ command'.value = Head(toHa)
    <3>1. 0 \in Age
      BY AgesGrow DEF CooldownAssumption, Age, Longest
    <3>2. /\ command' \in [value : Value, age : Age, applied : BOOLEAN]
          /\ command' \in [value : Value, age : Nat, applied : BOOLEAN]
          /\ ~command'.applied /\ command'.value = Head(toHa)
      BY <1>3, <1>6, <3>1
    <3>. QED  BY <3>2 DEF CooldownAssumption
  <2>2. EchoTypeOK'
    BY <1>1, <1>3, <1>6, <2>1 DEF EchoInv, EchoTypeOK
  <2>3. LastCommand' = LastCommand
    BY <1>1, <1>3, <2>1 DEF LastCommand
  <2>4. Following' /\ Forwarded'
    BY <1>1, <1>6, <2>3 DEF EchoInv, Following, Forwarded, Underway, LastSent
  <2>. QED  BY <2>2, <2>4 DEF EchoInv
<1>. QED  BY <1>5, <1>6 DEF CommandRead

LEMMA ServiceAppliesKeeps ==
  ASSUME CooldownAssumption, EchoInv, ServiceApplies PROVE EchoInv'
<1>1. /\ command # None /\ ~command.applied
      /\ command' = [command EXCEPT !.applied = TRUE]
      /\ Becomes(command.value)
      /\ UNCHANGED <<channel, toHa, late, origin, age, changes>>
  BY DEF ServiceApplies, record
<1>2. command \in [value : Value, age : Age, applied : BOOLEAN] /\ command.value \in Value
  BY <1>1 DEF EchoInv, EchoTypeOK
<1>3. command' \in [value : Value, age : Age, applied : BOOLEAN] /\ command'.applied
  BY <1>1, <1>2
<1>4. state' = command.value
  BY <1>1 DEF Becomes
<1>5. EchoTypeOK'
  BY <1>1, <1>2, <1>3, ChangesAreSent DEF EchoInv, EchoTypeOK
<1>6. Following'
  <2>1. SUFFICES ASSUME ~dropped', ~Underway', state' # channel'
                 PROVE  LastCommand' = channel'
    BY DEF Following
  <2>2. ~dropped /\ ~Underway /\ state' = state
    BY <1>1, <1>2, <2>1, ChangesAreSent
  <2>3. LastCommand = channel /\ channel' = channel
    BY <1>1, <2>1, <2>2 DEF EchoInv, Following
  <2>4. CASE toHa # <<>>
    BY <1>1, <2>3, <2>4 DEF LastCommand
  <2>5. CASE toHa = <<>>
    BY <1>1, <1>4, <2>1, <2>2, <2>3, <2>5 DEF LastCommand
  <2>. QED  BY <2>4, <2>5
<1>. QED  BY <1>1, <1>2, <1>5, <1>6, ChangesAreSent DEF EchoInv

LEMMA ServiceReturnsKeeps ==
  ASSUME CooldownAssumption, EchoInv, ServiceReturns PROVE EchoInv'
<1>1. /\ command # None /\ command' = None
      /\ origin' = "p44" /\ age' = command.age
      /\ late' = IF command.applied THEN late ELSE command.value
      /\ UNCHANGED <<state, channel, toBridge, toHa, forwards, dropped, changes>>
  BY DEF ServiceReturns, lines
<1>2. command \in [value : Value, age : Age, applied : BOOLEAN]
  BY <1>1 DEF EchoInv, EchoTypeOK
<1>3. age' \in Age /\ late' \in Value \union {None}
  BY <1>1, <1>2 DEF EchoInv, EchoTypeOK
<1>4. EchoTypeOK'
  BY <1>1, <1>3 DEF EchoInv, EchoTypeOK
<1>5. LastCommand' = LastCommand
  BY <1>1, <1>2 DEF LastCommand
<1>6. Following' /\ Forwarded'
  BY <1>1, <1>5 DEF EchoInv, Following, Forwarded, Underway, LastSent
<1>. QED  BY <1>4, <1>6 DEF EchoInv

LEMMA LateEffectKeeps ==
  ASSUME CooldownAssumption, EchoInv, LateEffect PROVE EchoInv'
<1>1. /\ late # None /\ late' = None /\ Becomes(late)
      /\ UNCHANGED <<channel, toHa, command, origin, age, changes>>
  BY DEF LateEffect, record
<1>2. late \in Value
  BY <1>1 DEF EchoInv, EchoTypeOK
<1>3. state' = late
  BY <1>1 DEF Becomes
<1>4. EchoTypeOK'
  BY <1>1, <1>2, ChangesAreSent DEF EchoInv, EchoTypeOK
<1>5. Following'
  <2>1. SUFFICES ASSUME ~dropped', ~Underway', state' # channel'
                 PROVE  LastCommand' = channel'
    BY DEF Following
  <2>2. ~dropped /\ ~Underway /\ state' = state
    BY <1>1, <1>2, <2>1, ChangesAreSent
  <2>3. LastCommand = channel /\ channel' = channel
    BY <1>1, <2>1, <2>2 DEF EchoInv, Following
  <2>4. LastCommand # late
    BY <1>3, <2>1, <2>3
  <2>. QED  BY <1>1, <2>3, <2>4 DEF LastCommand
<1>. QED  BY <1>1, <1>2, <1>4, <1>5, ChangesAreSent DEF EchoInv

LEMMA BridgeSetsKeeps ==
  ASSUME CooldownAssumption, EchoInv, NEW v \in Value, BridgeSets(v) PROVE EchoInv'
<1>1. /\ channel' = v /\ toHa' = Append(toHa, v)
      /\ changes' = changes + 1 /\ changes < MaxChanges
      /\ UNCHANGED <<state, toBridge, forwards, command, late, origin, age, dropped>>
  BY DEF BridgeSets, record
<1>2. toHa' \in Seq(Value) /\ toHa' # <<>> /\ toHa'[Len(toHa')] = v
  BY <1>1 DEF EchoInv, EchoTypeOK
<1>3. EchoTypeOK'
  BY <1>1, <1>2 DEF EchoInv, EchoTypeOK, CooldownAssumption
<1>4. LastCommand' = channel'
  BY <1>1, <1>2 DEF LastCommand
<1>5. Following' /\ Forwarded'
  BY <1>1, <1>4 DEF EchoInv, Following, Forwarded, Underway, LastSent
<1>. QED  BY <1>3, <1>5 DEF EchoInv

LEMMA BridgeReceivesKeeps ==
  ASSUME CooldownAssumption, EchoInv, BridgeReceives PROVE EchoInv'
<1>1. /\ toBridge # <<>> /\ channel' = Head(toBridge) /\ toBridge' = Tail(toBridge)
      /\ UNCHANGED <<state, toHa, forwards, command, late, origin, age, dropped, changes>>
  BY DEF BridgeReceives, record
<1>2. /\ toBridge' \in Seq(Value) /\ Head(toBridge) \in Value
      /\ toBridge' # <<>> => toBridge'[Len(toBridge')] = toBridge[Len(toBridge)]
      /\ toBridge' = <<>> => Head(toBridge) = toBridge[Len(toBridge)]
  <2>1. Len(toBridge) \in Nat \ {0} /\ Len(toBridge') = Len(toBridge) - 1
        /\ toBridge' \in Seq(Value) /\ Head(toBridge) \in Value
    BY <1>1 DEF EchoInv, EchoTypeOK
  <2>2. toBridge' # <<>> => Len(toBridge') \in Nat \ {0}
    BY <2>1
  <2>3. toBridge' = <<>> => Len(toBridge) = 1
    BY <2>1
  <2>4. toBridge \in Seq(Value)
    BY DEF EchoInv, EchoTypeOK
  <2>. QED  BY <1>1, <2>1, <2>2, <2>3, <2>4
<1>3. EchoTypeOK'
  BY <1>1, <1>2 DEF EchoInv, EchoTypeOK
<1>4. Forwarded'
  BY <1>1, <1>2 DEF EchoInv, Forwarded, Underway, LastSent
<1>5. Following'
  BY <1>1, <1>2 DEF EchoInv, Forwarded, Following, Underway, LastSent
<1>. QED  BY <1>3, <1>4, <1>5 DEF EchoInv

LEMMA TickKeeps ==
  ASSUME CooldownAssumption, EchoInv, Tick PROVE EchoInv'
<1>1. /\ age' = Older(age)
      /\ forwards' = [i \in DOMAIN forwards |-> [forwards[i] EXCEPT !.age = Older(@)]]
      /\ command' = IF command = None THEN None ELSE [command EXCEPT !.age = Older(@)]
      /\ UNCHANGED <<state, channel, toBridge, toHa, late, origin, dropped, changes>>
  BY DEF Tick, lines
<1>2. age' \in Age
  BY <1>1, AgesGrow DEF EchoInv, EchoTypeOK
<1>3. forwards \in Seq(ForwardTask) /\ DOMAIN forwards = 1..Len(forwards)
  BY DEF EchoInv, EchoTypeOK
<1>4. ASSUME NEW i \in 1..Len(forwards)
      PROVE  /\ [forwards[i] EXCEPT !.age = Older(@)] \in ForwardTask
             /\ [forwards[i] EXCEPT !.age = Older(@)].value = forwards[i].value
  <2>1. forwards[i] \in ForwardTask
    BY <1>3
  <2>2. Older(forwards[i].age) \in Age
    BY <2>1, AgesGrow DEF ForwardTask
  <2>. QED  BY <2>1, <2>2 DEF ForwardTask
<1>5. forwards' \in Seq(ForwardTask) /\ Len(forwards') = Len(forwards)
  <2>1. forwards' \in [1..Len(forwards) -> ForwardTask] /\ Len(forwards) \in Nat
    BY <1>1, <1>3, <1>4
  <2>. QED  BY <2>1
<1>6. Len(forwards) > 1 => forwards'[Len(forwards)].value = forwards[Len(forwards)].value
  <2>1. Len(forwards) > 1 => Len(forwards) \in 1..Len(forwards)
    BY <1>3
  <2>. QED  BY <1>1, <1>3, <1>4, <2>1
<1>7. CASE command = None
  <2>1. EchoTypeOK'
    BY <1>1, <1>2, <1>5, <1>7 DEF EchoInv, EchoTypeOK
  <2>2. Forwarded' /\ Following'
    BY <1>1, <1>5, <1>6, <1>7
    DEF EchoInv, Forwarded, Following, Underway, LastSent, LastCommand
  <2>. QED  BY <2>1, <2>2 DEF EchoInv
<1>8. CASE command # None
  <2>1. command \in [value : Value, age : Age, applied : BOOLEAN]
    BY <1>8 DEF EchoInv, EchoTypeOK
  <2>2. Older(command.age) \in Age
    BY <2>1, AgesGrow
  <2>3. command' = [command EXCEPT !.age = Older(@)]
    BY <1>1, <1>8
  <2>4. /\ command' \in [value : Value, age : Age, applied : BOOLEAN]
        /\ command'.value = command.value /\ command'.applied = command.applied
    BY <2>1, <2>2, <2>3
  <2>5. command' # None
    BY <2>4 DEF CooldownAssumption, Age, Longest
  <2>6. EchoTypeOK'
    BY <1>1, <1>2, <1>5, <2>4 DEF EchoInv, EchoTypeOK
  <2>7. LastCommand' = LastCommand
    BY <1>1, <1>8, <2>4, <2>5 DEF LastCommand
  <2>8. Forwarded' /\ Following'
    BY <1>1, <1>5, <1>6, <2>7 DEF EchoInv, Forwarded, Following, Underway, LastSent
  <2>. QED  BY <2>6, <2>8 DEF EchoInv
<1>. QED  BY <1>7, <1>8

LEMMA EchoStep ==
  ASSUME CooldownAssumption, EchoInv, [EchoNext]_echoVars PROVE EchoInv'
<1>1. CASE UNCHANGED echoVars
  BY <1>1 DEF echoVars, lines, record, EchoInv, EchoTypeOK, Forwarded, Following,
              Underway, LastSent, LastCommand
<1>2. CASE EchoNext
  BY <1>2, UserSetsKeeps, ForcedForwardKeeps, ForwardDoneKeeps, CommandReadKeeps,
     ServiceAppliesKeeps, ServiceReturnsKeeps, LateEffectKeeps, BridgeSetsKeeps,
     BridgeReceivesKeeps, TickKeeps DEF EchoNext
<1>. QED  BY <1>1, <1>2

LEMMA EchoInvariance == ASSUME CooldownAssumption PROVE EchoSpec => []EchoInv
<1>1. EchoInit => EchoInv
  BY EchoStarts
<1>2. EchoInv /\ [EchoNext]_echoVars => EchoInv'
  BY EchoStep
<1>. QED  BY <1>1, <1>2, PTL DEF EchoSpec

(* Values under way are values, and no age exceeds the longer cool-down. *)
THEOREM EchoTyping == ASSUME CooldownAssumption PROVE EchoSpec => []EchoTypeOK
<1>1. EchoInv => EchoTypeOK
  BY DEF EchoInv
<1>. QED  BY <1>1, EchoInvariance, PTL

(* Entity and device agree once nothing is under way between them, however *)
(* forwards, commands and late effects have overtaken each other, unless   *)
(* one of the two cool-downs has dropped something                         *)
(* (async_forward_entity_state, async_apply_reverse_command).              *)
THEOREM InSyncAlways == ASSUME CooldownAssumption PROVE EchoSpec => []InSync
<1>1. ASSUME EchoInv PROVE InSync
  <2>1. SUFFICES ASSUME NothingUnderWay, ~dropped PROVE state = channel
    BY DEF InSync
  <2>2. ~Underway
    BY <2>1 DEF NothingUnderWay, Underway
  <2>3. LastCommand = None
    BY <2>1 DEF NothingUnderWay, LastCommand
  <2>4. channel # None
    BY <1>1 DEF EchoInv, EchoTypeOK, CooldownAssumption
  <2>. QED  BY <1>1, <2>1, <2>2, <2>3, <2>4 DEF EchoInv, Following
<1>2. EchoInv => InSync
  BY <1>1
<1>. QED  BY <1>2, EchoInvariance, PTL
===============================================================================
