-------------------------------- MODULE Inbound --------------------------------
(***************************************************************************)
(* Values plan44 pushes over the TCP connection for devices imported by    *)
(* tag: the subentries, the entities made of them when the entry is set    *)
(* up, the callbacks the coordinator finds them by, and the notifications  *)
(* for channels that have no entity (coordinator.py, inbound.py).          *)
(*                                                                         *)
(* A channel stands for a message type and an index.  Left out: how a      *)
(* reload goes about the connection (Plan44Coordinator), devices imported  *)
(* from the picker, which are polled (DeviceStates).                       *)
(***************************************************************************)
EXTENDS NoValue, FiniteSets, Naturals

CONSTANTS
  Device,         \* subentries of type p44_device
  Tag, Channel,   \* what plan44 pushes values for
  Number,         \* finite numbers
  Malformed,      \* not a number, not finite, or with a bad index
  SharedTags,     \* two subentries may be given the same tag
  MaxTags,        \* MAX_DISCOVERED_TAGS
  MaxImports      \* bound: changes of subentries in a behaviour

ImportAssumption ==
  /\ None \notin Tag \union Number \union [s : Device, tag : Tag, ch : Channel]
  /\ Number \cap Malformed = {}
  /\ SharedTags \in BOOLEAN /\ MaxTags \in Nat /\ MaxImports \in Nat

VARIABLES
  imports,        \* the channels of each subentry, its profile's, by tag
  stage,          \* of the entry; its reader runs in all stages but "down"
  reload,         \* _async_schedule_entry_reload waits or has to wait
  planned,        \* entities the platforms have still to add
  entities,       \* the entities Home Assistant has
  callbacks,      \* self._inbound_callbacks
  shown,          \* the state of each entity
  found,          \* self._discovered_indices_by_tag
  imported,       \* changes of subentries so far
  pushed,         \* the latest value pushed for each entity since it is there
  unclaimed       \* what was pushed while no entity was there for it

inboundVars == <<imports, stage, reload, planned, entities, callbacks, shown,
                 found, imported, pushed, unclaimed>>

Key == [tag : Tag, ch : Channel]
EntityOf == [s : Device, tag : Tag, ch : Channel]
KeyOf(x) == [tag |-> x.tag, ch |-> x.ch]

NoImport == [tag |-> None, chs |-> {}]

InboundTypeOK ==
  /\ imports \in [Device -> [tag : Tag, chs : SUBSET Channel] \union {NoImport}]
  /\ stage \in {"down", "open", "adding", "up", "closing"}
  /\ reload \in BOOLEAN
  /\ planned \in SUBSET EntityOf /\ entities \in SUBSET EntityOf
  /\ callbacks \in [Key -> EntityOf \union {None}]
  /\ {shown, pushed} \subseteq [EntityOf -> Number \union {None}]
  /\ found \in [Tag -> SUBSET Channel]
  /\ imported \in 0..MaxImports /\ unclaimed \in SUBSET Key

InboundInit ==
  /\ imports = [s \in Device |-> NoImport]
  /\ stage = "down" /\ reload = FALSE
  /\ planned = {} /\ entities = {}
  /\ callbacks = [k \in Key |-> None]
  /\ shown = [x \in EntityOf |-> None] /\ pushed = shown
  /\ found = [t \in Tag |-> {}]
  /\ imported = 0 /\ unclaimed = {}

-------------------------------------------------------------------------------
(* The import flow.  It does not look for a second subentry of the tag.    *)

TagFree(s, tag) ==
  SharedTags \/ \A r \in Device \ {s} : imports[r].tag # tag

Edits == imported < MaxImports /\ imported' = imported + 1

(* Mutant of ScheduleReload: only new devices need a reload. *)
ScheduleReloadForNew(s) == reload' = (reload \/ imports[s] = NoImport)

ScheduleReload(s) == reload' = TRUE

(* async_step_manual, async_step_custom and async_step_reconfigure. *)
Import(s, tag, chs) ==
  /\ Edits
  /\ TagFree(s, tag)
  /\ imports' = [imports EXCEPT ![s] = [tag |-> tag, chs |-> chs]]
  /\ ScheduleReload(s)
  /\ UNCHANGED <<stage, planned, entities, callbacks, shown, found, pushed, unclaimed>>

(* Mutant of Forget: the state is kept under the name of the channel. *)
ForgetByTag(X) ==
  callbacks' = [k \in Key |-> IF \E x \in X : x.tag = k.tag THEN None ELSE callbacks[k]]

(* unregister_inbound_callback, whoever the callback belongs to by now. *)
Forget(X) ==
  callbacks' = [k \in Key |-> IF \E x \in X : KeyOf(x) = k THEN None ELSE callbacks[k]]

Gone(X) ==
  /\ Forget(X)
  /\ entities' = entities \ X
  /\ shown' = [x \in EntityOf |-> IF x \in X THEN None ELSE shown[x]]
  /\ pushed' = [x \in EntityOf |-> IF x \in X THEN None ELSE pushed[x]]

(* Home Assistant removes a subentry and its entities; nothing reloads.    *)
RemoveSubentry(s) ==
  /\ imports[s] # NoImport /\ Edits
  /\ imports' = [imports EXCEPT ![s] = NoImport]
  /\ planned' = {x \in planned : x.s # s}
  /\ Gone({x \in entities : x.s = s})
  /\ UNCHANGED <<stage, reload, found, unclaimed>>

-------------------------------------------------------------------------------
(* The life of the entry *)

(* A new coordinator; its async_initialize starts the reader. *)
Initialize ==
  /\ stage = "down" /\ stage' = "open"
  /\ found' = [t \in Tag |-> {}] /\ unclaimed' = {}
  /\ UNCHANGED <<imports, reload, planned, entities, callbacks, shown, imported, pushed>>

(* resolve_device for every subentry. *)
Resolved ==
  {x \in EntityOf : imports[x.s].tag = x.tag /\ x.ch \in imports[x.s].chs}

(* async_forward_entry_setups, after the web API has been polled. *)
ForwardSetups ==
  /\ stage = "open" /\ stage' = "adding"
  /\ planned' = Resolved
  /\ UNCHANGED <<imports, reload, entities, callbacks, shown, found, imported, pushed,
                 unclaimed>>

(* async_added_to_hass of one entity. *)
AddEntity(x) ==
  /\ stage = "adding" /\ x \in planned
  /\ planned' = planned \ {x}
  /\ entities' = entities \union {x}
  /\ callbacks' = [callbacks EXCEPT ![KeyOf(x)] = x]
  /\ UNCHANGED <<imports, stage, reload, shown, found, imported, pushed, unclaimed>>

SetUp ==
  /\ stage = "adding" /\ planned = {}
  /\ stage' = "up"
  /\ UNCHANGED <<imports, reload, planned, entities, callbacks, shown, found,
                 imported, pushed, unclaimed>>

Unload ==
  /\ stage = "up" /\ stage' = "closing"
  /\ reload' = FALSE
  /\ UNCHANGED <<imports, planned, entities, callbacks, shown, found, imported, pushed,
                 unclaimed>>

(* async_will_remove_from_hass of one entity. *)
RemoveEntity(x) ==
  /\ stage = "closing" /\ x \in entities
  /\ Gone({x})
  /\ UNCHANGED <<imports, stage, reload, planned, found, imported, unclaimed>>

(* The platforms are unloaded, then the coordinator is shut down. *)
Shutdown ==
  /\ stage = "closing" /\ entities = {}
  /\ stage' = "down"
  /\ UNCHANGED <<imports, reload, planned, entities, callbacks, shown, found,
                 imported, pushed, unclaimed>>

-------------------------------------------------------------------------------
(* dispatch_inbound_channel *)

(* Mutant of Accepted: whatever json.loads returns is a number. *)
AcceptedAll(v) == TRUE

Accepted(v) == v \notin Malformed

FoundTags == {t \in Tag : found[t] # {}}

(* Mutant of HasRoom: a full cache takes no new channel of its tags either. *)
HasRoomForNone(tag) == Cardinality(FoundTags) < MaxTags

HasRoom(tag) == tag \in FoundTags \/ Cardinality(FoundTags) < MaxTags

(* _notify_discovered_channel *)
Notify(tag, ch) ==
  found' = IF HasRoom(tag) THEN [found EXCEPT ![tag] = @ \union {ch}] ELSE found

PushValue(tag, ch, v) ==
  LET cb == callbacks[[tag |-> tag, ch |-> ch]]
  IN /\ stage # "down" /\ Accepted(v)
     /\ pushed' = [x \in EntityOf |->
                     IF x \in entities /\ x.tag = tag /\ x.ch = ch
                     THEN v ELSE pushed[x]]
     /\ \/ /\ cb # None
           /\ shown' = [shown EXCEPT ![cb] = v]
           /\ UNCHANGED <<found, unclaimed>>
        \/ /\ cb = None
           /\ Notify(tag, ch)
           /\ unclaimed' = unclaimed \union {[tag |-> tag, ch |-> ch]}
           /\ UNCHANGED shown
     /\ UNCHANGED <<imports, stage, reload, planned, entities, callbacks, imported>>

InboundNext ==
  \/ \E s \in Device, tag \in Tag, chs \in SUBSET Channel \ {{}} : Import(s, tag, chs)
  \/ \E s \in Device : RemoveSubentry(s)
  \/ Initialize \/ ForwardSetups \/ SetUp \/ Unload \/ Shutdown
  \/ \E x \in EntityOf : AddEntity(x) \/ RemoveEntity(x)
  \/ \E tag \in Tag, ch \in Channel, v \in Number \union Malformed : PushValue(tag, ch, v)

InboundSpec == InboundInit /\ [][InboundNext]_inboundVars

-------------------------------------------------------------------------------
(* Properties                                                              *)

(* Every entity shows the latest value pushed for its channel since it was *)
(* added, whatever was imported, reconfigured, removed and reloaded in     *)
(* between; stated for tags that no two subentries share.                  *)
Delivered == ~SharedTags => \A x \in entities : shown[x] = pushed[x]

(* A set up entry that has no reload before it has exactly the entities of *)
(* its subentries: no import that raced with set-up is left out.           *)
UpToDate == stage = "up" /\ ~reload => entities = Resolved

(* The cache of tags never outgrows MAX_DISCOVERED_TAGS, and that it is    *)
(* full is the only reason why a channel that has no entity goes           *)
(* unreported: the tags it holds keep taking new channels.                 *)
Discovered ==
  /\ Cardinality(FoundTags) <= MaxTags
  /\ \A k \in unclaimed :
       k.ch \in found[k.tag] \/ (k.tag \notin FoundTags /\ Cardinality(FoundTags) = MaxTags)
===============================================================================
