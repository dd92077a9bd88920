-------------------------------- MODULE Exports --------------------------------
(***************************************************************************)
(* Where the exported devices are kept, and how the copies follow one      *)
(* another: the file of the legacy services (store.py), the subentries of  *)
(* the config entry, the coordinator's merged view, the entities its state *)
(* listener tracks, and what the bridge knows on the present connection.   *)
(*                                                                         *)
(* Left out: how a connection is made and torn down (Plan44Client,         *)
(* Plan44Coordinator), which states are pushed (EchoGuard), entities that  *)
(* have no state.                                                          *)
(***************************************************************************)
EXTENDS NoValue, Naturals

CONSTANTS
  Entity,         \* exportable entities
  Sub,            \* identities of subentries: numbers, in the order they come
  Name,           \* what an export says of its entity: name, kind, flags
  Unsure,         \* what calls in flight will leave behind
  Call,           \* identities for service calls, listener calls, startup
  Loop,           \* the reconnect loop
  AutoRepublish,  \* self.auto_republish
  EditsInSetup,   \* subentries change while the entry is being set up
  MaxEdits,       \* bound: calls and subentry changes in a behaviour
  MaxLosses       \* bound: lost connections and restarts in a behaviour

ASSUME ExportsAssumption ==
  /\ Sub \subseteq Nat
  /\ \A S \in SUBSET Sub : S # {} => \E i \in S : \A j \in S : j <= i
  /\ None \notin Entity \union Name /\ Unsure \notin Name \union {None} /\ Loop \notin Call
  /\ AutoRepublish \in BOOLEAN /\ EditsInSetup \in BOOLEAN
  /\ MaxEdits \in Nat /\ MaxLosses \in Nat

Task == Call \union {Loop}

VARIABLES
  file,           \* the exports in the file of the store
  mem,            \* self.store.data
  subentries,     \* the virtual devices among entry.subentries
  view,           \* self._exports_by_entity
  tracked,        \* the entities of the state listener
  life,           \* of the entry
  link,           \* the client is connected
  bridge,         \* the devices registered on this connection
  task,           \* what each coroutine does next, and with which exports
  edits, losses,
  reported,       \* what the last finished call of a service has left behind
  torn            \* devices whose registration a lost connection has undone

stores == <<file, mem, subentries>>
runtime == <<view, tracked, life>>
session == <<link, bridge>>
bounds == <<edits, losses>>
ghosts == <<reported, torn>>
vars == <<stores, runtime, session, task, bounds, ghosts>>

Export == Name \union {None}
Nothing == [e \in Entity |-> None]
NoSub == [e |-> None, n |-> None]
Known(exports) == {e \in Entity : exports[e] # None}

Step == {"idle", "create", "announce", "add", "save", "remove", "sync",
         "connect", "republish", "register", "push"}

Idle == [at |-> "idle", e |-> None, todo |-> Nothing]

TypeOK ==
  /\ {file, mem, view, bridge} \subseteq [Entity -> Export]
  /\ subentries \in [Sub -> [e : Entity, n : Name] \union {NoSub}]
  /\ tracked \in SUBSET Entity
  /\ life \in {"down", "setup", "loaded"}
  /\ link \in BOOLEAN
  /\ task \in [Task -> [at : Step, e : Entity \union {None},
                        todo : [Entity -> Export]]]
  /\ edits \in 0..MaxEdits /\ losses \in 0..MaxLosses
  /\ reported \in [Entity -> Export \union {Unsure}]
  /\ torn \in SUBSET Entity

Init ==
  /\ file = Nothing /\ mem = Nothing /\ subentries = [s \in Sub |-> NoSub]
  /\ view = Nothing /\ tracked = {} /\ life = "down"
  /\ link = FALSE /\ bridge = Nothing
  /\ task = [c \in Task |-> Idle]
  /\ edits = 0 /\ losses = 0
  /\ reported = Nothing /\ torn = {}

-------------------------------------------------------------------------------
Subs(s, e) == {i \in Sub : s[i].e = e}
Configured(s) == {s[i].e : i \in Sub} \ {None}

(* Mutant of Merged: subentries are no exports. *)
MergedStoreOnly(m, s) == m

(* _iter_subentry_exports over those of the store: the last one counts. *)
Merged(m, s) ==
  [e \in Entity |->
     IF Subs(s, e) # {}
     THEN s[CHOOSE i \in Subs(s, e) : \A j \in Subs(s, e) : j <= i].n
     ELSE m[e]]

(* Mutant of Refresh: the state listener is not reinstalled. *)
RefreshUntracked(m, s) == view' = Merged(m, s) /\ UNCHANGED tracked

(* _refresh_exports and async_reinstall_listener. *)
Refresh(m, s) == view' = Merged(m, s) /\ tracked' = Known(view')

Goes(c, at) == task' = [task EXCEPT ![c].at = at]
Ends(c) == task' = [task EXCEPT ![c] = Idle]

Request(c) ==
  /\ life = "loaded" /\ task[c] = Idle
  /\ edits < MaxEdits /\ edits' = edits + 1
  /\ UNCHANGED losses

(* async_ensure_connected; a new connection knows no device. *)
EnsureConnected ==
  \/ link /\ UNCHANGED session
  \/ ~link /\ link' = TRUE /\ bridge' = Nothing

(* No connection, or the one a drain waited for is lost: the call ends with *)
(* an exception.  The reconnect loop tries to connect for ever.            *)
Fails(c) ==
  /\ ~link
  /\ task[c].at \in {"create", "announce", "add", "sync", "republish",
                     "register", "push"}
  /\ Ends(c)
  /\ UNCHANGED <<stores, runtime, session, bounds, ghosts>>

-------------------------------------------------------------------------------
(* async_create_virtual_device *)

Create(c, e, n) ==
  /\ Request(c)
  /\ task' = [task EXCEPT ![c] = [at |-> "create", e |-> e,
                                  todo |-> [Nothing EXCEPT ![e] = n]]]
  /\ UNCHANGED <<stores, runtime, session, ghosts>>

CreateConnects(c) ==
  /\ task[c].at = "create"
  /\ EnsureConnected
  /\ Goes(c, "announce")
  /\ UNCHANGED <<stores, runtime, bounds, ghosts>>

Announce(c) ==
  /\ task[c].at = "announce" /\ link
  /\ LET e == task[c].e
     IN bridge' = [bridge EXCEPT ![e] = task[c].todo[e]]
  /\ Goes(c, "add")
  /\ UNCHANGED <<stores, runtime, link, bounds, ghosts>>

(* Mutant of AddExport: the record that is stored lacks its fields. *)
AddExportBare(c) ==
  /\ task[c].at = "add"
  /\ LET e == task[c].e
     IN mem' = [mem EXCEPT ![e] = e] /\ reported' = [reported EXCEPT ![e] = Unsure]
  /\ Goes(c, "save")
  /\ UNCHANGED <<file, subentries, runtime, session, bounds, torn>>

(* Plan44Store.async_add_export up to its async_save. *)
AddExport(c) ==
  /\ task[c].at = "add"
  /\ LET e == task[c].e
     IN mem' = [mem EXCEPT ![e] = task[c].todo[e]] /\ reported' = [reported EXCEPT ![e] = Unsure]
  /\ Goes(c, "save")
  /\ UNCHANGED <<file, subentries, runtime, session, bounds, torn>>

(* Another service call on the same entity is between memory and file. *)
Overlaps(c, e) ==
  \E d \in Call \ {c} : task[d].at \in {"save", "remove"} /\ task[d].e = e

Reports(c) ==
  LET e == task[c].e
  IN reported' = [reported EXCEPT ![e] = IF Overlaps(c, e) THEN Unsure ELSE mem[e]]

(* Mutant of Write: the write is put off and the call does not wait. *)
WriteLater == UNCHANGED file

(* Plan44Store.async_save: it writes what the memory holds by now. *)
Write == file' = mem

Saved(c) ==
  /\ task[c].at = "save"
  /\ Write
  /\ Refresh(mem, subentries)
  /\ Reports(c)
  /\ task' = [task EXCEPT ![c] = [Idle EXCEPT !.at = "push"]]
  /\ UNCHANGED <<mem, subentries, life, session, bounds, torn>>

(* async_remove_virtual_device; the bridge is told nothing. *)
Remove(c, e) ==
  /\ Request(c)
  /\ mem' = [mem EXCEPT ![e] = None]
  /\ reported' = [reported EXCEPT ![e] = Unsure]
  /\ task' = [task EXCEPT ![c] = [at |-> "remove", e |-> e, todo |-> Nothing]]
  /\ UNCHANGED <<file, subentries, runtime, session, torn>>

Removed(c) ==
  /\ task[c].at = "remove"
  /\ Write
  /\ Refresh(mem, subentries)
  /\ Reports(c)
  /\ Ends(c)
  /\ UNCHANGED <<mem, subentries, life, session, bounds, torn>>

-------------------------------------------------------------------------------
(* Subentries: the flow stores one, the update listener of the entry syncs. *)

(* Mutant of Changed: the view is compared with itself, refreshed. *)
ChangedTooLate(new) == Nothing

Changed(new) == [e \in Entity |-> IF new[e] # view[e] THEN new[e] ELSE None]

(* async_sync_runtime_exports up to its async_ensure_connected. *)
Sync(c, s) ==
  LET todo == Changed(Merged(mem, s))
  IN /\ Refresh(mem, s)
     /\ task' = [task EXCEPT ![c] = IF todo = Nothing THEN Idle
                                    ELSE [Idle EXCEPT !.at = "sync", !.todo = todo]]

(* _validate_virtual_device looks for the entity among the subentries whose *)
(* data is a dict; Home Assistant gives them a mapping proxy, so none is.  *)
Dicts == {}

AlreadyConfigured(i, e) ==
  e # subentries[i].e /\ \E j \in Dicts : subentries[j].e = e

(* The user adds, reconfigures or removes a virtual device. *)
Edit(i, e, n) ==
  /\ e # None => ~AlreadyConfigured(i, e)
  /\ (e = None) <=> (n = None)
  /\ subentries[i] # [e |-> e, n |-> n]
  /\ subentries' = [subentries EXCEPT ![i] = [e |-> e, n |-> n]]

EditSubentry(c, i, e, n) ==
  /\ Edit(i, e, n)
  /\ Request(c)
  /\ Sync(c, subentries')
  /\ UNCHANGED <<file, mem, life, session, ghosts>>

(* No listener is there yet, and the delayed sync finds no runtime_data. *)
EditUnheard(i, e, n) ==
  /\ life = "down" \/ (life = "setup" /\ EditsInSetup)
  /\ edits < MaxEdits /\ edits' = edits + 1
  /\ Edit(i, e, n)
  /\ UNCHANGED <<file, mem, runtime, session, task, losses, ghosts>>

SyncConnects(c) ==
  /\ task[c].at = "sync"
  /\ EnsureConnected
  /\ Goes(c, "register")
  /\ UNCHANGED <<stores, runtime, bounds, ghosts>>

-------------------------------------------------------------------------------
(* async_republish_virtual_devices *)

RepublishService(c) ==
  /\ Request(c)
  /\ Goes(c, "republish")
  /\ UNCHANGED <<stores, runtime, session, ghosts>>

(* The view is refreshed, the listener is not reinstalled. *)
Republish(c) ==
  /\ task[c].at = "republish"
  /\ EnsureConnected
  /\ view' = Merged(mem, subentries)
  /\ task' = [task EXCEPT ![c] =
                IF view' = Nothing THEN Idle
                ELSE [Idle EXCEPT !.at = "register", !.todo = view']]
  /\ UNCHANGED <<stores, tracked, life, bounds, ghosts>>

Register(c, e) ==
  /\ task[c].at = "register" /\ link
  /\ task[c].todo[e] # None
  /\ bridge' = [bridge EXCEPT ![e] = task[c].todo[e]]
  /\ task' = [task EXCEPT ![c].at = "push", ![c].todo[e] = None]
  /\ torn' = torn \ {e}
  /\ UNCHANGED <<stores, runtime, link, bounds, reported>>

(* async_forward_entity_state, for the device just registered. *)
Push(c) ==
  /\ task[c].at = "push"
  /\ EnsureConnected
  /\ IF task[c].todo = Nothing THEN Ends(c) ELSE Goes(c, "register")
  /\ UNCHANGED <<stores, runtime, bounds, ghosts>>

-------------------------------------------------------------------------------
(* The connection, and the life of the entry *)

(* Registered already, but not yet part of what a republish registers. *)
HalfCreated == {task[c].e : c \in {d \in Call : task[d].at = "add"}}

LoopPublishes == task[Loop].at \in {"republish", "register", "push"}

(* async_handle_disconnect; a loop that is still at work is not restarted. *)
Lose ==
  /\ link /\ losses < MaxLosses
  /\ link' = FALSE /\ bridge' = Nothing /\ losses' = losses + 1
  /\ task' = IF task[Loop] = Idle THEN [task EXCEPT ![Loop].at = "connect"] ELSE task
  /\ torn' = torn \union IF LoopPublishes THEN Entity ELSE HalfCreated
  /\ UNCHANGED <<stores, runtime, edits, reported>>

AfterReconnect == IF AutoRepublish THEN Goes(Loop, "republish") ELSE Ends(Loop)

Reconnect ==
  /\ task[Loop].at = "connect"
  /\ EnsureConnected
  /\ AfterReconnect
  /\ UNCHANGED <<stores, runtime, bounds, ghosts>>

(* async_setup_entry up to the async_connect of async_initialize. *)
Load ==
  /\ life = "down"
  /\ life' = "setup"
  /\ mem' = file
  /\ view' = Merged(mem', subentries)
  /\ UNCHANGED <<file, subentries, tracked, session, task, bounds, ghosts>>

(* The rest of set-up; republishing may have to wait for Home Assistant. *)
Loaded(c) ==
  /\ life = "setup"
  /\ life' = "loaded"
  /\ link' = TRUE /\ bridge' = Nothing
  /\ tracked' = Known(view)
  /\ IF AutoRepublish THEN Goes(c, "republish") ELSE UNCHANGED task
  /\ UNCHANGED <<stores, view, bounds, ghosts>>

(* Home Assistant crashes, or the entry is unloaded with no call in flight. *)
Restart ==
  /\ life # "down" /\ losses < MaxLosses
  /\ losses' = losses + 1
  /\ life' = "down"
  /\ mem' = Nothing /\ view' = Nothing /\ tracked' = {}
  /\ link' = FALSE /\ bridge' = Nothing
  /\ task' = [c \in Task |-> Idle]
  /\ torn' = {}
  /\ UNCHANGED <<file, subentries, edits, reported>>

TaskStep(c) ==
  \/ Fails(c) \/ CreateConnects(c) \/ Announce(c) \/ AddExport(c) \/ Saved(c)
  \/ Removed(c) \/ SyncConnects(c) \/ Republish(c) \/ Push(c)
  \/ \E e \in Entity : Register(c, e)

UserStep ==
  \/ \E c \in Call, e \in Entity, n \in Name : Create(c, e, n)
  \/ \E c \in Call, e \in Entity : Remove(c, e)
  \/ \E c \in Call, i \in Sub, e \in Entity \union {None}, n \in Export :
       EditSubentry(c, i, e, n)
  \/ \E i \in Sub, e \in Entity \union {None}, n \in Export : EditUnheard(i, e, n)
  \/ \E c \in Call : RepublishService(c)

Next ==
  \/ UserStep \/ Lose \/ Reconnect \/ Load \/ Restart
  \/ \E c \in Call : Loaded(c)
  \/ \E c \in Task : TaskStep(c)

Spec == Init /\ [][Next]_vars

-------------------------------------------------------------------------------
(* Properties                                                              *)

(* What a finished service call has reported is in the file, and so it     *)
(* outlives any crash: the calls return after async_save, and two of them  *)
(* at once do not overwrite each other's export (store.py).                *)
Durable ==
  \A e \in Entity : reported[e] # Unsure => file[e] = reported[e]

(* Unless a service call waits for its save, the coordinator works with    *)
(* exactly the exports of the store and of the subentries, and forwards    *)
(* the changes of exactly these entities, whichever of create, remove,     *)
(* sync, republish and set-up ran at the same time.                        *)
Tracked ==
  life = "loaded" /\ (\A c \in Call : task[c].at \notin {"save", "remove"}) =>
    /\ view = Merged(mem, subentries)
    /\ tracked = Known(view)

AtRest == life = "loaded" /\ link /\ \A c \in Task : task[c] = Idle

(* With auto-republish, every export is known to the bridge once nothing is *)
(* in progress, across reconnects by the loop or by a call, failed syncs   *)
(* and restarts; but for what a connection lost in mid-create or in        *)
(* mid-republish takes with it.                                            *)
Registered ==
  AtRest /\ AutoRepublish =>
    (Known(file) \union Configured(subentries)) \ torn \subseteq Known(bridge)
===============================================================================
