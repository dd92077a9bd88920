----------------------------- MODULE Exports_proofs -----------------------------
(***************************************************************************)
(* What Exports promises, for any entities, subentries, names and calls    *)
(* and any number of changes and losses.                                   *)
(***************************************************************************)
EXTENDS Exports, TLAPS

(* A service call works on one entity; the loop creates and removes none. *)
Placed ==
  \A c \in Task :
    task[c].at \in {"create", "announce", "add", "save", "remove"} =>
      c # Loop /\ task[c].e \in Entity

(* Nothing runs, and no connection is up, until set-up is over. *)
Quiet == life # "loaded" => ~link /\ \A c \in Task : task[c] = Idle

(* What finished calls have reported is in memory while there is one. *)
Remembered ==
  life # "down" => \A e \in Entity : reported[e] # Unsure => mem[e] = reported[e]

(* Set-up does not outdate the view it has made. *)
ViewAtSetup == life = "setup" /\ ~EditsInSetup => view = Merged(mem, subentries)

Inv == TypeOK /\ Placed /\ Quiet /\ Durable /\ Remembered

-------------------------------------------------------------------------------
(* Merging *)

Subentries == [Sub -> [e : Entity, n : Name] \union {NoSub}]

LEMMA MergedType ==
  ASSUME ExportsAssumption, NEW m \in [Entity -> Export], NEW s \in Subentries
  PROVE  Merged(m, s) \in [Entity -> Export]
<1> SUFFICES ASSUME NEW e \in Entity
             PROVE  (IF Subs(s, e) # {}
                     THEN s[CHOOSE i \in Subs(s, e) : \A j \in Subs(s, e) : j <= i].n
                     ELSE m[e]) \in Export
  BY DEF Merged
<1>1. CASE Subs(s, e) # {}
  <2> DEFINE i == CHOOSE i \in Subs(s, e) : \A j \in Subs(s, e) : j <= i
  <2>1. i \in Subs(s, e)
    BY <1>1 DEF Subs, ExportsAssumption
  <2>2. i \in Sub /\ s[i] \in [e : Entity, n : Name] \union {NoSub}
    BY <2>1 DEF Subs, Subentries
  <2>3. s[i].n \in Export
    BY <2>2 DEF Export, NoSub
  <2> QED
    BY <1>1, <2>3
<1>2. CASE Subs(s, e) = {}
  BY <1>2
<1> QED
  BY <1>1, <1>2

LEMMA ChangedType ==
  ASSUME TypeOK, NEW new \in [Entity -> Export]
  PROVE  Changed(new) \in [Entity -> Export]
BY DEF TypeOK, Changed, Export

LEMMA KnownType == ASSUME NEW m PROVE Known(m) \in SUBSET Entity
BY DEF Known

Tasks == [Task -> [at : Step, e : Entity \union {None}, todo : [Entity -> Export]]]

LEMMA IdleType ==
  /\ Nothing \in [Entity -> Export]
  /\ Idle \in [at : Step, e : Entity \union {None}, todo : [Entity -> Export]]
BY DEF Idle, Nothing, Export, Step

LEMMA CallsAreTasks == Call \subseteq Task /\ Loop \in Task
BY DEF Task

-------------------------------------------------------------------------------
(* Types *)

LEMMA GoesType ==
  ASSUME TypeOK, NEW c \in Task, NEW at \in Step, Goes(c, at)
  PROVE  task' \in Tasks
BY DEF TypeOK, Goes, Tasks

LEMMA PutType ==
  ASSUME TypeOK, NEW c \in Task, NEW at \in Step, NEW e \in Entity \union {None},
         NEW todo \in [Entity -> Export],
         task' = [task EXCEPT ![c] = [at |-> at, e |-> e, todo |-> todo]]
  PROVE  task' \in Tasks
BY DEF TypeOK, Tasks

LEMMA StepType ==
  ASSUME NEW r \in [at : Step, e : Entity \union {None}, todo : [Entity -> Export]],
         NEW at \in Step
  PROVE  [r EXCEPT !.at = at]
           \in [at : Step, e : Entity \union {None}, todo : [Entity -> Export]]
OBVIOUS

LEMMA EndsType ==
  ASSUME TypeOK, NEW c \in Task, Ends(c)
  PROVE  task' \in Tasks
BY IdleType DEF TypeOK, Ends, Tasks

LEMMA RefreshType ==
  ASSUME ExportsAssumption, NEW m \in [Entity -> Export], NEW s \in Subentries,
         Refresh(m, s)
  PROVE  view' \in [Entity -> Export] /\ tracked' \in SUBSET Entity
BY MergedType, KnownType DEF Refresh

LEMMA EnsureConnectedType ==
  ASSUME TypeOK, EnsureConnected
  PROVE  link' \in BOOLEAN /\ bridge' \in [Entity -> Export]
BY IdleType DEF TypeOK, EnsureConnected, session

LEMMA ReportsType ==
  ASSUME TypeOK, NEW c \in Task, Reports(c)
  PROVE  reported' \in [Entity -> Export \union {Unsure}]
BY DEF TypeOK, Reports

USE DEF stores, runtime, session, bounds, ghosts

LEMMA UserStepTypes ==
  ASSUME ExportsAssumption, TypeOK, UserStep
  PROVE  TypeOK'
<1> USE DEF Request
<1>a. Subentries = [Sub -> [e : Entity, n : Name] \union {NoSub}]
  BY DEF Subentries
<1>1. ASSUME NEW c \in Call, NEW e \in Entity, NEW n \in Name, Create(c, e, n)
      PROVE  TypeOK'
  <2>1. [Nothing EXCEPT ![e] = n] \in [Entity -> Export]
    BY IdleType DEF Export
  <2>2. task' \in Tasks
    BY <1>1, <2>1, PutType, CallsAreTasks DEF Create, Step
  <2>3. edits' \in 0..MaxEdits
    BY <1>1, ExportsAssumption DEF Create, TypeOK
  <2> QED
    BY <1>1, <2>2, <2>3 DEF Create, TypeOK, Tasks
<1>2. ASSUME NEW c \in Call, NEW e \in Entity, Remove(c, e)
      PROVE  TypeOK'
  <2>1. task' \in Tasks
    BY <1>2, PutType, IdleType, CallsAreTasks DEF Remove, Step
  <2>2. edits' \in 0..MaxEdits
    BY <1>2, ExportsAssumption DEF Remove, TypeOK
  <2>3. mem' \in [Entity -> Export]
    BY <1>2 DEF Remove, TypeOK, Export
  <2>4. reported' \in [Entity -> Export \union {Unsure}]
    BY <1>2 DEF Remove, TypeOK
  <2> QED
    BY <1>2, <2>1, <2>2, <2>3, <2>4 DEF Remove, TypeOK, Tasks
<1>3. ASSUME NEW i \in Sub, NEW e \in Entity \union {None}, NEW n \in Export,
             Edit(i, e, n)
      PROVE  subentries' \in Subentries
  <2>1. [e |-> e, n |-> n] \in [e : Entity, n : Name] \union {NoSub}
    BY <1>3 DEF Edit, Export, NoSub
  <2> QED
    BY <1>3, <2>1 DEF Edit, Subentries, TypeOK
<1>4. ASSUME NEW c \in Call, NEW i \in Sub, NEW e \in Entity \union {None},
             NEW n \in Export, EditSubentry(c, i, e, n)
      PROVE  TypeOK'
  <2>1. subentries' \in Subentries /\ mem \in [Entity -> Export]
    BY <1>3, <1>4 DEF EditSubentry, TypeOK
  <2>2. view' \in [Entity -> Export] /\ tracked' \in SUBSET Entity
    BY <1>4, <2>1, RefreshType DEF EditSubentry, Sync
  <2> DEFINE todo == Changed(Merged(mem, subentries'))
  <2>3. todo \in [Entity -> Export]
    BY <2>1, MergedType, ChangedType
  <2>4. task' = [task EXCEPT ![c] = IF todo = Nothing THEN Idle
                                    ELSE [Idle EXCEPT !.at = "sync", !.todo = todo]]
    BY <1>4 DEF EditSubentry, Sync
  <2> HIDE DEF todo
  <2>5. task' \in Tasks
    BY <2>3, <2>4, IdleType, CallsAreTasks DEF Tasks, TypeOK, Idle, Step
  <2>6. edits' \in 0..MaxEdits
    BY <1>4, ExportsAssumption DEF EditSubentry, TypeOK
  <2> QED
    BY <1>4, <1>a, <2>1, <2>2, <2>5, <2>6 DEF EditSubentry, TypeOK, Tasks
<1>5. ASSUME NEW i \in Sub, NEW e \in Entity \union {None}, NEW n \in Export,
             EditUnheard(i, e, n)
      PROVE  TypeOK'
  <2>1. subentries' \in Subentries
    BY <1>3, <1>5 DEF EditUnheard
  <2>2. edits' \in 0..MaxEdits
    BY <1>5, ExportsAssumption DEF EditUnheard, TypeOK
  <2> QED
    BY <1>5, <1>a, <2>1, <2>2 DEF EditUnheard, TypeOK
<1>6. ASSUME NEW c \in Call, RepublishService(c)
      PROVE  TypeOK'
  <2>1. task' \in Tasks
    BY <1>6, GoesType, CallsAreTasks DEF RepublishService, Step
  <2>2. edits' \in 0..MaxEdits
    BY <1>6, ExportsAssumption DEF RepublishService, TypeOK
  <2> QED
    BY <1>6, <2>1, <2>2 DEF RepublishService, TypeOK, Tasks
<1> QED
  BY <1>1, <1>2, <1>4, <1>5, <1>6 DEF UserStep

LEMMA TaskStepTypes ==
  ASSUME ExportsAssumption, TypeOK, NEW c \in Task, TaskStep(c)
  PROVE  TypeOK'
<1>a. subentries \in Subentries /\ mem \in [Entity -> Export]
  BY DEF TypeOK, Subentries
<1>b. /\ task[c].e \in Entity \union {None}
      /\ task[c].todo \in [Entity -> Export]
  BY DEF TypeOK
<1>1. CASE Fails(c)
  BY <1>1, EndsType DEF Fails, TypeOK, Tasks
<1>2. CASE CreateConnects(c)
  <2>1. task' \in Tasks
    BY <1>2, GoesType DEF CreateConnects, Step
  <2> QED
    BY <1>2, <2>1, EnsureConnectedType DEF CreateConnects, TypeOK, Tasks
<1>3. CASE Announce(c)
  <2>1. task' \in Tasks
    BY <1>3, GoesType DEF Announce, Step
  <2>2. bridge' \in [Entity -> Export]
    BY <1>3, <1>b DEF Announce, TypeOK
  <2> QED
    BY <1>3, <2>1, <2>2 DEF Announce, TypeOK, Tasks
<1>4. CASE AddExport(c)
  <2>1. task' \in Tasks
    BY <1>4, GoesType DEF AddExport, Step
  <2>2. mem' \in [Entity -> Export]
    BY <1>4, <1>b DEF AddExport, TypeOK
  <2>3. reported' \in [Entity -> Export \union {Unsure}]
    BY <1>4 DEF AddExport, TypeOK
  <2> QED
    BY <1>4, <2>1, <2>2, <2>3 DEF AddExport, TypeOK, Tasks
<1>5. CASE Saved(c)
  <2>1. task' \in Tasks
    BY <1>5, IdleType DEF Saved, Tasks, TypeOK, Step, Idle
  <2>2. view' \in [Entity -> Export] /\ tracked' \in SUBSET Entity
    BY <1>5, <1>a, RefreshType DEF Saved
  <2>3. reported' \in [Entity -> Export \union {Unsure}]
    BY <1>5, ReportsType DEF Saved
  <2> QED
    BY <1>5, <1>a, <2>1, <2>2, <2>3 DEF Saved, Write, TypeOK, Tasks
<1>6. CASE Removed(c)
  <2>1. task' \in Tasks
    BY <1>6, EndsType DEF Removed
  <2>2. view' \in [Entity -> Export] /\ tracked' \in SUBSET Entity
    BY <1>6, <1>a, RefreshType DEF Removed
  <2>3. reported' \in [Entity -> Export \union {Unsure}]
    BY <1>6, ReportsType DEF Removed
  <2> QED
    BY <1>6, <1>a, <2>1, <2>2, <2>3 DEF Removed, Write, TypeOK, Tasks
<1>7. CASE SyncConnects(c)
  <2>1. task' \in Tasks
    BY <1>7, GoesType DEF SyncConnects, Step
  <2> QED
    BY <1>7, <2>1, EnsureConnectedType DEF SyncConnects, TypeOK, Tasks
<1>8. CASE Republish(c)
  <2>1. view' \in [Entity -> Export]
    BY <1>8, <1>a, MergedType DEF Republish
  <2>2. task' \in Tasks
    BY <1>8, <2>1, IdleType DEF Republish, Tasks, TypeOK, Idle, Step
  <2> QED
    BY <1>8, <2>1, <2>2, EnsureConnectedType DEF Republish, TypeOK, Tasks
<1>9. CASE Push(c)
  <2>1. task' \in Tasks
    BY <1>9, GoesType, EndsType DEF Push, Step
  <2> QED
    BY <1>9, <2>1, EnsureConnectedType DEF Push, TypeOK, Tasks
<1>10. ASSUME NEW e \in Entity, Register(c, e)
       PROVE  TypeOK'
  <2> DEFINE left == [task[c].todo EXCEPT ![e] = None]
  <2>1. left \in [Entity -> Export]
    BY <1>b DEF Export
  <2> DEFINE half == [task[c] EXCEPT !.at = "push"]
             mid == [task EXCEPT ![c] = half]
  <2>a. half.todo = task[c].todo /\ c \in DOMAIN task
    BY DEF TypeOK
  <2>b. task' = [mid EXCEPT ![c].todo[e] = None]
    BY <1>10 DEF Register
  <2>c. mid[c] = half
    BY <2>a
  <2> HIDE DEF half
  <2>d. task' = [mid EXCEPT ![c] = [half EXCEPT !.todo = left]]
    <3>1. task' = [mid EXCEPT ![c] = [mid[c] EXCEPT
                                        !.todo = [mid[c].todo EXCEPT ![e] = None]]]
      BY <2>b
    <3> QED
      BY <2>a, <2>c, <3>1
  <2>e. task' = [task EXCEPT ![c] = [half EXCEPT !.todo = left]]
    BY <2>a, <2>d
  <2> HIDE DEF left
  <2>f. half \in [at : Step, e : Entity \union {None}, todo : [Entity -> Export]]
    <3>1. "push" \in Step
      BY DEF Step
    <3>2. task[c] \in [at : Step, e : Entity \union {None}, todo : [Entity -> Export]]
      BY DEF TypeOK
    <3> QED
      BY <3>1, <3>2, StepType DEF half
  <2>2. [half EXCEPT !.todo = left]
          \in [at : Step, e : Entity \union {None}, todo : [Entity -> Export]]
    BY <2>1, <2>f, SMTT(30)
  <2>4. task' \in Tasks
    BY <2>2, <2>e DEF TypeOK, Tasks
  <2>5. bridge' \in [Entity -> Export]
    BY <1>10, <1>b DEF Register, TypeOK
  <2> QED
    BY <1>10, <2>4, <2>5 DEF Register, TypeOK, Tasks
<1> QED
  BY <1>1, <1>2, <1>3, <1>4, <1>5, <1>6, <1>7, <1>8, <1>9, <1>10 DEF TaskStep

LEMMA EntryStepTypes ==
  ASSUME ExportsAssumption, TypeOK, Placed,
         \/ Lose \/ Reconnect \/ Load \/ Restart \/ \E c \in Call : Loaded(c)
  PROVE  TypeOK'
<1>a. subentries \in Subentries /\ mem \in [Entity -> Export]
  BY DEF TypeOK, Subentries
<1>1. CASE Lose
  <2>1. task' \in Tasks
    <3>1. Goes(Loop, "connect") \/ task' = task
      BY <1>1 DEF Lose, Goes
    <3> QED
      BY <3>1, GoesType, CallsAreTasks DEF TypeOK, Tasks, Step
  <2>2. losses' \in 0..MaxLosses
    BY <1>1, ExportsAssumption DEF Lose, TypeOK
  <2>3. torn' \in SUBSET Entity
    <3>1. CASE LoopPublishes
      BY <1>1, <3>1 DEF Lose, TypeOK
    <3>2. CASE ~LoopPublishes
      <4>1. HalfCreated \in SUBSET Entity
        BY CallsAreTasks DEF HalfCreated, Placed
      <4> QED
        BY <1>1, <3>2, <4>1 DEF Lose, TypeOK
    <3> QED
      BY <3>1, <3>2
  <2> QED
    BY <1>1, <2>1, <2>2, <2>3, IdleType DEF Lose, TypeOK, Tasks
<1>2. CASE Reconnect
  <2>1. task' \in Tasks
    BY <1>2, GoesType, EndsType, CallsAreTasks DEF Reconnect, AfterReconnect, Step
  <2> QED
    BY <1>2, <2>1, EnsureConnectedType DEF Reconnect, TypeOK, Tasks
<1>3. CASE Load
  <2>1. mem' \in [Entity -> Export]
    BY <1>3 DEF Load, TypeOK
  <2>2. view' \in [Entity -> Export]
    BY <1>3, <1>a, <2>1, MergedType DEF Load
  <2> QED
    BY <1>3, <2>1, <2>2 DEF Load, TypeOK
<1>4. CASE Restart
  <2>1. losses' \in 0..MaxLosses
    BY <1>4, ExportsAssumption DEF Restart, TypeOK
  <2>2. task' \in Tasks
    BY <1>4, IdleType DEF Restart, Tasks
  <2> QED
    BY <1>4, <2>1, <2>2, IdleType DEF Restart, TypeOK, Tasks
<1>5. ASSUME NEW c \in Call, Loaded(c)
      PROVE  TypeOK'
  <2>1. task' \in Tasks
    BY <1>5, GoesType, CallsAreTasks DEF Loaded, Step, TypeOK, Tasks
  <2>2. tracked' \in SUBSET Entity
    BY <1>5, KnownType DEF Loaded
  <2> QED
    BY <1>5, <2>1, <2>2, IdleType DEF Loaded, TypeOK, Tasks
<1> QED
  BY <1>1, <1>2, <1>3, <1>4, <1>5

-------------------------------------------------------------------------------
(* Which call is where *)

LEMMA PlacedGoes ==
  ASSUME TypeOK, Placed, NEW c \in Task, NEW at \in Step, Goes(c, at),
         at \in {"create", "announce", "add", "save", "remove"} =>
           c # Loop /\ task[c].e \in Entity
  PROVE  Placed'
BY DEF Goes, Placed, TypeOK

LEMMA PlacedPut ==
  ASSUME TypeOK, Placed, NEW c \in Task, NEW r, task' = [task EXCEPT ![c] = r],
         r.at \in {"create", "announce", "add", "save", "remove"} =>
           c # Loop /\ r.e \in Entity
  PROVE  Placed'
BY DEF Placed, TypeOK

LEMMA PlacedStep ==
  ASSUME ExportsAssumption, TypeOK, Placed, [Next]_vars
  PROVE  Placed'
<1>a. Idle.at = "idle"
  BY DEF Idle
<1>1. ASSUME NEW c \in Call, NEW e \in Entity, NEW n \in Name, Create(c, e, n)
      PROVE  Placed'
  BY <1>1, PlacedPut, ExportsAssumption, CallsAreTasks DEF Create
<1>2. ASSUME NEW c \in Call, NEW e \in Entity, Remove(c, e)
      PROVE  Placed'
  BY <1>2, PlacedPut, ExportsAssumption, CallsAreTasks DEF Remove
<1>3. ASSUME NEW c \in Call, NEW i \in Sub, NEW e \in Entity \union {None},
             NEW n \in Export, EditSubentry(c, i, e, n)
      PROVE  Placed'
  <2> DEFINE todo == Changed(Merged(mem, subentries'))
             r == IF todo = Nothing THEN Idle
                  ELSE [Idle EXCEPT !.at = "sync", !.todo = todo]
  <2>1. task' = [task EXCEPT ![c] = r]
    BY <1>3 DEF EditSubentry, Sync
  <2> HIDE DEF todo
  <2>2. r.at \in {"idle", "sync"}
    BY DEF Idle
  <2> HIDE DEF r
  <2> QED
    BY <2>1, <2>2, PlacedPut, CallsAreTasks
<1>4. ASSUME NEW c \in Call, RepublishService(c)
      PROVE  Placed'
  BY <1>4, PlacedGoes, CallsAreTasks DEF RepublishService, Step
<1>5. ASSUME NEW c \in Task, TaskStep(c)
      PROVE  Placed'
  <2>1. ASSUME Ends(c) PROVE Placed'
    BY <1>a, <2>1, PlacedPut DEF Ends
  <2>2. ASSUME NEW at \in {"sync", "register", "push"}, Goes(c, at)
        PROVE  Placed'
    BY <2>2, PlacedGoes DEF Step
  <2>3. CASE Fails(c) \/ Removed(c) \/ SyncConnects(c) \/ Push(c)
    BY <2>1, <2>2, <2>3 DEF Fails, Removed, SyncConnects, Push
  <2>4. CASE CreateConnects(c)
    BY <2>4, PlacedGoes DEF CreateConnects, Placed, Step
  <2>5. CASE Announce(c)
    BY <2>5, PlacedGoes DEF Announce, Placed, Step
  <2>6. CASE AddExport(c)
    BY <2>6, PlacedGoes DEF AddExport, Placed, Step
  <2>7. CASE Saved(c)
    <3>1. [Idle EXCEPT !.at = "push"].at = "push"
      BY DEF Idle
    <3> QED
      BY <2>7, <3>1, PlacedPut DEF Saved
  <2>8. CASE Republish(c)
    <3> DEFINE r == IF view' = Nothing THEN Idle
                    ELSE [Idle EXCEPT !.at = "register", !.todo = view']
    <3>1. task' = [task EXCEPT ![c] = r]
      BY <2>8 DEF Republish
    <3>2. r.at \in {"idle", "register"}
      BY DEF Idle
    <3> HIDE DEF r
    <3> QED
      BY <3>1, <3>2, PlacedPut
  <2>9. ASSUME NEW e \in Entity, Register(c, e)
        PROVE  Placed'
    <3>1. \A d \in Task :
            \/ task'[d].at = task[d].at /\ task'[d].e = task[d].e
            \/ task'[d].at = "push"
      BY <2>9 DEF Register, TypeOK
    <3> QED
      BY <3>1 DEF Placed
  <2> QED
    BY <1>5, <2>3, <2>4, <2>5, <2>6, <2>7, <2>8, <2>9 DEF TaskStep
<1>6. CASE Lose
  <2>1. Goes(Loop, "connect") \/ task' = task
    BY <1>6 DEF Lose, Goes
  <2> QED
    BY <2>1, PlacedGoes, CallsAreTasks DEF Placed, Step
<1>7. CASE Reconnect
  <2>1. Goes(Loop, "republish") \/ Ends(Loop)
    BY <1>7 DEF Reconnect, AfterReconnect
  <2> QED
    BY <1>a, <2>1, PlacedGoes, PlacedPut, CallsAreTasks DEF Ends, Step
<1>8. CASE Restart
  BY <1>8, <1>a DEF Restart, Placed
<1>9. ASSUME NEW c \in Call, Loaded(c)
      PROVE  Placed'
  <2>1. Goes(c, "republish") \/ task' = task
    BY <1>9 DEF Loaded
  <2> QED
    BY <2>1, PlacedGoes, CallsAreTasks DEF Placed, Step
<1>10. CASE Load \/ (\E i \in Sub, e \in Entity \union {None}, n \in Export :
                       EditUnheard(i, e, n)) \/ UNCHANGED vars
  BY <1>10 DEF Load, EditUnheard, vars, Placed
<1> QED
  BY <1>1, <1>2, <1>3, <1>4, <1>5, <1>6, <1>7, <1>8, <1>9, <1>10
  DEF Next, UserStep

-------------------------------------------------------------------------------
(* What a finished call has reported is in memory and in the file *)

LEMMA QuietStep ==
  ASSUME ExportsAssumption, TypeOK, Quiet, [Next]_vars
  PROVE  Quiet'
<1>a. Idle.at = "idle" /\ Call \subseteq Task /\ Loop \in Task
  BY DEF Idle, Task
<1>1. CASE UserStep
  BY <1>1, <1>a DEF UserStep, Create, Remove, EditSubentry, EditUnheard,
                    RepublishService, Request, Quiet
<1>2. ASSUME NEW c \in Task, TaskStep(c)
      PROVE  Quiet'
  <2>1. task[c].at # "idle" /\ life' = life
    BY <1>2 DEF TaskStep, Fails, CreateConnects, Announce, AddExport, Saved,
                Removed, SyncConnects, Republish, Push, Register
  <2> QED
    BY <1>a, <2>1 DEF Quiet
<1>3. CASE Lose \/ Reconnect \/ Load \/ Restart \/ \E c \in Call : Loaded(c)
  BY <1>3, <1>a DEF Lose, Reconnect, Load, Restart, Loaded, Quiet
<1>4. CASE UNCHANGED vars
  BY <1>4 DEF vars, Quiet
<1> QED
  BY <1>1, <1>2, <1>3, <1>4 DEF Next

LEMMA DurableStep ==
  ASSUME ExportsAssumption, TypeOK, Placed, Quiet, Durable, Remembered, [Next]_vars
  PROVE  Durable' /\ Remembered'
<1>a. Idle.at = "idle" /\ Call \subseteq Task /\ Loop \in Task
  BY DEF Idle, Task
<1>1. ASSUME UNCHANGED <<file, mem, reported>>, life' = "down" => life = "down",
             life = "down" => life' = "down"
      PROVE  Durable' /\ Remembered'
  BY <1>1 DEF Durable, Remembered
<1>2. ASSUME NEW e \in Entity, UNCHANGED <<file, life>>,
             \A x \in Entity : x # e =>
               mem'[x] = mem[x] /\ reported'[x] = reported[x],
             reported'[e] = Unsure
      PROVE  Durable' /\ Remembered'
  BY <1>2 DEF Durable, Remembered
<1>3. ASSUME NEW c \in Task, task[c].at \in {"save", "remove"}, UNCHANGED <<mem, life>>,
             Write, Reports(c)
      PROVE  Durable' /\ Remembered'
  <2>1. life = "loaded" /\ task[c].e \in Entity
    BY <1>3, <1>a DEF Quiet, Placed
  <2>2. \A x \in Entity : x # task[c].e => reported'[x] = reported[x]
    BY <1>3 DEF Reports
  <2>3. reported'[task[c].e] \in {Unsure, mem[task[c].e]}
    BY <1>3, <2>1 DEF Reports, TypeOK
  <2> QED
    BY <1>3, <2>1, <2>2, <2>3 DEF Durable, Remembered, Write
<1>4. ASSUME NEW c \in Call, NEW e \in Entity, Remove(c, e)
      PROVE  Durable' /\ Remembered'
  BY <1>2, <1>4 DEF Remove, TypeOK
<1>5. CASE UserStep
  <2>1. CASE \E c \in Call, e \in Entity : Remove(c, e)
    BY <1>4, <2>1
  <2>2. CASE ~\E c \in Call, e \in Entity : Remove(c, e)
    BY <1>1, <1>5, <2>2 DEF UserStep, Create, EditSubentry, EditUnheard,
                            RepublishService
  <2> QED
    BY <2>1, <2>2
<1>6. ASSUME NEW c \in Task, TaskStep(c)
      PROVE  Durable' /\ Remembered'
  <2>1. CASE AddExport(c)
    <3>1. task[c].e \in Entity
      BY <2>1 DEF AddExport, Placed
    <3> QED
      BY <1>2, <2>1, <3>1 DEF AddExport, TypeOK
  <2>2. CASE Saved(c) \/ Removed(c)
    BY <1>3, <2>2 DEF Saved, Removed
  <2>3. CASE ~AddExport(c) /\ ~Saved(c) /\ ~Removed(c)
    BY <1>1, <1>6, <2>3 DEF TaskStep, Fails, CreateConnects, Announce,
                            SyncConnects, Republish, Push, Register
  <2> QED
    BY <2>1, <2>2, <2>3
<1>7. CASE Lose \/ Reconnect \/ \E c \in Call : Loaded(c)
  BY <1>1, <1>7 DEF Lose, Reconnect, Loaded
<1>8. CASE Load
  BY <1>8 DEF Load, Durable, Remembered
<1>9. CASE Restart
  BY <1>9 DEF Restart, Durable, Remembered
<1>10. CASE UNCHANGED vars
  BY <1>1, <1>10 DEF vars
<1> QED
  BY <1>5, <1>6, <1>7, <1>8, <1>9, <1>10 DEF Next

LEMMA InitInv == ASSUME ExportsAssumption, Init PROVE Inv
<1>1. TypeOK
  <2>1. subentries \in [Sub -> [e : Entity, n : Name] \union {NoSub}]
    BY DEF Init
  <2>2. task \in Tasks
    BY IdleType DEF Init, Tasks
  <2>3. reported \in [Entity -> Export \union {Unsure}]
    BY DEF Init, Nothing, Export
  <2>4. edits \in 0..MaxEdits /\ losses \in 0..MaxLosses
    BY ExportsAssumption DEF Init
  <2> QED
    BY <2>1, <2>2, <2>3, <2>4, IdleType DEF Init, TypeOK, Tasks
<1>2. Placed
  BY DEF Init, Placed, Idle
<1>3. Quiet
  BY DEF Init, Quiet
<1>4. Durable /\ Remembered
  BY DEF Init, Durable, Remembered
<1> QED
  BY <1>1, <1>2, <1>3, <1>4 DEF Inv

LEMMA InvStep == ASSUME ExportsAssumption, Inv, [Next]_vars PROVE Inv'
<1>1. TypeOK'
  <2>1. CASE UNCHANGED vars
    BY <2>1 DEF vars, Inv, TypeOK
  <2> QED
    BY <2>1, UserStepTypes, TaskStepTypes, EntryStepTypes DEF Next, Inv
<1> QED
  BY <1>1, PlacedStep, QuietStep, DurableStep DEF Inv

(* The state of Exports is what Inv says in every behaviour.               *)
THEOREM ExportsInvariance == ASSUME ExportsAssumption PROVE Spec => []Inv
<1>1. Init => Inv
  BY InitInv
<1>2. Inv /\ [Next]_vars => Inv'
  BY InvStep
<1> QED
  BY <1>1, <1>2, PTL DEF Spec

(* The copies of the exports, the calls and what they report keep their    *)
(* types (store.py, coordinator.py).                                       *)
THEOREM ExportsTyping == ASSUME ExportsAssumption PROVE Spec => []TypeOK
<1>1. Inv => TypeOK
  BY DEF Inv
<1> QED
  BY <1>1, ExportsInvariance, PTL

(* Whatever a finished create or remove has reported is in the file,       *)
(* however many calls run at once and wherever Home Assistant crashes.     *)
THEOREM DurableAlways == ASSUME ExportsAssumption PROVE Spec => []Durable
<1>1. Inv => Durable
  BY DEF Inv
<1> QED
  BY <1>1, ExportsInvariance, PTL

-------------------------------------------------------------------------------
(* The view and the state listener follow the exports *)

Saving == \E c \in Call : task[c].at \in {"save", "remove"}

LEMMA TrackedStep ==
  ASSUME ExportsAssumption, ~EditsInSetup, Inv, Tracked, ViewAtSetup, [Next]_vars
  PROVE  Tracked' /\ ViewAtSetup'
<1>a. Idle.at = "idle" /\ Call \subseteq Task /\ Loop \in Task /\ TypeOK /\ Quiet
  BY DEF Idle, Task, Inv
<1>1. ASSUME UNCHANGED <<mem, subentries, view, life>>,
             life = "loaded" => UNCHANGED tracked,
             life = "loaded" /\ Saving => Saving'
      PROVE  Tracked' /\ ViewAtSetup'
  BY <1>1 DEF Tracked, ViewAtSetup, Saving
<1>2. ASSUME life' = "loaded", Refresh(mem', subentries')
      PROVE  Tracked' /\ ViewAtSetup'
  BY <1>2 DEF Refresh, Tracked, ViewAtSetup
<1>3. ASSUME life' = "loaded", Saving'
      PROVE  Tracked' /\ ViewAtSetup'
  BY <1>3 DEF Saving, Tracked, ViewAtSetup
<1>4. ASSUME NEW c \in Task, NEW r, task' = [task EXCEPT ![c] = r],
             task[c].at \notin {"save", "remove"}, Saving
      PROVE  Saving'
  BY <1>4, <1>a DEF Saving, TypeOK
<1>5. ASSUME NEW c \in Task, NEW at, Goes(c, at),
             task[c].at \notin {"save", "remove"}, Saving
      PROVE  Saving'
  BY <1>5, <1>a DEF Saving, TypeOK, Goes
<1>6. ASSUME NEW c \in Call, NEW e \in Entity, NEW n \in Name, Create(c, e, n)
      PROVE  Tracked' /\ ViewAtSetup'
  BY <1>1, <1>4, <1>6, <1>a DEF Create, Request
<1>7. ASSUME NEW c \in Call, NEW e \in Entity, Remove(c, e)
      PROVE  Tracked' /\ ViewAtSetup'
  <2>1. task'[c].at = "remove" /\ life' = "loaded"
    BY <1>7, <1>a DEF Remove, Request, TypeOK
  <2> QED
    BY <1>3, <2>1 DEF Saving
<1>8. ASSUME NEW c \in Call, NEW i \in Sub, NEW e \in Entity \union {None},
             NEW n \in Export, EditSubentry(c, i, e, n)
      PROVE  Tracked' /\ ViewAtSetup'
  BY <1>2, <1>8 DEF EditSubentry, Sync, Request
<1>9. ASSUME NEW i \in Sub, NEW e \in Entity \union {None}, NEW n \in Export,
             EditUnheard(i, e, n)
      PROVE  Tracked' /\ ViewAtSetup'
  BY <1>9 DEF EditUnheard, Tracked, ViewAtSetup
<1>10. ASSUME NEW c \in Call, RepublishService(c)
       PROVE  Tracked' /\ ViewAtSetup'
  BY <1>1, <1>5, <1>10, <1>a DEF RepublishService, Request
<1>11. ASSUME NEW c \in Task, TaskStep(c)
       PROVE  Tracked' /\ ViewAtSetup'
  <2>1. CASE Fails(c)
    BY <1>1, <1>4, <2>1 DEF Fails, Ends
  <2>2. CASE CreateConnects(c) \/ Announce(c) \/ SyncConnects(c)
    BY <1>1, <1>5, <2>2 DEF CreateConnects, Announce, SyncConnects
  <2>3. CASE AddExport(c)
    <3>1. task'[c].at = "save" /\ life' = life /\ c \in Call /\ life = "loaded"
      BY <1>a, <2>3 DEF AddExport, Goes, Inv, Placed, Quiet, Task, TypeOK
    <3> QED
      BY <1>3, <3>1 DEF Saving
  <2>4. CASE Saved(c) \/ Removed(c)
    <3>1. life' = "loaded"
      BY <1>a, <2>4 DEF Saved, Removed, Quiet
    <3> QED
      BY <1>2, <2>4, <3>1 DEF Saved, Removed
  <2>5. CASE Republish(c)
    <3>1. life = "loaded" /\ life' = "loaded"
      BY <1>a, <2>5 DEF Republish, Quiet
    <3>2. CASE Saving
      <4> DEFINE r == IF view' = Nothing THEN Idle
                      ELSE [Idle EXCEPT !.at = "register", !.todo = view']
      <4>1. task' = [task EXCEPT ![c] = r] /\ task[c].at = "republish"
        BY <2>5 DEF Republish
      <4> HIDE DEF r
      <4>2. task[c].at \notin {"save", "remove"}
        BY <4>1
      <4>3. Saving'
        BY <1>4, <3>2, <4>1, <4>2
      <4> QED
        BY <1>3, <3>1, <4>3
    <3>3. CASE ~Saving
      BY <2>5, <3>1, <3>3 DEF Republish, Saving, Tracked, ViewAtSetup
    <3> QED
      BY <3>2, <3>3
  <2>6. CASE Push(c)
    BY <1>1, <1>4, <1>5, <2>6 DEF Push, Ends
  <2>7. ASSUME NEW e \in Entity, Register(c, e)
        PROVE  Tracked' /\ ViewAtSetup'
    <3>1. \A d \in Task : d # c => task'[d] = task[d]
      BY <2>7, <1>a DEF Register, TypeOK
    <3>2. task[c].at = "register"
      BY <2>7 DEF Register
    <3>3. Saving => Saving'
      BY <3>1, <3>2, <1>a DEF Saving
    <3> QED
      BY <1>1, <2>7, <3>3 DEF Register
  <2> QED
    BY <1>11, <2>1, <2>2, <2>3, <2>4, <2>5, <2>6, <2>7 DEF TaskStep
<1>12. CASE Lose
  <2>1. task[Loop] # Idle => task' = task
    BY <1>12 DEF Lose
  <2>2. task[Loop] = Idle => Goes(Loop, "connect")
    BY <1>12 DEF Lose, Goes
  <2> QED
    BY <1>1, <1>5, <1>12, <1>a, <2>1, <2>2 DEF Lose, Saving
<1>13. CASE Reconnect
  BY <1>1, <1>4, <1>5, <1>13, <1>a DEF Reconnect, AfterReconnect, Ends
<1>14. CASE Load \/ Restart
  BY <1>14 DEF Load, Restart, Tracked, ViewAtSetup
<1>15. ASSUME NEW c \in Call, Loaded(c)
       PROVE  Tracked' /\ ViewAtSetup'
  BY <1>15 DEF Loaded, Tracked, ViewAtSetup, Known
<1>16. CASE UNCHANGED vars
  BY <1>1, <1>16 DEF vars, Saving
<1> QED
  BY <1>6, <1>7, <1>8, <1>9, <1>10, <1>11, <1>12, <1>13, <1>14, <1>15, <1>16
  DEF Next, UserStep

(* When no subentry changes during set-up, the merged view and the state   *)
(* listener hold the exports of the store and of the subentries whenever   *)
(* no call waits for its save, whatever else runs (_refresh_exports,       *)
(* async_reinstall_listener and their callers).                            *)
THEOREM TrackedAlways ==
  ASSUME ExportsAssumption, ~EditsInSetup PROVE Spec => []Tracked
<1>1. Init => Tracked /\ ViewAtSetup
  BY DEF Init, Tracked, ViewAtSetup
<1>2. Inv /\ Tracked /\ ViewAtSetup /\ [Next]_vars => Tracked' /\ ViewAtSetup'
  BY TrackedStep
<1> QED
  BY <1>1, <1>2, ExportsInvariance, PTL DEF Spec

-------------------------------------------------------------------------------
(* What the bridge is still to be told, and who will tell it               *)

(* Exports, and what some task takes for exports. *)
Owed == Known(Merged(mem, subentries)) \union Known(view)

(* The task registers the entity before it ends, or the connection is lost. *)
Promises(c, e) ==
  \/ c = Loop /\ task[c].at = "connect"
  \/ task[c].at = "republish"
  \/ task[c].at \in {"sync", "register", "push"} /\ task[c].todo[e] # None

(* The bridge knows the device, or a lost connection has undone it. *)
Seen(e) == e \in torn \/ bridge[e] # None

Covered(e) == Seen(e) \/ \E c \in Task : Promises(c, e)

(* Without a connection, the loop makes one or has lost one in mid-republish. *)
Unlinked ==
  ~link => /\ bridge = Nothing
           /\ life = "loaded" => task[Loop].at = "connect" \/ torn = Entity

(* Where the loop can be, and what a call in mid-create has left at the bridge. *)
Positions ==
  /\ task[Loop] = Idle \/ task[Loop].at \in {"connect", "republish", "register", "push"}
  /\ \A c \in Call : task[c].at \in {"create", "announce", "add"} =>
       task[c].todo[task[c].e] # None
  /\ \A c \in Call : task[c].at = "add" => Seen(task[c].e)

(* The file is behind the memory only while a call waits for its save. *)
Stored == life # "down" /\ ~Saving => file = mem

Answered == life = "loaded" => \A e \in Owed : Covered(e)

Telling == Unlinked /\ Positions /\ Stored /\ Answered

LEMMA MergedPoint ==
  ASSUME NEW m, NEW n, NEW s, NEW e \in Entity, m[e] = n[e]
  PROVE  Merged(m, s)[e] = Merged(n, s)[e]
BY DEF Merged

LEMMA MergedRemoval ==
  ASSUME NEW m \in [Entity -> Export], NEW s, NEW e \in Entity
  PROVE  Known(Merged([m EXCEPT ![e] = None], s)) \subseteq Known(Merged(m, s))
BY DEF Known, Merged

(* No export is lost in the merge: no subentry's export is None. *)
LEMMA MergedKnown ==
  ASSUME ExportsAssumption, NEW m \in [Entity -> Export], NEW s \in Subentries
  PROVE  Known(m) \union Configured(s) \subseteq Known(Merged(m, s)) \union {None}
<1> SUFFICES ASSUME NEW e \in Entity, e \in Known(m) \union Configured(s)
             PROVE  Merged(m, s)[e] # None
  <2>1. Configured(s) \subseteq Entity
    BY DEF Configured, Subentries, NoSub
  <2> QED
    BY <2>1 DEF Known
<1>1. CASE Subs(s, e) # {}
  <2> DEFINE i == CHOOSE i \in Subs(s, e) : \A j \in Subs(s, e) : j <= i
  <2>1. i \in Subs(s, e)
    BY <1>1 DEF Subs, ExportsAssumption
  <2>2. Merged(m, s)[e] = s[i].n
    BY <1>1 DEF Merged
  <2>3. i \in Sub /\ s[i].e = e /\ s[i] \in [e : Entity, n : Name] \union {NoSub}
    BY <2>1 DEF Subs, Subentries
  <2> HIDE DEF i
  <2>4. s[i].n \in Name
    BY <2>3, ExportsAssumption DEF NoSub
  <2> QED
    BY <2>2, <2>4, ExportsAssumption
<1>2. CASE Subs(s, e) = {}
  <2>1. e \notin Configured(s)
    BY <1>2 DEF Configured, Subs
  <2> QED
    BY <1>2, <2>1 DEF Merged, Known
<1> QED
  BY <1>1, <1>2

(* What one task does leaves the others' promises alone. *)
LEMMA CoveredFrame ==
  ASSUME NEW c \in Task, \A d \in Task \ {c} : task'[d] = task[d],
         NEW e \in Entity, Covered(e), Seen(e) => Seen(e)',
         Promises(c, e) => Covered(e)'
  PROVE  Covered(e)'
BY DEF Covered, Promises

LEMMA PositionsFrame ==
  ASSUME Placed, Positions, NEW c \in Task, \A d \in Task \ {c} : task'[d] = task[d],
         \A e \in Entity : Seen(e) => Seen(e)',
         c = Loop => task'[c] = Idle
                       \/ task'[c].at \in {"connect", "republish", "register", "push"},
         task'[c].at \in {"create", "announce", "add"} =>
           task'[c].todo[task'[c].e] # None,
         task'[c].at = "add" => task'[c].e \in torn' \/ bridge'[task'[c].e] # None
  PROVE  Positions'
<1>1. task'[Loop] = Idle \/ task'[Loop].at \in {"connect", "republish", "register", "push"}
  BY DEF Positions, Task
<1>2. ASSUME NEW d \in Call, task'[d].at \in {"create", "announce", "add"}
      PROVE  task'[d].todo[task'[d].e] # None
  BY <1>2 DEF Positions, Task
<1>3. ASSUME NEW d \in Call, task'[d].at = "add"
      PROVE  task'[d].e \in torn' \/ bridge'[task'[d].e] # None
  <2>1. CASE d = c
    BY <1>3, <2>1
  <2>2. CASE d # c
    <3>1. task'[d] = task[d] /\ d \in Task
      BY <2>2 DEF Task
    <3>2. task[d].e \in Entity /\ Seen(task[d].e)
      BY <1>3, <3>1 DEF Positions, Placed
    <3>3. task[d].e \in torn' \/ bridge'[task[d].e] # None
      BY <3>2 DEF Seen
    <3> QED
      BY <3>1, <3>3
  <2> QED
    BY <2>1, <2>2
<1> QED
  BY <1>1, <1>2, <1>3 DEF Positions, Seen

LEMMA StoredFrame ==
  ASSUME Stored, NEW c \in Task, \A d \in Task \ {c} : task'[d] = task[d],
         task[c].at \notin {"save", "remove"}, UNCHANGED <<file, mem>>,
         life' = life
  PROVE  Stored'
BY DEF Stored, Saving, Task

LEMMA OwedFrame ==
  ASSUME Answered, UNCHANGED <<mem, subentries, life>>,
         view' = view \/ view' = Merged(mem, subentries),
         \A e \in Entity : Covered(e) => Covered(e)'
  PROVE  Answered'
BY DEF Answered, Owed, Known

(* Connecting brings no news: without a connection the bridge knew nothing. *)
LEMMA Connected ==
  ASSUME Unlinked, EnsureConnected
  PROVE  link' /\ bridge' = bridge
BY DEF Unlinked, EnsureConnected

LEMMA GoesFacts ==
  ASSUME TypeOK, NEW c \in Task, NEW at, Goes(c, at)
  PROVE  /\ \A d \in Task \ {c} : task'[d] = task[d]
         /\ task'[c].at = at /\ task'[c].e = task[c].e /\ task'[c].todo = task[c].todo
BY DEF TypeOK, Goes

LEMMA PutFacts ==
  ASSUME TypeOK, NEW c \in Task, NEW r, task' = [task EXCEPT ![c] = r]
  PROVE  /\ \A d \in Task \ {c} : task'[d] = task[d]
         /\ task'[c] = r
BY DEF TypeOK

LEMMA IdleFacts ==
  /\ Idle.at = "idle"
  /\ \A c \in Task, e \in Entity : task[c] = Idle => ~Promises(c, e)
BY DEF Idle, Promises

(* Requests of the user *)
LEMMA TellingUserStep ==
  ASSUME ExportsAssumption, Inv, Telling, UserStep
  PROVE  Telling'
<1>a. Call \subseteq Task /\ Loop \in Task /\ Loop \notin Call /\ TypeOK /\ Placed /\ Quiet
  BY CallsAreTasks, ExportsAssumption DEF Inv
<1>b. Idle.at = "idle" /\ \A c \in Task, e \in Entity : task[c] = Idle => ~Promises(c, e)
  BY IdleFacts
(* A call that begins says nothing to the bridge. *)
<1>0. ASSUME NEW c \in Call, task[c] = Idle, life = "loaded",
             UNCHANGED <<file, life, session, torn>>,
             \A d \in Task \ {c} : task'[d] = task[d],
             task'[c].at \in {"create", "announce"} => task'[c].todo[task'[c].e] # None,
             task'[c].at # "add",
             task'[c].at = "remove" \/ mem' = mem
      PROVE  Unlinked' /\ Positions' /\ Stored' /\ \A e \in Entity : Covered(e) => Covered(e)'
  <2>1. \A e \in Entity : Seen(e) => Seen(e)'
    BY <1>0 DEF Seen
  <2>2. \A e \in Entity : Covered(e) => Covered(e)'
    BY <1>0, <1>a, <1>b, <2>1, CoveredFrame
  <2>3. Unlinked'
    BY <1>0, <1>a DEF Telling, Unlinked
  <2>4. Positions'
    BY <1>0, <1>a, <2>1, PositionsFrame DEF Telling
  <2>5. Stored'
    <3>1. CASE task'[c].at = "remove"
      BY <3>1 DEF Stored, Saving
    <3>2. CASE mem' = mem
      BY <1>0, <1>a, <1>b, <3>2, StoredFrame DEF Telling
    <3> QED
      BY <1>0, <3>1, <3>2
  <2> QED
    BY <2>2, <2>3, <2>4, <2>5
<1>1. ASSUME NEW c \in Call, NEW e \in Entity, NEW n \in Name, Create(c, e, n)
      PROVE  Telling'
  <2> DEFINE r == [at |-> "create", e |-> e, todo |-> [Nothing EXCEPT ![e] = n]]
  <2>1. /\ task' = [task EXCEPT ![c] = r] /\ task[c] = Idle /\ life = "loaded"
        /\ UNCHANGED <<stores, runtime, session, ghosts>>
    BY <1>1 DEF Create, Request
  <2>2. r.at = "create" /\ r.todo[r.e] # None
    BY ExportsAssumption DEF Nothing
  <2> HIDE DEF r
  <2>3. task'[c] = r /\ \A d \in Task \ {c} : task'[d] = task[d]
    BY <1>a, <2>1, PutFacts
  <2>4. Unlinked' /\ Positions' /\ Stored' /\ \A x \in Entity : Covered(x) => Covered(x)'
    BY <1>0, <2>1, <2>2, <2>3
  <2> QED
    BY <2>1, <2>4, OwedFrame DEF Telling
<1>2. ASSUME NEW c \in Call, NEW e \in Entity, Remove(c, e)
      PROVE  Telling'
  <2> DEFINE r == [at |-> "remove", e |-> e, todo |-> Nothing]
  <2>1. /\ task' = [task EXCEPT ![c] = r] /\ task[c] = Idle /\ life = "loaded"
        /\ UNCHANGED <<file, subentries, runtime, session, torn>>
        /\ mem' = [mem EXCEPT ![e] = None]
    BY <1>2 DEF Remove, Request
  <2>2. r.at = "remove"
    OBVIOUS
  <2> HIDE DEF r
  <2>3. task'[c] = r /\ \A d \in Task \ {c} : task'[d] = task[d]
    BY <1>a, <2>1, PutFacts
  <2>4. Unlinked' /\ Positions' /\ Stored' /\ \A x \in Entity : Covered(x) => Covered(x)'
    BY <1>0, <2>1, <2>2, <2>3
  <2>5. Known(Merged(mem, subentries))' \subseteq Known(Merged(mem, subentries))
    BY <1>a, <2>1, MergedRemoval DEF TypeOK
  <2>6. Owed' \subseteq Owed /\ Owed \subseteq Entity
    BY <2>1, <2>5 DEF Owed, Known
  <2> QED
    BY <2>1, <2>4, <2>6 DEF Telling, Answered
<1>3. ASSUME NEW c \in Call, NEW i \in Sub, NEW e \in Entity \union {None},
             NEW n \in Export, EditSubentry(c, i, e, n)
      PROVE  Telling'
  <2> DEFINE new == Merged(mem, subentries')
             todo == Changed(new)
             r == IF todo = Nothing THEN Idle ELSE [Idle EXCEPT !.at = "sync", !.todo = todo]
  <2>1. /\ task' = [task EXCEPT ![c] = r] /\ task[c] = Idle /\ life = "loaded"
        /\ UNCHANGED <<file, mem, life, session, ghosts>> /\ view' = new
    BY <1>3 DEF EditSubentry, Request, Sync, Refresh
  <2>2. /\ todo = Nothing => r = Idle
        /\ todo # Nothing => r.at = "sync" /\ r.todo = todo
    BY DEF Idle
  <2>3. \A x \in Entity : new[x] # view[x] => todo[x] = new[x]
    BY DEF Changed
  <2> HIDE DEF new, todo, r
  <2>4. task'[c] = r /\ \A d \in Task \ {c} : task'[d] = task[d]
    BY <1>a, <2>1, PutFacts
  <2>5. Unlinked' /\ Positions' /\ Stored' /\ \A x \in Entity : Covered(x) => Covered(x)'
    BY <1>0, <1>b, <2>1, <2>2, <2>4
  <2>6. Owed' = Known(new)
    BY <2>1 DEF Owed, Known, new
  <2>7. ASSUME NEW x \in Entity, new[x] # None
        PROVE  Covered(x)'
    <3>1. CASE new[x] = view[x]
      BY <2>1, <2>5, <2>7, <3>1 DEF Telling, Answered, Owed, Known
    <3>2. CASE new[x] # view[x]
      <4>1. todo[x] # None /\ todo # Nothing
        BY <2>3, <2>7, <3>2 DEF Nothing
      <4> QED
        BY <1>a, <2>2, <2>4, <4>1 DEF Covered, Promises
    <3> QED
      BY <3>1, <3>2
  <2> QED
    BY <2>5, <2>6, <2>7 DEF Telling, Answered, Known
<1>4. ASSUME NEW i \in Sub, NEW e \in Entity \union {None}, NEW n \in Export,
             EditUnheard(i, e, n)
      PROVE  Telling'
  <2>1. life # "loaded" /\ UNCHANGED <<file, mem, life, session, task, torn>>
    BY <1>4 DEF EditUnheard
  <2> QED
    BY <2>1 DEF Telling, Unlinked, Positions, Stored, Saving, Answered, Seen
<1>5. ASSUME NEW c \in Call, RepublishService(c)
      PROVE  Telling'
  <2>1. /\ task[c] = Idle /\ life = "loaded" /\ Goes(c, "republish")
        /\ UNCHANGED <<stores, runtime, session, ghosts>>
    BY <1>5 DEF RepublishService, Request
  <2>2. task'[c].at = "republish" /\ \A d \in Task \ {c} : task'[d] = task[d]
    BY <1>a, <2>1, GoesFacts
  <2>3. Unlinked' /\ Positions' /\ Stored' /\ \A x \in Entity : Covered(x) => Covered(x)'
    BY <1>0, <2>1, <2>2
  <2> QED
    BY <2>1, <2>3, OwedFrame DEF Telling
<1> QED
  BY <1>1, <1>2, <1>3, <1>4, <1>5 DEF UserStep

(* Steps of the coroutines *)
LEMMA TellingTaskStep ==
  ASSUME ExportsAssumption, Inv, Telling, NEW c \in Task, TaskStep(c)
  PROVE  Telling'
<1>a. /\ TypeOK /\ Placed /\ Quiet /\ Loop \in Task
      /\ Unlinked /\ Positions /\ Stored /\ Answered
  BY CallsAreTasks DEF Inv, Telling
<1>b. Idle.at = "idle" /\ \A d \in Task, e \in Entity : task[d] = Idle => ~Promises(d, e)
  BY IdleFacts
<1>c. life = "loaded"
  <2>1. task[c].at # "idle"
    BY DEF TaskStep, Fails, CreateConnects, Announce, AddExport, Saved, Removed,
           SyncConnects, Republish, Push, Register
  <2> QED
    BY <1>a, <1>b, <2>1 DEF Quiet
(* What a step has to show, that neither saves nor makes a promise. *)
<1>0. ASSUME UNCHANGED <<file, mem, subentries, life>>, link' = link \/ link',
             \A d \in Task \ {c} : task'[d] = task[d],
             view' = view \/ view' = Merged(mem, subentries),
             \A e \in Entity : Seen(e) => Seen(e)',
             link' \/ UNCHANGED <<link, bridge, torn>>,
             task[c].at \notin {"save", "remove", "connect"},
             c = Loop => task'[c] = Idle \/ task'[c].at \in {"republish", "register", "push"},
             task'[c].at \in {"create", "announce", "add"} =>
               task'[c].todo[task'[c].e] # None,
             task'[c].at = "add" => task'[c].e \in torn' \/ bridge'[task'[c].e] # None,
             \A e \in Entity : Promises(c, e) => Covered(e)'
      PROVE  Telling'
  <2>1. Positions'
    BY <1>0, <1>a, PositionsFrame
  <2>2. \A e \in Entity : Covered(e) => Covered(e)'
    BY <1>0, CoveredFrame
  <2>3. Answered'
    BY <1>0, <1>a, <2>2, OwedFrame
  <2>4. Stored'
    BY <1>0, <1>a, StoredFrame
  <2>5. Unlinked'
    <3>1. CASE link'
      BY <3>1 DEF Unlinked
    <3>2. CASE ~link' /\ UNCHANGED <<link, bridge, torn>>
      BY <1>0, <1>a, <3>2 DEF Unlinked
    <3> QED
      BY <1>0, <3>1, <3>2
  <2> QED
    BY <2>1, <2>3, <2>4, <2>5 DEF Telling
<1>1. CASE Fails(c)
  <2>1. /\ ~link /\ Ends(c) /\ UNCHANGED <<stores, runtime, session, bounds, ghosts>>
        /\ task[c].at \in {"create", "announce", "add", "sync", "republish",
                           "register", "push"}
    BY <1>1 DEF Fails
  <2>2. task'[c] = Idle /\ \A d \in Task \ {c} : task'[d] = task[d]
    BY <1>a, <2>1, PutFacts DEF Ends
  <2>3. \A e \in Entity : Covered(e)'
    <3>1. task[Loop].at = "connect" \/ torn = Entity
      BY <1>a, <1>c, <2>1 DEF Unlinked
    <3>2. CASE torn = Entity
      BY <2>1, <3>2 DEF Covered, Seen
    <3>3. CASE task[Loop].at = "connect"
      <4>1. task'[Loop].at = "connect"
        BY <1>a, <2>1, <2>2, <3>3
      <4> QED
        BY <1>a, <4>1 DEF Covered, Promises
    <3> QED
      BY <3>1, <3>2, <3>3
  <2> QED
    BY <1>0, <1>b, <2>1, <2>2, <2>3 DEF Seen
<1>2. CASE CreateConnects(c)
  <2>1. /\ task[c].at = "create" /\ c # Loop /\ EnsureConnected /\ Goes(c, "announce")
        /\ UNCHANGED <<stores, runtime, bounds, ghosts>>
    BY <1>2, <1>a DEF CreateConnects, Placed
  <2>2. link' /\ bridge' = bridge
    BY <1>a, <2>1, Connected
  <2>3. /\ \A d \in Task \ {c} : task'[d] = task[d]
        /\ task'[c].at = "announce" /\ task'[c].todo = task[c].todo /\ task'[c].e = task[c].e
    BY <1>a, <2>1, GoesFacts
  <2>4. task[c].todo[task[c].e] # None
    BY <1>a, <2>1 DEF Positions, Task
  <2>5. \A e \in Entity : ~Promises(c, e)
    BY <2>1 DEF Promises
  <2> QED
    BY <1>0, <2>1, <2>2, <2>3, <2>4, <2>5 DEF Seen
<1>3. CASE Announce(c)
  <2> DEFINE x == task[c].e
  <2>1. /\ task[c].at = "announce" /\ c # Loop /\ x \in Entity /\ link /\ Goes(c, "add")
        /\ bridge' = [bridge EXCEPT ![x] = task[c].todo[x]]
        /\ UNCHANGED <<stores, runtime, link, bounds, ghosts>>
    BY <1>3, <1>a DEF Announce, Placed
  <2>2. /\ \A d \in Task \ {c} : task'[d] = task[d]
        /\ task'[c].at = "add" /\ task'[c].todo = task[c].todo /\ task'[c].e = x
    BY <1>a, <2>1, GoesFacts
  <2>3. task[c].todo[x] # None
    BY <1>a, <2>1 DEF Positions, Task
  <2>4. \A e \in Entity : ~Promises(c, e)
    BY <2>1 DEF Promises
  <2> HIDE DEF x
  <2>5. bridge'[x] # None /\ \A e \in Entity : Seen(e) => Seen(e)'
    BY <1>a, <2>1, <2>3 DEF Seen, TypeOK
  <2> QED
    BY <1>0, <2>1, <2>2, <2>3, <2>4, <2>5
<1>4. CASE AddExport(c)
  <2> DEFINE x == task[c].e
  <2>1. /\ task[c].at = "add" /\ c # Loop /\ x \in Entity /\ Goes(c, "save")
        /\ mem' = [mem EXCEPT ![x] = task[c].todo[x]]
        /\ UNCHANGED <<file, subentries, runtime, session, bounds, torn>>
    BY <1>4, <1>a DEF AddExport, Placed
  <2>2. /\ \A d \in Task \ {c} : task'[d] = task[d]
        /\ task'[c].at = "save"
    BY <1>a, <2>1, GoesFacts
  <2>3. Seen(x)
    BY <1>a, <2>1 DEF Positions, Task
  <2>4. \A e \in Entity : Seen(e) => Seen(e)'
    BY <2>1 DEF Seen
  <2>5. \A e \in Entity : ~Promises(c, e)
    BY <2>1 DEF Promises
  <2> HIDE DEF x
  <2>6. \A e \in Entity : Covered(e) => Covered(e)'
    BY <2>2, <2>4, <2>5, CoveredFrame
  <2>7. ASSUME NEW e \in Owed'
        PROVE  Covered(e)'
    <3>1. e \in Entity
      BY <2>7 DEF Owed, Known
    <3>2. CASE e = x
      BY <2>1, <2>3, <2>6, <3>2 DEF Covered
    <3>3. CASE e # x
      <4>1. mem'[e] = mem[e]
        BY <1>a, <2>1, <3>1, <3>3 DEF TypeOK
      <4>2. Merged(mem', subentries)[e] = Merged(mem, subentries)[e]
        BY <3>1, <4>1, MergedPoint
      <4>3. e \in Owed
        BY <2>1, <2>7, <3>1, <4>2 DEF Owed, Known
      <4> QED
        BY <1>a, <1>c, <2>6, <3>1, <4>3 DEF Answered
    <3> QED
      BY <3>2, <3>3
  <2>8. Answered'
    BY <2>7 DEF Answered
  <2>9. Positions' /\ Stored' /\ Unlinked'
    <3>1. Positions'
      BY <1>a, <2>1, <2>2, <2>4, PositionsFrame
    <3>2. Stored'
      BY <2>1, <2>2 DEF Stored, Saving, Task
    <3>3. Unlinked'
      BY <1>a, <2>1, <2>2 DEF Unlinked
    <3> QED
      BY <3>1, <3>2, <3>3
  <2> QED
    BY <2>8, <2>9 DEF Telling
<1>5. CASE Saved(c) \/ Removed(c)
  <2>1. /\ task[c].at \in {"save", "remove"} /\ c # Loop
        /\ file' = mem /\ view' = Merged(mem, subentries)
        /\ UNCHANGED <<mem, subentries, life, session, torn>>
    BY <1>5, <1>a DEF Saved, Removed, Placed, Write, Refresh
  <2>2. /\ \A d \in Task \ {c} : task'[d] = task[d]
        /\ task'[c].at \in {"idle", "push"}
    <3>1. CASE Removed(c)
      BY <1>a, <1>b, <3>1, PutFacts DEF Removed, Ends
    <3>2. CASE Saved(c)
      <4>1. [Idle EXCEPT !.at = "push"].at = "push"
        BY DEF Idle
      <4> QED
        BY <1>a, <3>2, <4>1, PutFacts DEF Saved
    <3> QED
      BY <1>5, <3>1, <3>2
  <2>3. \A e \in Entity : (Seen(e) => Seen(e)') /\ ~Promises(c, e)
    BY <2>1 DEF Seen, Promises
  <2>4. \A e \in Entity : Covered(e) => Covered(e)'
    BY <2>2, <2>3, CoveredFrame
  <2>5. Answered'
    BY <1>a, <2>1, <2>4, OwedFrame
  <2>6. Positions'
    BY <1>a, <2>1, <2>2, <2>3, PositionsFrame
  <2>7. Stored' /\ Unlinked'
    BY <1>a, <2>1, <2>2 DEF Stored, Unlinked
  <2> QED
    BY <2>5, <2>6, <2>7 DEF Telling
<1>6. CASE SyncConnects(c) \/ Push(c)
  <2>1. /\ task[c].at \in {"sync", "push"} /\ EnsureConnected
        /\ UNCHANGED <<stores, runtime, bounds, ghosts>>
        /\ Goes(c, "register") \/ (task[c].todo = Nothing /\ Ends(c))
    BY <1>6 DEF SyncConnects, Push
  <2>2. link' /\ bridge' = bridge
    BY <1>a, <2>1, Connected
  <2>3. /\ \A d \in Task \ {c} : task'[d] = task[d]
        /\ \/ task'[c].at = "register" /\ task'[c].todo = task[c].todo
           \/ task'[c] = Idle /\ task[c].todo = Nothing
    BY <1>a, <2>1, GoesFacts, PutFacts DEF Ends
  <2>4. \A e \in Entity : Promises(c, e) => Covered(e)'
    BY <2>1, <2>3 DEF Promises, Covered, Nothing
  <2> QED
    BY <1>0, <1>b, <2>1, <2>2, <2>3, <2>4 DEF Seen
<1>7. CASE Republish(c)
  <2> DEFINE r == IF view' = Nothing THEN Idle
                  ELSE [Idle EXCEPT !.at = "register", !.todo = view']
  <2>1. /\ task[c].at = "republish" /\ EnsureConnected /\ view' = Merged(mem, subentries)
        /\ task' = [task EXCEPT ![c] = r]
        /\ UNCHANGED <<stores, tracked, life, bounds, ghosts>>
    BY <1>7 DEF Republish
  <2>2. /\ view' = Nothing => r = Idle
        /\ view' # Nothing => r.at = "register" /\ r.todo = view'
    BY DEF Idle
  <2> HIDE DEF r
  <2>3. link' /\ bridge' = bridge
    BY <1>a, <2>1, Connected
  <2>4. task'[c] = r /\ \A d \in Task \ {c} : task'[d] = task[d]
    BY <1>a, <2>1, PutFacts
  <2>5. Positions'
    <3>1. \A e \in Entity : Seen(e) => Seen(e)'
      BY <2>1, <2>3 DEF Seen
    <3> QED
      BY <1>a, <1>b, <2>2, <2>4, <3>1, PositionsFrame
  <2>6. Stored'
    BY <1>a, <2>1, <2>4, StoredFrame
  <2>7. Unlinked'
    BY <2>3 DEF Unlinked
  <2>8. ASSUME NEW e \in Owed'
        PROVE  Covered(e)'
    <3>1. e \in Entity /\ view'[e] # None
      BY <2>1, <2>8 DEF Owed, Known
    <3>2. r.at = "register" /\ r.todo[e] # None
      BY <2>2, <3>1 DEF Nothing
    <3> QED
      BY <2>4, <3>2 DEF Covered, Promises
  <2> QED
    BY <2>5, <2>6, <2>7, <2>8 DEF Telling, Answered
<1>8. ASSUME NEW x \in Entity, Register(c, x)
      PROVE  Telling'
  <2>1. /\ task[c].at = "register" /\ link /\ task[c].todo[x] # None
        /\ bridge' = [bridge EXCEPT ![x] = task[c].todo[x]] /\ torn' = torn \ {x}
        /\ UNCHANGED <<stores, runtime, link, bounds, reported>>
        /\ task' = [task EXCEPT ![c].at = "push", ![c].todo[x] = None]
    BY <1>8 DEF Register
  <2>2. \A d \in Task \ {c} : task'[d] = task[d]
    BY <1>a, <2>1 DEF TypeOK
  <2>3. /\ task'[c].at = "push"
        /\ \A e \in Entity \ {x} : task'[c].todo[e] = task[c].todo[e]
    BY <1>a, <2>1 DEF TypeOK
  <2>4. bridge'[x] # None /\ \A e \in Entity : Seen(e) => Seen(e)'
    BY <1>a, <2>1 DEF Seen, TypeOK
  <2>5. ASSUME NEW e \in Entity, Promises(c, e)
        PROVE  Covered(e)'
    <3>1. CASE e = x
      BY <2>4, <3>1 DEF Covered, Seen
    <3>2. CASE e # x
      <4>1. task[c].todo[e] # None
        BY <2>1, <2>5 DEF Promises
      <4> QED
        BY <2>3, <3>2, <4>1 DEF Covered, Promises
    <3> QED
      BY <3>1, <3>2
  <2> QED
    BY <1>0, <2>1, <2>2, <2>3, <2>4, <2>5
<1> QED
  BY <1>1, <1>2, <1>3, <1>4, <1>5, <1>6, <1>7, <1>8 DEF TaskStep

(* The connection, and the life of the entry *)
LEMMA TellingEntryStep ==
  ASSUME ExportsAssumption, AutoRepublish, Inv, Telling,
         \/ Lose \/ Reconnect \/ Load \/ Restart \/ \E c \in Call : Loaded(c)
  PROVE  Telling'
<1>a. /\ TypeOK /\ Placed /\ Quiet /\ Loop \in Task /\ Call \subseteq Task
      /\ Unlinked /\ Positions /\ Stored /\ Answered
  BY CallsAreTasks DEF Inv, Telling
<1>b. Idle.at = "idle"
  BY DEF Idle
<1>c. Loop \notin Call
  BY ExportsAssumption
<1>1. CASE Lose
  <2>1. /\ link /\ ~link' /\ bridge' = Nothing /\ UNCHANGED <<stores, runtime, reported>>
        /\ torn' = torn \union IF LoopPublishes THEN Entity ELSE HalfCreated
    BY <1>1 DEF Lose
  <2>2. life = "loaded"
    BY <1>a, <2>1 DEF Quiet
  <2>3. /\ \A d \in Task \ {Loop} : task'[d] = task[d]
        /\ task[Loop] = Idle => task'[Loop].at = "connect"
        /\ task[Loop] # Idle => task'[Loop] = task[Loop]
    BY <1>1, <1>a DEF Lose, TypeOK
  <2>4. task'[Loop].at = "connect" \/ torn' = Entity
    <3>1. CASE LoopPublishes
      BY <1>a, <2>1, <3>1 DEF TypeOK
    <3>2. CASE ~LoopPublishes
      BY <1>a, <2>3, <3>2 DEF Positions, LoopPublishes
    <3> QED
      BY <3>1, <3>2
  <2>5. \A e \in Entity : Covered(e)'
    BY <1>a, <2>4 DEF Covered, Seen, Promises
  <2>6. Positions'
    <3>1. task'[Loop].at \in {"connect", "republish", "register", "push"}
      BY <1>a, <2>3 DEF Positions
    <3>2. ASSUME NEW c \in Call
          PROVE  /\ task'[c] = task[c]
                 /\ task[c].at = "add" => task[c].e \in torn'
      <4>1. task'[c] = task[c]
        BY <1>a, <1>c, <2>3
      <4>2. ASSUME task[c].at = "add" PROVE task[c].e \in torn'
        <5>1. task[c].e \in HalfCreated /\ task[c].e \in Entity
          BY <1>a, <4>2 DEF HalfCreated, Placed
        <5> QED
          BY <2>1, <5>1
      <4> QED
        BY <4>1, <4>2
    <3>3. \A c \in Call : task'[c].at \in {"create", "announce", "add"} =>
            task'[c].todo[task'[c].e] # None
      BY <1>a, <3>2 DEF Positions
    <3>4. \A c \in Call : task'[c].at = "add" => task'[c].e \in torn'
      BY <3>2
    <3> QED
      BY <3>1, <3>3, <3>4 DEF Positions, Seen
  <2>7. Stored'
    BY <1>a, <1>c, <2>1, <2>3 DEF Stored, Saving
  <2>8. Unlinked'
    BY <2>1, <2>4 DEF Unlinked
  <2>9. Answered'
    BY <2>5 DEF Answered, Owed, Known
  <2> QED
    BY <2>6, <2>7, <2>8, <2>9 DEF Telling
<1>2. CASE Reconnect
  <2>1. /\ task[Loop].at = "connect" /\ EnsureConnected /\ Goes(Loop, "republish")
        /\ UNCHANGED <<stores, runtime, bounds, ghosts>>
    BY <1>2 DEF Reconnect, AfterReconnect
  <2>2. link' /\ bridge' = bridge
    BY <1>a, <2>1, Connected
  <2>3. /\ \A d \in Task \ {Loop} : task'[d] = task[d]
        /\ task'[Loop].at = "republish"
    BY <1>a, <2>1, GoesFacts
  <2>4. Positions'
    <3>1. \A e \in Entity : Seen(e) => Seen(e)'
      BY <2>1, <2>2 DEF Seen
    <3> QED
      BY <1>a, <2>3, <3>1, PositionsFrame
  <2>5. \A e \in Entity : Covered(e)'
    BY <1>a, <2>3 DEF Covered, Promises
  <2>6. Stored'
    BY <1>a, <2>1, <2>3, StoredFrame
  <2>7. Answered' /\ Unlinked'
    BY <2>2, <2>5 DEF Answered, Owed, Known, Unlinked
  <2> QED
    BY <2>4, <2>6, <2>7 DEF Telling
<1>3. CASE Load
  <2>1. /\ life = "down" /\ life' = "setup" /\ mem' = file
        /\ UNCHANGED <<file, session, task, torn>>
    BY <1>3 DEF Load
  <2> QED
    BY <1>a, <2>1 DEF Telling, Unlinked, Positions, Seen, Stored, Answered
<1>4. CASE Restart
  <2>1. /\ life' = "down" /\ bridge' = Nothing /\ \A c \in Task : task'[c] = Idle
    BY <1>4 DEF Restart
  <2>2. Positions'
    BY <1>a, <1>b, <2>1 DEF Positions
  <2> QED
    BY <2>1, <2>2 DEF Telling, Unlinked, Stored, Answered
<1>5. ASSUME NEW c \in Call, Loaded(c)
      PROVE  Telling'
  <2>1. /\ life = "setup" /\ life' = "loaded" /\ link' /\ Goes(c, "republish")
        /\ UNCHANGED <<stores, view, bounds, ghosts>>
    BY <1>5 DEF Loaded
  <2>2. /\ \A d \in Task \ {c} : task'[d] = task[d]
        /\ task'[c].at = "republish"
    BY <1>a, <2>1, GoesFacts
  <2>3. \A d \in Task : task[d] = Idle
    BY <1>a, <2>1 DEF Quiet
  <2>4. \A e \in Entity : Covered(e)'
    BY <1>a, <2>2 DEF Covered, Promises
  <2>5. Positions'
    BY <1>a, <1>b, <1>c, <2>2, <2>3 DEF Positions
  <2>6. Stored'
    BY <1>a, <1>b, <2>1, <2>3 DEF Stored, Saving
  <2>7. Answered' /\ Unlinked'
    BY <2>1, <2>4 DEF Answered, Owed, Known, Unlinked
  <2> QED
    BY <2>5, <2>6, <2>7 DEF Telling
<1> QED
  BY <1>1, <1>2, <1>3, <1>4, <1>5

(* With auto-republish, at rest every export of the file and of the        *)
(* subentries is at the bridge, but for what a connection lost in          *)
(* mid-create or in mid-republish has undone: any number of calls, of      *)
(* losses and of restarts (async_create_virtual_device,                    *)
(* async_sync_runtime_exports, async_republish_virtual_devices,            *)
(* _reconnect_loop).                                                       *)
THEOREM RegisteredAlways == ASSUME ExportsAssumption PROVE Spec => []Registered
<1>1. ASSUME AutoRepublish PROVE Init => Telling
  <2>1. SUFFICES ASSUME Init PROVE Telling
    OBVIOUS
  <2>2. life = "down" /\ bridge = Nothing /\ \A c \in Task : task[c] = Idle
    BY <2>1 DEF Init
  <2>3. Positions
    BY <2>2, IdleFacts, CallsAreTasks DEF Positions
  <2> QED
    BY <2>2, <2>3 DEF Telling, Unlinked, Stored, Answered
<1>2. ASSUME AutoRepublish, Inv, Telling, [Next]_vars PROVE Telling'
  <2>1. CASE UNCHANGED vars
    BY <1>2, <2>1 DEF vars, Telling, Unlinked, Positions, Seen, Stored, Saving,
                      Answered, Owed, Covered, Promises
  <2> QED
    BY <1>2, <2>1, TellingUserStep, TellingTaskStep, TellingEntryStep DEF Next
<1>3. ASSUME AutoRepublish, Inv, Telling PROVE Registered
  <2>1. SUFFICES ASSUME AtRest, NEW e \in Known(file) \union Configured(subentries),
                        e \notin torn
                 PROVE  e \in Known(bridge)
    BY DEF Registered
  <2>2. ~Saving /\ \A c \in Task, x \in Entity : ~Promises(c, x)
    BY <2>1, IdleFacts, CallsAreTasks DEF AtRest, Saving
  <2>3. file = mem
    BY <1>3, <2>1, <2>2 DEF Telling, Stored, AtRest
  <2>4. e # None
    BY <2>1, ExportsAssumption DEF Known, Configured
  <2>5. e \in Known(Merged(mem, subentries))
    BY <1>3, <2>1, <2>3, <2>4, MergedKnown DEF Inv, TypeOK, Subentries
  <2>6. e \in Entity /\ e \in Owed
    BY <2>5 DEF Owed, Known
  <2>7. Covered(e)
    BY <1>3, <2>1, <2>6 DEF Telling, Answered, AtRest
  <2> QED
    BY <2>1, <2>2, <2>6, <2>7 DEF Covered, Seen, Known
<1>4. CASE AutoRepublish
  BY <1>1, <1>2, <1>3, <1>4, ExportsInvariance, PTL DEF Spec
<1>5. CASE ~AutoRepublish
  <2>1. Registered
    BY <1>5 DEF Registered
  <2> QED
    BY <2>1, PTL
<1> QED
  BY <1>4, <1>5
===============================================================================
