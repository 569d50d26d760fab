--------------------------- MODULE AutomationCache ---------------------------
(***************************************************************************)
(* The cache of scene automations of one device. PostgreSQL holds a scene  *)
(* with its conditions (one group) and actions; Redis holds the list of    *)
(* the scenes of the device, the conditions of each group and the actions  *)
(* of each scene, each key for five minutes. A report of the device reads  *)
(* the cache and fills it from the database on a miss; a goroutine started *)
(* by each save deletes or adds the entries of its scene. Every read and   *)
(* every write of Redis or of the database is a step of its own.           *)
(*                                                                         *)
(* The object that builds the keys is shared: field is its device type,    *)
(* assigned by each call and read again for each key. The scenes here are  *)
(* triggered by the device itself, so a key built while field says         *)
(* "multiple" is nobody's: a read of it misses and a write to it is lost.  *)
(***************************************************************************)
EXTENDS Naturals, FiniteSets

CONSTANTS
    Scenes,    \* the scenes triggered by the device
    MaxSaves,  \* bound on the saves
    MaxEvents, \* bound on the scenes there are, the saves and the faults together
    MaxBusy,   \* bound on the goroutines that run at the same time
    Missing,   \* stands for a key that is not there
    NoTask     \* the string NOTASK in place of a list

ASSUME CacheAssumption == MaxSaves \in Nat

VARIABLES
    enabled, \* scene_automations.enabled, "gone" without a row
    conds,   \* device_trigger_condition.enabled of the rows of the scene
    version, \* which save wrote the conditions, with their group id, and the actions;
             \* 0 before the first
    list,    \* the scenes of the device, as pairs <<scene, group>>, or Missing, or NoTask
    group,   \* the groups whose conditions are cached, as pairs <<scene, group>>
    action,  \* the cached actions of a scene and their group, or Missing
    field,   \* AutomateCache.device
    pc,      \* where each goroutine is
    mem,     \* its local variables
    saves,   \* saves so far
    faults   \* failing statements, restarts and early expiries so far

dbVars    == <<enabled, conds, version, saves>>
redisVars == <<list, group, action>>
vars == <<dbVars, redisVars, field, pc, mem, faults>>

\* Every save starts a goroutine of its own; there is one report at a time.
Report   == 0
Workers  == 1..MaxSaves
Procs    == Workers \cup {Report}
Versions == 0..(MaxSaves + 1)
Groups   == Scenes \X Versions
Pcs      == {"idle", "device", "rows", "noTask", "conds", "acts", "group", "action", "hit",
             "delMultiple", "delAction", "delGroup", "delList", "delEmpty", "del",
             "addConds", "addActs", "addPass", "addGroup", "addAction", "addGet", "addSet"}

\* scene: the scene to save or delete in the cache; rows: the groups read from
\* the database or to be deleted; todo: those still to write; acts: the versions
\* of the actions read; copy: the list read; aimed: the list's key was built,
\* and is the device's; readd: the scene is added after its deletion, or the
\* addition has its second pass before it.
Memory == [scene : Scenes \cup {Missing}, rows : SUBSET Groups, todo : SUBSET Groups,
           acts : SUBSET Groups, copy : SUBSET Groups, aimed : BOOLEAN, readd : BOOLEAN]

Blank == [scene |-> Missing, rows |-> {}, todo |-> {}, acts |-> {}, copy |-> {},
          aimed |-> FALSE, readd |-> FALSE]

\* Every scene is new, as its creation left it (disabled, its conditions
\* enabled or not) or as an update left it, and nothing is cached.
Init ==
    /\ enabled \in [Scenes -> {"gone", "Y", "N"}]
    /\ conds \in [Scenes -> BOOLEAN]
    /\ \A s \in Scenes : (enabled[s] = "gone" => ~conds[s]) /\ (enabled[s] = "Y" => conds[s])
    /\ version = [s \in Scenes |-> IF enabled[s] = "gone" THEN 0 ELSE 1]
    /\ list = Missing
    /\ group = {}
    /\ action = [s \in Scenes |-> Missing]
    /\ field = "one"
    /\ pc = [p \in Procs |-> "idle"]
    /\ mem = [p \in Procs |-> Blank]
    /\ saves = 0
    /\ faults = 0

\* The bounds leave room for n more scenes or events, and for a goroutine more.
MayHappen(n) == Cardinality({s \in Scenes : version[s] # 0}) + saves + faults + n <= MaxEvents

HasRoom == Cardinality({p \in Procs : pc[p] # "idle"}) < MaxBusy

\* What a goroutine given scene s starts with.
ForScene(s) == [Blank EXCEPT !.scene = s]

GoTo(p, l) == pc' = [pc EXCEPT ![p] = l]

Ends(p) == GoTo(p, "idle") /\ mem' = [mem EXCEPT ![p] = Blank]

\* The key built now is a key of the device.
Right == field = "one"

Listed == IF list \in {Missing, NoTask} THEN {} ELSE list

\* The enabled rows of the device's conditions.
ConditionRows == {<<s, version[s]>> : s \in {t \in Scenes : enabled[t] # "gone" /\ conds[t]}}

ActionRows(S) == {<<s, version[s]>> : s \in {t \in S : enabled[t] # "gone"}}

ScenesOf(pairs) == {x[1] : x \in pairs}

-----------------------------------------------------------------------------
(* Saves. The rows change in one transaction, then a goroutine takes over.  *)

\* The goroutine of a save of s starts at l, and adds s at last if again holds.
Saves(s, w, l, again) ==
    /\ saves < MaxSaves /\ MayHappen(1)
    /\ saves' = saves + 1
    /\ w = saves'
    /\ l # "idle" => HasRoom
    /\ GoTo(w, l)
    /\ mem' = [mem EXCEPT ![w] = IF l = "idle" THEN Blank
                                 ELSE [ForScene(s) EXCEPT !.readd = again]]
    /\ UNCHANGED <<redisVars, field, faults>>

\* The scene's row gets e and the condition rows get c, under new group ids,
\* whatever was there before.
Writes(s, e, c) ==
    /\ enabled' = [enabled EXCEPT ![s] = e]
    /\ conds' = [conds EXCEPT ![s] = c]
    /\ version' = [version EXCEPT ![s] = @ + 1]

\* A new scene is disabled; its conditions, and whether it is added to the
\* cache, are as the request says.
CreateSceneAutomation(s, w) ==
    /\ version[s] = 0 /\ MayHappen(2)
    /\ \E on \in BOOLEAN :
           Writes(s, "N", on) /\ Saves(s, w, IF on THEN "addConds" ELSE "idle", FALSE)

\* Also of a scene that is gone: the row is inserted again.
UpdateSceneAutomation(s, w) ==
    /\ version[s] # 0
    /\ \E e \in {"Y", "N"} : Writes(s, e, e = "Y") /\ Saves(s, w, "delMultiple", e = "Y")

\* The update of the condition rows looks for the scene's id among the ids of
\* the rows themselves, and finds none.
SwitchSceneAutomation(s, w) ==
    /\ enabled[s] # "gone"
    /\ LET e == IF enabled[s] = "Y" THEN "N" ELSE "Y" IN
         /\ enabled' = [enabled EXCEPT ![s] = e]
         /\ Saves(s, w, IF e = "Y" THEN "addConds" ELSE "delMultiple", FALSE)
    /\ UNCHANGED <<conds, version>>

\* Conditions and actions go with their scene; the cache is not told.
DeleteSceneAutomation(s) ==
    /\ enabled[s] # "gone"
    /\ saves < MaxSaves /\ MayHappen(1)
    /\ saves' = saves + 1
    /\ enabled' = [enabled EXCEPT ![s] = "gone"]
    /\ conds' = [conds EXCEPT ![s] = FALSE]
    /\ UNCHANGED <<version, redisVars, field, pc, mem, faults>>

-----------------------------------------------------------------------------
(* DeleteCacheBySceneAutomationId.                                          *)

\* A report goes on, a save may have to add the scene, or ends.
AfterDelete(p) ==
    IF p = Report THEN GoTo(p, "hit") /\ mem' = [mem EXCEPT ![p] = Blank]
    ELSE IF mem[p].readd
         THEN GoTo(p, "addConds") /\ mem' = [mem EXCEPT ![p] = ForScene(mem[p].scene)]
    ELSE Ends(p)

\* First the keys of the other type: no actions are found there.
DeletesMultiple(p) ==
    /\ pc[p] = "delMultiple"
    /\ field' = "multiple"
    /\ GoTo(p, "delAction")
    /\ UNCHANGED <<dbVars, redisVars, mem, faults>>

\* Without the key of the actions nothing is deleted.
DeletesByAction(p) ==
    /\ pc[p] = "delAction"
    /\ field' = "one"
    /\ LET s == mem[p].scene IN
         IF action[s] = Missing
         THEN AfterDelete(p)
         ELSE GoTo(p, "delGroup") /\ mem' = [mem EXCEPT ![p].rows = {<<s, action[s][2]>>}]
    /\ UNCHANGED <<dbVars, redisVars, faults>>

\* The devices are known from the conditions of the groups.
ReadsGroup(p) ==
    /\ pc[p] = "delGroup"
    /\ GoTo(p, IF Right /\ mem[p].rows \subseteq group THEN "delList" ELSE "del")
    /\ mem' = [mem EXCEPT ![p].rows = IF Right THEN @ ELSE {}]
    /\ UNCHANGED <<dbVars, redisVars, field, faults>>

\* What is left of the list without the first entry of s, if it has one; the
\* same entry may have been added twice.
Without(s) == {Listed} \cup {Listed \ {x} : x \in {y \in Listed : y[1] = s}}

\* If entries remain the key is to be deleted, else an empty list is set.
ReadsList(p) ==
    /\ pc[p] = "delList"
    /\ IF ~Right \/ list \in {Missing, NoTask}
       THEN GoTo(p, "del") /\ UNCHANGED mem
       ELSE \E rest \in Without(mem[p].scene) :
                /\ GoTo(p, IF rest = {} THEN "delEmpty" ELSE "del")
                /\ mem' = [mem EXCEPT ![p].aimed = (rest # {})]
    /\ UNCHANGED <<dbVars, redisVars, field, faults>>

SetsEmpty(p) ==
    /\ pc[p] = "delEmpty"
    /\ list' = {}
    /\ GoTo(p, "del")
    /\ UNCHANGED <<dbVars, group, action, field, mem, faults>>

DeletesKeys(p) ==
    /\ pc[p] = "del"
    /\ action' = [action EXCEPT ![mem[p].scene] = Missing]
    /\ group' = group \ mem[p].rows
    /\ list' = IF mem[p].aimed THEN Missing ELSE list
    /\ AfterDelete(p)
    /\ UNCHANGED <<dbVars, field, faults>>

-----------------------------------------------------------------------------
(* AutomateCacheSet and SetCacheBySceneAutomationId.                        *)

ReadsConditions(w) ==
    /\ pc[w] = "addConds"
    /\ mem' = [mem EXCEPT ![w].rows = {x \in ConditionRows : x[1] = mem[w].scene}]
    /\ GoTo(w, "addActs")
    /\ UNCHANGED <<dbVars, redisVars, field, faults>>

\* The first of two passes is for the scenes of the device's configuration.
ReadsActions(w) ==
    /\ pc[w] = "addActs"
    /\ field' = "multiple"
    /\ mem' = [mem EXCEPT ![w].acts = ActionRows({mem[w].scene}), ![w].readd = TRUE]
    /\ GoTo(w, "addPass")
    /\ UNCHANGED <<dbVars, redisVars, faults>>

\* The second pass is for those of the device itself.
PassEnds(w) ==
    IF mem[w].readd
    THEN field' = "one" /\ GoTo(w, "addPass") /\ mem' = [mem EXCEPT ![w].readd = FALSE]
    ELSE Ends(w) /\ UNCHANGED field

\* A pass that finds no condition of its type caches nothing.
StartsPass(w) ==
    /\ pc[w] = "addPass"
    /\ IF Right /\ mem[w].rows # {}
       THEN /\ GoTo(w, "addGroup")
            /\ mem' = [mem EXCEPT ![w].todo = mem[w].rows]
            /\ UNCHANGED field
       ELSE PassEnds(w)
    /\ UNCHANGED <<dbVars, redisVars, faults>>

\* Mutant: the actions are left out.
NoActions(p, s) == Missing

\* The version of the actions read for s, 0 without any.
ActionsOf(p, s) ==
    IF s \in ScenesOf(mem[p].acts) THEN (CHOOSE x \in mem[p].acts : x[1] = s)[2] ELSE 0

SetsGroup(x) == group' = IF Right THEN group \cup {x} ELSE group

SetsAction(p, x) ==
    action' = IF Right THEN [action EXCEPT ![x[1]] = <<ActionsOf(p, x[1]), x[2]>>] ELSE action

\* A group of another type than the field says now is passed over: the scene is
\* then cached without it, as group 0.
AddsGroup(w) ==
    /\ pc[w] = "addGroup"
    /\ \E x \in mem[w].todo :
           \/ SetsGroup(x) /\ UNCHANGED mem
           \/ ~Right /\ mem' = [mem EXCEPT ![w].todo = {<<x[1], 0>>}] /\ UNCHANGED group
    /\ GoTo(w, "addAction")
    /\ UNCHANGED <<dbVars, list, action, field, faults>>

AddsAction(w) ==
    /\ pc[w] = "addAction"
    /\ \E x \in mem[w].todo : SetsAction(w, x)
    /\ GoTo(w, "addGet")
    /\ UNCHANGED <<dbVars, list, group, field, mem, faults>>

\* A list that is not there, and NOTASK, count as an empty one.
AddReadsList(w) ==
    /\ pc[w] = "addGet"
    /\ mem' = [mem EXCEPT ![w].copy = IF Right THEN Listed ELSE {}, ![w].aimed = Right]
    /\ GoTo(w, "addSet")
    /\ UNCHANGED <<dbVars, redisVars, field, faults>>

AddsToList(w) ==
    /\ pc[w] = "addSet"
    /\ list' = IF mem[w].aimed THEN mem[w].copy \cup mem[w].todo ELSE list
    /\ PassEnds(w)
    /\ UNCHANGED <<dbVars, group, action, faults>>

-----------------------------------------------------------------------------
(* Reports. Execute holds a mutex, so there is one at a time.               *)

\* The pass over the scenes of the device's configuration, which has none.
Execute ==
    /\ pc[Report] = "idle"
    /\ HasRoom
    /\ field' = "multiple"
    /\ GoTo(Report, "device")
    /\ UNCHANGED <<dbVars, redisVars, mem, faults>>

\* Mutant: a miss is not filled.
NeverFills == "idle"

AfterMiss == "rows"

LooksUp ==
    /\ pc[Report] = "device"
    /\ field' = "one"
    /\ GoTo(Report, CASE list = Missing -> AfterMiss [] list = NoTask -> "idle" [] OTHER -> "hit")
    /\ UNCHANGED <<dbVars, redisVars, mem, faults>>

\* Mutant: the conditions that are not enabled are read as well.
AnyRows == ActionRows(Scenes)

FillRows == ConditionRows

FillReadsRows ==
    /\ pc[Report] = "rows"
    /\ mem' = [mem EXCEPT ![Report].rows = FillRows]
    /\ GoTo(Report, IF FillRows = {} THEN "noTask" ELSE "conds")
    /\ UNCHANGED <<dbVars, redisVars, field, faults>>

SetsNoTask ==
    /\ pc[Report] = "noTask"
    /\ field' = "one"
    /\ list' = NoTask
    /\ Ends(Report)
    /\ UNCHANGED <<dbVars, group, action, faults>>

\* The conditions of the groups found are read once more.
FillReadsConditions ==
    /\ pc[Report] = "conds"
    /\ mem' = [mem EXCEPT ![Report].rows = @ \cap FillRows]
    /\ GoTo(Report, "acts")
    /\ UNCHANGED <<dbVars, redisVars, field, faults>>

FillReadsActions ==
    /\ pc[Report] = "acts"
    /\ LET found == mem[Report].rows IN
         mem' = [mem EXCEPT ![Report].acts = ActionRows(ScenesOf(found)),
                            ![Report].todo = found]
    /\ field' = "one"
    /\ GoTo(Report, "group")
    /\ UNCHANGED <<dbVars, redisVars, faults>>

\* Only scenes with actions are listed.
Complete == {x \in mem[Report].rows : x[1] \in ScenesOf(mem[Report].acts)}

FillSetsGroup ==
    /\ pc[Report] = "group"
    /\ \E x \in mem[Report].todo :
           SetsGroup(x) /\ mem' = [mem EXCEPT ![Report].todo = @ \ {x}]
    /\ UNCHANGED <<dbVars, list, action, field, pc, faults>>

FillHasGroups ==
    /\ pc[Report] = "group"
    /\ mem[Report].todo = {}
    /\ mem' = [mem EXCEPT ![Report].todo = Complete]
    /\ GoTo(Report, "action")
    /\ UNCHANGED <<dbVars, redisVars, field, faults>>

FillSetsAction ==
    /\ pc[Report] = "action"
    /\ \E x \in mem[Report].todo :
           SetsAction(Report, x) /\ mem' = [mem EXCEPT ![Report].todo = @ \ {x}]
    /\ UNCHANGED <<dbVars, list, group, field, pc, faults>>

FillSetsList ==
    /\ pc[Report] = "action"
    /\ mem[Report].todo = {}
    /\ list' = IF Right THEN Complete ELSE list
    /\ GoTo(Report, "hit")
    /\ mem' = [mem EXCEPT ![Report] = Blank]
    /\ UNCHANGED <<dbVars, group, action, field, faults>>

\* The scenes whose conditions and actions a report finds.
Offered == {s \in ScenesOf(Listed \cap group) : action[s] # Missing}

\* A scene that turns out to be closed is not run, and leaves the cache. What
\* the others do is not part of this module.
FindsClosed ==
    /\ pc[Report] = "hit"
    /\ Right
    /\ \E s \in Offered :
           enabled[s] = "N" /\ mem' = [mem EXCEPT ![Report].scene = s]
    /\ GoTo(Report, "delMultiple")
    /\ UNCHANGED <<dbVars, redisVars, field, faults>>

ReportEnds ==
    /\ pc[Report] = "hit"
    /\ Ends(Report)
    /\ UNCHANGED <<dbVars, redisVars, field, faults>>

-----------------------------------------------------------------------------
(* Redis and the process.                                                   *)

\* A key that expires while the goroutine of a save runs counts as a fault.
Expires ==
    IF \E w \in Workers : pc[w] # "idle"
    THEN MayHappen(1) /\ faults' = faults + 1
    ELSE UNCHANGED faults

ListExpires ==
    /\ list # Missing
    /\ list' = Missing
    /\ Expires
    /\ UNCHANGED <<dbVars, group, action, field, pc, mem>>

GroupExpires(x) ==
    /\ x \in group
    /\ group' = group \ {x}
    /\ Expires
    /\ UNCHANGED <<dbVars, list, action, field, pc, mem>>

ActionExpires(s) ==
    /\ action[s] # Missing
    /\ action' = [action EXCEPT ![s] = Missing]
    /\ Expires
    /\ UNCHANGED <<dbVars, list, group, field, pc, mem>>

\* A statement fails: the goroutine gives up with what it has done.
Fails(p) ==
    /\ MayHappen(1)
    /\ faults' = faults + 1
    /\ pc[p] # "idle"
    /\ Ends(p)
    /\ UNCHANGED <<dbVars, redisVars, field>>

Restart ==
    /\ MayHappen(1)
    /\ faults' = faults + 1
    /\ pc' = [p \in Procs |-> "idle"]
    /\ mem' = [p \in Procs |-> Blank]
    /\ field' = "one"
    /\ UNCHANGED <<dbVars, redisVars>>

-----------------------------------------------------------------------------

Save(s, w) ==
    \/ CreateSceneAutomation(s, w)
    \/ UpdateSceneAutomation(s, w)
    \/ SwitchSceneAutomation(s, w)

DeleteStep(p) ==
    \/ DeletesMultiple(p)
    \/ DeletesByAction(p)
    \/ ReadsGroup(p)
    \/ ReadsList(p)
    \/ SetsEmpty(p)
    \/ DeletesKeys(p)

AddStep(w) ==
    \/ ReadsConditions(w)
    \/ ReadsActions(w)
    \/ StartsPass(w)
    \/ AddsGroup(w)
    \/ AddsAction(w)
    \/ AddReadsList(w)
    \/ AddsToList(w)

ReportStep ==
    \/ Execute
    \/ LooksUp
    \/ FillReadsRows
    \/ SetsNoTask
    \/ FillReadsConditions
    \/ FillReadsActions
    \/ FillSetsGroup
    \/ FillHasGroups
    \/ FillSetsAction
    \/ FillSetsList
    \/ FindsClosed
    \/ ReportEnds

Next ==
    \/ \E s \in Scenes : DeleteSceneAutomation(s) \/ \E w \in Workers : Save(s, w)
    \/ \E p \in Procs : DeleteStep(p) \/ Fails(p)
    \/ \E w \in Workers : AddStep(w)
    \/ ReportStep
    \/ ListExpires
    \/ \E x \in group : GroupExpires(x)
    \/ \E s \in Scenes : ActionExpires(s)
    \/ Restart

Spec == Init /\ [][Next]_vars

\* Conditions and actions in the cache that are not those of the database.
OldGroups  == group \ ConditionRows
OldActions == {s \in Scenes : /\ action[s] # Missing
                              /\ \/ <<s, action[s][2]>> \notin ConditionRows
                                 \/ action[s][1] # version[s]}

\* A goroutine that can run does run, keys expire, and the device keeps
\* reporting; nobody has to save a scene.
Fairness ==
    /\ \A w \in Workers : WF_vars(DeleteStep(w) \/ AddStep(w))
    /\ WF_vars(DeleteStep(Report) \/ ReportStep)
    /\ WF_vars(ListExpires)
    /\ WF_vars(\E x \in OldGroups : GroupExpires(x))
    /\ WF_vars(\E s \in OldActions : ActionExpires(s))

FairSpec == Spec /\ Fairness

-----------------------------------------------------------------------------
(* Properties.                                                              *)

\* Every variable holds a value of its type.
TypeOK ==
    /\ enabled \in [Scenes -> {"gone", "Y", "N"}]
    /\ conds \in [Scenes -> BOOLEAN]
    /\ version \in [Scenes -> Versions]
    /\ list \in {Missing, NoTask} \cup SUBSET Groups
    /\ group \subseteq Groups
    /\ action \in [Scenes -> {Missing} \cup Versions \X Versions]
    /\ field \in {"one", "multiple"}
    /\ pc \in [Procs -> Pcs]
    /\ mem \in [Procs -> Memory]
    /\ saves \in 0..MaxSaves
    /\ faults \in Nat

EnabledRows == {x \in ConditionRows : enabled[x[1]] = "Y"}

\* What is cached agrees with the database; a closed scene may still be listed,
\* the report that meets it does not run it.
CacheIsCurrent ==
    /\ list = NoTask => ConditionRows = {}
    /\ list \notin {Missing, NoTask} =>
           EnabledRows \subseteq Listed /\ Listed \subseteq ConditionRows
    /\ OldGroups = {}
    /\ OldActions = {}

\* Fills that race a save, additions to a list that is not there, deletions
\* that find no actions, keys under the wrong type, a goroutine lost in a
\* restart: each leaves old or incomplete entries behind. None of them outlives
\* the five minutes: once the saves are over the cache comes to agree with the
\* database and stays so.
StaleExpires == <>[]CacheIsCurrent

\* No such entry hides a scene for good: a scene that stays enabled, with its
\* conditions enabled, is in the cached list again and again.
EnabledIsListed ==
    \A s \in Scenes :
        <>[](<<s, version[s]>> \in EnabledRows) => []<>(<<s, version[s]>> \in Listed)

\* What the switch promises: a scene that stays switched on is in the cached
\* list again and again (it does not hold).
SwitchedOnIsListed ==
    \A s \in Scenes : <>[](enabled[s] = "Y") => []<>(<<s, version[s]>> \in Listed)

=============================================================================
