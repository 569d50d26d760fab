----------------------------- MODULE AlarmCache -----------------------------
(***************************************************************************)
(* The alarms of one scene automation whose actions include an alarm.      *)
(* Redis remembers the condition groups that hold, with the devices they   *)
(* name and a mark once their alarm was raised; alarm_history gets a record *)
(* when an alarm is raised and one when it recovers. Reports run one at a  *)
(* time (Automate.mu); a save of the scene clears the cache in a goroutine *)
(* of its own, and a timer of the scene runs the actions in another.       *)
(*                                                                         *)
(* SetDevice, SetAlarm and DeleteBygroupId hold alarmMu and are one step   *)
(* each; reads do not hold it. The index by device is left out: nothing    *)
(* reads it. Records that a user handles by hand are not followed.         *)
(***************************************************************************)
EXTENDS Naturals, FiniteSets

CONSTANTS
    Devices,     \* the devices of the conditions
    Conds,       \* the condition groups of the scene, as its form lists them
    Named,       \* the devices that the conditions of a group name
    OfConfig,    \* the groups with a condition on a device configuration
    Alarm,       \* the alarm configuration
    Missing,     \* stands for a key that is not there
    MaxUpdates,  \* bound on the saves of the scene
    Budgets      \* bounds, as triples: saves, their faults; timers, switches, other faults

\* scene: the entry names its scene; alarm: it names the alarm that was raised.
Entries == [scene : BOOLEAN, alarm : BOOLEAN, devices : SUBSET Devices]

ASSUME AlarmAssumption ==
    /\ Named \in [Conds -> SUBSET Devices]
    /\ OfConfig \subseteq Conds
    /\ Alarm \notin Devices
    /\ Missing \notin Entries
    /\ MaxUpdates \in Nat
    /\ Budgets \subseteq (0..MaxUpdates) \X Nat \X Nat

VARIABLES
    version,   \* how often the scene was written; each save makes new group ids
    alarmOn,   \* alarm_config.enabled
    entry,     \* alarm_cache_group of each group, or Missing
    byScene,   \* the groups listed under the scene
    byAlarm,   \* the groups listed under pairs of ids, as pairs <<key, group>>
    pc,        \* where each goroutine is
    todo,      \* the groups a goroutine has still to visit
    dev,       \* the device that reports
    met,       \* some group of the report holds
    result,    \* of the alarm action so far
    held,      \* the groups whose last evaluation came out true
    raised,    \* the groups with an alarm record since their last recovery
    unfounded, \* a recovery was recorded of a group without an alarm
    orphaned,  \* a group was marked whose entry was gone
    switched,  \* the alarm configuration was switched
    failed,    \* a statement failed, a key expired or the process was restarted
    left       \* what is left of the budget

cacheVars == <<entry, byScene, byAlarm>>
procVars  == <<pc, todo, dev, met, result>>
logVars   == <<held, raised, unfounded, orphaned>>
envVars   == <<version, alarmOn, switched, failed>>
vars == <<cacheVars, procVars, logVars, envVars, left>>

Procs  == {"report", "update", "task"}
Groups == Conds \X (1..(MaxUpdates + 1))
Pcs    == {"idle", "check", "execute", "raise", "after", "mark", "start", "clear"}

Blank == [scene |-> FALSE, alarm |-> FALSE, devices |-> {}]

\* Mutant: the parts the other way round.
SwappedKey(alarm_config_id, device_id) == <<device_id, alarm_config_id>>

getCacheKeyByAlarm(alarm_config_id, device_id) == <<alarm_config_id, device_id>>

Init ==
    /\ version = 1
    /\ alarmOn \in BOOLEAN
    /\ entry = [g \in Groups |-> Missing]
    /\ byScene = {}
    /\ byAlarm = {}
    /\ pc = [p \in Procs |-> "idle"]
    /\ todo = [p \in Procs |-> {}]
    /\ dev \in Devices
    /\ met = FALSE
    /\ result = [p \in Procs |-> "none"]
    /\ held = {}
    /\ raised = {}
    /\ unfounded = FALSE
    /\ orphaned = FALSE
    /\ switched = FALSE
    /\ failed = FALSE
    /\ left \in Budgets

\* What the budget bounds: a save, or a timer, a switch or a fault.
SpendsSave      == left[1] > 0 /\ left' = <<left[1] - 1, left[2], left[3]>>
SpendsSaveFault == left[2] > 0 /\ left' = <<left[1], left[2] - 1, left[3]>>
SpendsOther     == left[3] > 0 /\ left' = <<left[1], left[2], left[3] - 1>>

GoTo(p, l) == pc' = [pc EXCEPT ![p] = l]

Leaves(p, g) == todo' = [todo EXCEPT ![p] = @ \ {g}]

\* What is read of a group; a missing key reads as an empty entry.
Info(g) == IF entry[g] = Missing THEN Blank ELSE entry[g]

-----------------------------------------------------------------------------
(* The operations of the cache.                                             *)

\* An entry that exists keeps the devices it was made with.
SetDevice(g, ds) ==
    /\ entry' = [entry EXCEPT ![g] =
           IF @ = Missing THEN [scene |-> TRUE, alarm |-> FALSE, devices |-> ds] ELSE @]
    /\ byScene' = byScene \cup {g}
    /\ UNCHANGED byAlarm

\* An entry that does not exist is made, without scene and devices.
SetAlarm(g, d) ==
    /\ entry' = [entry EXCEPT ![g] = [Info(g) EXCEPT !.alarm = TRUE]]
    /\ byAlarm' = byAlarm \cup {<<getCacheKeyByAlarm(Alarm, d), g>>}
    /\ UNCHANGED byScene

\* The device is given where the key has the alarm.
GetAlarmDeviceExists(g) ==
    \E d \in Info(g).devices : <<getCacheKeyByAlarm(d, g), g>> \in byAlarm

\* Mutant: the list of the scene keeps the group.
KeepsScene(g) == byScene

\* The list of the scene that the entry names loses the group.
LeavesScene(g) == IF Info(g).scene THEN byScene \ {g} ELSE byScene

\* The keys of the alarm lose the group, for the devices of the entry.
LeavesAlarm(g) ==
    IF Info(g).alarm
    THEN byAlarm \ {<<getCacheKeyByAlarm(Alarm, d), g>> : d \in Info(g).devices}
    ELSE byAlarm

DeleteBygroupId(g) ==
    /\ byAlarm' = LeavesAlarm(g)
    /\ byScene' = LeavesScene(g)
    /\ entry' = [entry EXCEPT ![g] = Missing]

\* A statement of it fails: the entry is left, its lists may have lost the group.
DeleteStops(g) ==
    /\ \/ UNCHANGED <<byAlarm, byScene>>
       \/ byAlarm' = LeavesAlarm(g) /\ byScene' \in {byScene, LeavesScene(g)}
    /\ UNCHANGED entry

-----------------------------------------------------------------------------
(* A report: the conditions.                                                *)

\* The groups of the pass over the device's configuration, or of that over the
\* conditions that name it.
Passes(d, v) == {OfConfig \X {v}, {c \in Conds : d \in Named[c]} \X {v}} \ {{}}

\* Until the goroutine of a save has run, the old conditions are still cached.
CachedVersions == {version} \cup (IF pc["update"] = "start" THEN {version - 1} ELSE {})

Execute ==
    /\ pc["report"] = "idle"
    /\ GoTo("report", "check")
    /\ \E d \in Devices, v \in CachedVersions : \E gs \in Passes(d, v) :
           dev' = d /\ todo' = [todo EXCEPT !["report"] = gs]
    /\ UNCHANGED <<cacheVars, met, result, logVars, envVars, left>>

\* The devices of a group, with the reporting one for a configuration.
DeviceIds(g) == Named[g[1]] \cup (IF g[1] \in OfConfig THEN {dev} ELSE {})

GroupHolds(g) ==
    /\ pc["report"] = "check"
    /\ g \in todo["report"]
    /\ held' = held \cup {g}
    /\ met' = TRUE
    /\ SetDevice(g, DeviceIds(g))
    /\ Leaves("report", g)
    /\ UNCHANGED <<pc, dev, result, raised, unfounded, orphaned, envVars, left>>

Recovers(g) ==
    /\ raised' = raised \ {g}
    /\ unfounded' = (unfounded \/ g \notin raised)

\* AlarmRecovery, then DeleteBygroupId, of a group that does not hold.
GroupFails(g) ==
    /\ pc["report"] = "check"
    /\ g \in todo["report"]
    /\ held' = held \ {g}
    /\ IF Info(g).alarm THEN Recovers(g) ELSE UNCHANGED <<raised, unfounded>>
    /\ DeleteBygroupId(g)
    /\ Leaves("report", g)
    /\ UNCHANGED <<pc, dev, met, result, orphaned, envVars, left>>

HasChecked ==
    /\ pc["report"] = "check"
    /\ todo["report"] = {}
    /\ GoTo("report", IF met THEN "execute" ELSE "idle")
    /\ met' = FALSE
    /\ UNCHANGED <<cacheVars, todo, dev, result, logVars, envVars, left>>

-----------------------------------------------------------------------------
(* The actions, of a report or of a timer.                                  *)

TaskAutomationExecute ==
    /\ SpendsOther
    /\ pc["task"] = "idle"
    /\ GoTo("task", "execute")
    /\ UNCHANGED <<cacheVars, todo, dev, met, result, logVars, envVars>>

\* Without a group under the scene the alarm action has failed.
ReadsScene(p) ==
    /\ pc[p] = "execute"
    /\ todo' = [todo EXCEPT ![p] = byScene]
    /\ result' = [result EXCEPT ![p] = "failed"]
    /\ GoTo(p, "raise")
    /\ UNCHANGED <<cacheVars, dev, met, logVars, envVars, left>>

Records(g) == raised' = raised \cup {g}

\* Every group under the scene has its alarm raised; the last one decides.
Raises(p, g) ==
    /\ pc[p] = "raise"
    /\ g \in todo[p]
    /\ Leaves(p, g)
    /\ IF GetAlarmDeviceExists(g)
       THEN /\ result' = [result EXCEPT ![p] = IF @ = "done" THEN "done" ELSE "exists"]
            /\ UNCHANGED raised
       ELSE IF alarmOn
       THEN result' = [result EXCEPT ![p] = "done"] /\ Records(g)
       ELSE result' = [result EXCEPT ![p] = "failed"] /\ UNCHANGED raised
    /\ UNCHANGED <<cacheVars, pc, dev, met, held, unfounded, orphaned, envVars, left>>

\* The other actions of the scene may fail as well. A timer is done.
HasActed(p) ==
    /\ pc[p] = "raise"
    /\ todo[p] = {}
    /\ GoTo(p, IF p = "report" THEN "after" ELSE "idle")
    /\ \E r \in {result[p], "failed"} :
           result' = [result EXCEPT ![p] = IF p = "report" THEN r ELSE "none"]
    /\ UNCHANGED <<cacheVars, todo, dev, met, logVars, envVars, left>>

\* Mutant: the groups are marked whatever came of the actions.
MarksAnyway == TRUE

Marks == result["report"] # "failed"

\* ActionAfterAlarm marks the groups now under the scene if all went well.
AfterActions ==
    /\ pc["report"] = "after"
    /\ GoTo("report", "mark")
    /\ todo' = [todo EXCEPT !["report"] = IF Marks THEN byScene ELSE {}]
    /\ result' = [result EXCEPT !["report"] = "none"]
    /\ UNCHANGED <<cacheVars, dev, met, logVars, envVars, left>>

MarksGroup(g) ==
    /\ pc["report"] = "mark"
    /\ g \in todo["report"]
    /\ SetAlarm(g, dev)
    /\ orphaned' = (orphaned \/ entry[g] = Missing)
    /\ Leaves("report", g)
    /\ UNCHANGED <<pc, dev, met, result, held, raised, unfounded, envVars, left>>

ReportEnds ==
    /\ pc["report"] = "mark"
    /\ todo["report"] = {}
    /\ GoTo("report", "idle")
    /\ UNCHANGED <<cacheVars, todo, dev, met, result, logVars, envVars, left>>

-----------------------------------------------------------------------------
(* A save of the scene, and switches of the alarm.                          *)

UpdateSceneAutomation ==
    /\ SpendsSave
    /\ pc["update"] = "idle"
    /\ version' = version + 1
    /\ GoTo("update", "start")
    /\ UNCHANGED <<cacheVars, todo, dev, met, result, logVars, alarmOn, switched, failed>>

\* The cached conditions go first, then the groups under the scene are read.
ClearStarts ==
    /\ pc["update"] = "start"
    /\ GoTo("update", "clear")
    /\ todo' = [todo EXCEPT !["update"] = byScene]
    /\ UNCHANGED <<cacheVars, dev, met, result, logVars, envVars, left>>

ClearsGroup(g) ==
    /\ pc["update"] = "clear"
    /\ g \in todo["update"]
    /\ DeleteBygroupId(g)
    /\ Leaves("update", g)
    /\ UNCHANGED <<pc, dev, met, result, logVars, envVars, left>>

HasCleared ==
    /\ pc["update"] = "clear"
    /\ todo["update"] = {}
    /\ GoTo("update", "idle")
    /\ UNCHANGED <<cacheVars, todo, dev, met, result, logVars, envVars, left>>

SwitchAlarm ==
    /\ SpendsOther
    /\ switched' = TRUE
    /\ alarmOn' = ~alarmOn
    /\ UNCHANGED <<cacheVars, procVars, logVars, version, failed>>

-----------------------------------------------------------------------------
(* Faults.                                                                  *)

Fault ==
    /\ failed' = TRUE
    /\ UNCHANGED <<version, alarmOn, switched, dev>>

\* SetDevice fails before its list is written; the group holds all the same.
HoldsBadly(g) ==
    /\ Fault /\ SpendsOther
    /\ pc["report"] = "check"
    /\ g \in todo["report"]
    /\ held' = held \cup {g}
    /\ met' = TRUE
    /\ entry' \in {entry, [entry EXCEPT ![g] =
           IF @ = Missing THEN [scene |-> TRUE, alarm |-> FALSE, devices |-> DeviceIds(g)] ELSE @]}
    /\ Leaves("report", g)
    /\ UNCHANGED <<byScene, byAlarm, pc, result, raised, unfounded, orphaned>>

\* The entry cannot be read, or the recovery is not recorded and ignored, or the
\* deletion fails after it was.
FailsBadly(g) ==
    /\ Fault /\ SpendsOther
    /\ pc["report"] = "check"
    /\ g \in todo["report"]
    /\ held' = held \ {g}
    /\ \/ UNCHANGED <<cacheVars, raised, unfounded>>
       \/ DeleteBygroupId(g) /\ UNCHANGED <<raised, unfounded>>
       \/ /\ DeleteStops(g)
          /\ IF Info(g).alarm THEN Recovers(g) ELSE UNCHANGED <<raised, unfounded>>
    /\ Leaves("report", g)
    /\ UNCHANGED <<pc, met, result, orphaned>>

\* The entry cannot be read, which ends the action with the result so far; or
\* the record fails; or what follows the record does.
RaisesBadly(p, g) ==
    /\ Fault /\ SpendsOther
    /\ pc[p] = "raise"
    /\ g \in todo[p]
    /\ \/ /\ todo' = [todo EXCEPT ![p] = {}]
          /\ result' = [result EXCEPT ![p] = IF @ = "done" THEN "done" ELSE "failed"]
          /\ UNCHANGED raised
       \/ /\ Leaves(p, g)
          /\ result' = [result EXCEPT ![p] = "failed"]
          /\ UNCHANGED raised \/ (alarmOn /\ Records(g))
    /\ UNCHANGED <<cacheVars, pc, met, held, unfounded, orphaned>>

\* SetAlarm fails and the groups left are not marked.
MarksBadly(g) ==
    /\ Fault /\ SpendsOther
    /\ pc["report"] = "mark"
    /\ g \in todo["report"]
    /\ entry' \in {entry, [entry EXCEPT ![g] = [Info(g) EXCEPT !.alarm = TRUE]]}
    /\ GoTo("report", "idle")
    /\ todo' = [todo EXCEPT !["report"] = {}]
    /\ UNCHANGED <<byScene, byAlarm, met, result, logVars>>

\* The save goes on to the next group.
ClearsBadly(g) ==
    /\ Fault /\ SpendsSaveFault
    /\ pc["update"] = "clear"
    /\ g \in todo["update"]
    /\ DeleteStops(g)
    /\ Leaves("update", g)
    /\ UNCHANGED <<pc, met, result, logVars>>

\* Each key has its own six days, counted from when it was last written.
Expires ==
    /\ Fault /\ SpendsOther
    /\ \/ \E g \in Groups : entry' = [entry EXCEPT ![g] = Missing] /\ UNCHANGED byScene
       \/ byScene' = {} /\ UNCHANGED entry
    /\ UNCHANGED <<byAlarm, pc, todo, met, result, logVars>>

Restart ==
    /\ Fault /\ SpendsOther
    /\ pc' = [p \in Procs |-> "idle"]
    /\ todo' = [p \in Procs |-> {}]
    /\ met' = FALSE
    /\ result' = [p \in Procs |-> "none"]
    /\ UNCHANGED <<cacheVars, logVars>>

-----------------------------------------------------------------------------

ReportStep ==
    \/ Execute
    \/ \E g \in Groups : GroupHolds(g) \/ GroupFails(g) \/ MarksGroup(g)
    \/ HasChecked
    \/ AfterActions
    \/ ReportEnds

ActionStep(p) ==
    \/ ReadsScene(p)
    \/ \E g \in Groups : Raises(p, g)
    \/ HasActed(p)

UpdateStep ==
    \/ UpdateSceneAutomation
    \/ ClearStarts
    \/ \E g \in Groups : ClearsGroup(g)
    \/ HasCleared

FaultStep ==
    \/ \E g \in Groups : HoldsBadly(g) \/ FailsBadly(g) \/ MarksBadly(g) \/ ClearsBadly(g)
    \/ \E p \in {"report", "task"}, g \in Groups : RaisesBadly(p, g)
    \/ Expires
    \/ Restart

Next ==
    \/ ReportStep
    \/ TaskAutomationExecute
    \/ ActionStep("report")
    \/ ActionStep("task")
    \/ UpdateStep
    \/ SwitchAlarm
    \/ FaultStep

Spec == Init /\ [][Next]_vars

-----------------------------------------------------------------------------
(* Properties.                                                              *)

\* Every variable holds a value of its type.
TypeOK ==
    /\ version \in 1..(MaxUpdates + 1)
    /\ alarmOn \in BOOLEAN
    /\ entry \in [Groups -> Entries \cup {Missing}]
    /\ byScene \subseteq Groups
    /\ byAlarm \subseteq ({Alarm} \X Devices) \X Groups
    /\ pc \in [Procs -> Pcs]
    /\ todo \in [Procs -> SUBSET Groups]
    /\ dev \in Devices
    /\ met \in BOOLEAN
    /\ result \in [Procs -> {"none", "done", "exists", "failed"}]
    /\ held \subseteq Groups
    /\ raised \subseteq Groups
    /\ unfounded \in BOOLEAN
    /\ orphaned \in BOOLEAN
    /\ switched \in BOOLEAN
    /\ failed \in BOOLEAN
    /\ left \in (0..MaxUpdates) \X Nat \X Nat

\* A recovery is recorded only of a group whose alarm was raised since the last
\* one, however reports, timers and saves interleave; it takes a failure, or the
\* alarm switched between two groups of one execution, to break this.
RecoveriesAreFounded == unfounded => failed \/ switched

\* A report raises the alarm of every group under the scene, also of those it
\* did not look at itself. These are groups whose last evaluation came out true,
\* unless something failed, or a group was marked after a save had cleared it:
\* the entry made then does not name its scene, and its group stays in the list.
RaisedGroupsHeld ==
    ~failed /\ ~orphaned /\ pc["report"] = "raise" => todo["report"] \subseteq held

\* The same without the exception for marks (it does not hold).
OnlyHeldAreRaised ==
    ~failed /\ pc["report"] = "raise" => todo["report"] \subseteq held

\* What the check before a record says: the alarm of a group that is marked is
\* not raised again (it does not hold).
MarkedIsNotRaised ==
    [][\A p \in Procs, g \in Groups :
           Raises(p, g) /\ Info(g).alarm => result'[p] \in {result[p], "exists"}]_vars

\* What a save sets out to do: once its goroutine is done, no group of an earlier
\* version is under the scene (it does not hold).
OldGroupsAreForgotten ==
    ~failed /\ \A p \in Procs : pc[p] = "idle" => byScene \subseteq Conds \X {version}

\* A record names the device that raised it: a report of a configuration's
\* device finds itself in the entry of each group it found true (it does not hold).
ReporterIsNamed ==
    pc["report"] = "execute" =>
        \A g \in byScene \cap held : g[1] \in OfConfig => dev \in Info(g).devices

=============================================================================
