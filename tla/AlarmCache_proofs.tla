------------------------- MODULE AlarmCache_proofs -------------------------
(***************************************************************************)
(* Proofs about AlarmCache: types, that a recovery follows an alarm, and   *)
(* that a report raises the alarms of groups that hold, for every set of   *)
(* devices and groups and every number of saves, timers and faults.        *)
(***************************************************************************)
EXTENDS AlarmCache, TLAPS

-----------------------------------------------------------------------------
(* Types.                                                                   *)

\* The saves still to come have a version left, and the goroutine of a save
\* that has not cleared the conditions has one before its own.
VersionFits ==
    /\ version + left[1] <= MaxUpdates + 1
    /\ pc["update"] = "start" => version > 1

Types == TypeOK /\ VersionFits

LEMMA InfoType ==
  ASSUME TypeOK, NEW g \in Groups
  PROVE  Info(g) \in Entries
  BY DEF TypeOK, Info, Blank, Entries

\* A report looks at groups of a version that exists.
LEMMA PassesType ==
  ASSUME Types, NEW d \in Devices, NEW v \in CachedVersions, NEW gs \in Passes(d, v)
  PROVE  gs \subseteq Groups
<1>1. v \in 1..(MaxUpdates + 1)
  BY AlarmAssumption DEF Types, TypeOK, VersionFits, CachedVersions
<1>2. OfConfig \X {v} \subseteq Groups
  BY <1>1, AlarmAssumption DEF Groups
<1>3. {c \in Conds : d \in Named[c]} \X {v} \subseteq Groups
  BY <1>1 DEF Groups
<1> QED
  BY <1>2, <1>3 DEF Passes

\* What the operations of the cache do to its types.
CacheTypes ==
    /\ entry \in [Groups -> Entries \cup {Missing}]
    /\ byScene \subseteq Groups
    /\ byAlarm \subseteq ({Alarm} \X Devices) \X Groups

LEMMA SetDeviceTypes ==
  ASSUME TypeOK, NEW g \in Groups, NEW ds \in SUBSET Devices, SetDevice(g, ds)
  PROVE  CacheTypes'
<1>1. [scene |-> TRUE, alarm |-> FALSE, devices |-> ds] \in Entries
  BY DEF Entries
<1> QED
  BY <1>1 DEF SetDevice, TypeOK, CacheTypes

LEMMA SetAlarmTypes ==
  ASSUME TypeOK, NEW g \in Groups, SetAlarm(g, dev)
  PROVE  CacheTypes'
<1>1. [Info(g) EXCEPT !.alarm = TRUE] \in Entries
  BY InfoType DEF Entries
<1>2. <<getCacheKeyByAlarm(Alarm, dev), g>> \in ({Alarm} \X Devices) \X Groups
  BY DEF getCacheKeyByAlarm, TypeOK
<1> QED
  BY <1>1, <1>2 DEF SetAlarm, TypeOK, CacheTypes

LEMMA DeletionTypes ==
  ASSUME TypeOK, NEW g \in Groups, DeleteBygroupId(g) \/ DeleteStops(g)
  PROVE  CacheTypes'
  BY DEF DeleteBygroupId, DeleteStops, LeavesAlarm, LeavesScene, TypeOK, CacheTypes

LEMMA DeviceIdsType ==
  ASSUME TypeOK, NEW g \in Groups
  PROVE  DeviceIds(g) \subseteq Devices
<1>1. g[1] \in Conds
  BY DEF Groups
<1> QED
  BY <1>1, AlarmAssumption DEF DeviceIds, TypeOK

\* Initially every variable has its type.
LEMMA InitTypes == Init => Types
<1> SUFFICES ASSUME Init PROVE Types
  OBVIOUS
<1>1. left \in (0..MaxUpdates) \X Nat \X Nat
  BY AlarmAssumption DEF Init
<1>2. version = 1 /\ MaxUpdates \in Nat
  BY AlarmAssumption DEF Init
<1>3. /\ alarmOn \in BOOLEAN /\ met \in BOOLEAN /\ unfounded \in BOOLEAN
      /\ orphaned \in BOOLEAN /\ switched \in BOOLEAN /\ failed \in BOOLEAN
  BY Zenon DEF Init
<1>4. /\ entry \in [Groups -> Entries \cup {Missing}] /\ byScene \subseteq Groups
      /\ byAlarm \subseteq ({Alarm} \X Devices) \X Groups
      /\ pc \in [Procs -> Pcs] /\ todo \in [Procs -> SUBSET Groups] /\ dev \in Devices
      /\ result \in [Procs -> {"none", "done", "exists", "failed"}]
      /\ held \subseteq Groups /\ raised \subseteq Groups
  BY DEF Init, Pcs
<1>5. TypeOK
  BY <1>1, <1>2, <1>3, <1>4 DEF TypeOK
<1>6. VersionFits
  BY <1>1, <1>2 DEF Init, VersionFits, Procs
<1> QED
  BY <1>5, <1>6 DEF Types

\* The steps of a report over its conditions.
LEMMA CheckTypes ==
  ASSUME Types,
         \/ Execute \/ HasChecked \/ AfterActions \/ ReportEnds
         \/ \E g \in Groups : GroupHolds(g) \/ GroupFails(g) \/ MarksGroup(g)
  PROVE  Types'
<1> USE DEF GoTo, Leaves, Procs, Pcs
<1>1. CASE Execute
  <2>1. PICK d \in Devices, v \in CachedVersions : \E gs \in Passes(d, v) :
            dev' = d /\ todo' = [todo EXCEPT !["report"] = gs]
    BY <1>1 DEF Execute
  <2>2. PICK gs \in Passes(d, v) : dev' = d /\ todo' = [todo EXCEPT !["report"] = gs]
    BY <2>1
  <2>3. gs \subseteq Groups
    BY PassesType
  <2> QED
    BY <1>1, <2>2, <2>3 DEF Execute, Types, TypeOK, VersionFits, cacheVars, logVars, envVars
<1>2. CASE HasChecked
  BY <1>2 DEF HasChecked, Types, TypeOK, VersionFits, cacheVars, logVars, envVars
<1>3. CASE AfterActions
  BY <1>3 DEF AfterActions, Types, TypeOK, VersionFits, cacheVars, logVars, envVars
<1>4. CASE ReportEnds
  BY <1>4 DEF ReportEnds, Types, TypeOK, VersionFits, cacheVars, logVars, envVars
<1>5. ASSUME NEW g \in Groups, GroupHolds(g) PROVE Types'
  <2>1. CacheTypes'
    BY <1>5, DeviceIdsType, SetDeviceTypes DEF GroupHolds, Types
  <2> QED
    BY <1>5, <2>1 DEF GroupHolds, CacheTypes, Types, TypeOK, VersionFits, envVars
<1>6. ASSUME NEW g \in Groups, GroupFails(g) PROVE Types'
  <2>1. CacheTypes'
    BY <1>6, DeletionTypes DEF GroupFails, Types
  <2>2. unfounded' \in BOOLEAN
    BY <1>6, Zenon DEF GroupFails, Recovers, Types, TypeOK
  <2> QED
    BY <1>6, <2>1, <2>2
       DEF GroupFails, Recovers, CacheTypes, Types, TypeOK, VersionFits, envVars
<1>7. ASSUME NEW g \in Groups, MarksGroup(g) PROVE Types'
  <2>1. CacheTypes'
    BY <1>7, SetAlarmTypes DEF MarksGroup, Types
  <2>2. orphaned' \in BOOLEAN
    BY <1>7, Zenon DEF MarksGroup, Types, TypeOK
  <2> QED
    BY <1>7, <2>1, <2>2 DEF MarksGroup, CacheTypes, Types, TypeOK, VersionFits, envVars
<1> QED
  BY <1>1, <1>2, <1>3, <1>4, <1>5, <1>6, <1>7

\* The steps of the actions, of a report or of a timer.
LEMMA ActionTypes ==
  ASSUME Types, TaskAutomationExecute \/ \E p \in {"report", "task"} : ActionStep(p)
  PROVE  Types'
<1> USE DEF GoTo, Leaves, Procs, Pcs
<1>1. CASE TaskAutomationExecute
  BY <1>1 DEF TaskAutomationExecute, SpendsOther, Types, TypeOK, VersionFits,
              cacheVars, logVars, envVars
<1>2. ASSUME NEW p \in {"report", "task"}, ReadsScene(p) PROVE Types'
  BY <1>2 DEF ReadsScene, Types, TypeOK, VersionFits, cacheVars, logVars, envVars
<1>3. ASSUME NEW p \in {"report", "task"}, NEW g \in Groups, Raises(p, g) PROVE Types'
  <2>1. result' \in [Procs -> {"none", "done", "exists", "failed"}] /\ raised' \subseteq Groups
    BY <1>3 DEF Raises, Records, Types, TypeOK
  <2> QED
    BY <1>3, <2>1 DEF Raises, Types, TypeOK, VersionFits, cacheVars, envVars
<1>4. ASSUME NEW p \in {"report", "task"}, HasActed(p) PROVE Types'
  <2>1. result' \in [Procs -> {"none", "done", "exists", "failed"}]
    BY <1>4 DEF HasActed, Types, TypeOK
  <2> QED
    BY <1>4, <2>1 DEF HasActed, Types, TypeOK, VersionFits, cacheVars, logVars, envVars
<1> QED
  BY <1>1, <1>2, <1>3, <1>4 DEF ActionStep

\* The steps of a save and of its goroutine, and the switch of the alarm.
LEMMA UpdateTypes ==
  ASSUME Types, UpdateStep \/ SwitchAlarm
  PROVE  Types'
<1> USE DEF GoTo, Leaves, Procs, Pcs
<1>1. CASE UpdateSceneAutomation
  <2>1. left' \in (0..MaxUpdates) \X Nat \X Nat /\ version' \in 1..(MaxUpdates + 1) /\ VersionFits'
    BY <1>1, AlarmAssumption
       DEF UpdateSceneAutomation, SpendsSave, Types, TypeOK, VersionFits
  <2> QED
    BY <1>1, <2>1 DEF UpdateSceneAutomation, Types, TypeOK, cacheVars, logVars
<1>2. CASE ClearStarts
  BY <1>2 DEF ClearStarts, Types, TypeOK, VersionFits, cacheVars, logVars, envVars
<1>3. ASSUME NEW g \in Groups, ClearsGroup(g) PROVE Types'
  <2>1. CacheTypes'
    BY <1>3, DeletionTypes DEF ClearsGroup, Types
  <2> QED
    BY <1>3, <2>1 DEF ClearsGroup, CacheTypes, Types, TypeOK, VersionFits, logVars, envVars
<1>4. CASE HasCleared
  BY <1>4 DEF HasCleared, Types, TypeOK, VersionFits, cacheVars, logVars, envVars
<1>5. CASE SwitchAlarm
  <2>1. alarmOn' \in BOOLEAN /\ switched' \in BOOLEAN
    BY <1>5, Zenon DEF SwitchAlarm, Types, TypeOK
  <2> QED
    BY <1>5, <2>1 DEF SwitchAlarm, SpendsOther, Types, TypeOK, VersionFits,
                      cacheVars, procVars, logVars
<1> QED
  BY <1>1, <1>2, <1>3, <1>4, <1>5 DEF UpdateStep

\* The steps that fail.
LEMMA FaultTypes ==
  ASSUME Types, FaultStep
  PROVE  Types'
<1> USE DEF GoTo, Leaves, Procs, Pcs
<1>1. failed' \in BOOLEAN
  BY Zenon DEF FaultStep, HoldsBadly, FailsBadly, MarksBadly, ClearsBadly, RaisesBadly,
               Expires, Restart, Fault
<1>2. ASSUME NEW g \in Groups, HoldsBadly(g) PROVE Types'
  <2>1. [scene |-> TRUE, alarm |-> FALSE, devices |-> DeviceIds(g)] \in Entries
    BY DeviceIdsType DEF Entries, Types
  <2>2. CacheTypes'
    BY <1>2, <2>1 DEF HoldsBadly, CacheTypes, Types, TypeOK
  <2> QED
    BY <1>1, <1>2, <2>2 DEF HoldsBadly, Fault, SpendsOther, CacheTypes, Types, TypeOK,
                            VersionFits
<1>3. ASSUME NEW g \in Groups, FailsBadly(g) PROVE Types'
  <2>1. CacheTypes'
    BY <1>3, DeletionTypes DEF FailsBadly, cacheVars, CacheTypes, Types, TypeOK
  <2>2. unfounded' \in BOOLEAN /\ raised' \subseteq Groups
    <3>1. unfounded' \in BOOLEAN
      BY <1>3, Zenon DEF FailsBadly, Recovers, Types, TypeOK
    <3>2. raised' \subseteq Groups
      BY <1>3 DEF FailsBadly, Recovers, Types, TypeOK
    <3> QED BY <3>1, <3>2
  <2> QED
    BY <1>1, <1>3, <2>1, <2>2 DEF FailsBadly, Fault, SpendsOther, CacheTypes, Types, TypeOK,
                                  VersionFits
<1>4. ASSUME NEW p \in {"report", "task"}, NEW g \in Groups, RaisesBadly(p, g) PROVE Types'
  <2>1. /\ result' \in [Procs -> {"none", "done", "exists", "failed"}]
        /\ todo' \in [Procs -> SUBSET Groups] /\ raised' \subseteq Groups
    BY <1>4 DEF RaisesBadly, Records, Types, TypeOK
  <2> QED
    BY <1>1, <1>4, <2>1 DEF RaisesBadly, Fault, SpendsOther, Types, TypeOK, VersionFits,
                            cacheVars
<1>5. ASSUME NEW g \in Groups, MarksBadly(g) PROVE Types'
  <2>1. [Info(g) EXCEPT !.alarm = TRUE] \in Entries
    BY InfoType DEF Entries, Types
  <2>2. CacheTypes'
    BY <1>5, <2>1 DEF MarksBadly, CacheTypes, Types, TypeOK
  <2> QED
    BY <1>1, <1>5, <2>2 DEF MarksBadly, Fault, SpendsOther, CacheTypes, Types, TypeOK,
                            VersionFits, logVars
<1>6. ASSUME NEW g \in Groups, ClearsBadly(g) PROVE Types'
  <2>1. CacheTypes'
    BY <1>6, DeletionTypes DEF ClearsBadly, Types
  <2> QED
    BY <1>1, <1>6, <2>1 DEF ClearsBadly, Fault, SpendsSaveFault, CacheTypes, Types, TypeOK,
                            VersionFits, logVars
<1>7. CASE Expires
  <2>1. entry' \in [Groups -> Entries \cup {Missing}] /\ byScene' \subseteq Groups
    BY <1>7 DEF Expires, Types, TypeOK
  <2> QED
    BY <1>1, <1>7, <2>1 DEF Expires, Fault, SpendsOther, Types, TypeOK, VersionFits, logVars
<1>8. CASE Restart
  <2>1. /\ pc' \in [Procs -> Pcs] /\ todo' \in [Procs -> SUBSET Groups]
        /\ result' \in [Procs -> {"none", "done", "exists", "failed"}]
        /\ pc'["update"] # "start" /\ met' \in BOOLEAN
    BY <1>8 DEF Restart
  <2>2. /\ left' \in (0..MaxUpdates) \X Nat \X Nat /\ left'[1] = left[1]
        /\ UNCHANGED <<cacheVars, logVars, version, alarmOn, switched, dev>>
    BY <1>8 DEF Restart, Fault, SpendsOther, Types, TypeOK
  <2> QED
    BY <1>1, <2>1, <2>2 DEF Types, TypeOK, VersionFits, cacheVars, logVars
<1> QED
  BY <1>2, <1>3, <1>4, <1>5, <1>6, <1>7, <1>8 DEF FaultStep

LEMMA StepTypes == Types /\ [Next]_vars => Types'
<1>1. ASSUME Types, UNCHANGED vars PROVE Types'
  BY <1>1 DEF vars, cacheVars, procVars, logVars, envVars, Types, TypeOK, VersionFits
<1> QED
  BY <1>1, CheckTypes, ActionTypes, UpdateTypes, FaultTypes DEF Next, ReportStep

\* Every variable keeps its type.
THEOREM TypeInvariant == Spec => []TypeOK
<1>1. Types => TypeOK
  BY DEF Types
<1> QED
  BY <1>1, InitTypes, StepTypes, PTL DEF Spec

-----------------------------------------------------------------------------
(* A recovery follows an alarm.                                            *)

Calm == ~failed /\ ~switched

\* An entry is marked only of a group whose alarm was raised.
MarkedIsRaised == \A g \in Groups : Info(g).alarm => g \in raised

\* As long as nothing fails the alarm action raises every group under the
\* scene, or none and says so.
RaisesAllOrNone ==
    pc["report"] = "raise" =>
        IF alarmOn THEN byScene \ todo["report"] \subseteq raised
                   ELSE result["report"] = "failed"

\* What ActionAfterAlarm is going to mark was raised.
MarksRaised ==
    /\ pc["report"] = "after" /\ Marks => byScene \subseteq raised
    /\ pc["report"] = "mark" => todo["report"] \subseteq raised

Founded ==
    /\ RecoveriesAreFounded
    /\ Calm => MarkedIsRaised /\ RaisesAllOrNone /\ MarksRaised

\* The key asked for is never there: its first part is no alarm configuration.
LEMMA NeverExists ==
  ASSUME TypeOK, NEW g \in Groups
  PROVE  ~GetAlarmDeviceExists(g)
<1> SUFFICES ASSUME GetAlarmDeviceExists(g) PROVE FALSE
  OBVIOUS
<1>1. PICK d \in Info(g).devices : <<<<d, g>>, g>> \in byAlarm
  BY DEF GetAlarmDeviceExists, getCacheKeyByAlarm
<1>2. d = Alarm /\ d \in Devices
  BY <1>1, InfoType DEF TypeOK, Entries
<1> QED
  BY <1>2, AlarmAssumption

\* A deletion clears the mark of its group, and no other, and lists no group.
LEMMA DeletionMarks ==
  ASSUME TypeOK, NEW g \in Groups, DeleteBygroupId(g)
  PROVE  /\ \A h \in Groups : Info(h)'.alarm => h # g /\ Info(h).alarm
         /\ byScene' \subseteq byScene
<1>1. \A h \in Groups \ {g} : Info(h)' = Info(h)
  BY DEF DeleteBygroupId, TypeOK, Info
<1>2. Info(g)' = Blank
  BY DEF DeleteBygroupId, TypeOK, Info
<1>3. byScene' \subseteq byScene
  BY DEF DeleteBygroupId, LeavesScene
<1> QED
  BY <1>1, <1>2, <1>3 DEF Blank

LEMMA InitFounded == Init => Founded
  BY DEF Init, Founded, RecoveriesAreFounded, Calm, MarkedIsRaised, RaisesAllOrNone, MarksRaised,
         Info, Blank, Procs

\* The report evaluates its groups: a recovery is recorded of a marked group.
LEMMA CheckFounded ==
  ASSUME Types, Founded, NEW g \in Groups, GroupHolds(g) \/ GroupFails(g)
  PROVE  Founded'
<1>1. CASE GroupHolds(g)
  <2>1. \A h \in Groups : Info(h)'.alarm => Info(h).alarm
    BY <1>1 DEF GroupHolds, SetDevice, Info, Blank, Types, TypeOK
  <2> QED
    BY <1>1, <2>1 DEF GroupHolds, Founded, RecoveriesAreFounded, Calm, MarkedIsRaised,
                      RaisesAllOrNone, MarksRaised, envVars
<1>2. CASE GroupFails(g)
  <2>1. \A h \in Groups : Info(h)'.alarm => h # g /\ Info(h).alarm
    BY <1>2, DeletionMarks DEF GroupFails, Types
  <2>2. \A h \in Groups \ {g} : h \in raised => h \in raised'
    BY <1>2 DEF GroupFails, Recovers
  <2>3. unfounded' => unfounded \/ (Info(g).alarm /\ g \notin raised)
    <3>1. CASE Info(g).alarm
      BY <1>2, <3>1 DEF GroupFails, Recovers
    <3>2. CASE ~Info(g).alarm
      BY <1>2, <3>2 DEF GroupFails
    <3> QED BY <3>1, <3>2
  <2>4. UNCHANGED <<failed, switched, pc>> /\ pc["report"] = "check"
    BY <1>2 DEF GroupFails, envVars
  <2>5. Calm => MarkedIsRaised'
    BY <2>1, <2>2 DEF Founded, MarkedIsRaised
  <2>6. RecoveriesAreFounded'
    BY <2>3, <2>4 DEF Founded, RecoveriesAreFounded, Calm, MarkedIsRaised
  <2> QED
    BY <2>4, <2>5, <2>6 DEF Founded, Calm, RaisesAllOrNone, MarksRaised
<1> QED
  BY <1>1, <1>2

\* The other steps of a report: the groups it marks were raised.
LEMMA ReportFounded ==
  ASSUME Types, Founded,
         \/ Execute \/ HasChecked \/ AfterActions \/ ReportEnds
         \/ \E g \in Groups : MarksGroup(g)
  PROVE  Founded'
<1> USE DEF GoTo, Leaves, Procs
<1>1. CASE Execute \/ HasChecked \/ ReportEnds
  BY <1>1 DEF Execute, HasChecked, ReportEnds, cacheVars, logVars, envVars, Types, TypeOK, Founded,
              RecoveriesAreFounded, Calm, MarkedIsRaised, RaisesAllOrNone, MarksRaised, Info
<1>2. CASE AfterActions
  BY <1>2 DEF AfterActions, cacheVars, logVars, envVars, Types, TypeOK, Founded,
              RecoveriesAreFounded, Calm, MarkedIsRaised, RaisesAllOrNone, MarksRaised, Info
<1>3. ASSUME NEW g \in Groups, MarksGroup(g) PROVE Founded'
  <2>1. \A h \in Groups : Info(h)'.alarm => h = g \/ Info(h).alarm
    BY <1>3 DEF MarksGroup, SetAlarm, Info, Types, TypeOK
  <2>2. /\ todo'["report"] \subseteq todo["report"] /\ g \in todo["report"]
        /\ UNCHANGED <<pc, raised, unfounded, failed, switched>> /\ pc["report"] = "mark"
    BY <1>3 DEF MarksGroup, envVars, Types, TypeOK
  <2> QED
    BY <2>1, <2>2 DEF Founded, RecoveriesAreFounded, Calm, MarkedIsRaised, RaisesAllOrNone,
                      MarksRaised
<1> QED
  BY <1>1, <1>2, <1>3

\* The actions: the alarms raised so far are those of the groups visited.
LEMMA ActionFounded ==
  ASSUME Types, Founded, TaskAutomationExecute \/ \E p \in {"report", "task"} : ActionStep(p)
  PROVE  Founded'
<1> USE DEF GoTo, Leaves, Procs
<1>1. CASE TaskAutomationExecute
  BY <1>1 DEF TaskAutomationExecute, cacheVars, logVars, envVars, Types, TypeOK, Founded,
              RecoveriesAreFounded, Calm, MarkedIsRaised, RaisesAllOrNone, MarksRaised, Marks, Info
<1>2. ASSUME NEW p \in {"report", "task"}, ReadsScene(p) PROVE Founded'
  BY <1>2 DEF ReadsScene, cacheVars, logVars, envVars, Types, TypeOK, Founded,
              RecoveriesAreFounded, Calm, MarkedIsRaised, RaisesAllOrNone, MarksRaised, Marks, Info
<1>3. ASSUME NEW p \in {"report", "task"}, NEW g \in Groups, Raises(p, g) PROVE Founded'
  <2>1. /\ UNCHANGED <<byScene, entry, pc, unfounded, failed, switched, alarmOn>>
        /\ todo' = [todo EXCEPT ![p] = @ \ {g}] /\ pc[p] = "raise"
    BY <1>3 DEF Raises, cacheVars, envVars
  <2>2. IF alarmOn THEN raised' = raised \cup {g}
                   ELSE raised' = raised /\ result' = [result EXCEPT ![p] = "failed"]
    BY <1>3, NeverExists DEF Raises, Records, Types
  <2>3. p # "report" => result'["report"] = result["report"]
    BY <1>3 DEF Raises, Types, TypeOK
  <2>4. raised \subseteq raised'
    BY <2>2
  <2>5. RaisesAllOrNone => RaisesAllOrNone'
    BY <2>1, <2>2, <2>3 DEF RaisesAllOrNone, Types, TypeOK
  <2>6. MarksRaised => MarksRaised'
    BY <2>1, <2>3, <2>4 DEF MarksRaised, Marks, Types, TypeOK
  <2>7. MarkedIsRaised => MarkedIsRaised'
    BY <2>1, <2>4 DEF MarkedIsRaised, Info
  <2> QED
    BY <2>1, <2>5, <2>6, <2>7 DEF Founded, RecoveriesAreFounded, Calm
<1>4. ASSUME NEW p \in {"report", "task"}, HasActed(p) PROVE Founded'
  <2>1. UNCHANGED <<byScene, entry, raised, unfounded, failed, switched, alarmOn, todo>>
    BY <1>4 DEF HasActed, cacheVars, logVars, envVars
  <2>2. CASE p = "task"
    <3>1. pc'["report"] = pc["report"] /\ result'["report"] = result["report"]
      BY <1>4, <2>2 DEF HasActed, Types, TypeOK
    <3> QED
      BY <2>1, <3>1 DEF Founded, RecoveriesAreFounded, Calm, MarkedIsRaised, RaisesAllOrNone,
                        MarksRaised, Marks, Info
  <2>3. CASE p = "report"
    <3>1. /\ pc["report"] = "raise" /\ pc'["report"] = "after" /\ todo["report"] = {}
          /\ result'["report"] # "failed" => result["report"] # "failed"
      BY <1>4, <2>3 DEF HasActed, Types, TypeOK
    <3> QED
      BY <2>1, <3>1 DEF Founded, RecoveriesAreFounded, Calm, MarkedIsRaised, RaisesAllOrNone,
                        MarksRaised, Marks, Info
  <2> QED BY <2>2, <2>3
<1> QED
  BY <1>1, <1>2, <1>3, <1>4 DEF ActionStep

\* A save and its goroutine only take groups and marks away.
LEMMA UpdateFounded ==
  ASSUME Types, Founded, UpdateStep
  PROVE  Founded'
<1> USE DEF GoTo, Leaves, Procs
<1>1. CASE UpdateSceneAutomation \/ ClearStarts \/ HasCleared
  BY <1>1 DEF UpdateSceneAutomation, ClearStarts, HasCleared, cacheVars, logVars, envVars, Types,
              TypeOK, Founded, RecoveriesAreFounded, Calm, MarkedIsRaised, RaisesAllOrNone,
              MarksRaised, Marks, Info
<1>2. ASSUME NEW g \in Groups, ClearsGroup(g) PROVE Founded'
  <2>1. /\ \A h \in Groups : Info(h)'.alarm => Info(h).alarm
        /\ byScene' \subseteq byScene
    BY <1>2, DeletionMarks DEF ClearsGroup, Types
  <2>2. /\ UNCHANGED <<pc, result, raised, unfounded, failed, switched, alarmOn>>
        /\ todo'["report"] = todo["report"]
    BY <1>2 DEF ClearsGroup, logVars, envVars, Types, TypeOK
  <2> QED
    BY <2>1, <2>2 DEF Founded, RecoveriesAreFounded, Calm, MarkedIsRaised, RaisesAllOrNone,
                      MarksRaised, Marks
<1> QED
  BY <1>1, <1>2 DEF UpdateStep

\* A failure or a switch of the alarm ends what is promised.
LEMMA RoughFounded ==
  ASSUME FaultStep \/ SwitchAlarm
  PROVE  Founded'
<1>1. failed' \/ switched'
  BY DEF FaultStep, HoldsBadly, FailsBadly, MarksBadly, ClearsBadly, RaisesBadly, Expires,
         Restart, Fault, SwitchAlarm
<1> QED
  BY <1>1 DEF Founded, RecoveriesAreFounded, Calm

LEMMA StepFounded == Types /\ Founded /\ [Next]_vars => Founded'
<1>1. ASSUME Founded, UNCHANGED vars PROVE Founded'
  BY <1>1 DEF vars, cacheVars, procVars, logVars, envVars, Founded, RecoveriesAreFounded, Calm,
              MarkedIsRaised, RaisesAllOrNone, MarksRaised, Marks, Info
<1> QED
  BY <1>1, CheckFounded, ReportFounded, ActionFounded, UpdateFounded, RoughFounded
     DEF Next, ReportStep

\* A recovery is recorded only of a group whose alarm was raised, as long as
\* nothing failed and the alarm was not switched.
THEOREM RecoveriesFollowAlarms == Spec => []RecoveriesAreFounded
<1>1. Founded => RecoveriesAreFounded
  BY DEF Founded
<1> QED
  BY <1>1, InitTypes, StepTypes, InitFounded, StepFounded, PTL DEF Spec

-----------------------------------------------------------------------------
(* The groups whose alarms are raised hold.                                *)

Whole == ~failed /\ ~orphaned

\* Every entry names its scene, and every group under the scene has an entry.
EntriesHaveScene ==
    /\ \A g \in Groups : entry[g] = Missing \/ entry[g].scene
    /\ \A g \in byScene : entry[g] # Missing

ListedGroupsHeld == byScene \subseteq held

HeldInv ==
    Whole => /\ EntriesHaveScene
             /\ ListedGroupsHeld
             /\ pc["report"] = "raise" => todo["report"] \subseteq held

\* A deletion takes the group from the list of the scene, if entries name it.
LEMMA DeletionUnlists ==
  ASSUME TypeOK, EntriesHaveScene, NEW g \in Groups, DeleteBygroupId(g)
  PROVE  byScene' = byScene \ {g} /\ EntriesHaveScene'
<1>1. byScene' = byScene \ {g}
  <2>1. CASE entry[g] = Missing
    BY <2>1 DEF DeleteBygroupId, LeavesScene, EntriesHaveScene
  <2>2. CASE entry[g] # Missing
    BY <2>2 DEF DeleteBygroupId, LeavesScene, EntriesHaveScene, Info
  <2> QED BY <2>1, <2>2
<1>2. entry' = [entry EXCEPT ![g] = Missing]
  BY DEF DeleteBygroupId
<1> QED
  BY <1>1, <1>2 DEF EntriesHaveScene, TypeOK

LEMMA InitHeld == Init => HeldInv
  BY DEF Init, HeldInv, EntriesHaveScene, ListedGroupsHeld, Procs

\* A group that holds is listed with an entry; one that does not leaves both.
LEMMA CheckHeld ==
  ASSUME Types, HeldInv, Whole, NEW g \in Groups, GroupHolds(g) \/ GroupFails(g)
  PROVE  HeldInv'
<1>1. CASE GroupHolds(g)
  <2> DEFINE new == [scene |-> TRUE, alarm |-> FALSE, devices |-> DeviceIds(g)]
  <2>1. new # Missing
    <3>1. new \in Entries
      BY DeviceIdsType DEF Entries, Types
    <3> QED BY <3>1, AlarmAssumption
  <2>2. /\ entry' = [entry EXCEPT ![g] = IF @ = Missing THEN new ELSE @]
        /\ byScene' = byScene \cup {g}
    BY <1>1 DEF GroupHolds, SetDevice
  <2>3. EntriesHaveScene'
    BY <2>1, <2>2 DEF HeldInv, EntriesHaveScene, Types, TypeOK
  <2>4. held' = held \cup {g} /\ pc' = pc /\ pc["report"] = "check"
    BY <1>1 DEF GroupHolds
  <2> QED
    BY <2>2, <2>3, <2>4 DEF HeldInv, ListedGroupsHeld
<1>2. CASE GroupFails(g)
  <2>1. byScene' = byScene \ {g} /\ EntriesHaveScene'
    BY <1>2, DeletionUnlists DEF GroupFails, HeldInv, Types
  <2>2. held' = held \ {g} /\ pc' = pc /\ pc["report"] = "check"
    BY <1>2 DEF GroupFails
  <2> QED
    BY <2>1, <2>2 DEF HeldInv, ListedGroupsHeld
<1> QED
  BY <1>1, <1>2

\* The steps that leave the entries alone: an execution takes listed groups.
LEMMA QuietHeld ==
  ASSUME Types, HeldInv, Whole,
         \/ Execute \/ HasChecked \/ AfterActions \/ ReportEnds \/ TaskAutomationExecute
         \/ \E p \in {"report", "task"} : ActionStep(p)
         \/ UpdateSceneAutomation \/ ClearStarts \/ HasCleared \/ SwitchAlarm
  PROVE  HeldInv'
<1> USE DEF GoTo, Leaves, Procs
<1>1. UNCHANGED <<entry, byScene, held>>
  BY DEF Execute, HasChecked, AfterActions, ReportEnds, TaskAutomationExecute, ActionStep,
         ReadsScene, Raises, HasActed, UpdateSceneAutomation, ClearStarts, HasCleared,
         SwitchAlarm, cacheVars, logVars
<1>2. ASSUME pc'["report"] = "raise" PROVE todo'["report"] \subseteq held
  <2>1. CASE pc["report"] = "raise" /\ todo'["report"] \subseteq todo["report"]
    BY <2>1 DEF HeldInv
  <2>2. CASE todo'["report"] = byScene
    BY <2>2 DEF HeldInv, ListedGroupsHeld
  <2>3. CASE Execute \/ HasChecked \/ AfterActions \/ ReportEnds
    BY <1>2, <2>3 DEF Execute, HasChecked, AfterActions, ReportEnds, Types, TypeOK
  <2>4. CASE \/ TaskAutomationExecute \/ UpdateSceneAutomation \/ ClearStarts \/ HasCleared
             \/ SwitchAlarm
    BY <1>2, <2>1, <2>4 DEF TaskAutomationExecute, UpdateSceneAutomation, ClearStarts, HasCleared,
                            SwitchAlarm, procVars, Types, TypeOK
  <2>5. CASE \E p \in {"report", "task"} : ActionStep(p)
    BY <1>2, <2>1, <2>2, <2>5 DEF ActionStep, ReadsScene, Raises, HasActed, Types, TypeOK
  <2> QED
    BY <2>3, <2>4, <2>5
<1> QED
  BY <1>1, <1>2 DEF HeldInv, EntriesHaveScene, ListedGroupsHeld

\* A mark on an entry keeps its scene; a save takes groups from the list.
LEMMA EntryHeld ==
  ASSUME Types, HeldInv, Whole, NEW g \in Groups, MarksGroup(g) \/ ClearsGroup(g), Whole'
  PROVE  HeldInv'
<1> USE DEF GoTo, Leaves, Procs
<1>1. CASE MarksGroup(g)
  <2> DEFINE new == [entry[g] EXCEPT !.alarm = TRUE]
  <2>1. entry[g] # Missing /\ entry[g] \in Entries /\ Info(g) = entry[g]
    BY <1>1 DEF MarksGroup, Whole, Types, TypeOK, Info
  <2>2. new # Missing /\ new.scene = entry[g].scene
    <3>1. new \in Entries /\ new.scene = entry[g].scene
      BY <2>1 DEF Entries
    <3> QED BY <3>1, AlarmAssumption
  <2>3. entry' = [entry EXCEPT ![g] = new] /\ byScene' = byScene
    BY <1>1, <2>1 DEF MarksGroup, SetAlarm
  <2>4. EntriesHaveScene'
    BY <2>1, <2>2, <2>3 DEF HeldInv, EntriesHaveScene, Types, TypeOK
  <2> QED
    BY <1>1, <2>3, <2>4 DEF MarksGroup, HeldInv, ListedGroupsHeld
<1>2. CASE ClearsGroup(g)
  <2>1. byScene' = byScene \ {g} /\ EntriesHaveScene'
    BY <1>2, DeletionUnlists DEF ClearsGroup, HeldInv, Types
  <2>2. UNCHANGED <<pc, held>> /\ todo'["report"] = todo["report"]
    BY <1>2 DEF ClearsGroup, logVars, Types, TypeOK
  <2> QED
    BY <2>1, <2>2 DEF HeldInv, ListedGroupsHeld
<1> QED
  BY <1>1, <1>2

\* Neither exception is taken back.
LEMMA WholeBefore ==
  ASSUME [Next]_vars, Whole'
  PROVE  Whole
<1>1. ASSUME FaultStep PROVE FALSE
  BY <1>1 DEF FaultStep, HoldsBadly, FailsBadly, MarksBadly, ClearsBadly, RaisesBadly, Expires,
              Restart, Fault, Whole
<1>2. ASSUME NEW g \in Groups, GroupHolds(g) \/ GroupFails(g) \/ MarksGroup(g) PROVE Whole
  <2>1. failed' = failed
    BY <1>2 DEF GroupHolds, GroupFails, MarksGroup, envVars
  <2>2. orphaned => orphaned'
    BY <1>2, Zenon DEF GroupHolds, GroupFails, MarksGroup
  <2> QED
    BY <2>1, <2>2 DEF Whole
<1>3. CASE Execute \/ HasChecked \/ AfterActions \/ ReportEnds \/ TaskAutomationExecute
  BY <1>3 DEF Execute, HasChecked, AfterActions, ReportEnds, TaskAutomationExecute, logVars,
              envVars, Whole
<1>4. CASE UpdateStep
  BY <1>4 DEF UpdateStep, UpdateSceneAutomation, ClearStarts, ClearsGroup, HasCleared, logVars,
              envVars, Whole
<1>5. CASE SwitchAlarm
  BY <1>5 DEF SwitchAlarm, logVars, Whole
<1>6. ASSUME NEW p \in {"report", "task"}, ActionStep(p) PROVE Whole
  BY <1>6 DEF ActionStep, ReadsScene, Raises, HasActed, logVars, envVars, Whole
<1>7. CASE UNCHANGED vars
  BY <1>7 DEF vars, logVars, envVars, Whole
<1> QED
  BY <1>1, <1>2, <1>3, <1>4, <1>5, <1>6, <1>7 DEF Next, ReportStep

LEMMA StepHeld == Types /\ HeldInv /\ [Next]_vars => HeldInv'
<1> SUFFICES ASSUME Types, HeldInv, [Next]_vars, Whole'
             PROVE  HeldInv'
  BY DEF HeldInv
<1>1. Whole
  BY WholeBefore
<1>2. ~FaultStep
  BY DEF FaultStep, HoldsBadly, FailsBadly, MarksBadly, ClearsBadly, RaisesBadly, Expires,
         Restart, Fault, Whole
<1>3. CASE UNCHANGED vars
  BY <1>3 DEF vars, cacheVars, procVars, logVars, HeldInv, EntriesHaveScene, ListedGroupsHeld,
              Whole, envVars
<1> QED
  BY <1>1, <1>2, <1>3, CheckHeld, QuietHeld, EntryHeld DEF Next, ReportStep, UpdateStep

\* A report raises the alarms of groups whose last evaluation came out true, as
\* long as nothing failed and no mark came after a save's clearing.
THEOREM RaisedOnlyIfHeld == Spec => []RaisedGroupsHeld
<1>1. HeldInv => RaisedGroupsHeld
  BY DEF HeldInv, Whole, RaisedGroupsHeld
<1> QED
  BY <1>1, InitTypes, StepTypes, InitHeld, StepHeld, PTL DEF Spec
=============================================================================
