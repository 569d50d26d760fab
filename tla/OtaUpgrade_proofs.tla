-------------------------- MODULE OtaUpgrade_proofs --------------------------
(***************************************************************************)
(* What TLAPS proves about OTA upgrades, for every set of tasks, devices   *)
(* and requests and every number of restarts.                              *)
(***************************************************************************)
EXTENDS OtaUpgrade, TLAPS

USE OtaAssumption

-----------------------------------------------------------------------------
(* Lemmas about the operators the actions are built from.                  *)

\* After a push a goroutine is at a place of its program, outside the push.
LEMMA AfterPushType ==
  ASSUME NEW g
  PROVE  AfterPush(g) \in {"next", "done"}
  BY DEF AfterPush

\* A write keeps the types and touches no other row.
LEMMA WritesEffect ==
  ASSUME TypeOK, NEW x \in Details, NEW s \in Statuses, Writes(x, s)
  PROVE  /\ status' \in [Details -> Statuses]
         /\ status'[x] = IF status[x] = 0 THEN 0 ELSE s
         /\ \A y \in Details \ {x} : status'[y] = status[y]
  BY DEF TypeOK, Writes, Statuses

-----------------------------------------------------------------------------
(* Type correctness.                                                       *)

\* The types hold initially, and no goroutine has a detail yet.
LEMMA InitTypes == Init => TypeOK /\ WorksOnDetail
<1> SUFFICES ASSUME Init PROVE TypeOK /\ WorksOnDetail
  OBVIOUS
<1>1. status \in [Details -> Statuses] /\ online \in [Devices -> BOOLEAN]
  BY DEF Init, Statuses
<1>2. pc \in [Goroutines -> Pcs] /\ at \in [Goroutines -> Details \cup {NoDetail}]
  BY DEF Init, Pcs
<1>3. todo \in [Goroutines -> SUBSET Details]
  BY DEF Init
<1>4. /\ created \subseteq Tasks /\ deleted \subseteq created
      /\ sending \subseteq Details
  BY DEF Init
<1>5. restarts \in 0..MaxRestarts /\ broken \in BOOLEAN
  <2>1. restarts = 0 /\ broken = FALSE
    BY DEF Init
  <2>2. 0 \in 0..MaxRestarts
    OBVIOUS
  <2>3. broken \in BOOLEAN
    BY <2>1, Zenon
  <2> QED BY <2>1, <2>2, <2>3
<1>6. TypeOK
  BY <1>1, <1>2, <1>3, <1>4, <1>5 DEF TypeOK
<1>7. WorksOnDetail
  BY DEF Init, WorksOnDetail, Pushing
<1> QED BY <1>6, <1>7

\* Every step keeps the types, and a goroutine at work has a detail.
LEMMA StepTypes ==
  TypeOK /\ WorksOnDetail /\ [Next]_vars => TypeOK' /\ WorksOnDetail'
<1> SUFFICES ASSUME TypeOK, WorksOnDetail, [Next]_vars
             PROVE  TypeOK' /\ WorksOnDetail'
  OBVIOUS
<1> USE DEF GoTo
<1>1. ASSUME NEW t \in Tasks, NEW devices \in SUBSET Devices, Creates(t, devices)
      PROVE  TypeOK' /\ WorksOnDetail'
  <2>1. t \in Goroutines /\ {t} \X devices \subseteq Details
    BY DEF Goroutines, Details
  <2>2. TypeOK'
    BY <1>1, <2>1 DEF Creates, TypeOK, Statuses, Pcs
  <2>3. WorksOnDetail'
    BY <1>1, <2>1 DEF Creates, TypeOK, WorksOnDetail, Pushing
  <2> QED BY <2>2, <2>3
<1>2. ASSUME NEW t \in Tasks, DeleteOTAUpgradeTask(t)
      PROVE  TypeOK' /\ WorksOnDetail'
  <2>1. {t} \X Devices \subseteq Details
    BY DEF Details
  <2>2. TypeOK'
    BY <1>2, <2>1 DEF DeleteOTAUpgradeTask, TypeOK, Statuses
  <2>3. WorksOnDetail'
    BY <1>2 DEF DeleteOTAUpgradeTask, WorksOnDetail
  <2> QED BY <2>2, <2>3
<1>3. ASSUME NEW t \in Tasks, TaskStep(t)
      PROVE  TypeOK' /\ WorksOnDetail'
  <2>1. t \in Goroutines
    BY DEF Goroutines
  <2>2. CASE TakesNext(t)
    <3>1. PICK x \in todo[t] : /\ at' = [at EXCEPT ![t] = x]
                               /\ todo' = [todo EXCEPT ![t] = todo[t] \ {x}]
      BY <2>2 DEF TakesNext
    <3>2. x \in Details
      BY <3>1, <2>1 DEF TypeOK
    <3>3. TypeOK'
      BY <2>2, <2>1, <3>1, <3>2 DEF TakesNext, TypeOK, rows, Pcs
    <3>4. WorksOnDetail'
      BY <2>2, <2>1, <3>1, <3>2 DEF TakesNext, TypeOK, WorksOnDetail, Pushing
    <3> QED BY <3>3, <3>4
  <2>3. CASE TaskPushed(t)
    BY <2>3, <2>1 DEF TaskPushed, TypeOK, WorksOnDetail, rows, Pcs, Pushing
  <2> QED BY <1>3, <2>2, <2>3 DEF TaskStep
<1>4. ASSUME NEW g \in Goroutines, PushStep(g) \/ PushFails(g)
      PROVE  TypeOK' /\ WorksOnDetail'
  <2>1. pc[g] \in Pushing /\ at[g] \in Details
    BY <1>4 DEF PushStep, PushFails, SeesDevice, Counts, ReadsPackage, WritesFailed,
                WritesNotified, WorksOnDetail, Pushing
  <2>2. AfterPush(g) \in {"next", "done"}
    BY AfterPushType
  <2>3. CASE SeesDevice(g)
    BY <2>3, <2>1 DEF SeesDevice, TypeOK, WorksOnDetail, rows, Pcs, Pushing
  <2>4. CASE Counts(g)
    BY <2>4, <2>1 DEF Counts, TypeOK, WorksOnDetail, rows, Pcs, Pushing
  <2>5. CASE ReadsPackage(g)
    BY <2>5, <2>1, <2>2 DEF ReadsPackage, TypeOK, WorksOnDetail, rows, Pcs, Pushing
  <2>6. CASE WritesFailed(g)
    <3>1. status' \in [Details -> Statuses]
      BY <2>6, <2>1, WritesEffect DEF WritesFailed, Statuses
    <3> QED
      BY <2>6, <2>2, <3>1 DEF WritesFailed, TypeOK, WorksOnDetail, Pcs, Pushing
  <2>7. CASE WritesNotified(g)
    <3>1. status' \in [Details -> Statuses]
      BY <2>7, <2>1, WritesEffect DEF WritesNotified, Statuses
    <3> QED
      BY <2>7, <2>1, <2>2, <3>1 DEF WritesNotified, TypeOK, WorksOnDetail, Pcs, Pushing
  <2>8. CASE PushFails(g)
    BY <2>8, <2>2 DEF PushFails, TypeOK, WorksOnDetail, rows, Pcs, Pushing
  <2> QED BY <1>4, <2>3, <2>4, <2>5, <2>6, <2>7, <2>8 DEF PushStep
<1>5. ASSUME NEW r \in Requests, Starts(r) \/ RequestStep(r)
      PROVE  TypeOK' /\ WorksOnDetail'
  <2>1. r \in Goroutines
    BY DEF Goroutines
  <2>2. CASE Starts(r)
    BY <2>2, <2>1 DEF Starts, TypeOK, WorksOnDetail, rows, Pcs, Pushing
  <2>3. CASE Reads(r)
    BY <2>3, <2>1 DEF Reads, TypeOK, WorksOnDetail, rows, Pcs, Pushing
  <2>4. CASE Cancels(r) \/ Retries(r)
    <3>1. at[r] \in Details
      BY <2>4, <2>1 DEF Cancels, Retries, WorksOnDetail
    <3>2. status' \in [Details -> Statuses]
      BY <2>4, <2>1, <3>1, WritesEffect DEF Cancels, Retries, Statuses
    <3> QED
      BY <2>4, <2>1, <3>1, <3>2 DEF Cancels, Retries, TypeOK, WorksOnDetail, Pcs, Pushing
  <2> QED BY <1>5, <2>2, <2>3, <2>4 DEF RequestStep
<1>6. CASE \E d \in Devices : DeviceChanges(d)
  BY <1>6 DEF DeviceChanges, TypeOK, WorksOnDetail, rows
<1>7. ASSUME GoesDown, restarts' \in 0..MaxRestarts
      PROVE  TypeOK' /\ WorksOnDetail'
  BY <1>7 DEF GoesDown, TypeOK, WorksOnDetail, rows, Pcs, Pushing
<1>8. CASE Restart
  BY <1>8, <1>7 DEF Restart, TypeOK
<1>9. CASE PublishOtaAdress
  BY <1>9, <1>7 DEF PublishOtaAdress, TypeOK
<1>10. CASE UNCHANGED vars
  BY <1>10 DEF vars, TypeOK, WorksOnDetail
<1> QED
  BY <1>1, <1>2, <1>3, <1>4, <1>5, <1>6, <1>8, <1>9, <1>10
     DEF Next, CreateOTAUpgradeTask, BatchPushOTA

\* Every variable keeps its type.
THEOREM TypeInvariant == Spec => []TypeOK
<1>1. Init => TypeOK /\ WorksOnDetail
  BY InitTypes
<1>2. TypeOK /\ WorksOnDetail /\ [Next]_vars => TypeOK' /\ WorksOnDetail'
  BY StepTypes
<1> QED
  BY <1>1, <1>2, PTL DEF Spec

-----------------------------------------------------------------------------
(* Only failed upgrades are tried again.                                   *)

\* A detail has a row only once its task was created.
Begun == \A x \in Details : status[x] # 0 => x[1] \in created

\* Nobody has x to push, nor will: its task is created already, its status is one
\* that no request tries again, and no goroutine has gone past the test.
Closed(x) ==
    /\ x[1] \in created
    /\ status[x] \in {0, 1, 2, 6}
    /\ \A g \in Goroutines : /\ x \notin todo[g]
                             /\ ~(at[g] = x /\ pc[g] \in Pushing \cup {"retry"})

LEMMA StepBegun ==
  ASSUME TypeOK, WorksOnDetail, Begun, [Next]_vars
  PROVE  Begun'
<1>1. ASSUME NEW t \in Tasks, NEW devices \in SUBSET Devices, Creates(t, devices)
      PROVE  Begun'
  BY <1>1 DEF Creates, Begun, Details
<1>2. CASE \E t \in Tasks : DeleteOTAUpgradeTask(t)
  BY <1>2 DEF DeleteOTAUpgradeTask, Begun
<1>3. ASSUME NEW x \in Details, NEW s \in Statuses, Writes(x, s),
             UNCHANGED created
      PROVE  Begun'
  BY <1>3, WritesEffect DEF Begun
<1>4. ASSUME NEW g \in Goroutines,
             WritesFailed(g) \/ WritesNotified(g) \/ Cancels(g) \/ Retries(g)
      PROVE  Begun'
  <2>1. at[g] \in Details
    BY <1>4 DEF WritesFailed, WritesNotified, Cancels, Retries, WorksOnDetail, Pushing
  <2> QED
    BY <1>3, <1>4, <2>1 DEF WritesFailed, WritesNotified, Cancels, Retries, Statuses
<1>5. CASE UNCHANGED <<status, created>>
  BY <1>5 DEF Begun
<1>6. ASSUME NEW t \in Tasks, TaskStep(t)
      PROVE  Begun'
  BY <1>5, <1>6 DEF TaskStep, TakesNext, TaskPushed, rows
<1>7. ASSUME NEW g \in Goroutines, SeesDevice(g) \/ Counts(g) \/ ReadsPackage(g) \/ PushFails(g)
      PROVE  Begun'
  BY <1>5, <1>7 DEF SeesDevice, Counts, ReadsPackage, PushFails, rows
<1>8. ASSUME NEW r \in Requests, Starts(r) \/ RequestStep(r)
      PROVE  Begun'
  <2>1. r \in Goroutines
    BY DEF Goroutines
  <2>2. Starts(r) \/ Reads(r) => UNCHANGED <<status, created>>
    BY DEF Starts, Reads, rows
  <2> QED BY <1>4, <1>5, <1>8, <2>1, <2>2 DEF RequestStep
<1>9. CASE (\E d \in Devices : DeviceChanges(d)) \/ Restart \/ PublishOtaAdress \/ UNCHANGED vars
  BY <1>5, <1>9 DEF DeviceChanges, GoesDown, Restart, PublishOtaAdress, vars, rows
<1> QED
  BY <1>1, <1>2, <1>4, <1>6, <1>7, <1>8, <1>9
     DEF Next, CreateOTAUpgradeTask, BatchPushOTA, PushStep

\* A request may still cancel a closed upgrade, which closes it again; its task may
\* be deleted; nothing opens it.
LEMMA StepClosed ==
  ASSUME TypeOK, WorksOnDetail, NEW x \in Details, Closed(x), [Next]_vars
  PROVE  Closed(x)'
<1> USE DEF GoTo
<1>1. ASSUME NEW t \in Tasks, NEW devices \in SUBSET Devices, Creates(t, devices)
      PROVE  Closed(x)'
  <2>1. x \notin {t} \X devices /\ x[1] \in created' /\ status'[x] = status[x]
    BY <1>1 DEF Creates, Closed
  <2>2. \A g \in Goroutines : x \notin todo'[g] /\ at'[g] = at[g]
    BY <1>1, <2>1 DEF Creates, Closed, TypeOK
  <2>3. \A g \in Goroutines : pc'[g] \in {pc[g], "next"}
    BY <1>1 DEF Creates, TypeOK
  <2> QED BY <2>1, <2>2, <2>3 DEF Closed, Pushing
<1>2. CASE \E t \in Tasks : DeleteOTAUpgradeTask(t)
  BY <1>2 DEF DeleteOTAUpgradeTask, Closed
<1>3. ASSUME NEW g \in Goroutines, NEW l \in Pcs \ Pushing,
             at[g] # x \/ l # "retry",
             pc' = [pc EXCEPT ![g] = l],
             UNCHANGED <<created, at, todo>>,
             status'[x] \in {0, 1, 2, 6}
      PROVE  Closed(x)'
  <2>1. \A h \in Goroutines : pc'[h] = IF h = g THEN l ELSE pc[h]
    BY <1>3 DEF TypeOK
  <2> QED BY <1>3, <2>1 DEF Closed
<1>4. ASSUME NEW g \in Goroutines, pc[g] \in Pushing \cup {"retry"},
             NEW l \in Pcs, pc' = [pc EXCEPT ![g] = l],
             UNCHANGED <<created, at, todo>>,
             at[g] # x => status'[x] = status[x]
      PROVE  Closed(x)'
  <2>1. at[g] # x
    BY <1>4 DEF Closed
  <2>2. \A h \in Goroutines : pc'[h] = IF h = g THEN l ELSE pc[h]
    BY <1>4 DEF TypeOK
  <2> QED BY <1>4, <2>1, <2>2 DEF Closed
<1>5. ASSUME NEW t \in Tasks, TaskStep(t)
      PROVE  Closed(x)'
  <2>1. t \in Goroutines /\ UNCHANGED <<status, created>>
    BY <1>5 DEF TaskStep, TakesNext, TaskPushed, rows, Goroutines
  <2>2. CASE TakesNext(t)
    <3>1. PICK y \in todo[t] : /\ at' = [at EXCEPT ![t] = y]
                               /\ todo' = [todo EXCEPT ![t] = todo[t] \ {y}]
      BY <2>2 DEF TakesNext
    <3>2. y # x
      BY <2>1, <3>1 DEF Closed
    <3>3. pc' = [pc EXCEPT ![t] = "device"]
      BY <2>2 DEF TakesNext
    <3> QED BY <2>1, <3>1, <3>2, <3>3 DEF Closed, TypeOK
  <2>3. CASE TaskPushed(t)
    BY <1>3, <2>1, <2>3 DEF TaskPushed, Closed, Pcs, Pushing
  <2> QED BY <1>5, <2>2, <2>3 DEF TaskStep
<1>6. ASSUME NEW g \in Goroutines, PushStep(g) \/ PushFails(g) \/ Retries(g)
      PROVE  Closed(x)'
  <2>1. pc[g] \in Pushing \cup {"retry"}
    BY <1>6 DEF PushStep, PushFails, SeesDevice, Counts, ReadsPackage, WritesFailed,
       WritesNotified, Retries, Pushing
  <2>2. PICK l \in Pcs : pc' = [pc EXCEPT ![g] = l]
    BY <1>6, AfterPushType DEF PushStep, PushFails, SeesDevice, Counts, ReadsPackage,
       WritesFailed, WritesNotified, Retries, Pcs
  <2>3. UNCHANGED <<created, at, todo>>
    BY <1>6 DEF PushStep, PushFails, SeesDevice, Counts, ReadsPackage, WritesFailed,
       WritesNotified, Retries, rows
  <2>4. at[g] # x => status'[x] = status[x]
    BY <1>6 DEF PushStep, PushFails, SeesDevice, Counts, ReadsPackage, WritesFailed,
       WritesNotified, Retries, Writes, TypeOK, rows
  <2> QED BY <1>4, <2>1, <2>2, <2>3, <2>4
<1>7. ASSUME NEW r \in Requests, Starts(r)
      PROVE  Closed(x)'
  <2>1. pc' = [pc EXCEPT ![r] = "read"] /\ UNCHANGED <<status, todo, created>>
    BY <1>7 DEF Starts, rows
  <2>2. \A g \in Goroutines \ {r} : pc'[g] = pc[g] /\ at'[g] = at[g]
    BY <1>7 DEF Starts, TypeOK
  <2>3. r \in Goroutines => pc'[r] = "read"
    BY <2>1 DEF TypeOK
  <2> QED BY <2>1, <2>2, <2>3 DEF Closed, Pushing
<1>8. ASSUME NEW r \in Requests, Reads(r)
      PROVE  Closed(x)'
  <2>1. r \in Goroutines /\ UNCHANGED <<status, at, todo, created>>
    BY <1>8 DEF Reads, rows, Goroutines
  <2>2. PICK l \in {"cancel", "retry", "done"} :
            pc' = [pc EXCEPT ![r] = l] /\ (l = "retry" => status[at[r]] = 5)
    BY <1>8 DEF Reads, MayRetry
  <2>3. at[r] # x \/ l # "retry"
    BY <2>2 DEF Closed
  <2>4. l \in Pcs \ Pushing /\ status'[x] \in {0, 1, 2, 6}
    BY <2>1, <2>2 DEF Pcs, Pushing, Closed
  <2> QED BY <1>3, <2>1, <2>2, <2>3, <2>4
<1>9. ASSUME NEW r \in Requests, Cancels(r)
      PROVE  Closed(x)'
  <2>1. r \in Goroutines /\ UNCHANGED <<at, todo, created>> /\ pc' = [pc EXCEPT ![r] = "done"]
    BY <1>9 DEF Cancels, Goroutines
  <2>2. status'[x] \in {0, 1, 2, 6}
    BY <1>9 DEF Cancels, Writes, Closed, TypeOK
  <2>3. "done" \in Pcs \ Pushing
    BY DEF Pcs, Pushing
  <2> QED BY <1>3, <2>1, <2>2, <2>3
<1>10. CASE GoesDown
  BY <1>10 DEF GoesDown, Closed, rows, Pushing
<1>11. CASE (\E d \in Devices : DeviceChanges(d)) \/ UNCHANGED vars
  BY <1>11 DEF DeviceChanges, Closed, rows, vars
<1> QED
  BY <1>1, <1>2, <1>5, <1>6, <1>7, <1>8, <1>9, <1>10, <1>11
     DEF Next, CreateOTAUpgradeTask, BatchPushOTA, RequestStep, Restart, PublishOtaAdress,
         Goroutines

\* An upgrade that waits, was notified or was cancelled, and that nobody has in
\* hand, is never pushed again: a request only tries a failed one again.
THEOREM OnlyFailedRetried == Spec => OnlyFailedIsRetried
<1> SUFFICES ASSUME NEW x \in Details
             PROVE  Spec => [](status[x] \in {1, 2, 6} /\ Untouched(x)
                        => [](\A g \in Goroutines : ~(at[g] = x /\ pc[g] \in Pushing)))
  BY DEF OnlyFailedIsRetried
<1> DEFINE IInv == TypeOK /\ WorksOnDetail /\ Begun
           Rests == status[x] \in {1, 2, 6} /\ Untouched(x)
           Unpushed == \A g \in Goroutines : ~(at[g] = x /\ pc[g] \in Pushing)
<1>1. Init => IInv
  BY InitTypes DEF Init, Begun
<1>2. IInv /\ [Next]_vars => IInv'
  BY StepTypes, StepBegun
<1>3. IInv /\ Closed(x) /\ [Next]_vars => Closed(x)'
  BY StepClosed
<1>4. IInv /\ Rests => Closed(x)
  BY DEF Begun, Closed, Untouched, Holds
<1>5. Closed(x) => Unpushed
  BY DEF Closed
<1>6. Spec => [](Rests => []Unpushed)
  <2> HIDE DEF Rests, Unpushed, IInv
  <2> QED BY <1>1, <1>2, <1>3, <1>4, <1>5, PTL DEF Spec
<1> QED
  BY <1>6

-----------------------------------------------------------------------------
(* Nothing is sent for a deleted upgrade.                                  *)

\* The deletion of x's task is behind us, and no push had read its package.
Withdrawn(x) == x[1] \in deleted /\ Unsent(x)

\* Only a push that finds the task's row gets to send, and it is not there.
LEMMA StepWithdrawn ==
  ASSUME TypeOK, WorksOnDetail, NEW x \in Details, Withdrawn(x), [Next]_vars
  PROVE  Withdrawn(x)'
<1> USE DEF GoTo
<1>1. ASSUME NEW g \in Goroutines, NEW l \in Pcs \ {"notify"}, pc' = [pc EXCEPT ![g] = l],
             deleted \subseteq deleted', sending' \subseteq sending,
             \A h \in Goroutines \ {g} : at'[h] = at[h]
      PROVE  Withdrawn(x)'
  <2>1. \A h \in Goroutines : pc'[h] = IF h = g THEN l ELSE pc[h]
    BY <1>1 DEF TypeOK
  <2> QED BY <1>1, <2>1 DEF Withdrawn, Unsent
<1>2. CASE \/ \E t \in Tasks : DeleteOTAUpgradeTask(t)
           \/ \E d \in Devices : DeviceChanges(d)
           \/ UNCHANGED vars
  BY <1>2 DEF DeleteOTAUpgradeTask, DeviceChanges, vars, rows, Withdrawn, Unsent
<1>3. CASE GoesDown
  BY <1>3 DEF GoesDown, rows, Withdrawn, Unsent
<1>4. ASSUME NEW t \in Tasks, NEW devices \in SUBSET Devices, Creates(t, devices)
      PROVE  Withdrawn(x)'
  BY <1>1, <1>4 DEF Creates, Goroutines, Pcs
<1>5. ASSUME NEW t \in Tasks, TaskStep(t)
      PROVE  Withdrawn(x)'
  <2>1. t \in Goroutines /\ UNCHANGED <<deleted, sending>>
    BY <1>5 DEF TaskStep, TakesNext, TaskPushed, rows, Goroutines
  <2>2. \A h \in Goroutines \ {t} : at'[h] = at[h]
    BY <1>5 DEF TaskStep, TakesNext, TaskPushed, TypeOK
  <2>3. PICK l \in {"device", "done"} : pc' = [pc EXCEPT ![t] = l]
    BY <1>5 DEF TaskStep, TakesNext, TaskPushed
  <2> QED BY <1>1, <2>1, <2>2, <2>3 DEF Pcs
<1>6. ASSUME NEW r \in Requests, Starts(r) \/ RequestStep(r)
      PROVE  Withdrawn(x)'
  <2>1. r \in Goroutines /\ UNCHANGED <<deleted, sending>>
    BY <1>6 DEF Starts, RequestStep, Reads, Cancels, Retries, rows, Goroutines
  <2>2. \A h \in Goroutines \ {r} : at'[h] = at[h]
    BY <1>6 DEF Starts, RequestStep, Reads, Cancels, Retries, TypeOK
  <2>3. PICK l \in {"read", "cancel", "retry", "done", "device"} : pc' = [pc EXCEPT ![r] = l]
    BY <1>6 DEF Starts, RequestStep, Reads, Cancels, Retries
  <2> QED BY <1>1, <2>1, <2>2, <2>3 DEF Pcs
<1>7. ASSUME NEW g \in Goroutines,
             SeesDevice(g) \/ Counts(g) \/ WritesFailed(g) \/ PushFails(g)
      PROVE  Withdrawn(x)'
  <2>1. UNCHANGED <<deleted, sending, at>>
    BY <1>7 DEF SeesDevice, Counts, WritesFailed, PushFails, rows
  <2>2. PICK l \in {"count", "offline", "package", "refuse", "next", "done"} :
            pc' = [pc EXCEPT ![g] = l]
    BY <1>7, AfterPushType DEF SeesDevice, Counts, WritesFailed, PushFails
  <2> QED BY <1>1, <2>1, <2>2 DEF Pcs
<1>8. ASSUME NEW g \in Goroutines, ReadsPackage(g)
      PROVE  Withdrawn(x)'
  <2>1. UNCHANGED <<deleted, sending, at>>
    BY <1>8 DEF ReadsPackage, rows
  <2>2. CASE at[g] = x
    <3>1. pc' = [pc EXCEPT ![g] = AfterPush(g)]
      BY <1>8, <2>2 DEF ReadsPackage, Withdrawn
    <3> QED BY <1>1, <2>1, <3>1, AfterPushType DEF Pcs
  <2>3. CASE at[g] # x
    <3>1. \A h \in Goroutines \ {g} : pc'[h] = pc[h]
      BY <1>8 DEF ReadsPackage, TypeOK
    <3> QED BY <2>1, <2>3, <3>1 DEF Withdrawn, Unsent
  <2> QED BY <2>2, <2>3
<1>9. ASSUME NEW g \in Goroutines, WritesNotified(g)
      PROVE  Withdrawn(x)'
  <2>1. at[g] # x /\ UNCHANGED <<deleted, at>>
    BY <1>9 DEF WritesNotified, Withdrawn, Unsent
  <2>2. x \notin sending'
    BY <1>9, <2>1 DEF WritesNotified, Withdrawn, Unsent
  <2>3. \A h \in Goroutines \ {g} : pc'[h] = pc[h]
    BY <1>9 DEF WritesNotified, TypeOK
  <2> QED BY <2>1, <2>2, <2>3 DEF Withdrawn, Unsent
<1> QED
  BY <1>2, <1>3, <1>4, <1>5, <1>6, <1>7, <1>8, <1>9
     DEF Next, CreateOTAUpgradeTask, BatchPushOTA, PushStep, Restart, PublishOtaAdress

\* From the deletion of a task on, no device is sent an upgrade of it, except by
\* a push that had read the package before.
THEOREM DeletedNotSent == Spec => DeletedIsNotSent
<1> SUFFICES ASSUME NEW x \in Details
             PROVE  Spec => [](x[1] \in deleted /\ Unsent(x) => []Unsent(x))
  BY DEF DeletedIsNotSent
<1> DEFINE IInv == TypeOK /\ WorksOnDetail
           Gone == x[1] \in deleted
           Quiet == Unsent(x)
           Over == Withdrawn(x)
<1>1. Init => IInv
  BY InitTypes
<1>2. IInv /\ [Next]_vars => IInv'
  BY StepTypes
<1>3. IInv /\ Over /\ [Next]_vars => Over'
  BY StepWithdrawn
<1>4. Gone /\ Quiet <=> Over
  BY DEF Withdrawn
<1>5. Spec => [](Gone /\ Quiet => []Quiet)
  <2> HIDE DEF IInv, Gone, Quiet, Over
  <2> QED BY <1>1, <1>2, <1>3, <1>4, PTL DEF Spec
<1> QED
  BY <1>5
=============================================================================
