----------------------------- MODULE OtaUpgrade -----------------------------
(***************************************************************************)
(* OTA upgrades: an upgrade task has one detail row per device; a          *)
(* goroutine pushes the details of a new task one after the other, and     *)
(* requests cancel a detail or push it again. Every push and every request *)
(* reads the row, decides and writes it in separate statements, none of    *)
(* them in a transaction.                                                  *)
(*                                                                         *)
(* A detail is a pair <<task, device>>. Its status is the column's:        *)
(* 1 waiting, 2 notified, 3 upgrading, 4 succeeded, 5 failed, 6 cancelled; *)
(* 0 says there is no row. Nothing in this build writes 3 or 4: the        *)
(* progress handler (mqtt/subscribe/ota_progress_message.go) is not        *)
(* subscribed to (internal/app/mqtt_service.go:57). For the same reason    *)
(* PublishOtaAdress finds no MQTT client and its goroutine panics.         *)
(***************************************************************************)
EXTENDS Naturals, FiniteSets

CONSTANTS
    Tasks,       \* upgrade tasks that may be created
    Devices,     \* the devices
    Foreign,     \* devices the caller of BatchPushOTA may not operate
    Requests,    \* calls of UpdateOTAUpgradeTaskStatus
    MaxRestarts, \* bound on the restarts of the process
    Faults,      \* a statement of a push may fail
    NoDetail     \* stands for no detail

ASSUME OtaAssumption ==
    /\ Tasks \cap Requests = {}
    /\ Foreign \subseteq Devices
    /\ MaxRestarts \in Nat
    /\ Faults \in BOOLEAN
    /\ NoDetail \notin Tasks \X Devices

VARIABLES
    status,    \* the column status of each detail, 0 without a row
    online,    \* devices.is_online
    created,   \* tasks whose row was inserted
    deleted,   \* tasks whose row was deleted again
    pc,        \* where each goroutine is
    at,        \* the detail it is working on
    todo,      \* the details the goroutine of a task has still to push
    sending,   \* details whose PublishOtaAdress goroutine has not run
    restarts,  \* restarts of the process
    broken     \* a statement failed, or the process went down

vars == <<status, online, created, deleted, pc, at, todo, sending, restarts,
          broken>>

rows == <<status, created, deleted>>

Details    == Tasks \X Devices
Goroutines == Tasks \cup Requests
Statuses   == {0, 1, 2, 5, 6}
Pcs        == {"idle", "next", "read", "retry", "cancel", "device", "count", "package", "notify",
               "offline", "refuse", "done"}

\* The places inside PushOTAUpgradePackage.
Pushing == {"device", "count", "package", "notify", "offline", "refuse"}

\* g is pushing x, will, or is about to write it.
Holds(g, x) ==
    \/ x \in todo[g]
    \/ at[g] = x /\ pc[g] \in Pushing \cup {"retry", "cancel"}

Init ==
    /\ status = [x \in Details |-> 0]
    /\ online \in [Devices -> BOOLEAN]
    /\ created = {}
    /\ deleted = {}
    /\ pc = [g \in Goroutines |-> "idle"]
    /\ at = [g \in Goroutines |-> NoDetail]
    /\ todo = [g \in Goroutines |-> {}]
    /\ sending = {}
    /\ restarts = 0
    /\ broken = FALSE

GoTo(g, l) == pc' = [pc EXCEPT ![g] = l]

\* An update by primary key: nothing happens, and no error, without the row.
Writes(x, s) == status' = [status EXCEPT ![x] = IF status[x] = 0 THEN 0 ELSE s]

-----------------------------------------------------------------------------
(* Tasks.                                                                   *)

\* CreateOTAUpgradeTaskWithDetail commits the task and its details at once;
\* then a goroutine pushes them.
Creates(t, devices) ==
    /\ t \notin created
    /\ devices # {}
    /\ created' = created \cup {t}
    /\ status' = [x \in Details |-> IF x \in {t} \X devices THEN 1 ELSE status[x]]
    /\ todo' = [todo EXCEPT ![t] = {t} \X devices]
    /\ GoTo(t, "next")
    /\ UNCHANGED <<online, deleted, at, sending, restarts, broken>>

CreateOTAUpgradeTask(t) == \E devices \in SUBSET Devices : Creates(t, devices)

\* Devices of another tenant or dealer are left out of the task.
BatchPushOTA(t) == \E devices \in SUBSET Devices : Creates(t, devices \ Foreign)

\* The details go with their task; a goroutine that pushes one is not told.
DeleteOTAUpgradeTask(t) ==
    /\ t \in created \ deleted
    /\ deleted' = deleted \cup {t}
    /\ status' = [x \in Details |-> IF x[1] = t THEN 0 ELSE status[x]]
    /\ UNCHANGED <<online, created, pc, at, todo, sending, restarts, broken>>

TakesNext(t) ==
    /\ pc[t] = "next"
    /\ \E x \in todo[t] :
           /\ at' = [at EXCEPT ![t] = x]
           /\ todo' = [todo EXCEPT ![t] = todo[t] \ {x}]
    /\ GoTo(t, "device")
    /\ UNCHANGED <<rows, online, sending, restarts, broken>>

TaskPushed(t) ==
    /\ pc[t] = "next"
    /\ todo[t] = {}
    /\ GoTo(t, "done")
    /\ UNCHANGED <<rows, online, at, todo, sending, restarts, broken>>

-----------------------------------------------------------------------------
(* PushOTAUpgradePackage.                                                   *)

\* Mutant: the first detail ends the loop.
AfterFirst(g) == "done"

\* A push returns to the loop over the details, or ends the request.
AfterPush(g) == IF g \in Tasks THEN "next" ELSE "done"

SeesDevice(g) ==
    /\ pc[g] = "device"
    /\ GoTo(g, IF online[at[g][2]] THEN "count" ELSE "offline")
    /\ UNCHANGED <<rows, online, at, todo, sending, restarts, broken>>

\* The rows of x's device with a status below 4, x's own row included.
Unfinished(x) == {y \in Details : y[2] = x[2] /\ status[y] \in 1..3}

Counts(g) ==
    /\ pc[g] = "count"
    /\ GoTo(g, IF Unfinished(at[g]) = {} THEN "package" ELSE "refuse")
    /\ UNCHANGED <<rows, online, at, todo, sending, restarts, broken>>

\* Mutant: the task is not looked up on the way to the package.
ReadsAnyPackage(g) ==
    /\ pc[g] = "package"
    /\ GoTo(g, "notify")
    /\ UNCHANGED <<rows, online, at, todo, sending, restarts, broken>>

\* The package is found through the task; without its row the push ends.
ReadsPackage(g) ==
    /\ pc[g] = "package"
    /\ GoTo(g, IF at[g][1] \in deleted THEN AfterPush(g) ELSE "notify")
    /\ UNCHANGED <<rows, online, at, todo, sending, restarts, broken>>

\* Mutant: the code next to it, "succeeded".
WritesSucceeded(g) ==
    /\ pc[g] \in {"offline", "refuse"}
    /\ Writes(at[g], 4)
    /\ GoTo(g, AfterPush(g))
    /\ UNCHANGED <<online, created, deleted, at, todo, sending, restarts, broken>>

WritesFailed(g) ==
    /\ pc[g] \in {"offline", "refuse"}
    /\ Writes(at[g], 5)
    /\ GoTo(g, AfterPush(g))
    /\ UNCHANGED <<online, created, deleted, at, todo, sending, restarts, broken>>

WritesNotified(g) ==
    /\ pc[g] = "notify"
    /\ Writes(at[g], 2)
    /\ sending' = sending \cup {at[g]}
    /\ GoTo(g, AfterPush(g))
    /\ UNCHANGED <<online, created, deleted, at, todo, restarts, broken>>

\* A statement fails: the push returns the error, the loop ignores it.
PushFails(g) ==
    /\ Faults
    /\ pc[g] \in Pushing
    /\ GoTo(g, AfterPush(g))
    /\ broken' = TRUE
    /\ UNCHANGED <<rows, online, at, todo, sending, restarts>>

-----------------------------------------------------------------------------
(* UpdateOTAUpgradeTaskStatus.                                              *)

Starts(r) ==
    /\ pc[r] = "idle"
    /\ \E x \in Details : at' = [at EXCEPT ![r] = x]
    /\ GoTo(r, "read")
    /\ UNCHANGED <<rows, online, todo, sending, restarts, broken>>

\* Mutant: the first test, for 4 and 6, is gone.
MayRetryFinished(s) == s > 3

MayCancel(s) == s \in 1..3
MayRetry(s)  == s = 5

\* "done" is the request of the other action, which is refused, and the read
\* that fails.
Reads(r) ==
    /\ pc[r] = "read"
    /\ \/ MayCancel(status[at[r]]) /\ GoTo(r, "cancel")
       \/ MayRetry(status[at[r]]) /\ GoTo(r, "retry")
       \/ GoTo(r, "done")
    /\ UNCHANGED <<rows, online, at, todo, sending, restarts, broken>>

Cancels(r) ==
    /\ pc[r] = "cancel"
    /\ Writes(at[r], 6)
    /\ GoTo(r, "done")
    /\ UNCHANGED <<online, created, deleted, at, todo, sending, restarts, broken>>

Retries(r) ==
    /\ pc[r] = "retry"
    /\ Writes(at[r], 1)
    /\ GoTo(r, "device")
    /\ UNCHANGED <<online, created, deleted, at, todo, sending, restarts, broken>>

-----------------------------------------------------------------------------
(* The devices and the process.                                             *)

DeviceChanges(d) ==
    /\ online' = [online EXCEPT ![d] = ~online[d]]
    /\ UNCHANGED <<rows, pc, at, todo, sending, restarts, broken>>

\* Nothing looks for waiting rows when the process starts again.
GoesDown ==
    /\ pc' = [g \in Goroutines |-> IF pc[g] = "idle" THEN "idle" ELSE "done"]
    /\ todo' = [g \in Goroutines |-> {}]
    /\ sending' = {}
    /\ broken' = TRUE
    /\ UNCHANGED <<rows, online, at>>

Restart ==
    /\ restarts < MaxRestarts
    /\ restarts' = restarts + 1
    /\ GoesDown

\* mqttClient is nil: the call panics outside any recover.
PublishOtaAdress ==
    /\ sending # {}
    /\ GoesDown
    /\ UNCHANGED restarts

-----------------------------------------------------------------------------

PushStep(g) ==
    \/ SeesDevice(g)
    \/ Counts(g)
    \/ ReadsPackage(g)
    \/ WritesFailed(g)
    \/ WritesNotified(g)

TaskStep(t)    == TakesNext(t) \/ TaskPushed(t)
RequestStep(r) == Reads(r) \/ Cancels(r) \/ Retries(r)

Next ==
    \/ \E t \in Tasks : CreateOTAUpgradeTask(t) \/ BatchPushOTA(t) \/ DeleteOTAUpgradeTask(t)
    \/ \E t \in Tasks : TaskStep(t)
    \/ \E g \in Goroutines : PushStep(g) \/ PushFails(g)
    \/ \E r \in Requests : Starts(r) \/ RequestStep(r)
    \/ \E d \in Devices : DeviceChanges(d)
    \/ Restart
    \/ PublishOtaAdress

Spec == Init /\ [][Next]_vars

\* A goroutine that can run does run; nobody has to call the API.
Fairness ==
    /\ \A t \in Tasks : WF_vars(TaskStep(t))
    /\ \A g \in Goroutines : WF_vars(PushStep(g))
    /\ \A r \in Requests : WF_vars(RequestStep(r))

FairSpec == Spec /\ Fairness

-----------------------------------------------------------------------------
(* Properties.                                                              *)

\* Every variable holds a value of its type.
TypeOK ==
    /\ status \in [Details -> Statuses]
    /\ online \in [Devices -> BOOLEAN]
    /\ created \subseteq Tasks
    /\ deleted \subseteq created
    /\ pc \in [Goroutines -> Pcs]
    /\ at \in [Goroutines -> Details \cup {NoDetail}]
    /\ todo \in [Goroutines -> SUBSET Details]
    /\ sending \subseteq Details
    /\ restarts \in 0..MaxRestarts
    /\ broken \in BOOLEAN

\* Nothing is sent for x, nor about to be.
Unsent(x) == x \notin sending /\ \A g \in Goroutines : ~(at[g] = x /\ pc[g] = "notify")

\* A deleted upgrade reaches no device: the goroutines that push it are not told,
\* and without its row the count lets it pass, but from the deletion on nothing
\* is sent for it, except by a push that had read the package already.
DeletedIsNotSent ==
    \A x \in Details :
        [](x[1] \in deleted /\ Unsent(x) => []Unsent(x))

\* A waiting upgrade is decided: its push always writes an outcome, unless a
\* statement failed or the process went down on the way. The loop over the
\* details of a task skips none, whatever becomes of the ones before.
WaitingIsDecided ==
    \A x \in Details : status[x] = 1 ~> (status[x] # 1 \/ broken)

\* Why the types hold: a goroutine at work has a detail.
WorksOnDetail ==
    \A g \in Goroutines : pc[g] \in Pushing \cup {"read", "retry", "cancel"} => at[g] \in Details

Untouched(x) == \A g \in Goroutines : ~Holds(g, x)

\* What UpdateOTAUpgradeTaskStatus promises: only a failed upgrade is tried
\* again. Once nobody has it in hand, an upgrade that is waiting (its push was
\* lost), notified or cancelled is never pushed again, whatever the requests.
OnlyFailedIsRetried ==
    \A x \in Details :
        [](status[x] \in {1, 2, 6} /\ Untouched(x)
             => [](\A g \in Goroutines : ~(at[g] = x /\ pc[g] \in Pushing)))

\* The comment above the count: a push is refused when the device has OTHER
\* upgrades under way (it does not hold).
RefusedForOthers ==
    [][\A g \in Goroutines :
           pc[g] = "count" /\ pc'[g] = "refuse" => Unfinished(at[g]) \ {at[g]} # {}]_vars

=============================================================================
