# TLA+ verification of tp-backend

tp-backend is the Go backend of an IoT platform. Devices speak MQTT; an adapter
turns what they publish into messages on an *uplink bus*, per-kind *flows*
process them, a *storage* service batches telemetry into PostgreSQL, a *downlink
bus* carries commands back, and Redis holds caches, heartbeat keys and counters.
This directory holds TLA+ modules for the parts whose correctness depends on
interleavings, failures and ordering; configurations that check them with TLC;
and proofs that TLAPS checks. `PROJECT.json` maps every definition to the lines
of `src/` it stands for.

| module | models | checked by | proved in |
|---|---|---|---|
| `TelemetryStorage` | channel, batch buffer, two flushing goroutines, fallback, Stop | `MCTelemetryStorage` | `TelemetryStorage_proofs` |
| `DeviceStatus` | one device's `is_online`: status flow, business flows, cache, heartbeat keys | `MCDeviceStatus` | `DeviceStatus_proofs` |
| `OfflineTaskLifecycle` | abstract: the life of an offline command | through `CommandDispatch` | `CommandDispatch_proofs` |
| `CommandDispatch` | offline commands, their transactions, the command bus, its handler, the answers | `MCCommandDispatch` | `CommandDispatch_proofs` |
| `ServiceLifecycle` | main, Application, ServiceManager: start, stop with one timeout, wait | `MCServiceLifecycle` | `ServiceLifecycle_proofs` |
| `OtaUpgrade` | upgrade tasks and their details: creation, push, cancel, retry, deletion | `MCOtaUpgrade` | `OtaUpgrade_proofs` |
| `DeviceOwnership` | bindings, transfers and assignments as concurrent transactions | `MCDeviceOwnership` | `DeviceOwnership_proofs` |
| `AutomationCache` | the cache of scene automations: saves, reports, expiry | `MCAutomationCache` | `AutomationCache_proofs` |
| `AlarmCache` | the alarms of a scene: reports, timers, a save that clears them | `MCAlarmCache` | `AlarmCache_proofs` |

To run: `tlc -config StorageSafety.cfg MCTelemetryStorage`, and
`tlapm TelemetryStorage_proofs.tla`.

## 1. Inventory

Paths are relative to `src/`.

### Telemetry storage (`internal/storage`, `internal/app/storage.go`) - modelled
* State: `inputChan` (bounded, 10000 by default); `buffer` under `bufferMu`;
  `stopCh`/`doneCh` of the main loop and of the writer; the tables
  `telemetry_datas` and `telemetry_current_datas`; three metrics (duplicates,
  written, failed).
* Operations: `run`/`handleMessage`/`write` (main loop), `telemetryWriter.run`
  (ticker), `doFlush`, `deduplicateAndConvert`, `batchInsert`,
  `fallbackInsert`, three nested `Stop`s.
* Hard: two goroutines flush concurrently, each with a batch of its own outside
  the mutex; a failed transaction falls back to one row at a time; Stop closes a
  channel, cancels a context and closes two stop channels, racing with two
  selects.
* Correct when: no point is lost or counted twice, keys stay unique, the history
  is append-only, the latest-value table is the newest, Stop returns and leaves
  no goroutine working.

### Status, heartbeat and the device cache (`internal/uplink/status.go`, `telemetry.go:385-436`, `internal/service/heartbeat_*.go`, `initialize/redis_init.go`, `internal/dal/devices.go`) - modelled
* State: `devices.is_online`; its cache-aside copy in Redis; the key
  `device:{id}:heartbeat` or `:timeout`; keyspace notifications in flight; the
  status channel.
* Operations: `HandleStatusMessage`, `StatusUplink.processMessage`,
  `UpdateDeviceStatus`, `GetDeviceCacheById`, `DelDeviceCache`,
  `refreshHeartbeat`, `SetTimeout`/`RefreshHeartbeat`, `handleExpiredKey`.
* Hard: compare and write in separate steps; a cache fill that is late;
  notifications that are lost in a restart; a key that expires between arming
  and the update.
* Correct when: a silent device ends offline, an online one is watched, every
  change is announced exactly once, only an expiry takes a device with
  heartbeats offline (as long as its configuration can be read).

### Commands (`internal/service/offline_command.go`, `command_data.go`, `internal/downlink`, `internal/uplink/response.go`) - modelled
* State: `offline_command_tasks` with its row locks; `command_set_logs`; the
  command channel; the response channel; the broker and the device.
* Operations: `Create`, `Cancel`, `ExecutePendingForDevice` (a transaction with
  `FOR UPDATE SKIP LOCKED LIMIT 20`), `CommandPutMessageReturnMessageID`, the
  downlink handler with `updateLogStatus`, `ResponseUplink.updateCommandLog`.
* Hard: the log and the bus are written inside a transaction that may still roll
  back; an answer may overtake the commit or the handler's save; reconnects
  overlap; the channel blocks while locks are held.
* Correct when: a command is sent once, a cancelled one never, an answer closes
  only its own task and sticks, every command is reported.

### Service manager (`internal/app/service.go`, `application.go`, `main.go`) - modelled
* State: the service list, a WaitGroup, `started`, a mutex; the Redis client.
* Operations: `StartAll`, `StopAll` (one 30 s context for all), `Wait`, `Shutdown`.
* Hard: a Stop that hangs or is late; a caller that finds nothing to stop goes
  on to close Redis.
* Correct when: StopAll returns, services stop in dependency order and before
  Redis, the WaitGroup counts what still runs.

### OTA upgrades (`internal/service/ota.go`, `internal/dal/ota_upgrade_tasks.go`, `battery.go:1027`) - modelled but for the progress handler
* State: `ota_upgrade_task_details.status` (1 waiting, 2 notified, 3 upgrading,
  4 succeeded, 5 failed, 6 cancelled), one row per task and device.
* Operations: `CreateOTAUpgradeTask` and `BatchPushOTA` (insert, then push one
  by one), `DeleteOTAUpgradeTask`, `PushOTAUpgradePackage`,
  `UpdateOTAUpgradeTaskStatus` (cancel, retry).
* Hard: every push and every request reads, decides and writes in separate
  statements; the count of unfinished upgrades sees the row being pushed; the
  pushing goroutine is lost in a restart.
* Correct when: a waiting upgrade is decided, only a failed one is retried, a
  device is told of an upgrade once it may be.

### Ownership of batteries (`device_binding.go`, `end_user.go`, `device_transfer.go`, `battery.go`) - modelled
* State: `device_batteries` (organisation, dealer, activation, transfer status),
  `device_user_bindings`, `device_transfers`.
* Operations: `BindDevice`, `UnbindDevice`, `ForceUnbind`, `TransferDevices`,
  `BatchAssignDealer`, `ImportBatteryList`, each one transaction.
* Hard: READ COMMITTED without `FOR UPDATE`, and no unique key on the bindings:
  every check can be overtaken by a commit.
* Correct when: one owner per device, active exactly while bound, the
  organisation is set once, the transfer log is true.

### Scene automations (`scene_automations.go`, `automate_telemetry.go`, `initialize/automate_cache.go`) - cache modelled
* State: `scene_automations.enabled`, `device_trigger_condition.enabled` and
  group ids, action rows; in Redis a list of scenes per device, the conditions
  of a group and the actions of a scene, five minutes each;
  `AutomateCache.device`, one field shared by all goroutines.
* Operations: create, update, switch and delete of a scene, each with a
  goroutine that deletes or adds cache entries; a report that looks up, fills,
  and evaluates.
* Hard: the database and the cache are written key by key by several goroutines;
  the shared field makes one goroutine build keys of another's kind.
* Correct when: what is cached comes to agree with the database, and an enabled
  scene is found.

### Alarms (`initialize/alarm_cache.go`, `automate_decoration.go`, `alarm.go`) - modelled but for notifications
* State: in Redis an entry per condition group (devices, alarms), lists of
  groups per scene and per alarm and device; `alarm_history`.
* Operations: `SetDevice`, `SetAlarm`, `GetAlarmDeviceExists`,
  `DeleteBygroupId`; `ConditionAfterAlarm`, `AlarmExecute`, `ActionAfterAlarm`,
  `AlarmRecovery`; the clearing by `UpdateSceneAutomation`; the actions of a timer.
* Hard: marking reads the list of the scene while a save clears it; an entry is
  made again without its scene; reader and writer build different keys.
* Correct when: an alarm is raised of groups that hold, once; a recovery follows
  an alarm.

### Not modelled yet
| component | state and operations | what is hard | plan |
|---|---|---|---|
| Uplink bus, manager, attribute and event flows | five channels, `closed`; Publish, Close, Stop | Publish checks `closed`, unlocks and then sends; flows that Stop does not reach; storage closed while flows send | `UplinkPipeline` |
| Expected data | rows to send when a device comes online | no lock, unlike offline commands | with `CommandDispatch` |
| WebSocket subscriptions | Redis counters with a TTL of 5 minutes | a decrement below zero | small module |
| Login lock | failed-login counter in Redis | read-then-write | small module |
| Script processor | cache of scripts, Lua sandbox | stale script after an edit; the interpreter is a library | `ProcessorCache` |
| Diagnostics | counters in memory, flushed to Redis | flush races with counting | small module |
| Attribute and event storage | one upsert or insert per message | no retry | with the storage refinement |
| OTA progress messages | the handler writes status 3, 4, 5 of the newest detail | not subscribed to in this commit (`internal/app/mqtt_service.go:57`) | when it is |
| HTTP API, cron jobs, battery, dealer, app and device CRUD | rows in PostgreSQL | queries with permission checks, no state of their own | none |
| Generated queries and models | | generated | none |

### How they interact
The MQTT client handles each message in a goroutine of its own
(`SetOrderMatters(false)`, `client.go:47`); handlers fetch the device through the
cache and publish on the uplink bus. Flows read the bus, write `inputChan` of the
storage, refresh heartbeats, and call `UpdateDeviceStatus`; the status flow also
starts `ExecutePendingForDevice`, which publishes on the downlink bus, whose
handler publishes over MQTT and writes the command log; the device's answer comes
back through the response channel. The heartbeat monitor turns Redis expiry
notifications into offline messages on the uplink bus. After storage, a flow hands
the report to `Automate.Execute`, which reads the scene cache, evaluates conditions
under one mutex, and raises and recovers alarms; requests that save a scene change
the same caches in goroutines of their own. Everything lives in one
process, PostgreSQL and Redis survive it.

## 2. Modules and the code

### TelemetryStorage
One action per step between two accesses to shared state: `LoopReceive` is
`handleMessage` with `write`; `TickerFires`, `TickerCancelled`, `TickerDrains`
are the three cases of the ticker's select; `TakeBatch` is `doFlush` up to the
insert (swap under the mutex, then `deduplicateAndConvert`); `BatchCommit` and
`BatchFail` are the transaction of `batchInsert`; `FallbackCommit`,
`FallbackFail` and `FallbackPanic` are one row of `fallbackInsert`; `CloseInput`
to `FinishStop` are the statements of the three `Stop`s in their order. A point
is a row `[series, ts, id]`: `series` stands for `(device_id, key)`, `ts` for the
millisecond, `id` for the message. The counters are sets of points, so "counted
twice" can be said. `currentData` is filled by ranging over a map, so
`fallbackInsert` takes its rows in any order.

The ticker may fire at any moment; Go's select picks any case that is ready.
A caller of `Send` stops once Stop has begun: the flows that go on sending to the
closed channel belong to `UplinkPipeline`.

### DeviceStatus
One device. Processes: the status flow, the business flows, the adapter's
handlers; each access to Redis or the database is a step. `mode` says whether
`other_config` asks for a heartbeat, a timeout or neither (`GetConfig`) and is
chosen in `Init`, so one run covers all three. `LookUp`, `Load` and `Fill` are
`GetDeviceCacheById`; `Compare`, `Reload`, `Write`, `Evict` are
`UpdateDeviceStatus`; `StatusReceives` to `StatusAnnounces` are
`processMessage`; `FlowDecides` to `FlowArms` are `refreshHeartbeat`.
`KeyExpires` and `MonitorPublishes` are Redis and the monitor.
`StatusUnread` is the message whose configuration `GetConfig` cannot read from the
database: the filter of `status.go:111` needs `err == nil`, so nothing is ignored and
no key is armed. In a business flow the same failure ends the handling (`Fails`).
`writes`, `notices`, `expiries`, `slips`, `lastStatus`, `staleFill` are history
variables: `slips` counts the device's own offline messages handled without its
configuration, `staleFill` says that a fill stored a value the database no longer
had. Properties that hold only without such a fill say so; `StatusFalseOnline.cfg`
drops the clause. Redis is taken to answer: the statements that fail are those of
PostgreSQL. `FaultyModes` says in which modes a statement may fail and the process may
restart; `failed` says that one did.

### OfflineTaskLifecycle and CommandDispatch
`OfflineTaskLifecycle` is the promise: waiting, taken by one transaction, sent at
most once, cancelled only while waiting, closed by an answer. `CommandDispatch`
is the code: `ExecLocks` to `ExecCommits` are `ExecutePendingForDevice`,
with `held` for row locks, `todo` for the rows of the batch still to do (`Before`
orders them by `created_at`) and `draft` for uncommitted updates; `CreateLog` and
`Publish` are `CommandPutMessageReturnMessageID`, shared with API requests;
`HandlerTakes` to `HandlerSaves` are the downlink handler, with the
find-then-save of `updateLogStatus` as two steps; `ResponderLogs` and
`ResponderClosesTask` are the two updates of `updateCommandLog`. The refinement
mapping (`Lifecycle`) calls a task *taken* while its row is locked, and reads
`sends` off the messages made for it. It holds when no transaction that had
published is rolled back; with faults `SentOnceUnlessLost` says what remains.

`DeviceAnswers` is external (the device); the broker may deliver a message whose
wait of 5 s ran out, and may not deliver one it acknowledged.

### ServiceLifecycle
Service `s + 1` depends on service `s`, as `main.go` lists them. `StopAllLocks`
to `StopAllEnds` are `StopAll`; `StopReturns` and `StopCounts` are the two
statements of the goroutine it starts; `TimesOut` is its one 30 s context. In this
program only `main` calls `Shutdown`; `Callers` adds goroutines that do, since the
methods guard against it with a mutex and `started`.

### OtaUpgrade
A detail is a pair of task and device, `status` its column, 0 without a row. The
goroutine of a task walks its details (`TakesNext`, `AfterPush`); a request cancels
or retries one (`Reads`, `Cancels`, `Retries`). Both run `PushOTAUpgradePackage`:
`SeesDevice`, `Counts`, `ReadsPackage`, then `WritesFailed` or `WritesNotified`,
and `PublishOtaAdress` in a goroutine. `PushFails` is a statement that fails,
`GoesDown` and `Restart` the process. A write by primary key (`Writes`) does nothing
when the row is gone: a goroutine is not told that its task was deleted, and learns
of it when it looks for the package (`ReadsPackage`). In this commit nothing calls
the progress handler, and `PublishOtaAdress` finds no MQTT client, so statuses 3 and 4
are never written.

### DeviceOwnership
`tx[x]` holds what a transaction has read and not committed; each action is one
statement. A row it has written is locked (`Locked`) until `Commits` or
`RollsBack`; an insert of a row that exists by then is a duplicate key and rolls
back; a delete waits for a delete of the same row. `raced` names the devices where
a transaction committed over a commit that came after its reads: the properties
speak of the others, and `OwnershipUnbind.cfg` shows what the race does.
`ForceUnbind` is one step up to its delete: of what its statements read it keeps only
the binding, and its scope check, which a battery that could not be read skips
(`end_user.go:226`), decides whether it goes on.
`BatchAssignDealer` and `ImportBatteryList` do not check that the dealer they
assign to exists; no foreign key does. `TransferDevicesToOrg`
(`device_transfer.go:20`) has no caller. The deletion of dealers, organisations
and devices is not modelled.

### AutomationCache
One device whose type is that of its reports. Each read or write of Redis or the
database is a step: `DeletesMultiple` to `DeletesKeys` are
`DeleteCacheBySceneAutomationId`, `ReadsConditions` to `AddsToList` are
`AutomateCacheSet`, `LooksUp` to `FillSetsList` are a report that misses. `field`
is `AutomateCache.device`; a key built while another goroutine has set it to
`multiple` belongs to nobody. An addition makes two passes (`ReadsActions`,
`StartsPass`, `PassEnds`): the first sets `field` to `multiple` and normally finds
no condition of that type, the second sets it to `one`; if another goroutine
changes it in between, the first pass does the work of the second, the second does
none, or a group is passed over (`AddsGroup`). `CreateSceneAutomation` writes the
scene as disabled whatever the request says, its conditions as the request says, and
adds them to the cache if they are enabled. Each save starts a goroutine of its own,
numbered by the save. Keys expire one by one in any order. A hit (list,
groups and actions) is read in one step. Scenes on a device configuration share
the code with another prefix and are left out. A deleted scene stays in the cache
until it expires: `缓存说明.md:53` says that a deletion calls the disabling method,
`DeleteSceneAutomation` does not. `SwitchPeriodicTask`
(`dal/periodic_tasks.go:21`) compares the same wrong id as the finding below.

### AlarmCache
The scene has an alarm among its actions and condition groups `Conds`; each save
gives them new ids, so a group is a pair of condition and version.
`SetDevice`, `SetAlarm` and `DeleteBygroupId` hold `alarmMu` and are one step;
reads do not hold it. `GroupHolds`/`GroupFails` are `ConditionAfterAlarm`;
`ReadsScene`, `Raises` and `HasActed` are `AlarmExecute`; `AfterActions`,
`MarksGroup` are `ActionAfterAlarm`; `UpdateSceneAutomation` to `HasCleared` are
the save and its goroutine. Which group holds is free at each report. The actions of `FaultStep`
are the error paths, expired keys and restarts. History variables: `held` (last
evaluation), `raised` (alarm recorded since the last recovery), `unfounded`,
`orphaned` (a group was marked whose entry was gone), `switched`, `failed`.
Left out: the index by device, which nothing reads; records a user handles by hand;
notifications. A recovery record and the deletion that follows are one step; a
switched-off or deleted scene is one whose reports stop.

## 3. Runs, bounds and what they show

| run | configuration | question | result |
|---|---|---|---|
| `storage_safety` | 2 series, batch 2, channel 2, 3 messages, 2 timestamps, faults, Stop timeouts | `TypeOK` `Accounting` `KeysUnique` `WrittenIsStored` `StopQuiesces` `HistoryImmutable` | hold |
| `storage_live` | the same, a database that answers, fairness | `CurrentIsBacked` `EveryMessageSettles` `StopReturns` | hold |
| `status_modes` | three modes, 2 business flows, 1 handler, 3 messages, database errors and restarts in heartbeat mode, fairness | `TypeOK` `OnlineIsWatched` `OfflineNeedsExpiry` `NoticesMatchWrites` `LastStatusWins` `SilentGoesOffline` | hold |
| `command_lifecycle` | 2 tasks, 2 executors, limit 2, channel 1, 3 status changes, 1 answer, fairness | `TypeOK` `SuccessIsOwn` `ImplementsLifecycle` `CommandsAreReported` `TakenIsServed` | hold |
| `command_faults` | 1 task, 2 executors, 1 API request, faults, restarts | `SentOnceUnlessLost` | holds |
| `services_stop` | 3 services, one fails to start, one hangs in Stop, 2 callers | `TypeOK` `StopsInOrderUnlessSlow` `RedisOutlivesServices` `StopAllReturns` | hold |
| `ota_safety` | 1 task, 2 devices, 2 requests, 1 restart, failing statements, fairness | `TypeOK` `WaitingIsDecided` `OnlyFailedIsRetried` `DeletedIsNotSent` | hold |
| `ota_refused_alone` | 2 tasks, 1 device, no faults | `RefusedForOthers` | violated |
| `ownership_races` | 2 devices, 2 users, 2 organisations, 2 dealers, 2 transactions at a time, 3 in all | `TypeOK` `OneOwner` `ActiveIffBound` `OrgIsKept` `LogTellsThePast` | hold |
| `automation_expiry` | one scene with 2 saves or a save and a fault, or 2 scenes with one of these; reports without bound, fairness | `TypeOK` `StaleExpires` `EnabledIsListed` | hold |
| `automation_switch` | one scene and a save, or 2 scenes, fairness | `SwitchedOnIsListed` | violated |
| `alarm_races` | 1 device, 2 groups, reports without bound; a save with a fault of its own, or three of timers, switches and other faults | `TypeOK` `RecoveriesAreFounded` `RaisedGroupsHeld` | hold |

Why the bounds are enough:
* *Storage.* Two series and two shapes of messages give batches with one and
  several rows; two messages of one millisecond collide on the unique key, two
  of different milliseconds share a series; three messages with a batch size of
  two let both goroutines hold a batch while a third point waits. The proofs
  remove the bounds for the safety properties.
* *Status.* An error needs one goroutine between read and write and another that
  changes the row meanwhile; three messages and three processes next to the
  status flow give that twice over. `MaxMsgs` bounds what the device sends, not
  the expiries.
* *Commands.* A second executor needs the device to come, go and come again:
  three changes. The channel has one place, so a publisher does block. One answer
  is enough for the orders of answer, save and commit.
* *Services.* Three services have a first, a middle and a last.
* *OTA.* Two details make a loop that must go on; a goroutine and two requests are
  what it takes to cancel a detail that is being pushed and to retry one that is
  being cancelled.
* *Ownership.* A race needs two transactions, and one before them to give the
  state they race in; two devices let batches lock in different orders and
  deadlock. The run compares states by `View`, which leaves out what no later step
  of a transaction looks at.
* *Automation.* The second scene is the one an incomplete list hides; two saves of
  one scene let their goroutines race, as deletion against addition, addition against
  addition or deletion against deletion, and a save with a fault lets its goroutine be
  lost. `MaxEvents` bounds the scenes that were created, the saves and the faults
  together, so the second save and the second scene exclude each other. `MaxBusy`
  lets two of the goroutines (two of saves, or one and a report) run at a time; three
  at once are not checked. A key that expires while the goroutine of a save runs counts
  as a fault, at other times keys expire freely. `MCInit` leaves out initial states
  that differ from others by the names of the scenes, and that of two disabled scenes.
* *Alarms.* One group names the device and one is of its configuration, so both
  passes of a report occur, and a save has two groups to clear. `Budgets` bounds
  saves, their faults and the other events together: a save that fails once, or
  three of the others.

Every property of a passing run is also checked against a small change of the
code that must break it (`mutants` in `PROJECT.json`); the changed operators
stand just before the ones they replace.

`CHECK_DEADLOCK FALSE` is set everywhere: a device may stop sending, a stopped
service takes no step, a finished `main` ends.

### Fairness
Weak fairness of each goroutine: the Go scheduler runs what can run, and each
goroutine of a model is a loop or a request that takes its next step when it is
enabled. Redis expires keys that are not refreshed and the monitor reads its
channel. In `AutomationCache` it suffices that the keys expire that are not as the
database has them, and the device keeps reporting; `EnabledIsListed` is
about devices that do. In `OtaUpgrade` only running goroutines are fair, not the
requests, devices or restarts. Nothing makes a device send, a user call, an administrator stop the
service or the database fail. In `ServiceLifecycle`, a Stop in `Hanging` has no
fairness; the timer does. `EveryMessageSettles` excludes a Stop or a crash,
`TakenIsServed` a device that leaves, `StopAllReturns` a process that is gone.

### Findings
* `RefusedForOthers` (`ota_refused_alone`): the comment at `ota.go:234` says to look
  for *other* upgrades of the device, but the query at `:235` counts the row being
  pushed, so the only upgrade of an online device is refused as
  上次升级未完成. A push gets past the count only when somebody else writes its
  row meanwhile. A request that cancels the upgrade does: the push then overwrites
  the cancel and notifies the device, although the comment at `ota.go:166` says that
  a cancelled upgrade is not changed. No property forbids that; the model has it.
* `SwitchedOnIsListed` (`automation_switch`): `SwitchDeviceTriggerCondition`
  (`device_trigger_condition.go:18`) compares the id of a condition with the id of
  the scene, so the conditions of a scene that was saved as disabled stay disabled
  when it is switched on, and it never runs; `缓存说明.md:50`-`:51` and
  `scene_automations.go:427` say otherwise.

More configurations stand next to these. They are not among the listed runs. Each
shows one more sentence of the repository that the code does not keep (TLC finds
the property violated):

| configuration | module | property | shows |
|---|---|---|---|
| `StorageStale.cfg` | MCTelemetryStorage | `CurrentIsNewest` | the loop and the ticker commit their batches in either order and the upsert has no condition on `ts` (`telemetry_writer.go:267`): the latest value (`types.go:61`) goes back to an older point |
| `StorageFallback.cfg` | MCTelemetryStorage | `FallbackSurvives` | `fallbackInsert` indexes `currentData` (one row per key) with the positions of `historyData` (one row per key and timestamp); the index out of range is not recovered (`telemetry_writer.go:308`) |
| `StorageUnbacked.cfg` | MCTelemetryStorage | `CurrentIsBacked` | the fallback pairs rows of different points (`telemetry_writer.go:257`, `:308`) |
| `StorageStopLoss.cfg` | MCTelemetryStorage | `StopFlushesBuffer` | Stop cancels the context first, so the ticker may return without its last flush (`telemetry_writer.go:155`) |
| `StatusFalseOnline.cfg` | MCDeviceStatus | `NoFalseOnline` | a cache fill that read the row before an update and stores it after the eviction makes `UpdateDeviceStatus` (`devices.go:71`) believe the device is offline already; the offline update is skipped |
| `StatusLostExpiry.cfg` | MCDeviceStatus | `NoFalseOnline` | a failed statement, or an expiry notification lost in a restart, leaves the device online |
| `StatusRepeat.cfg` | MCDeviceStatus | `NoRepeatedNotice` | two flows both bring a device online and both announce it (`telemetry.go:413`) |
| `StatusUnread.cfg` | MCDeviceStatus | `OfflineOnlyByMonitor` | `status.go:110` says that in heartbeat mode only the offline messages of the monitor count (心跳模式：只处理来自 HeartbeatMonitor 的离线消息); when the read of the configuration fails, the device's own is written too |
| `StatusPending.cfg` | MCDeviceStatus | `OnlineRunsPending` | a device brought online by a business message does not get its pending commands |
| `CommandAnswerLost.cfg` | MCCommandDispatch | `AnswerSticks` | `updateLogStatus` (`handler.go:206`-`:222`) saves the whole stale row over an answer that came in between (`response.go:143`) |
| `CommandTaskStuck.cfg` | MCCommandDispatch | `TaskFollowsLog` | an answer handled before the executor's transaction commits `message_id` (`offline_command.go:326`) finds no task to close and is not looked at again (`response.go:170`) |
| `CommandCreateRace.cfg` | MCCommandDispatch | `OnlineDrainsPending` | `Create` inserts after the reconnect's executor has looked |
| `CommandSkipLocked.cfg` | MCCommandDispatch | `ReconnectServes` | a quick reconnect skips rows the first executor gives back |
| `CommandLimit.cfg` | MCCommandDispatch | `ReconnectServes` | what exceeds `Limit(20)` waits for another reconnect |
| `ServicesOrder.cfg` | MCServiceLifecycle | `StopsInOrder` | once the shared 30 s have run out, services stop before those that depend on them have (`service.go:82`) |
| `ServicesClosed.cfg` | MCServiceLifecycle | `ClosingCleansUp` | nothing handles signals and `Wait` returns only after somebody's `StopAll`, so the deferred `Shutdown` does not run (`main.go:69`) |
| `OwnershipUnbind.cfg` | MCDeviceOwnership | `ResetWhenUnbound` | two users unbind at once, each counts the other's binding, and the battery stays active with nobody bound (`device_binding.go:219`, `:262`) |
| `AlarmRepeated.cfg` | MCAlarmCache | `MarkedIsNotRaised` | `GetAlarmDeviceExists` (`alarm_cache.go:139`) asks for a key with its parts in the other order than `SetAlarm` wrote: every report raises the alarm again |
| `AlarmOldGroups.cfg` | MCAlarmCache | `OldGroupsAreForgotten` | a report under way with the old conditions puts the groups back that a save clears (`scene_automations.go:679`) |
| `AlarmOrphan.cfg` | MCAlarmCache | `OnlyHeldAreRaised` | a mark that follows a save's clearing makes an entry without scene (`alarm_cache.go:219`); its group never leaves the list of the scene and is raised with others while it does not hold |
| `AlarmReporter.cfg` | MCAlarmCache | `ReporterIsNamed` | an entry keeps the devices it was made with (`alarm_cache.go:113`): a second device of the configuration raises an alarm under the first one's name |

## 4. Proofs

`TelemetryStorage_proofs` proves, for every batch size, channel size, set of
series and number of messages:

* `TypeCorrect`: `Spec => []TypeOK`, which is inductive as it stands.
* `AccountingHolds`: every point handed to the writer is in exactly one of the
  buffer, the two batches and the three counters.
* `KeysStayUnique`, `WrittenStaysStored`, `HistoryNeverShrinks`.

`Accounting` is not inductive: a receive must bring *new* points, which needs
that message numbers only grow through channel, buffer and batches
(`NumbersAscend`); finishing a batch must leave nothing behind, which needs that
a goroutine outside insert and fallback holds no batch (`IdleHoldsNothing`); and
key uniqueness needs that each batch has unique keys (`BatchKeysUnique`). `IInv`
is the conjunction of these with `TypeOK` and the properties. Its preservation is
split by what an action touches: `QuietStep` for the actions that move nothing,
then `SendStep`, `ReceiveStep`, `TakeStep`, `WriteStep` (commit of a batch and of
a fallback row) and `FailStep`. `FirstOfUnique`, `LatestOfUnique`,
`InsertIgnoreKeeps` and `UpsertKeeps` are the facts about the operators.

* `StopLeavesNoOne`: `Awaited` says of each wait of Stop that did not run out that
  its goroutine has ended, and `EndedStays` that no action brings one back.
* `CurrentStaysBacked`: the property is false when inserts fail
  (`StorageUnbacked.cfg`), so the theorem assumes `~InsertMayFail`, the setting of
  the run `storage_live`. Then nobody falls back, and the latest rows of a batch are
  among the rows that the same transaction inserts (`Whole`).

Otherwise the only assumption is `StorageAssumption` on the constants, which TLC
evaluates in each run.

`CommandDispatch_proofs` proves, for every set of tasks, executors and requests,
every limit and channel capacity, and every number of restarts and database errors:

* `TypeInvariant`: types, the two capacities, and that an executor waits at the bus
  exactly while it has a message to put there.
* `SuccessOwn`: what counts as executed was delivered, by a message of its own. The
  invariant follows the answer back: only delivered messages are answered
  (`AnswerTypes`), only a row that was sent carries a message, its own (`RowInv`),
  and a transaction drafts its own message because the task it is at is the one the
  message was made for (`PutInv`, `ForemostIsOne`: `created_at` orders the batch).
* `SentOnceIfKept`: the inductive `OnceInv` names who answers for a message: the
  executor that has just made it, its draft that says so, or, once nobody holds the
  row, a status that keeps every executor and `Cancel` away (`SentBy`). It needs
  that row locks exclude each other and that a locked row stays pending (`HoldInv`,
  `RowInv`), and that a task has one draft and is then done with (`DraftInv`). A
  rollback breaks it only if something was sent, which is what `lost` records.
* `LivesAsPromised`: `Spec /\ []~lost => ImplementsLifecycle`, step by step:
  `LifecycleMoves` to `LifecycleSettles` say what the lifecycle allows, `RowLife`,
  `LockLife`, `MakeLife`, `CommitLife`, `RollbackLife` which step is which. A commit
  and a rollback are both `Settle`; a crash settles all locked rows at once.
  `LivesAsPromisedUndisturbed` is what the run `command_lifecycle` checks: without
  faults and restarts nothing is lost (`NothingLost`).
* `SentOnce`, about the promise itself: in every life that `OfflineTaskLifecycle`
  allows a command is sent at most once, and never if it was cancelled. `LifeInv`
  adds the types that make it inductive; `LifecycleAllows` is the converse of the
  lemmas above, what a step of the lifecycle does to the tasks.

`DeviceStatus_proofs` proves, for every set of flows and adapter goroutines, every
choice of modes and faults, and every number of messages:

* `TypeInvariant`, with `Control`: who gets where. Only the status flow writes what
  it was told, a business flow always wants its device online, handlers only fetch.
* `NoticesMatch`: writes are the notices plus the goroutines that have written and
  not told yet (`Unannounced`, counted per status), an equation each step keeps.
* `OfflineOnlyByExpiry`: `Serving` says which goroutine may still write offline, `Due`
  which messages of the monitor wait; writes, these and those together are at most
  the expiries and the messages that `StatusUnread` let through (`slips`), which step
  after step keeps. `WaitingAppend` and `WaitingTail` count the channel.
* `LastReportedWins`: without heartbeats only the status flow writes, so what it
  handled last and what is stored differ only while it works or when a stale copy
  hid the change; the cached copy agrees with the row unless a fill was late.
* `OnlineWatched`: an offline message of an expiry is always of a device whose key
  is gone, and each way to online passes through a goroutine that arms the key.

`ServiceLifecycle_proofs` proves, for every number of services, whichever of them
hang or fail to start, and every set of goroutines that call Shutdown:

* `TypeInvariant`: the WaitGroup is the number of services that run, are told to
  stop, or have returned and not been counted (`WaitGroupInv`), so it never goes
  negative.
* `StopsInOrderIfInTime` and `RedisOutlives`: `StopInv` says that the StopAll that
  holds the mutex has told every service above the one it is at, and that whoever
  finds `started` unset finds all services told; told is stopped unless a StopAll
  ran into its timeout. `MutexInv` says that only the holder is inside StopAll.

`OtaUpgrade_proofs` proves, for every set of tasks, devices and requests and every
number of restarts:

* `TypeInvariant`: `Spec => []TypeOK`, from `TypeOK` with `WorksOnDetail` (a
  goroutine inside a push works on a detail), which a step needs to type `status'`.
* `OnlyFailedRetried`: a temporal property, `[](P => []Q)` for each detail. `P`
  implies the predicate `Closed` (its task is created, its status is one that no
  request tries again, nobody has it in hand or past the test of a retry), every
  step keeps `Closed`, and `Closed` implies `Q`. That the task is created, so that
  no new loop takes the detail up, needs the invariant `Begun`.
* `DeletedNotSent`: of the same form. A detail is `Withdrawn` when its task is deleted
  and no push has read its package; every step keeps that, because only
  `ReadsPackage` leads to the sending and finds no row. The type invariant is all it
  rests on: that the count lets the deleted upgrade pass does not matter.

`AlarmCache_proofs` proves, for every set of devices and condition groups and every
number of saves, timers, switches and faults:

* `TypeInvariant`, with `VersionFits`: a report that still finds the old conditions
  reads those of a version that exists.
* `RecoveriesFollowAlarms`: `RecoveriesAreFounded` is about one moment, when a
  report finds a marked group false. The inductive invariant `Founded` follows the
  mark back: a marked entry is of a raised group (`MarkedIsRaised`), what is about
  to be marked was raised (`MarksRaised`), because an execution in which nothing
  fails raises every group under the scene or none (`RaisesAllOrNone`). That rests
  on `NeverExists`: the key that is asked for before a record is never there.
* `RaisedOnlyIfHeld`: `HeldInv` says that every entry names its scene, so a deletion
  always takes the group off the list (`DeletionUnlists`), and what is listed held
  last. A mark without an entry is what breaks it, which is why the property
  excepts it (`AlarmOrphan.cfg`).

`AlarmAssumption` adds to the model that an alarm configuration is no device and
that a missing key is no entry.

`DeviceOwnership_proofs` proves, for every set of devices, users, organisations and
dealers and every number of transactions:

* `TypeInvariant`, with `Knows`: what a transaction works on is known when it gets
  there, and a row it has read is still there (no commit removes a row), so an
  update has a row to change.
* `OneOwnerUnlessRaced`: `OneOwner` speaks of committed bindings, and what makes it
  hold is in the transactions. `Informed` says that as long as no commit touched a
  device that a bind has looked at, what it saw there is still so: no binding of its
  user, and none at all if it is going to make its own the owner's. A commit either
  touches nothing another transaction has looked at or makes that one dirty
  (`CommitOwned`), and what a dirty transaction commits is in `raced`.

* `ActiveWhileBound`, `OrgStays` and `LogIsTrue`: a transaction writes what it
  computed from rows it read statements ago. `Foreseen` says of each what it will
  have done when it commits. `Looks` is about the transaction alone: it has looked
  at every device it is going to write, and what it has staged is for those. `Current`
  compares it with the tables: the row it saw is still the row, the dealer it logged
  still the dealer, what it staged keeps the organisation and fits the activation
  (`Fits`), and an unbind that resets the battery deletes all bindings there are.
  `Current` holds until a commit touches a device the transaction has looked at,
  and that commit makes it dirty (`CommitForeseen`), after which its own commit is a
  race. A commit of a transaction that is not dirty then gives the three properties
  (`CommitActive`, `OnlyCommitWrites`).

`OwnershipAssumption` says that a missing row is no row (`NoRow \notin Row`).

`AutomationCache_proofs` proves, for every set of scenes and goroutines and every
number of saves and faults:

* `TypeInvariant`: `TypeOK` needs that a goroutine that deletes or adds was given a
  scene (`Aiming`), and that the version of a scene is at most one above the number
  of saves, so a save stays within `Versions`. The lemmas `Moves`, `MovesOn` and
  `PassTypes` are what most actions do to a goroutine.

Only model-checked: the liveness properties (TLAPS has no rules for `ENABLED` and
fairness), which all properties of `AutomationCache` but its types are. Every
other property of a passing run is a theorem. What a recursive definition computes
for every input is out of reach as well, since the induction theorems take an
operator as a parameter; no module here declares a `RECURSIVE` operator.

## 5. What is abstracted

* Payloads: a status message is on, off or refused by `parseStatus`; a telemetry
  message is the set of series it carries; scripts only succeed or fail.
* One device in `DeviceStatus` and `CommandDispatch`: no state is shared between
  devices there except the channels, whose capacity is bounded.
* SSE, Redis publications, WebSocket pushes and automation triggers count as one
  notice.
* Attribute set, attribute get and telemetry control run the downlink handler's
  code on channels of their own; only commands are modelled.
* One device in `AutomationCache`, one scene in `AlarmCache`: keys of different
  devices and scenes are different keys.
* Packages, versions and the text of refusals in `OtaUpgrade`; permissions in
  `DeviceOwnership` are the subtree of organisations and the dealer's own devices.
* Time: `MaxTime` milliseconds in the storage; timeouts elsewhere may fire
  whenever they are armed.

## 6. Plan

1. `AutomationCache`: scenes on a device configuration; a safety property of the
   cache between two expiries, with its proof.
2. `TelemetryStorage`: a proof of what the fallback keeps of `CurrentIsBacked` when
   inserts fail.
3. Expected data, next to `CommandDispatch`.
4. `UplinkPipeline`, composed with the storage's channel: no send on a closed
   channel, every accepted message handled, stopped flows stop.
5. `TelemetryStorage`: an abstract ledger of points with a refinement.
6. The small modules: subscription counters, login lock, script cache, diagnostics.
