---------------------------- MODULE DeviceStatus ----------------------------
(***************************************************************************)
(* The online status of one device: the status flow of internal/uplink,    *)
(* the business flows (telemetry, attribute, event) that bring a device    *)
(* online, the adapter's message handlers, the cache-aside copy of the     *)
(* device in Redis, and the heartbeat or timeout key whose expiry takes    *)
(* the device offline again.                                               *)
(*                                                                         *)
(* Every goroutine is a process with its own program counter; each access  *)
(* to Redis or to the database is a step of its own.                       *)
(***************************************************************************)
EXTENDS Naturals, Sequences

CONSTANTS
    Modes,       \* what other_config of the device may ask for
    Flows,       \* the business flows
    Handlers,    \* goroutines of the adapter and the API that fetch the device
    FaultyModes, \* those in which the database may fail and the process be restarted
    MaxMsgs      \* bound on the messages of the device

ASSUME StatusAssumption ==
    /\ Modes \subseteq {"plain", "heartbeat", "timeout"}
    /\ "status" \notin Flows \cup Handlers
    /\ Flows \cap Handlers = {}
    /\ FaultyModes \subseteq Modes
    /\ MaxMsgs \in Nat

VARIABLES
    mode,       \* what other_config of the device asks for; it does not change
    db,         \* devices.is_online
    cache,      \* is_online of the copy in Redis, or "none"
    key,        \* the heartbeat or timeout key is set
    expired,    \* expiry notifications the monitor has not handled
    statusChan, \* the status channel of the bus
    pc,         \* where each goroutine is
    seen,       \* is_online of the device a goroutine has fetched and will look at, or "off"
    want,       \* the status a goroutine is to write
    source,     \* metadata["source"] of the message the status flow handles
    sent,       \* messages the device has sent
    expiries,   \* expiry notifications so far
    writes,     \* updates of is_online so far, by status
    notices,    \* announced changes (SSE, automation) so far, by status
    pendingRan, \* ExecutePendingForDevice has been called
    lastStatus, \* the last status message the flow did not ignore
    staleFill,  \* a goroutine has cached a value the database no longer had
    slips,      \* the device's own offline messages handled without its configuration
    failed      \* a statement has failed or the process was restarted

queueVars == <<expired, statusChan, source>>
storeVars == <<db, cache, key>>
logVars   == <<expiries, slips, writes, notices, pendingRan, lastStatus>>
procVars  == <<pc, seen, want>>
vars == <<mode, storeVars, queueVars, procVars, logVars, sent, staleFill, failed>>

Procs    == {"status"} \cup Flows \cup Handlers
Statuses == {"on", "off"}
Payloads == Statuses \cup {"bad"}
Pcs      == {"idle", "load", "fill", "got", "compare", "reload", "write", "evict",
             "evicted", "fetch", "loadAgain", "fillAgain", "gotAgain", "arm"}

Init ==
    /\ mode \in Modes
    /\ db = "off"
    /\ cache = "none"
    /\ key = FALSE
    /\ expired = 0
    /\ statusChan = <<>>
    /\ pc = [p \in Procs |-> "idle"]
    /\ seen = [p \in Procs |-> "off"]
    /\ want = [p \in Procs |-> "on"]
    /\ source = "device"
    /\ sent = 0
    /\ expiries = 0
    /\ slips = 0
    /\ writes = [s \in Statuses |-> 0]
    /\ notices = [s \in Statuses |-> 0]
    /\ pendingRan = FALSE
    /\ lastStatus = "off"
    /\ staleFill = FALSE
    /\ failed = FALSE

GoTo(p, l) == pc' = [pc EXCEPT ![p] = l]

-----------------------------------------------------------------------------
(* GetDeviceCacheById.                                                      *)

Sees(p, s) == seen' = [seen EXCEPT ![p] = s]

\* Of what is fetched, only the first copy of a business flow is looked at later.
Keeps(p, hit) == p \in Flows /\ hit = "got"

\* GET of the cached device; a miss goes on to the database.
LookUp(p, miss, hit) ==
    IF cache = "none"
    THEN GoTo(p, miss) /\ UNCHANGED seen
    ELSE GoTo(p, hit) /\ Sees(p, IF Keeps(p, hit) THEN cache ELSE "off")

Load(p) ==
    /\ \/ pc[p] = "load" /\ GoTo(p, "fill")
       \/ pc[p] = "loadAgain" /\ GoTo(p, "fillAgain")
    /\ Sees(p, db)
    /\ UNCHANGED <<mode, storeVars, queueVars, want, logVars, sent, staleFill, failed>>

Fill(p) ==
    /\ \E hit \in {"got", "gotAgain"} :
           /\ pc[p] = IF hit = "got" THEN "fill" ELSE "fillAgain"
           /\ GoTo(p, hit)
           /\ Sees(p, IF Keeps(p, hit) THEN seen[p] ELSE "off")
    /\ cache' = seen[p]
    /\ staleFill' = (staleFill \/ seen[p] # db)
    /\ UNCHANGED <<mode, db, key, queueVars, want, logVars, sent, failed>>

-----------------------------------------------------------------------------
(* Where messages come from.                                                *)

\* A business message reaches its flow, which first fetches the device.
FlowReceives(f) ==
    /\ pc[f] = "idle"
    /\ sent < MaxMsgs
    /\ sent' = sent + 1
    /\ want' = [want EXCEPT ![f] = "on"]
    /\ LookUp(f, "load", "got")
    /\ UNCHANGED <<mode, storeVars, queueVars, logVars, staleFill, failed>>

\* The adapter gets a status message, each in a goroutine of its own, and
\* fetches the device before it publishes.
HandlerReceives(h) ==
    /\ pc[h] = "idle"
    /\ sent < MaxMsgs
    /\ sent' = sent + 1
    /\ \E w \in Payloads : want' = [want EXCEPT ![h] = w]
    /\ LookUp(h, "load", "got")
    /\ UNCHANGED <<mode, storeVars, queueVars, logVars, staleFill, failed>>

HandlerPublishes(h) ==
    /\ pc[h] = "got"
    /\ GoTo(h, "idle")
    /\ statusChan' = Append(statusChan, [status |-> want[h], source |-> "device"])
    /\ UNCHANGED <<mode, storeVars, expired, source, seen, want, logVars, sent, staleFill, failed>>

KeyExpires ==
    /\ key
    /\ key' = FALSE
    /\ expired' = expired + 1
    /\ expiries' = expiries + 1
    /\ UNCHANGED <<mode, db, cache, statusChan, source, procVars, slips, writes,
                   notices, pendingRan, lastStatus, sent, staleFill, failed>>

UnmarkedSource == "device"
ExpirySource == "expired"

\* HeartbeatMonitor.handleExpiredKey publishes an offline message.
MonitorPublishes ==
    /\ expired > 0
    /\ expired' = expired - 1
    /\ statusChan' = Append(statusChan, [status |-> "off", source |-> ExpirySource])
    /\ UNCHANGED <<mode, storeVars, source, procVars, logVars, sent, staleFill, failed>>

-----------------------------------------------------------------------------
(* UpdateDeviceStatus.                                                      *)

AnnounceAnyway(p) == "evicted"

\* What the caller does when the status has not changed.
AfterUnchanged(p) == IF p = "status" THEN "idle" ELSE "arm"

CompareWith(p, current) ==
    GoTo(p, IF current = want[p] THEN AfterUnchanged(p) ELSE "write")

Compare(p) ==
    /\ pc[p] = "compare"
    /\ IF cache = "none" THEN GoTo(p, "reload") ELSE CompareWith(p, cache)
    /\ UNCHANGED <<mode, storeVars, queueVars, seen, want, logVars, sent, staleFill, failed>>

Reload(p) ==
    /\ pc[p] = "reload"
    /\ CompareWith(p, db)
    /\ UNCHANGED <<mode, storeVars, queueVars, seen, want, logVars, sent, staleFill, failed>>

Write(p) ==
    /\ pc[p] = "write"
    /\ GoTo(p, "evict")
    /\ db' = want[p]
    /\ writes' = [writes EXCEPT ![want[p]] = @ + 1]
    /\ UNCHANGED <<mode, cache, key, queueVars, seen, want, expiries, slips, notices,
                   pendingRan, lastStatus, sent, staleFill, failed>>

KeptCopy == cache
EvictedCopy == "none"

Evict(p) ==
    /\ pc[p] = "evict"
    /\ GoTo(p, "evicted")
    /\ cache' = EvictedCopy
    /\ UNCHANGED <<mode, db, key, queueVars, seen, want, logVars, sent, staleFill, failed>>

-----------------------------------------------------------------------------
(* The status flow.                                                         *)

AnyPayload == Payloads
ParsedStatus == Statuses

\* parseStatus drops a payload it does not know; the flow then fetches the device.
StatusReceives ==
    /\ pc["status"] = "idle"
    /\ statusChan # <<>>
    /\ statusChan' = Tail(statusChan)
    /\ LET m == Head(statusChan) IN
         IF m.status \in ParsedStatus
         THEN /\ want' = [want EXCEPT !["status"] = m.status]
              /\ source' = m.source
              /\ LookUp("status", "load", "got")
         ELSE UNCHANGED <<source, procVars>>
    /\ UNCHANGED <<mode, storeVars, expired, logVars, sent, staleFill, failed>>

NothingIgnored == FALSE
Ignored == mode = "heartbeat" /\ source # "expired"

StatusIgnores ==
    /\ pc["status"] = "got"
    /\ Ignored
    /\ GoTo("status", "idle")
    /\ UNCHANGED <<mode, storeVars, queueVars, seen, want, logVars, sent, staleFill, failed>>

NeverArms == FALSE
ArmsKey == mode = "timeout" /\ want["status"] = "on"

\* In timeout mode an online message arms the timeout key before the update.
StatusAccepts ==
    /\ pc["status"] = "got"
    /\ ~Ignored
    /\ GoTo("status", "compare")
    /\ key' = (key \/ ArmsKey)
    /\ lastStatus' = want["status"]
    /\ UNCHANGED <<mode, db, cache, queueVars, seen, want, expiries, slips, writes, notices,
                   pendingRan, sent, staleFill, failed>>

\* Without its configuration a device counts as one that has none: nothing is
\* ignored, and no key is armed.
StatusUnread ==
    /\ mode \in FaultyModes
    /\ failed' = TRUE
    /\ pc["status"] = "got"
    /\ GoTo("status", "compare")
    /\ lastStatus' = want["status"]
    /\ slips' = IF want["status"] = "off" /\ source = "device" THEN slips + 1 ELSE slips
    /\ UNCHANGED <<mode, storeVars, queueVars, seen, want, expiries, writes, notices,
                   pendingRan, sent, staleFill>>

\* DelDeviceCache once more, then the notifications and, for a device that came
\* online, its pending commands.
StatusAnnounces ==
    /\ pc["status"] = "evicted"
    /\ GoTo("status", "idle")
    /\ cache' = EvictedCopy
    /\ notices' = [notices EXCEPT ![want["status"]] = @ + 1]
    /\ pendingRan' = (pendingRan \/ want["status"] = "on")
    /\ UNCHANGED <<mode, db, key, queueVars, seen, want, expiries, slips, writes, lastStatus,
                   sent, staleFill, failed>>

-----------------------------------------------------------------------------
(* refreshHeartbeat of the business flows.                                  *)

\* The device was fetched before the payload was decoded; without a heartbeat
\* configuration nothing happens.
FlowDecides(f) ==
    /\ pc[f] = "got"
    /\ GoTo(f, IF mode = "plain" THEN "idle"
               ELSE IF seen[f] = "on" THEN "arm" ELSE "compare")
    /\ Sees(f, "off")
    /\ UNCHANGED <<mode, storeVars, queueVars, want, logVars, sent, staleFill, failed>>

FlowEvictsAgain(f) ==
    /\ pc[f] = "evicted"
    /\ GoTo(f, "fetch")
    /\ cache' = EvictedCopy
    /\ UNCHANGED <<mode, db, key, queueVars, seen, want, logVars, sent, staleFill, failed>>

FlowFetchesAgain(f) ==
    /\ pc[f] = "fetch"
    /\ LookUp(f, "loadAgain", "gotAgain")
    /\ UNCHANGED <<mode, storeVars, queueVars, want, logVars, sent, staleFill, failed>>

FlowAnnounces(f) ==
    /\ pc[f] = "gotAgain"
    /\ GoTo(f, "arm")
    /\ notices' = [notices EXCEPT !["on"] = @ + 1]
    /\ UNCHANGED <<mode, storeVars, queueVars, seen, want, expiries, slips, writes, pendingRan,
                   lastStatus, sent, staleFill, failed>>

\* RefreshHeartbeat sets the heartbeat or the timeout key.
FlowArms(f) ==
    /\ pc[f] = "arm"
    /\ GoTo(f, "idle")
    /\ key' = TRUE
    /\ UNCHANGED <<mode, db, cache, queueVars, seen, want, logVars, sent, staleFill, failed>>

-----------------------------------------------------------------------------
\* A database error ends the handling of the message; in a business flow, that of
\* the read of the configuration as well.
Fails(p) ==
    /\ mode \in FaultyModes
    /\ failed' = TRUE
    /\ \/ pc[p] \in {"load", "reload", "write", "loadAgain"}
       \/ p \in Flows /\ pc[p] = "got"
    /\ GoTo(p, "idle")
    /\ Sees(p, "off")
    /\ UNCHANGED <<mode, storeVars, queueVars, want, logVars, sent, staleFill>>

\* A restart loses the goroutines, the channel and the expiry notifications that
\* were not handled; PostgreSQL and Redis keep their state.
Restart ==
    /\ mode \in FaultyModes
    /\ failed' = TRUE
    /\ pc' = [p \in Procs |-> "idle"]
    /\ seen' = [p \in Procs |-> "off"]
    /\ statusChan' = <<>>
    /\ expired' = 0
    /\ UNCHANGED <<mode, storeVars, source, want, logVars, sent, staleFill>>

Step(p) ==
    \/ Load(p)
    \/ Fill(p)
    \/ Compare(p)
    \/ Reload(p)
    \/ Write(p)
    \/ Evict(p)

StatusStep ==
    \/ StatusReceives
    \/ StatusIgnores
    \/ StatusAccepts
    \/ StatusAnnounces

FlowStep(f) ==
    \/ FlowDecides(f)
    \/ FlowEvictsAgain(f)
    \/ FlowFetchesAgain(f)
    \/ FlowAnnounces(f)
    \/ FlowArms(f)

Next ==
    \/ \E p \in Procs : Step(p) \/ Fails(p)
    \/ \E f \in Flows : FlowReceives(f) \/ FlowStep(f)
    \/ \E h \in Handlers : HandlerReceives(h) \/ HandlerPublishes(h)
    \/ StatusStep
    \/ StatusUnread
    \/ KeyExpires
    \/ MonitorPublishes
    \/ Restart

Spec == Init /\ [][Next]_vars

\* Goroutines that can run do, Redis expires keys, and the monitor and the status
\* flow serve their channels; the device need not send anything.
Fairness ==
    /\ \A p \in Procs : WF_vars(Step(p))
    /\ \A f \in Flows : WF_vars(FlowStep(f))
    /\ \A h \in Handlers : WF_vars(HandlerPublishes(h))
    /\ WF_vars(StatusStep)
    /\ WF_vars(KeyExpires)
    /\ WF_vars(MonitorPublishes)

FairSpec == Spec /\ Fairness

-----------------------------------------------------------------------------
(* Properties.                                                              *)

\* Every variable has its type; what is stored is a parsed status.
TypeOK ==
    /\ db \in Statuses
    /\ cache \in Statuses \cup {"none"}
    /\ key \in BOOLEAN
    /\ expired \in Nat
    /\ statusChan \in Seq([status : Payloads, source : {"device", "expired"}])
    /\ pc \in [Procs -> Pcs]
    /\ seen \in [Procs -> Statuses]
    /\ want \in [Procs -> Payloads]
    /\ source \in {"device", "expired"}
    /\ sent \in Nat
    /\ expiries \in Nat
    /\ slips \in Nat
    /\ writes \in [Statuses -> Nat]
    /\ notices \in [Statuses -> Nat]
    /\ pendingRan \in BOOLEAN
    /\ lastStatus \in Statuses
    /\ staleFill \in BOOLEAN
    /\ failed \in BOOLEAN

AllIdle == \A p \in Procs : pc[p] = "idle"

OfflineQueued ==
    \/ expired > 0
    \/ \E i \in DOMAIN statusChan :
         statusChan[i].status = "off"
           /\ (mode = "heartbeat" => statusChan[i].source = "expired")

\* With heartbeats or timeouts, a device shown online is watched: its key is set,
\* or an offline message is on its way, or some goroutine is about to set one of
\* them.  Only a stale copy in the cache, an error or a restart can break this.
OnlineIsWatched ==
    mode # "plain" /\ db = "on" /\ ~staleFill /\ ~failed
        => key \/ OfflineQueued \/ \E p \in Procs : pc[p] # "idle"

\* In heartbeat mode every offline write has a cause of its own: an expiry of the
\* key, handled once, or a message of the device that was let through because its
\* configuration could not be read.  Whatever else fails, a device cannot take
\* itself offline, and no expiry counts twice.
OfflineNeedsExpiry == mode = "heartbeat" => writes["off"] <= expiries + slips

\* Nothing is announced that was not written, whatever fails; and once everything
\* in flight is done without an error or a restart, every change written to the
\* database has been announced exactly once.
NoticesMatchWrites ==
    /\ \A s \in Statuses : notices[s] <= writes[s]
    /\ AllIdle /\ ~failed => notices = writes

\* Without heartbeats the stored status is the last one the device reported and
\* the flow handled, unless a stale copy in the cache hid a change or something
\* failed.
LastStatusWins ==
    mode = "plain" /\ AllIdle /\ ~staleFill /\ ~failed => db = lastStatus

\* With heartbeats or timeouts, a device that falls silent is eventually shown
\* offline for good, unless a stale copy in the cache hid a change or something
\* failed.
SilentGoesOffline == mode # "plain" => <>[](db = "off" \/ staleFill \/ failed)

\* With heartbeats or timeouts, a device that falls silent is eventually shown
\* offline for good.
NoFalseOnline == mode # "plain" => <>[](db = "off")

\* What the comment above the filter promises: in heartbeat mode only the monitor
\* takes a device offline (it does not hold when the configuration is not read).
OfflineOnlyByMonitor == mode = "heartbeat" => writes["off"] <= expiries

\* Two announcements of one status have an announcement of the other in between.
NoRepeatedNotice ==
    /\ notices["on"] <= notices["off"] + 1
    /\ notices["off"] <= notices["on"] + 1

\* A device that has come online has had its pending commands executed.
OnlineRunsPending == AllIdle /\ writes["on"] > 0 => pendingRan
=============================================================================
