--------------------------- MODULE CommandDispatch ---------------------------
(***************************************************************************)
(* Commands to one device: the offline commands that wait in the table     *)
(* offline_command_tasks, the transactions that run them when the device   *)
(* comes online, the command bus and its handler, the command log, and the *)
(* answers of the device that come back through the uplink.                *)
(*                                                                         *)
(* A transaction of an executor keeps its updates in draft and its row     *)
(* locks in held until it commits; the log and the bus are written outside *)
(* it, as in the code.                                                     *)
(***************************************************************************)
EXTENDS Naturals, Sequences, FiniteSets, SequencesExt

CONSTANTS
    Tasks,        \* offline commands that may be created
    Executors,    \* goroutines that run ExecutePendingForDevice
    Users,        \* API requests that send a command at once
    Limit,        \* commands one transaction takes (20)
    BusCap,       \* capacity of the command channel
    ResponseCap,  \* capacity of the response channel
    Faults,       \* the database may fail
    MayCrash,     \* the process may be restarted
    MaxUserMsgs,  \* bound on commands sent at once
    MaxFlips,     \* bound on changes of the device's status
    MaxAnswers    \* bound on answers of the device

ASSUME CommandAssumption ==
    /\ Executors \cap Users = {}
    /\ "user" \notin Tasks
    /\ Limit \in Nat \ {0}
    /\ BusCap \in Nat \ {0}
    /\ ResponseCap \in Nat \ {0}
    /\ Faults \in BOOLEAN
    /\ MayCrash \in BOOLEAN
    /\ MaxUserMsgs \in Nat
    /\ MaxFlips \in Nat
    /\ MaxAnswers \in Nat

VARIABLES
    online,       \* devices.is_online
    created,      \* tasks by created_at, those not inserted yet included
    status,       \* offline_command_tasks.status
    message,      \* offline_command_tasks.message_id, 0 for NULL
    pc,           \* where each executor and user request is
    held,         \* rows an executor's transaction has locked
    todo,         \* those of them the executor has not dealt with yet
    draft,        \* updates of the executor's transaction
    putting,      \* the message an executor or user is about to publish
    origin,       \* what each message so far was made for
    log,          \* command_set_logs.status of each message, or "none"
    commandChan,  \* the command channel of the downlink bus
    handler,      \* the goroutine that drains it
    delivered,    \* messages the device has received
    responseChan, \* the response channel of the uplink bus
    responder,    \* the goroutine that drains it
    flips,        \* changes of the device's status so far
    answers,      \* answers of the device so far
    lost          \* a transaction that had published was rolled back

taskVars == <<created, status, message>>
execVars == <<pc, held, todo, draft, putting>>
msgVars  == <<origin, log, commandChan, handler, delivered>>
respVars == <<responseChan, responder, answers>>
vars == <<online, taskVars, execVars, msgVars, respVars, flips, lost>>

Putters  == Executors \cup Users
Msgs     == DOMAIN origin
Statuses == {"none", "PENDING", "SENT", "SUCCESS", "FAILED", "CANCELLED"}
MadeFor(o) == {m \in Msgs : origin[m] = o}
Idle     == [pc |-> "idle", msg |-> 0, result |-> ""]

Init ==
    /\ online = FALSE
    /\ created = <<>>
    /\ status = [t \in Tasks |-> "none"]
    /\ message = [t \in Tasks |-> 0]
    /\ pc = [p \in Putters |-> "idle"]
    /\ held = [e \in Executors |-> {}]
    /\ todo = [e \in Executors |-> {}]
    /\ draft = [e \in Executors |-> {}]
    /\ putting = [p \in Putters |-> 0]
    /\ origin = <<>>
    /\ log = <<>>
    /\ commandChan = <<>>
    /\ handler = Idle
    /\ delivered = {}
    /\ responseChan = <<>>
    /\ responder = Idle
    /\ flips = 0
    /\ answers = 0
    /\ lost = FALSE

GoTo(p, l) == pc' = [pc EXCEPT ![p] = l]

-----------------------------------------------------------------------------
(* Create and Cancel.                                                       *)

\* Create finds the device offline and stamps the task.
CreateChecks(t) ==
    /\ t \notin ToSet(created)
    /\ ~online
    /\ created' = Append(created, t)
    /\ UNCHANGED <<online, status, message, execVars, msgVars, respVars, flips, lost>>

CreateInserts(t) ==
    /\ t \in ToSet(created)
    /\ status[t] = "none"
    /\ status' = [status EXCEPT ![t] = "PENDING"]
    /\ UNCHANGED <<online, created, message, execVars, msgVars, respVars, flips, lost>>

Locked == UNION {held[e] : e \in Executors}

CancelsAny(t) == status[t] # "none"
\* The rows UPDATE ... WHERE status = 'PENDING' matches.
Cancellable(t) == status[t] = "PENDING"

\* The UPDATE waits for the transaction that has locked the row.
Cancel(t) ==
    /\ Cancellable(t)
    /\ t \notin Locked
    /\ status' = [status EXCEPT ![t] = "CANCELLED"]
    /\ UNCHANGED <<online, created, message, execVars, msgVars, respVars, flips, lost>>

-----------------------------------------------------------------------------
(* ExecutePendingForDevice.                                                 *)

\* The status flow writes is_online and starts an executor.
GoOnline(e) ==
    /\ ~online
    /\ flips < MaxFlips
    /\ pc[e] = "idle"
    /\ online' = TRUE
    /\ flips' = flips + 1
    /\ GoTo(e, "lock")
    /\ UNCHANGED <<taskVars, held, todo, draft, putting, msgVars, respVars, lost>>

GoOffline ==
    /\ online
    /\ flips < MaxFlips
    /\ online' = FALSE
    /\ flips' = flips + 1
    /\ UNCHANGED <<taskVars, execVars, msgVars, respVars, lost>>

\* In the order of created_at.
Before(r, t) == \E i, j \in DOMAIN created : i < j /\ created[i] = r /\ created[j] = t

NotSkipped == {t \in ToSet(created) : status[t] = "PENDING"}
\* The rows SELECT ... FOR UPDATE SKIP LOCKED may return, before LIMIT.
Available == {t \in ToSet(created) : status[t] = "PENDING" /\ t \notin Locked}

Batch == {t \in Available : Cardinality({r \in Available : Before(r, t)}) < Limit}

ExecLocks(e) ==
    /\ pc[e] = "lock"
    /\ todo' = [todo EXCEPT ![e] = Batch]
    /\ held' = [held EXCEPT ![e] = Batch]
    /\ GoTo(e, IF Batch = {} THEN "idle" ELSE "check")
    /\ UNCHANGED <<online, taskVars, draft, putting, msgVars, respVars, flips, lost>>

ExecFindsNothing(e) ==
    /\ Faults
    /\ pc[e] = "lock"
    /\ GoTo(e, "idle")
    /\ UNCHANGED <<online, taskVars, held, todo, draft, putting, msgVars, respVars, flips, lost>>

\* Each task is preceded by a look at the device; offline, or a look that fails,
\* ends the loop.
ExecChecks(e) ==
    /\ pc[e] = "check"
    /\ \/ todo[e] # {} /\ online /\ GoTo(e, "put")
       \/ (todo[e] = {} \/ ~online \/ Faults) /\ GoTo(e, "commit")
    /\ UNCHANGED <<online, taskVars, held, todo, draft, putting, msgVars, respVars, flips, lost>>

\* The task the loop is at.
Foremost(e) == {t \in todo[e] : \A r \in todo[e] : ~Before(r, t)}

Drafted(t, s, m) == [task |-> t, status |-> s, msg |-> m]

RefusesSilently(t) == {}
Refusal(t) == {Drafted(t, "FAILED", 0)}

\* CommandPutMessageReturnMessageID fails before it creates a log.
ExecPutFails(e) ==
    /\ pc[e] = "put"
    /\ \E t \in Foremost(e) :
         /\ draft' = [draft EXCEPT ![e] = @ \cup Refusal(t)]
         /\ todo' = [todo EXCEPT ![e] = @ \ {t}]
    /\ GoTo(e, "check")
    /\ UNCHANGED <<online, taskVars, held, putting, msgVars, respVars, flips, lost>>

\* A new message_id and its log row; a failed INSERT does not stop the put.
CreateLog(p, o) ==
    /\ origin' = Append(origin, o)
    /\ \E s \in IF Faults THEN {"0", "none"} ELSE {"0"} : log' = Append(log, s)
    /\ putting' = [putting EXCEPT ![p] = Len(origin) + 1]
    /\ GoTo(p, "publish")

ExecCreatesLog(e) ==
    /\ pc[e] = "put"
    /\ \E t \in Foremost(e) : CreateLog(e, t)
    /\ UNCHANGED <<online, taskVars, held, todo, draft, commandChan, handler, delivered,
                   respVars, flips, lost>>

Unbounded == TRUE
HasRoom == Len(commandChan) < BusCap

\* The send blocks while the channel is full.
Publish(p) ==
    /\ pc[p] = "publish"
    /\ HasRoom
    /\ commandChan' = Append(commandChan, putting[p])
    /\ putting' = [putting EXCEPT ![p] = 0]

ExecPublishes(e) ==
    /\ Publish(e)
    /\ \E t \in Foremost(e) :
         /\ draft' = [draft EXCEPT ![e] = @ \cup {Drafted(t, "SENT", putting[e])}]
         /\ todo' = [todo EXCEPT ![e] = @ \ {t}]
    /\ GoTo(e, "check")
    /\ UNCHANGED <<online, taskVars, held, origin, log, handler, delivered, respVars, flips, lost>>

EndTransaction(e) ==
    /\ held' = [held EXCEPT ![e] = {}]
    /\ todo' = [todo EXCEPT ![e] = {}]
    /\ draft' = [draft EXCEPT ![e] = {}]
    /\ GoTo(e, "idle")

\* The drafted update of t, if there is one.
DraftOf(e, t) == {d \in draft[e] : d.task = t}

ExecCommits(e) ==
    /\ pc[e] = "commit"
    /\ status' = [t \in Tasks |-> IF DraftOf(e, t) = {} THEN status[t]
                                  ELSE (CHOOSE d \in DraftOf(e, t) : TRUE).status]
    /\ message' = [t \in Tasks |-> IF DraftOf(e, t) = {} THEN message[t]
                                   ELSE (CHOOSE d \in DraftOf(e, t) : TRUE).msg]
    /\ EndTransaction(e)
    /\ UNCHANGED <<online, created, putting, msgVars, respVars, flips, lost>>

\* The executor has made a message its transaction has not committed.
HasSent(e) == putting[e] # 0 \/ \E d \in draft[e] : d.status = "SENT"

ExecCommitFails(e) ==
    /\ Faults
    /\ pc[e] = "commit"
    /\ lost' = (lost \/ HasSent(e))
    /\ EndTransaction(e)
    /\ UNCHANGED <<online, taskVars, putting, msgVars, respVars, flips>>

-----------------------------------------------------------------------------
(* A command sent at once.                                                  *)

UserCreatesLog(u) ==
    /\ pc[u] = "idle"
    /\ Cardinality(MadeFor("user")) < MaxUserMsgs
    /\ CreateLog(u, "user")
    /\ UNCHANGED <<online, taskVars, held, todo, draft, commandChan, handler, delivered,
                   respVars, flips, lost>>

UserPublishes(u) ==
    /\ Publish(u)
    /\ GoTo(u, "idle")
    /\ UNCHANGED <<online, taskVars, held, todo, draft, origin, log, handler, delivered,
                   respVars, flips, lost>>

-----------------------------------------------------------------------------
(* The command handler of the downlink bus.                                 *)

HandlerTakes ==
    /\ handler.pc = "idle"
    /\ commandChan # <<>>
    /\ handler' = [pc |-> "send", msg |-> Head(commandChan), result |-> ""]
    /\ commandChan' = Tail(commandChan)
    /\ UNCHANGED <<online, taskVars, execVars, origin, log, delivered, respVars, flips, lost>>

Reports(result) == handler' = [handler EXCEPT !.pc = "find", !.result = result]

EncodeFailedSilently == handler' = Idle
\* What a failed script does next.
EncodeFailed == Reports("2")

HandlerRefuses ==
    /\ handler.pc = "send"
    /\ EncodeFailed
    /\ UNCHANGED <<online, taskVars, execVars, origin, log, commandChan, delivered, respVars,
                   flips, lost>>

\* PublishMessage: the broker may have the message although the wait of 5 s
\* ran out, and may have it without a device to hand it to.
HandlerPublishes ==
    /\ handler.pc = "send"
    /\ \E result \in {"1", "2"} : Reports(result)
    /\ \E reached \in SUBSET {handler.msg} : delivered' = delivered \cup reached
    /\ UNCHANGED <<online, taskVars, execVars, origin, log, commandChan, respVars, flips, lost>>

\* updateLogStatus reads the row and gives up if there is none.
HandlerFinds ==
    /\ handler.pc = "find"
    /\ handler' = IF log[handler.msg] = "none" THEN Idle ELSE [handler EXCEPT !.pc = "save"]
    /\ UNCHANGED <<online, taskVars, execVars, origin, log, commandChan, delivered, respVars,
                   flips, lost>>

\* Save writes the whole row back.
HandlerSaves ==
    /\ handler.pc = "save"
    /\ log' = [log EXCEPT ![handler.msg] = handler.result]
    /\ handler' = Idle
    /\ UNCHANGED <<online, taskVars, execVars, origin, commandChan, delivered, respVars,
                   flips, lost>>

HandlerLogFails ==
    /\ Faults
    /\ handler.pc \in {"find", "save"}
    /\ handler' = Idle
    /\ UNCHANGED <<online, taskVars, execVars, origin, log, commandChan, delivered, respVars,
                   flips, lost>>

-----------------------------------------------------------------------------
(* Answers of the device.                                                   *)

\* The device answers, perhaps more than once; a full channel drops it.
DeviceAnswers ==
    /\ answers < MaxAnswers
    /\ answers' = answers + 1
    /\ \E m \in delivered, s \in {"3", "4"} :
         responseChan' = IF Len(responseChan) < ResponseCap
                         THEN Append(responseChan, [msg |-> m, result |-> s])
                         ELSE responseChan
    /\ UNCHANGED <<online, taskVars, execVars, msgVars, responder, flips, lost>>

\* The log row takes the answer; without a row nothing more is done.
ResponderLogs ==
    /\ responder.pc = "idle"
    /\ responseChan # <<>>
    /\ LET r == Head(responseChan)
       IN IF log[r.msg] = "none"
          THEN UNCHANGED <<log, responder>>
          ELSE /\ log' = [log EXCEPT ![r.msg] = r.result]
               /\ responder' = [pc |-> "task", msg |-> r.msg, result |-> r.result]
    /\ responseChan' = Tail(responseChan)
    /\ UNCHANGED <<online, taskVars, execVars, origin, commandChan, handler, delivered, answers,
                   flips, lost>>

AnySent(m) == {t \in Tasks : status[t] = "SENT"}
\* The rows UPDATE ... WHERE message_id = ? matches.
CarriedBy(m) == {t \in Tasks : message[t] = m}

ResponderClosesTask ==
    /\ responder.pc = "task"
    /\ LET s == IF responder.result = "3" THEN "SUCCESS" ELSE "FAILED"
       IN status' = [t \in Tasks |-> IF t \in CarriedBy(responder.msg) THEN s ELSE status[t]]
    /\ responder' = Idle
    /\ UNCHANGED <<online, created, message, execVars, msgVars, responseChan, answers, flips, lost>>

\* Either of the two updates fails: the answer is gone.
ResponderFails ==
    /\ Faults
    /\ \/ responder.pc = "idle" /\ responseChan # <<>> /\ responseChan' = Tail(responseChan)
       \/ responder.pc = "task" /\ UNCHANGED responseChan
    /\ responder' = Idle
    /\ UNCHANGED <<online, taskVars, execVars, msgVars, answers, flips, lost>>

-----------------------------------------------------------------------------
\* A restart: transactions are rolled back, channels and goroutines are gone.
Crash ==
    /\ MayCrash
    /\ lost' = (lost \/ \E e \in Executors : HasSent(e))
    /\ pc' = [p \in Putters |-> "idle"]
    /\ held' = [e \in Executors |-> {}]
    /\ todo' = [e \in Executors |-> {}]
    /\ draft' = [e \in Executors |-> {}]
    /\ putting' = [p \in Putters |-> 0]
    /\ commandChan' = <<>>
    /\ handler' = Idle
    /\ responseChan' = <<>>
    /\ responder' = Idle
    /\ UNCHANGED <<online, taskVars, origin, log, delivered, answers, flips>>

ExecStep(e) ==
    \/ ExecLocks(e) \/ ExecFindsNothing(e) \/ ExecChecks(e) \/ ExecPutFails(e)
    \/ ExecCreatesLog(e) \/ ExecPublishes(e) \/ ExecCommits(e) \/ ExecCommitFails(e)

HandlerStep ==
    HandlerTakes \/ HandlerRefuses \/ HandlerPublishes \/ HandlerFinds \/ HandlerSaves
    \/ HandlerLogFails

ResponderStep == ResponderLogs \/ ResponderClosesTask \/ ResponderFails

Next ==
    \/ \E t \in Tasks : CreateChecks(t) \/ CreateInserts(t) \/ Cancel(t)
    \/ \E e \in Executors : GoOnline(e) \/ ExecStep(e)
    \/ \E u \in Users : UserCreatesLog(u) \/ UserPublishes(u)
    \/ GoOffline
    \/ HandlerStep
    \/ DeviceAnswers
    \/ ResponderStep
    \/ Crash

Spec == Init /\ [][Next]_vars

\* Every goroutine is scheduled; the publish wait has a timeout.
Fairness ==
    /\ \A e \in Executors : WF_vars(ExecStep(e))
    /\ \A u \in Users : WF_vars(UserPublishes(u))
    /\ WF_vars(HandlerStep)
    /\ WF_vars(ResponderStep)

FairSpec == Spec /\ Fairness

-----------------------------------------------------------------------------
(* Properties.                                                              *)

\* Types, and the capacities of the two channels.
TypeOK ==
    /\ online \in BOOLEAN
    /\ ToSet(created) \subseteq Tasks
    /\ status \in [Tasks -> Statuses]
    /\ message \in [Tasks -> 0..Len(origin)]
    /\ \A p \in Putters : putting[p] \in 0..Len(origin) /\ (pc[p] = "publish" <=> putting[p] # 0)
    /\ \A e \in Executors : todo[e] \subseteq held[e] /\ held[e] \subseteq Tasks
    /\ Len(log) = Len(origin)
    /\ Len(commandChan) <= BusCap
    /\ Len(responseChan) <= ResponseCap
    /\ delivered \subseteq Msgs

\* As long as no transaction that had published was rolled back, an offline
\* command is put on the bus once, whatever executors overlap, and a
\* cancelled command was never put there (offline_command.go:281, :250).
SentOnceUnlessLost ==
    ~lost => \A t \in Tasks :
                 /\ Cardinality(MadeFor(t)) <= 1
                 /\ status[t] = "CANCELLED" => MadeFor(t) = {}

\* A task counts as executed only if a message made for this very task
\* reached the device (response.go:175).
SuccessIsOwn ==
    \A t \in Tasks :
        status[t] = "SUCCESS" => message[t] \in delivered \cap MadeFor(t)

\* Where a task is in its life while nobody has its row locked.
StageOf(s) ==
    CASE s = "none"      -> "absent"
      [] s = "PENDING"   -> "waiting"
      [] s = "SENT"      -> "sent"
      [] s = "SUCCESS"   -> "done"
      [] s = "FAILED"    -> "failed"
      [] s = "CANCELLED" -> "cancelled"

\* The life of every task implements OfflineTaskLifecycle: a task is taken
\* while an executor has its row locked.
Lifecycle == INSTANCE OfflineTaskLifecycle WITH
    stage <- [t \in Tasks |-> IF t \in Locked THEN "taken" ELSE StageOf(status[t])],
    sends <- [t \in Tasks |-> Cardinality(MadeFor(t))]

\* Offline commands are taken, sent, cancelled and answered only as
\* OfflineTaskLifecycle allows (offline_command.go, response.go:170-181).
ImplementsLifecycle == Lifecycle!Spec

\* Every command that has a log row leaves "0": the handler reports even a
\* command it could not encode (handler.go:70, :100, :121, :154, :159).
CommandsAreReported ==
    \A m \in 1..(MaxUserMsgs + MaxFlips * Cardinality(Tasks)) :
        (m \in Msgs /\ log[m] = "0") ~> (m \in Msgs /\ log[m] # "0")

\* A task a transaction has taken and not looked at yet is executed, unless
\* the device goes offline (offline_command.go:270, :296).
TakenIsServed ==
    \A e \in Executors, t \in Tasks :
        (pc[e] = "check" /\ t \in todo[e]) ~> (status[t] # "PENDING" \/ ~online)

\* Offline commands are "stored while the device is offline and sent once it
\* is online" (model/offline_command_tasks.go:7): whatever is pending when a
\* reconnect starts its executor is served unless the device leaves again.
ReconnectServes ==
    \A e \in Executors, t \in Tasks :
        (pc[e] = "lock" /\ status[t] = "PENDING") ~> (status[t] # "PENDING" \/ ~online)

\* The same sentence as a promise about the device: it does not stay online
\* with a command still pending.
OnlineDrainsPending ==
    \A t \in Tasks :
        (online /\ status[t] = "PENDING") ~> (status[t] # "PENDING" \/ ~online)

Answered(m) == log[m] \in {"3", "4"}

\* Once the log shows the device's answer ("3" success, "4" failure,
\* response.go:143) it does not go back to "1" sent or "2" failed to send
\* (handler.go:195).
AnswerSticks ==
    [][\A m \in Msgs : Answered(m) => log'[m] \in {"3", "4"}]_vars

\* Once the answer to a command is in the log and nobody is working on the
\* task any more, the task has it too (response.go:170).
TaskFollowsLog ==
    responder.pc = "idle" =>
        \A t \in Tasks \ Locked, m \in Msgs :
            (origin[m] = t /\ Answered(m)) => status[t] \in {"SUCCESS", "FAILED"}
=============================================================================
