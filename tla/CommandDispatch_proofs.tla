----------------------- MODULE CommandDispatch_proofs -----------------------
(***************************************************************************)
(* Proofs about CommandDispatch, for every set of offline commands, of     *)
(* executors and of API requests, every limit and capacity, and with any   *)
(* number of restarts and database errors.                                 *)
(***************************************************************************)
EXTENDS CommandDispatch, TLAPS, SequenceTheorems, FiniteSetTheorems

Sources  == Tasks \cup {"user"}
Drafts   == [task : Tasks, status : {"SENT", "FAILED"}, msg : Nat]
Answer   == [msg : Nat, result : {"3", "4"}]
LogCodes == {"none", "0", "1", "2", "3", "4"}
Workers  == [pc : {"idle", "send", "find", "save", "task"}, msg : Nat,
             result : {"", "1", "2", "3", "4"}]

\* The executor is between BEGIN and the end of its transaction.
Inside == {"check", "put", "publish", "commit"}

-----------------------------------------------------------------------------
(* Types.                                                                   *)

TableTypes ==
    /\ online \in BOOLEAN
    /\ created \in Seq(Tasks)
    /\ status \in [Tasks -> Statuses]
    /\ message \in [Tasks -> 0..Len(origin)]

ExecTypes ==
    /\ pc \in [Putters -> {"idle", "lock"} \cup Inside]
    /\ held \in [Executors -> SUBSET Tasks]
    /\ todo \in [Executors -> SUBSET Tasks]
    /\ draft \in [Executors -> SUBSET Drafts]
    /\ putting \in [Putters -> 0..Len(origin)]

LogTypes ==
    /\ origin \in Seq(Sources)
    /\ log \in Seq(LogCodes)
    /\ Len(log) = Len(origin)
    /\ delivered \subseteq 1..Len(origin)

BusTypes ==
    /\ commandChan \in Seq(1..Len(origin))
    /\ handler \in Workers
    /\ handler.msg \in 0..Len(origin)
    /\ handler.pc # "idle" => handler.msg # 0
    /\ handler.pc \in {"find", "save"} => handler.result \in {"1", "2"}

AnswerTypes ==
    /\ responseChan \in Seq(Answer)
    /\ \A i \in DOMAIN responseChan : responseChan[i].msg \in delivered
    /\ responder \in Workers
    /\ responder.pc \in {"idle", "task"}
    /\ responder.pc = "task" => responder.msg \in delivered

CountTypes ==
    /\ flips \in Nat
    /\ answers \in Nat
    /\ lost \in BOOLEAN

Types == TableTypes /\ ExecTypes /\ LogTypes /\ BusTypes /\ AnswerTypes /\ CountTypes

Capacities == Len(commandChan) <= BusCap /\ Len(responseChan) <= ResponseCap

-----------------------------------------------------------------------------
(* Transactions.                                                            *)

\* What an executor holds while it is inside its transaction and not otherwise.
HoldInv == \A e \in Executors :
    /\ pc[e] \notin Inside => held[e] = {} /\ todo[e] = {} /\ draft[e] = {}
    /\ todo[e] \subseteq held[e]
    /\ \A f \in Executors : e # f => held[e] \cap held[f] = {}

PutInv == \A p \in Putters :
    /\ pc[p] = "publish" <=> putting[p] # 0
    /\ p \in Users => pc[p] \in {"idle", "publish"}
    /\ p \in Executors /\ putting[p] # 0 => origin[putting[p]] \in Foremost(p)

\* Each task has at most one drafted update, and is done with; what a draft calls
\* sent has its own message.
DraftInv == \A e \in Executors : \A d \in draft[e] :
    /\ d.task \in held[e] \ todo[e]
    /\ \A c \in draft[e] : c.task = d.task => c = d
    /\ d.status = "SENT" => d.msg \in MadeFor(d.task)
    /\ d.status = "FAILED" => d.msg = 0

\* A locked row stays pending, and only a row that was sent carries a message,
\* its own.
RowInv == \A t \in Tasks :
    /\ t \in Locked => status[t] = "PENDING"
    /\ status[t] # "none" => t \in ToSet(created)
    /\ message[t] # 0 => status[t] \in {"SENT", "SUCCESS", "FAILED"} /\ message[t] \in MadeFor(t)

SuccessInv == \A t \in Tasks : status[t] = "SUCCESS" => message[t] \in delivered

\* Who answers for a message made for t: the executor that has just made it, the
\* draft that says so, or the row.
SentBy(e, t) == \/ putting[e] # 0 /\ origin[putting[e]] = t
                \/ \E d \in draft[e] : d.task = t /\ d.status = "SENT"

OnceInv == ~lost => \A t \in Tasks :
    /\ \A m, n \in MadeFor(t) : m = n
    /\ MadeFor(t) # {} => \/ \E e \in Executors : t \in held[e] /\ SentBy(e, t)
                          \/ t \notin Locked /\ status[t] \in {"SENT", "SUCCESS", "FAILED"}

Inv ==
    /\ Types
    /\ Capacities
    /\ HoldInv
    /\ PutInv
    /\ DraftInv
    /\ RowInv
    /\ SuccessInv

-----------------------------------------------------------------------------
LEMMA InitInv == Init => Inv /\ OnceInv
<1> SUFFICES ASSUME Init PROVE Inv /\ OnceInv
  OBVIOUS
<1>1. Len(origin) = 0 /\ Msgs = {} /\ Locked = {}
  BY DEF Init, Msgs, Locked
<1>2. TableTypes
  <2>1. online \in BOOLEAN
    BY Zenon DEF Init
  <2>2. created \in Seq(Tasks) /\ status \in [Tasks -> Statuses]
        /\ message \in [Tasks -> 0..Len(origin)]
    BY <1>1 DEF Init, Statuses
  <2> QED BY <2>1, <2>2 DEF TableTypes
<1>3. ExecTypes /\ LogTypes
  BY <1>1 DEF Init, ExecTypes, LogTypes, Inside
<1>4. BusTypes /\ AnswerTypes /\ Capacities
  <2>1. Idle \in Workers /\ Idle.pc = "idle" /\ Idle.msg = 0
    BY DEF Idle, Workers
  <2>2. handler = Idle /\ responder = Idle /\ commandChan = <<>> /\ responseChan = <<>>
    BY DEF Init
  <2>3. Len(commandChan) = 0 /\ Len(responseChan) = 0 /\ DOMAIN responseChan = {}
    BY <2>2
  <2> QED
    BY <1>1, <2>1, <2>2, <2>3, CommandAssumption DEF BusTypes, AnswerTypes, Capacities
<1>5. CountTypes
  BY DEF Init, CountTypes
<1>6. HoldInv /\ PutInv /\ DraftInv
  BY DEF Init, HoldInv, PutInv, DraftInv, Inside, Putters
<1>7. RowInv /\ SuccessInv
  BY <1>1 DEF Init, RowInv, SuccessInv
<1>8. OnceInv
  BY <1>1 DEF OnceInv, MadeFor
<1> QED
  BY <1>2, <1>3, <1>4, <1>5, <1>6, <1>7, <1>8 DEF Inv, Types

\* A new message keeps what is said of the messages before it.
LEMMA NewMessage ==
  ASSUME Types, NEW p \in Putters, NEW o \in Sources, CreateLog(p, o)
  PROVE  /\ origin' \in Seq(Sources) /\ log' \in Seq(LogCodes)
         /\ Len(origin) \in Nat /\ Len(origin') = Len(origin) + 1
         /\ Len(log') = Len(origin')
         /\ \A m \in 1..Len(origin) : origin'[m] = origin[m]
         /\ origin'[Len(origin) + 1] = o
         /\ Msgs = 1..Len(origin) /\ Msgs' = Msgs \cup {Len(origin) + 1}
         /\ putting' = [putting EXCEPT ![p] = Len(origin) + 1]
         /\ pc' = [pc EXCEPT ![p] = "publish"]
<1>1. origin \in Seq(Sources) /\ log \in Seq(LogCodes) /\ Len(log) = Len(origin)
  BY DEF Types, LogTypes
<1>2. PICK s \in {"0", "none"} : log' = Append(log, s)
  BY DEF CreateLog
<1>3. /\ origin' = Append(origin, o) /\ pc' = [pc EXCEPT ![p] = "publish"]
      /\ putting' = [putting EXCEPT ![p] = Len(origin) + 1]
  BY DEF CreateLog, GoTo
<1>4. /\ origin' \in Seq(Sources) /\ Len(origin') = Len(origin) + 1
      /\ \A m \in 1..Len(origin) : origin'[m] = origin[m]
      /\ origin'[Len(origin) + 1] = o
  BY <1>1, <1>3, AppendProperties
<1>5. log' \in Seq(LogCodes) /\ Len(log') = Len(log) + 1
  BY <1>1, <1>2, AppendProperties DEF LogCodes
<1>6. Msgs = 1..Len(origin) /\ Msgs' = 1..Len(origin') /\ Len(origin) \in Nat
  BY <1>1, <1>4 DEF Msgs
<1> QED
  BY <1>1, <1>3, <1>4, <1>5, <1>6
-----------------------------------------------------------------------------
(* What each part of the invariant depends on.                              *)

LEMMA SameTables ==
  ASSUME UNCHANGED <<online, created, status, message, origin>>, TableTypes
  PROVE  TableTypes'
  BY DEF TableTypes

LEMMA SameExecs ==
  ASSUME UNCHANGED <<execVars, origin>>, ExecTypes
  PROVE  ExecTypes'
  BY DEF ExecTypes, execVars

LEMMA SameLog ==
  ASSUME UNCHANGED <<origin, log, delivered>>, LogTypes
  PROVE  LogTypes'
  BY DEF LogTypes

LEMMA SameBus ==
  ASSUME UNCHANGED <<commandChan, handler, origin>>, BusTypes
  PROVE  BusTypes'
  BY DEF BusTypes

LEMMA SameAnswers ==
  ASSUME UNCHANGED <<responseChan, responder, delivered>>, AnswerTypes
  PROVE  AnswerTypes'
  BY DEF AnswerTypes

LEMMA SameCounts ==
  ASSUME UNCHANGED <<flips, answers, lost>>, CountTypes
  PROVE  CountTypes'
  BY DEF CountTypes

LEMMA SameCapacities ==
  ASSUME UNCHANGED <<commandChan, responseChan>>, Capacities
  PROVE  Capacities'
  BY DEF Capacities

LEMMA SameHold ==
  ASSUME UNCHANGED <<pc, held, todo, draft>>, HoldInv
  PROVE  HoldInv'
  BY DEF HoldInv

LEMMA SamePut ==
  ASSUME UNCHANGED <<pc, putting, origin, todo, created>>, PutInv
  PROVE  PutInv'
  BY DEF PutInv, Foremost, Before

LEMMA SameDraft ==
  ASSUME UNCHANGED <<held, todo, draft, origin>>, DraftInv
  PROVE  DraftInv'
  BY DEF DraftInv, MadeFor, Msgs

LEMMA SameRows ==
  ASSUME UNCHANGED <<held, status, created, message, origin>>, RowInv
  PROVE  RowInv'
  BY DEF RowInv, Locked, MadeFor, Msgs

LEMMA SameSuccess ==
  ASSUME UNCHANGED <<status, message>>, delivered \subseteq delivered', SuccessInv
  PROVE  SuccessInv'
  BY DEF SuccessInv

LEMMA SameOnce ==
  ASSUME UNCHANGED <<status, held, draft, putting, origin, lost>>, OnceInv
  PROVE  OnceInv'
  BY DEF OnceInv, SentBy, Locked, MadeFor, Msgs

-----------------------------------------------------------------------------
(* The steps.                                                               *)

LEMMA CreateChecksStep ==
  ASSUME Inv, NEW t \in Tasks, CreateChecks(t)
  PROVE  Inv' /\ (OnceInv => OnceInv')
<1> USE DEF execVars, msgVars, respVars, taskVars, Inv, Types
<1>1. /\ UNCHANGED <<online, status, message, execVars, msgVars, respVars, flips, lost>>
      /\ t \notin ToSet(created) /\ created' = Append(created, t)
      /\ created \in Seq(Tasks)
  BY DEF CreateChecks, TableTypes
<1>2. /\ created' \in Seq(Tasks) /\ Len(created) \in Nat
      /\ Len(created') = Len(created) + 1
      /\ \A i \in 1..Len(created) : created'[i] = created[i]
      /\ created'[Len(created) + 1] = t
  BY <1>1, AppendProperties
<1>3. DOMAIN created = 1..Len(created) /\ DOMAIN created' = 1..(Len(created) + 1)
  BY <1>1, <1>2
<1>4. ToSet(created) \subseteq ToSet(created')
  BY <1>2, <1>3 DEF ToSet
<1>5. TableTypes' /\ RowInv'
  BY <1>1, <1>2, <1>4 DEF TableTypes, RowInv, Locked, MadeFor, Msgs
<1>6. PutInv'
  <2>1. ASSUME NEW e \in Executors PROVE Foremost(e) \subseteq Foremost(e)'
    <3>1. ASSUME NEW r \in todo[e], NEW s \in todo[e], Before(r, s)' PROVE Before(r, s)
      <4>1. PICK i, j \in DOMAIN created' : i < j /\ created'[i] = r /\ created'[j] = s
        BY <3>1 DEF Before
      <4>2. s # t
        BY <1>1 DEF HoldInv, RowInv, Locked, ExecTypes
      <4>3. j # Len(created) + 1
        BY <1>2, <4>1, <4>2
      <4>4. i \in DOMAIN created /\ j \in DOMAIN created
        BY <1>2, <1>3, <4>1, <4>3
      <4> QED BY <1>2, <1>3, <4>1, <4>4 DEF Before
    <3> QED BY <1>1, <3>1 DEF Foremost
  <2> QED BY <1>1, <2>1 DEF PutInv
<1> QED
  BY <1>1, <1>5, <1>6, SameExecs, SameLog, SameBus, SameAnswers, SameCounts, SameCapacities,
     SameHold, SameDraft, SameSuccess, SameOnce

LEMMA CreateInsertsStep ==
  ASSUME Inv, NEW t \in Tasks, CreateInserts(t)
  PROVE  Inv' /\ (OnceInv => OnceInv')
<1> USE DEF execVars, msgVars, respVars, taskVars, Inv, Types
<1>1. /\ UNCHANGED <<online, created, message, execVars, msgVars, respVars, flips, lost>>
      /\ t \in ToSet(created) /\ status[t] = "none"
      /\ status' = [status EXCEPT ![t] = "PENDING"] /\ status \in [Tasks -> Statuses]
  BY DEF CreateInserts, TableTypes
<1>2. TableTypes'
  BY <1>1 DEF TableTypes, Statuses
<1>3. RowInv' /\ SuccessInv'
  BY <1>1 DEF RowInv, SuccessInv, Locked, MadeFor, Msgs
<1>4. OnceInv => OnceInv'
  <2>1. \A r \in Tasks : status[r] \in {"SENT", "SUCCESS", "FAILED"} => status'[r] = status[r]
    BY <1>1
  <2>2. \A r \in Tasks : MadeFor(r)' = MadeFor(r)
    BY <1>1 DEF MadeFor, Msgs
  <2> QED BY <1>1, <2>1, <2>2 DEF OnceInv, SentBy, Locked
<1> QED
  BY <1>1, <1>2, <1>3, <1>4, SameExecs, SameLog, SameBus, SameAnswers, SameCounts, SameCapacities,
     SameHold, SamePut, SameDraft

LEMMA CancelStep ==
  ASSUME Inv, NEW t \in Tasks, Cancel(t)
  PROVE  Inv' /\ (OnceInv => OnceInv')
<1> USE DEF execVars, msgVars, respVars, taskVars, Inv, Types
<1>1. /\ UNCHANGED <<online, created, message, execVars, msgVars, respVars, flips, lost>>
      /\ t \notin Locked /\ status[t] = "PENDING"
      /\ status' = [status EXCEPT ![t] = "CANCELLED"] /\ status \in [Tasks -> Statuses]
  BY DEF Cancel, Cancellable, TableTypes
<1>2. TableTypes'
  BY <1>1 DEF TableTypes, Statuses
<1>3. RowInv' /\ SuccessInv'
  BY <1>1 DEF RowInv, SuccessInv, Locked, MadeFor, Msgs
<1>4. OnceInv => OnceInv'
  <2>1. \A r \in Tasks : status[r] \in {"SENT", "SUCCESS", "FAILED"} => status'[r] = status[r]
    BY <1>1
  <2>2. \A r \in Tasks : MadeFor(r)' = MadeFor(r)
    BY <1>1 DEF MadeFor, Msgs
  <2> QED BY <1>1, <2>1, <2>2 DEF OnceInv, SentBy, Locked
<1> QED
  BY <1>1, <1>2, <1>3, <1>4, SameExecs, SameLog, SameBus, SameAnswers, SameCounts, SameCapacities,
     SameHold, SamePut, SameDraft
\* An executor that goes on without touching its transaction.
LEMMA ExecMoves ==
  ASSUME Inv, NEW e \in Executors, NEW l \in {"idle", "lock"} \cup Inside,
         pc' = [pc EXCEPT ![e] = l], pc[e] # "publish", l # "publish",
         l \in Inside <=> pc[e] \in Inside
  PROVE  /\ UNCHANGED <<held, todo, draft, putting, origin>> => ExecTypes'
         /\ UNCHANGED <<held, todo, draft>> => HoldInv'
         /\ UNCHANGED <<putting, origin, todo, created>> => PutInv'
<1> USE DEF Inv, Types
<1>1. e \in Putters /\ e \notin Users /\ pc \in [Putters -> {"idle", "lock"} \cup Inside]
  BY CommandAssumption DEF Putters, ExecTypes
<1>2. UNCHANGED <<held, todo, draft, putting, origin>> => ExecTypes'
  BY <1>1 DEF ExecTypes
<1>3. UNCHANGED <<held, todo, draft>> => HoldInv'
  BY <1>1 DEF HoldInv, Putters
<1>4. UNCHANGED <<putting, origin, todo, created>> => PutInv'
  BY <1>1 DEF PutInv, Foremost, Before
<1> QED
  BY <1>2, <1>3, <1>4

LEMMA OnlineStep ==
  ASSUME Inv, (\E e \in Executors : GoOnline(e)) \/ GoOffline
  PROVE  Inv' /\ (OnceInv => OnceInv')
<1> USE DEF execVars, msgVars, respVars, taskVars, Inv, Types
<1>1. UNCHANGED <<taskVars, held, todo, draft, putting, msgVars, respVars, lost>>
      /\ flips' = flips + 1
  BY DEF GoOnline, GoOffline
<1>2. online' \in BOOLEAN
  BY Zenon DEF GoOnline, GoOffline
<1>3. TableTypes' /\ CountTypes'
  BY <1>1, <1>2 DEF TableTypes, CountTypes
<1>4. ExecTypes' /\ HoldInv' /\ PutInv'
  <2>1. ASSUME NEW e \in Executors, GoOnline(e) PROVE ExecTypes' /\ HoldInv' /\ PutInv'
    <3>1. pc' = [pc EXCEPT ![e] = "lock"] /\ pc[e] = "idle"
      BY <2>1 DEF GoOnline, GoTo
    <3> QED BY <1>1, <3>1, ExecMoves DEF Inside
  <2>2. ASSUME GoOffline PROVE ExecTypes' /\ HoldInv' /\ PutInv'
    <3>1. pc' = pc
      BY <2>2 DEF GoOffline
    <3> QED BY <1>1, <3>1, SameExecs, SameHold, SamePut
  <2> QED BY <2>1, <2>2
<1> QED
  BY <1>1, <1>3, <1>4, SameLog, SameBus, SameAnswers, SameCapacities, SameDraft, SameRows,
     SameSuccess, SameOnce

LEMMA ExecLooksStep ==
  ASSUME Inv, NEW e \in Executors, ExecFindsNothing(e) \/ ExecChecks(e)
  PROVE  Inv' /\ (OnceInv => OnceInv')
<1> USE DEF execVars, msgVars, respVars, taskVars, Inv, Types
<1>1. UNCHANGED <<online, taskVars, held, todo, draft, putting, msgVars, respVars, flips, lost>>
  BY DEF ExecFindsNothing, ExecChecks
<1>2. PICK l \in {"idle", "put", "commit"} :
        /\ pc' = [pc EXCEPT ![e] = l]
        /\ l = "idle" => pc[e] = "lock"
        /\ l # "idle" => pc[e] = "check"
  BY DEF ExecFindsNothing, ExecChecks, GoTo
<1>3. ExecTypes' /\ HoldInv' /\ PutInv'
  BY <1>1, <1>2, ExecMoves DEF Inside
<1> QED
  BY <1>1, <1>3, SameTables, SameLog, SameBus, SameAnswers, SameCounts, SameCapacities, SameDraft,
     SameRows, SameSuccess, SameOnce

\* Taking the rows.
LEMMA ExecLocksStep ==
  ASSUME Inv, NEW e \in Executors, ExecLocks(e)
  PROVE  Inv' /\ (OnceInv => OnceInv')
<1> USE DEF execVars, msgVars, respVars, taskVars, Inv, Types
<1>1. /\ UNCHANGED <<online, taskVars, draft, putting, msgVars, respVars, flips, lost>>
      /\ pc[e] = "lock"
      /\ todo' = [todo EXCEPT ![e] = Batch] /\ held' = [held EXCEPT ![e] = Batch]
  BY DEF ExecLocks
<1>2. PICK l \in {"idle", "check"} :
        pc' = [pc EXCEPT ![e] = l] /\ (l = "idle" => Batch = {})
  BY DEF ExecLocks, GoTo
<1>3. /\ e \in Putters /\ e \notin Users
      /\ pc \in [Putters -> {"idle", "lock"} \cup Inside]
      /\ held \in [Executors -> SUBSET Tasks] /\ todo \in [Executors -> SUBSET Tasks]
  BY CommandAssumption DEF Putters, ExecTypes
<1>4. \A t \in Batch : t \in Tasks /\ status[t] = "PENDING" /\ t \notin Locked
  BY DEF Batch, Available, ToSet, TableTypes
<1>5. held[e] = {} /\ todo[e] = {} /\ draft[e] = {} /\ putting[e] = 0
  BY <1>1, <1>3 DEF HoldInv, PutInv, Inside
<1>6. ExecTypes'
  BY <1>1, <1>2, <1>3, <1>4 DEF ExecTypes, Inside
<1>7. HoldInv'
  <2>1. \A f \in Executors \ {e} : pc'[f] = pc[f] /\ held'[f] = held[f] /\ todo'[f] = todo[f]
    BY <1>1, <1>2, <1>3 DEF Putters
  <2>2. pc'[e] = l /\ held'[e] = Batch /\ todo'[e] = Batch /\ draft'[e] = {}
    BY <1>1, <1>2, <1>3, <1>5
  <2>3. \A f \in Executors : held[f] \cap Batch = {}
    BY <1>4 DEF Locked
  <2>4. draft' = draft
    BY <1>1
  <2> QED BY <1>2, <2>1, <2>2, <2>3, <2>4 DEF HoldInv, Inside
<1>8. PutInv'
  BY <1>1, <1>2, <1>3, <1>5 DEF PutInv, Foremost, Before
<1>9. DraftInv'
  <2>1. \A f \in Executors : f # e => held'[f] = held[f] /\ todo'[f] = todo[f]
    BY <1>1, <1>3
  <2> QED BY <1>1, <1>5, <2>1 DEF DraftInv, MadeFor, Msgs
<1>10. Locked' = Locked \cup Batch
  <2>1. held'[e] = Batch /\ \A f \in Executors : f # e => held'[f] = held[f]
    BY <1>1, <1>3
  <2> QED BY <1>5, <2>1 DEF Locked
<1>11. RowInv'
  BY <1>1, <1>4, <1>10 DEF RowInv, MadeFor, Msgs
<1>12. OnceInv => OnceInv'
  <2>1. \A f \in Executors : f # e => held'[f] = held[f]
    BY <1>1, <1>3
  <2>2. UNCHANGED <<status, draft, putting, origin, lost>>
    BY <1>1
  <2> QED BY <1>4, <1>5, <1>10, <2>1, <2>2 DEF OnceInv, SentBy, MadeFor, Msgs
<1> QED
  BY <1>1, <1>6, <1>7, <1>8, <1>9, <1>11, <1>12, SameTables, SameLog, SameBus, SameAnswers,
     SameCounts, SameCapacities, SameSuccess

\* A task is refused.
LEMMA ExecPutFailsStep ==
  ASSUME Inv, NEW e \in Executors, ExecPutFails(e)
  PROVE  Inv' /\ (OnceInv => OnceInv')
<1> USE DEF execVars, msgVars, respVars, taskVars, Inv, Types
<1>1. /\ UNCHANGED <<online, taskVars, held, putting, msgVars, respVars, flips, lost>>
      /\ pc[e] = "put" /\ pc' = [pc EXCEPT ![e] = "check"]
  BY DEF ExecPutFails, GoTo
<1>2. PICK t \in Foremost(e) :
        /\ draft' = [draft EXCEPT ![e] = @ \cup {Drafted(t, "FAILED", 0)}]
        /\ todo' = [todo EXCEPT ![e] = @ \ {t}]
  BY DEF ExecPutFails, Refusal
<1>3. /\ e \in Putters /\ e \notin Users
      /\ pc \in [Putters -> {"idle", "lock"} \cup Inside]
      /\ held \in [Executors -> SUBSET Tasks] /\ todo \in [Executors -> SUBSET Tasks]
      /\ draft \in [Executors -> SUBSET Drafts]
      /\ t \in todo[e] /\ t \in held[e] /\ t \in Tasks
  BY CommandAssumption DEF Putters, ExecTypes, Foremost, HoldInv
<1> DEFINE d == Drafted(t, "FAILED", 0)
<1>4. d \in Drafts /\ d.task = t /\ d.status = "FAILED" /\ d.msg = 0
  BY <1>3 DEF Drafted, Drafts
<1> HIDE DEF d
<1>5. /\ draft'[e] = draft[e] \cup {d} /\ todo'[e] = todo[e] \ {t}
      /\ \A f \in Executors \ {e} : draft'[f] = draft[f] /\ todo'[f] = todo[f]
  BY <1>2, <1>3 DEF d
<1>6. ExecTypes'
  <2>1. draft' \in [Executors -> SUBSET Drafts] /\ todo' \in [Executors -> SUBSET Tasks]
    BY <1>2, <1>3, <1>4 DEF d
  <2> QED BY <1>1, <1>3, <2>1 DEF ExecTypes, Inside
<1>7. HoldInv'
  BY <1>1, <1>3, <1>5 DEF HoldInv, Inside, Putters
<1>8. PutInv'
  BY <1>1, <1>3, <1>5 DEF PutInv, Foremost, Before
<1>9. DraftInv'
  BY <1>1, <1>3, <1>4, <1>5 DEF DraftInv, MadeFor, Msgs
<1>10. OnceInv => OnceInv'
  <2>1. \A f \in Executors : draft[f] \subseteq draft'[f]
    BY <1>5
  <2> QED BY <1>1, <2>1 DEF OnceInv, SentBy, MadeFor, Msgs, Locked
<1> QED
  BY <1>1, <1>6, <1>7, <1>8, <1>9, <1>10, SameTables, SameLog, SameBus, SameAnswers,
     SameCounts, SameCapacities, SameRows, SameSuccess
\* A message is made, for a task the executor is at or for a user.
LEMMA CreateLogStep ==
  ASSUME Inv, NEW p \in Putters, NEW o \in Sources, CreateLog(p, o), pc[p] \in {"put", "idle"},
         \/ p \in Executors /\ pc[p] = "put" /\ o \in Foremost(p)
         \/ p \in Users /\ o = "user",
         UNCHANGED <<online, taskVars, held, todo, draft, commandChan, handler, delivered,
                     respVars, flips, lost>>
  PROVE  Inv' /\ (OnceInv => OnceInv')
<1> USE DEF respVars, taskVars, Inv, Types
<1> DEFINE n == Len(origin) + 1
<1>1. /\ origin' \in Seq(Sources) /\ log' \in Seq(LogCodes)
      /\ Len(origin) \in Nat /\ Len(origin') = n /\ Len(log') = Len(origin')
      /\ \A m \in 1..Len(origin) : origin'[m] = origin[m]
      /\ origin'[n] = o
      /\ Msgs = 1..Len(origin) /\ Msgs' = Msgs \cup {n}
      /\ putting' = [putting EXCEPT ![p] = n] /\ pc' = [pc EXCEPT ![p] = "publish"]
  BY NewMessage
<1>2. /\ pc \in [Putters -> {"idle", "lock"} \cup Inside]
      /\ putting \in [Putters -> 0..Len(origin)] /\ Executors \cap Users = {}
      /\ Executors \subseteq Putters
  BY CommandAssumption DEF ExecTypes, Putters
<1>3. TableTypes'
  BY <1>1 DEF TableTypes
<1>4. ExecTypes'
  BY <1>1, <1>2 DEF ExecTypes, Inside
<1>5. LogTypes'
  BY <1>1 DEF LogTypes
<1>6. BusTypes'
  <2>1. commandChan \in Seq(1..Len(origin'))
    BY <1>1 DEF BusTypes
  <2> QED BY <1>1, <2>1 DEF BusTypes
<1>7. HoldInv'
  BY <1>1, <1>2 DEF HoldInv, Inside
<1>8. PutInv'
  <2>1. n # 0 /\ pc'[p] = "publish" /\ putting'[p] = n /\ origin'[putting'[p]] = o
    BY <1>1, <1>2
  <2>2. ASSUME NEW q \in Putters, q # p
        PROVE  pc'[q] = pc[q] /\ putting'[q] = putting[q]
               /\ (putting[q] # 0 => origin'[putting[q]] = origin[putting[q]])
    BY <1>1, <1>2, <2>2
  <2>3. \A q \in Executors : Foremost(q)' = Foremost(q)
    BY DEF Foremost, Before
  <2> QED BY <1>2, <2>1, <2>2, <2>3 DEF PutInv
<1>9. \A t : /\ MadeFor(t)' = MadeFor(t) \cup {m \in {n} : t = o}
            /\ MadeFor(t) \subseteq 1..Len(origin)
  BY <1>1 DEF MadeFor
<1>10. DraftInv'
  BY <1>9 DEF DraftInv
<1>11. RowInv'
  BY <1>9 DEF RowInv, Locked
<1>12. OnceInv => OnceInv'
  <2> SUFFICES ASSUME OnceInv, ~lost, NEW t \in Tasks
               PROVE  /\ \A k, m \in MadeFor(t)' : k = m
                      /\ MadeFor(t)' # {} =>
                           \/ \E e \in Executors : t \in held[e] /\ SentBy(e, t)'
                           \/ t \notin Locked /\ status[t] \in {"SENT", "SUCCESS", "FAILED"}
    BY DEF OnceInv, Locked
  <2>1. ASSUME NEW e \in Executors, SentBy(e, t) PROVE SentBy(e, t)'
    <3>1. CASE putting[e] # 0 /\ origin[putting[e]] = t
      <4>1. e # p
        <5>1. pc[e] = "publish"
          BY <1>2, <3>1 DEF PutInv
        <5> QED BY <5>1
      <4>2. putting'[e] = putting[e] /\ putting[e] \in 1..Len(origin)
        BY <1>1, <1>2, <3>1, <4>1
      <4> QED BY <1>1, <3>1, <4>2 DEF SentBy
    <3>2. CASE \E d \in draft[e] : d.task = t /\ d.status = "SENT"
      BY <3>2 DEF SentBy
    <3> QED BY <2>1, <3>1, <3>2 DEF SentBy
  <2>2. CASE t # o
    BY <1>9, <2>1, <2>2 DEF OnceInv
  <2>3. CASE t = o
    <3>1. p \in Executors /\ pc[p] = "put" /\ t \in todo[p] /\ t \in held[p] /\ putting[p] = 0
      BY <1>2, <2>3, CommandAssumption DEF Foremost, HoldInv, PutInv
    <3>2. ~(\E e \in Executors : t \in held[e] /\ SentBy(e, t))
      <4> SUFFICES ASSUME NEW e \in Executors, t \in held[e], SentBy(e, t) PROVE FALSE
        OBVIOUS
      <4>1. e = p
        BY <3>1 DEF HoldInv
      <4>2. PICK d \in draft[p] : d.task = t
        BY <3>1, <4>1 DEF SentBy
      <4> QED BY <3>1, <4>1, <4>2 DEF DraftInv
    <3>3. t \in Locked
      BY <3>1 DEF Locked
    <3>4. MadeFor(t) = {}
      BY <3>2, <3>3 DEF OnceInv
    <3>5. MadeFor(t)' = {n}
      BY <1>9, <2>3, <3>4
    <3>6. SentBy(p, t)'
      <4>1. putting'[p] = n /\ origin'[n] = t
        BY <1>1, <1>2, <2>3
      <4> QED BY <1>1, <4>1 DEF SentBy
    <3> QED BY <3>1, <3>5, <3>6
  <2> QED BY <2>2, <2>3
<1> QED
  BY <1>3, <1>4, <1>5, <1>6, <1>7, <1>8, <1>10, <1>11, <1>12, SameAnswers, SameCounts,
     SameCapacities, SameSuccess

LEMMA ExecCreatesLogStep ==
  ASSUME Inv, NEW e \in Executors, ExecCreatesLog(e)
  PROVE  Inv' /\ (OnceInv => OnceInv')
<1>1. PICK t \in Foremost(e) : CreateLog(e, t)
  BY DEF ExecCreatesLog
<1>2. e \in Putters /\ t \in Sources
  BY DEF Putters, Sources, Foremost, Inv, Types, ExecTypes
<1> QED
  BY <1>1, <1>2, CreateLogStep DEF ExecCreatesLog

LEMMA UserCreatesLogStep ==
  ASSUME Inv, NEW u \in Users, UserCreatesLog(u)
  PROVE  Inv' /\ (OnceInv => OnceInv')
<1>1. u \in Putters /\ "user" \in Sources
  BY DEF Putters, Sources
<1> QED
  BY <1>1, CreateLogStep DEF UserCreatesLog

\* The loop has one task at a time.
LEMMA ForemostIsOne ==
  ASSUME Inv, NEW e \in Executors, NEW r \in Foremost(e), NEW t \in Foremost(e)
  PROVE  r = t
<1>1. r \in todo[e] /\ t \in todo[e] /\ ~Before(r, t) /\ ~Before(t, r)
  BY DEF Foremost
<1>2. r \in Locked /\ t \in Locked /\ r \in Tasks /\ t \in Tasks
  BY <1>1 DEF Inv, Types, ExecTypes, HoldInv, Locked
<1>3. r \in ToSet(created) /\ t \in ToSet(created)
  BY <1>2 DEF Inv, RowInv
<1>4. PICK i, j \in DOMAIN created : created[i] = r /\ created[j] = t
  BY <1>3 DEF ToSet
<1>5. DOMAIN created \subseteq Int
  BY DEF Inv, Types, TableTypes
<1>6. ~(i < j) /\ ~(j < i)
  BY <1>1, <1>4 DEF Before
<1> QED
  BY <1>4, <1>5, <1>6

\* A message reaches the bus.
LEMMA PublishStep ==
  ASSUME Inv, NEW p \in Putters, Publish(p)
  PROVE  /\ commandChan' \in Seq(1..Len(origin)) /\ Len(commandChan') <= BusCap
         /\ putting[p] \in 1..Len(origin)
         /\ putting' = [putting EXCEPT ![p] = 0]
<1>1. pc[p] = "publish" /\ HasRoom /\ commandChan' = Append(commandChan, putting[p])
      /\ putting' = [putting EXCEPT ![p] = 0]
  BY DEF Publish
<1>2. putting[p] \in 1..Len(origin) /\ commandChan \in Seq(1..Len(origin))
  <2>1. putting[p] # 0 /\ putting[p] \in 0..Len(origin)
    BY <1>1 DEF Inv, Types, PutInv, ExecTypes
  <2>2. Len(origin) \in Nat
    BY DEF Inv, Types, LogTypes
  <2> QED BY <2>1, <2>2 DEF Inv, Types, BusTypes
<1>3. commandChan' \in Seq(1..Len(origin)) /\ Len(commandChan') = Len(commandChan) + 1
  BY <1>1, <1>2, AppendProperties
<1>4. Len(commandChan) \in Nat /\ Len(commandChan) < BusCap /\ BusCap \in Nat
  BY <1>1, <1>2, CommandAssumption DEF HasRoom
<1> QED
  BY <1>1, <1>2, <1>3, <1>4

LEMMA UserPublishesStep ==
  ASSUME Inv, NEW u \in Users, UserPublishes(u)
  PROVE  Inv' /\ (OnceInv => OnceInv')
<1> USE DEF respVars, taskVars, Inv, Types
<1>1. /\ UNCHANGED <<online, taskVars, held, todo, draft, origin, log, handler, delivered,
                     respVars, flips, lost>>
      /\ pc' = [pc EXCEPT ![u] = "idle"] /\ Publish(u)
  BY DEF UserPublishes, GoTo
<1>2. /\ u \in Putters /\ u \notin Executors /\ Executors \subseteq Putters
      /\ pc \in [Putters -> {"idle", "lock"} \cup Inside]
      /\ putting \in [Putters -> 0..Len(origin)]
  BY CommandAssumption DEF Putters, ExecTypes
<1>3. /\ commandChan' \in Seq(1..Len(origin)) /\ Len(commandChan') <= BusCap
      /\ putting' = [putting EXCEPT ![u] = 0]
  BY <1>1, <1>2, PublishStep
<1>4. BusTypes' /\ Capacities'
  BY <1>1, <1>3 DEF BusTypes, Capacities
<1>5. ExecTypes'
  <2>1. Len(origin) \in Nat
    BY DEF LogTypes
  <2> QED BY <1>1, <1>2, <1>3, <2>1 DEF ExecTypes
<1>6. \A e \in Executors : pc'[e] = pc[e] /\ putting'[e] = putting[e]
  BY <1>1, <1>2, <1>3
<1>7. HoldInv'
  BY <1>1, <1>6 DEF HoldInv
<1>8. PutInv'
  BY <1>1, <1>2, <1>3 DEF PutInv, Foremost, Before
<1>9. OnceInv => OnceInv'
  BY <1>1, <1>6 DEF OnceInv, SentBy, Locked, MadeFor, Msgs
<1> QED
  BY <1>1, <1>4, <1>5, <1>7, <1>8, <1>9, SameTables, SameLog, SameAnswers, SameCounts,
     SameDraft, SameRows, SameSuccess

LEMMA ExecPublishesStep ==
  ASSUME Inv, NEW e \in Executors, ExecPublishes(e)
  PROVE  Inv' /\ (OnceInv => OnceInv')
<1> USE DEF respVars, taskVars, Inv, Types
<1>1. /\ UNCHANGED <<online, taskVars, held, origin, log, handler, delivered, respVars, flips,
                     lost>>
      /\ pc' = [pc EXCEPT ![e] = "check"] /\ Publish(e) /\ pc[e] = "publish"
  BY DEF ExecPublishes, Publish, GoTo
<1>2. /\ e \in Putters /\ e \notin Users /\ Executors \subseteq Putters
      /\ pc \in [Putters -> {"idle", "lock"} \cup Inside]
      /\ putting \in [Putters -> 0..Len(origin)]
      /\ held \in [Executors -> SUBSET Tasks] /\ todo \in [Executors -> SUBSET Tasks]
      /\ draft \in [Executors -> SUBSET Drafts] /\ Len(origin) \in Nat
  BY CommandAssumption DEF Putters, ExecTypes, LogTypes
<1>3. /\ commandChan' \in Seq(1..Len(origin)) /\ Len(commandChan') <= BusCap
      /\ putting[e] \in 1..Len(origin) /\ putting' = [putting EXCEPT ![e] = 0]
  BY <1>1, <1>2, PublishStep
<1>4. PICK t \in Foremost(e) :
        /\ draft' = [draft EXCEPT ![e] = @ \cup {Drafted(t, "SENT", putting[e])}]
        /\ todo' = [todo EXCEPT ![e] = @ \ {t}]
  BY DEF ExecPublishes
<1>5. t \in todo[e] /\ t \in held[e] /\ t \in Tasks
  BY <1>2 DEF Foremost, HoldInv
<1>6. origin[putting[e]] = t
  <2>1. origin[putting[e]] \in Foremost(e)
    BY <1>2, <1>3 DEF PutInv
  <2> QED BY <1>4, <2>1, ForemostIsOne
<1> DEFINE d == Drafted(t, "SENT", putting[e])
<1>7. d \in Drafts /\ d.task = t /\ d.status = "SENT" /\ d.msg = putting[e]
  BY <1>2, <1>3, <1>5 DEF Drafted, Drafts
<1>8. putting[e] \in MadeFor(t)
  BY <1>3, <1>6 DEF MadeFor, Msgs, LogTypes
<1> HIDE DEF d
<1>9. /\ draft'[e] = draft[e] \cup {d} /\ todo'[e] = todo[e] \ {t}
      /\ \A f \in Executors \ {e} : draft'[f] = draft[f] /\ todo'[f] = todo[f]
  BY <1>2, <1>4 DEF d
<1>10. \A q \in Putters \ {e} : pc'[q] = pc[q] /\ putting'[q] = putting[q]
  BY <1>1, <1>2, <1>3
<1>11. pc'[e] = "check" /\ putting'[e] = 0
  BY <1>1, <1>2, <1>3
<1>12. ExecTypes'
  <2>1. draft' \in [Executors -> SUBSET Drafts] /\ todo' \in [Executors -> SUBSET Tasks]
    BY <1>2, <1>4, <1>7 DEF d
  <2>2. pc' \in [Putters -> {"idle", "lock"} \cup Inside]
        /\ putting' \in [Putters -> 0..Len(origin)]
    BY <1>1, <1>2, <1>3 DEF Inside
  <2> QED BY <1>1, <2>1, <2>2 DEF ExecTypes
<1>13. BusTypes' /\ Capacities'
  BY <1>1, <1>3 DEF BusTypes, Capacities
<1>14. HoldInv'
  BY <1>1, <1>2, <1>5, <1>9, <1>10, <1>11 DEF HoldInv, Inside
<1>15. PutInv'
  <2>1. \A f \in Executors \ {e} : Foremost(f)' = Foremost(f)
    BY <1>1, <1>9 DEF Foremost, Before
  <2> QED BY <1>1, <1>2, <1>10, <1>11, <2>1 DEF PutInv
<1>16. \A r : MadeFor(r)' = MadeFor(r)
  BY <1>1 DEF MadeFor, Msgs
<1>17. DraftInv'
  BY <1>1, <1>5, <1>7, <1>8, <1>9, <1>16 DEF DraftInv
<1>18. OnceInv => OnceInv'
  <2>1. ASSUME NEW r \in Tasks, NEW f \in Executors, SentBy(f, r) PROVE SentBy(f, r)'
    <3>1. CASE f = e
      <4>1. CASE r = t
        BY <1>7, <1>9, <3>1, <4>1 DEF SentBy
      <4>2. CASE r # t
        BY <1>6, <1>9, <2>1, <3>1, <4>2 DEF SentBy
      <4> QED BY <4>1, <4>2
    <3>2. CASE f # e
      BY <1>1, <1>2, <1>9, <1>10, <2>1, <3>2 DEF SentBy
    <3> QED BY <3>1, <3>2
  <2> QED BY <1>1, <1>16, <2>1 DEF OnceInv, Locked
<1> QED
  BY <1>1, <1>12, <1>13, <1>14, <1>15, <1>17, <1>18, SameTables, SameLog, SameAnswers,
     SameCounts, SameRows, SameSuccess

\* The end of a transaction, whatever becomes of its updates.
LEMMA EndStep ==
  ASSUME Inv, NEW e \in Executors, EndTransaction(e), pc[e] = "commit",
         UNCHANGED <<putting, origin, created>>
  PROVE  /\ ExecTypes' /\ HoldInv' /\ PutInv' /\ DraftInv'
         /\ Locked' = Locked \ held[e]
         /\ putting[e] = 0
         /\ held'[e] = {}
         /\ \A f \in Executors \ {e} : held'[f] = held[f] /\ draft'[f] = draft[f]
<1> USE DEF Inv, Types
<1>1. /\ e \in Putters /\ e \notin Users /\ Executors \subseteq Putters
      /\ pc \in [Putters -> {"idle", "lock"} \cup Inside]
      /\ held \in [Executors -> SUBSET Tasks] /\ todo \in [Executors -> SUBSET Tasks]
      /\ draft \in [Executors -> SUBSET Drafts]
  BY CommandAssumption DEF Putters, ExecTypes
<1>2. /\ held' = [held EXCEPT ![e] = {}] /\ todo' = [todo EXCEPT ![e] = {}]
      /\ draft' = [draft EXCEPT ![e] = {}] /\ pc' = [pc EXCEPT ![e] = "idle"]
  BY DEF EndTransaction, GoTo
<1>3. held'[e] = {} /\ todo'[e] = {} /\ draft'[e] = {} /\ pc'[e] = "idle"
  BY <1>1, <1>2
<1>4. /\ \A f \in Executors \ {e} :
           held'[f] = held[f] /\ todo'[f] = todo[f] /\ draft'[f] = draft[f] /\ pc'[f] = pc[f]
      /\ \A q \in Putters \ {e} : pc'[q] = pc[q]
  BY <1>1, <1>2
<1>5. putting[e] = 0
  BY <1>1 DEF PutInv
<1>6. ExecTypes'
  BY <1>1, <1>2 DEF ExecTypes
<1>7. HoldInv'
  BY <1>3, <1>4 DEF HoldInv
<1>8. PutInv'
  <2>1. \A f \in Executors \ {e} : Foremost(f)' = Foremost(f)
    BY <1>4 DEF Foremost, Before
  <2> QED BY <1>1, <1>3, <1>4, <1>5, <2>1 DEF PutInv
<1>9. DraftInv'
  BY <1>3, <1>4 DEF DraftInv, MadeFor, Msgs
<1>10. Locked' = Locked \ held[e]
  <2>1. \A f \in Executors \ {e} : held[e] \cap held[f] = {}
    BY DEF HoldInv
  <2> QED BY <1>3, <1>4, <2>1 DEF Locked
<1> QED
  BY <1>3, <1>4, <1>5, <1>6, <1>7, <1>8, <1>9, <1>10

\* A commit writes the drafted update of each task that has one.
LEMMA CommitWrites ==
  ASSUME Inv, NEW e \in Executors, ExecCommits(e), NEW t \in Tasks
  PROVE  \/ /\ \A d \in draft[e] : d.task # t
            /\ status'[t] = status[t] /\ message'[t] = message[t]
         \/ \E d \in draft[e] : d.task = t /\ status'[t] = d.status /\ message'[t] = d.msg
<1>1. CASE DraftOf(e, t) = {}
  BY <1>1 DEF ExecCommits, DraftOf
<1>2. CASE DraftOf(e, t) # {}
  <2> DEFINE c == CHOOSE d \in DraftOf(e, t) : TRUE
  <2>1. c \in DraftOf(e, t)
    BY <1>2
  <2>2. status'[t] = c.status /\ message'[t] = c.msg
    BY <1>2 DEF ExecCommits
  <2> QED BY <2>1, <2>2 DEF DraftOf
<1> QED BY <1>1, <1>2

LEMMA ExecCommitsStep ==
  ASSUME Inv, NEW e \in Executors, ExecCommits(e)
  PROVE  Inv' /\ (OnceInv => OnceInv')
<1> USE DEF msgVars, respVars, Inv, Types
<1>1. /\ UNCHANGED <<online, created, putting, msgVars, respVars, flips, lost>>
      /\ pc[e] = "commit" /\ EndTransaction(e)
  BY DEF ExecCommits
<1>2. /\ ExecTypes' /\ HoldInv' /\ PutInv' /\ DraftInv'
      /\ Locked' = Locked \ held[e]
      /\ putting[e] = 0
      /\ \A f \in Executors \ {e} : held'[f] = held[f] /\ draft'[f] = draft[f]
  BY <1>1, EndStep
<1>3. \A t : MadeFor(t)' = MadeFor(t)
  BY <1>1 DEF MadeFor, Msgs
<1>4. \A t \in Tasks :
        \/ /\ \A d \in draft[e] : d.task # t
           /\ status'[t] = status[t] /\ message'[t] = message[t]
        \/ \E d \in draft[e] : d.task = t /\ status'[t] = d.status /\ message'[t] = d.msg
  BY CommitWrites
<1>5. /\ \A d \in draft[e] : d \in Drafts /\ d.task \in held[e]
                             /\ (d.status = "SENT" => d.msg \in MadeFor(d.task))
                             /\ (d.status = "FAILED" => d.msg = 0)
                             /\ d.status \in {"SENT", "FAILED"}
      /\ \A d \in draft[e], c \in draft[e] : c.task = d.task => c = d
  BY DEF DraftInv, ExecTypes, Drafts
<1>6. \A t : MadeFor(t) \subseteq 1..Len(origin)
  BY DEF MadeFor, Msgs, LogTypes
<1>7. held[e] \subseteq Locked /\ \A t \in held[e] : status[t] = "PENDING" /\ t \in Tasks
  BY DEF Locked, RowInv, ExecTypes
<1>8. TableTypes'
  <2>1. \A t \in Tasks : status'[t] \in Statuses
    BY <1>4, <1>5 DEF TableTypes, Statuses
  <2>2. Len(origin) \in Nat
    BY DEF LogTypes
  <2>3. \A t \in Tasks : message'[t] \in 0..Len(origin)
    BY <1>4, <1>5, <1>6, <2>2 DEF TableTypes
  <2>4. /\ status' = [t \in Tasks |-> status'[t]]
        /\ message' = [t \in Tasks |-> message'[t]]
    BY DEF ExecCommits
  <2>5. status' \in [Tasks -> Statuses] /\ message' \in [Tasks -> 0..Len(origin)]
    BY <2>1, <2>3, <2>4
  <2> QED BY <1>1, <2>5 DEF TableTypes
<1>9. RowInv'
  <2> SUFFICES ASSUME NEW t \in Tasks
               PROVE  /\ t \in Locked' => status'[t] = "PENDING"
                      /\ status'[t] # "none" => t \in ToSet(created)
                      /\ message'[t] # 0 => status'[t] \in {"SENT", "SUCCESS", "FAILED"}
                                            /\ message'[t] \in MadeFor(t)
    BY <1>1, <1>3 DEF RowInv
  <2>1. CASE status'[t] = status[t] /\ message'[t] = message[t]
    BY <1>2, <2>1 DEF RowInv
  <2>2. CASE \E d \in draft[e] : d.task = t /\ status'[t] = d.status /\ message'[t] = d.msg
    BY <1>2, <1>5, <1>7, <2>2 DEF RowInv
  <2> QED BY <1>4, <2>1, <2>2
<1>10. SuccessInv'
  BY <1>1, <1>4, <1>5 DEF SuccessInv
<1>11. OnceInv => OnceInv'
  <2> SUFFICES ASSUME OnceInv, ~lost, NEW t \in Tasks, MadeFor(t) # {}
               PROVE  \/ \E f \in Executors : t \in held'[f] /\ SentBy(f, t)'
                      \/ t \notin Locked' /\ status'[t] \in {"SENT", "SUCCESS", "FAILED"}
    BY <1>1, <1>3 DEF OnceInv
  <2>1. ASSUME NEW f \in Executors, t \in held[f], SentBy(f, t), f # e
        PROVE  t \in held'[f] /\ SentBy(f, t)'
    BY <1>1, <1>2, <2>1 DEF SentBy
  <2>2. CASE t \in held[e] /\ SentBy(e, t)
    <3>1. PICK d \in draft[e] : d.task = t /\ d.status = "SENT"
      BY <1>2, <2>2 DEF SentBy
    <3>2. status'[t] = "SENT"
      BY <1>4, <1>5, <3>1
    <3> QED BY <1>2, <2>2, <3>2
  <2>3. CASE t \notin Locked /\ status[t] \in {"SENT", "SUCCESS", "FAILED"}
    BY <1>2, <1>4, <1>5, <1>7, <2>3
  <2> QED BY <2>1, <2>2, <2>3 DEF OnceInv
<1> QED
  BY <1>1, <1>2, <1>8, <1>9, <1>10, <1>11, SameLog, SameBus, SameAnswers, SameCounts,
     SameCapacities

LEMMA ExecCommitFailsStep ==
  ASSUME Inv, NEW e \in Executors, ExecCommitFails(e)
  PROVE  Inv' /\ (OnceInv => OnceInv')
<1> USE DEF taskVars, msgVars, respVars, Inv, Types
<1>1. /\ UNCHANGED <<online, taskVars, putting, msgVars, respVars, flips>>
      /\ pc[e] = "commit" /\ EndTransaction(e)
  BY DEF ExecCommitFails
<1>2. /\ ExecTypes' /\ HoldInv' /\ PutInv' /\ DraftInv'
      /\ Locked' = Locked \ held[e]
      /\ putting[e] = 0
      /\ \A f \in Executors \ {e} : held'[f] = held[f] /\ draft'[f] = draft[f]
  BY <1>1, EndStep
<1>3. \A t : MadeFor(t)' = MadeFor(t)
  BY <1>1 DEF MadeFor, Msgs
<1>4. lost' \in BOOLEAN /\ (~lost' => ~lost /\ ~HasSent(e))
  BY Zenon DEF ExecCommitFails
<1>5. CountTypes'
  BY <1>1, <1>4 DEF CountTypes
<1>6. RowInv'
  BY <1>1, <1>2, <1>3 DEF RowInv
<1>7. OnceInv => OnceInv'
  <2> SUFFICES ASSUME OnceInv, ~lost, ~HasSent(e), NEW t \in Tasks, MadeFor(t) # {}
               PROVE  \/ \E f \in Executors : t \in held'[f] /\ SentBy(f, t)'
                      \/ t \notin Locked' /\ status'[t] \in {"SENT", "SUCCESS", "FAILED"}
    BY <1>1, <1>3, <1>4 DEF OnceInv
  <2>1. ASSUME NEW f \in Executors, t \in held[f], SentBy(f, t)
        PROVE  t \in held'[f] /\ SentBy(f, t)'
    <3>1. f # e
      BY <1>2, <2>1 DEF SentBy, HasSent
    <3> QED BY <1>1, <1>2, <2>1, <3>1 DEF SentBy
  <2>2. CASE t \notin Locked /\ status[t] \in {"SENT", "SUCCESS", "FAILED"}
    BY <1>1, <1>2, <2>2
  <2> QED BY <2>1, <2>2 DEF OnceInv
<1> QED
  BY <1>1, <1>2, <1>5, <1>6, <1>7, SameTables, SameLog, SameBus, SameAnswers,
     SameCapacities, SameSuccess

\* A step of the handler leaves the tasks and the answers alone.
LEMMA HandlerFrame ==
  ASSUME Inv, BusTypes', LogTypes', Len(commandChan') <= BusCap, delivered \subseteq delivered',
         UNCHANGED <<online, taskVars, execVars, origin, respVars, flips, lost>>
  PROVE  Inv' /\ (OnceInv => OnceInv')
<1> USE DEF taskVars, execVars, respVars, Inv, Types
<1>1. AnswerTypes' /\ Capacities'
  BY DEF AnswerTypes, Capacities
<1> QED
  BY <1>1, SameTables, SameExecs, SameCounts, SameHold, SamePut, SameDraft, SameRows, SameSuccess,
     SameOnce

LEMMA HandlerTypes ==
  ASSUME Inv
  PROVE  /\ Idle \in Workers /\ Idle.pc = "idle" /\ Idle.msg = 0
         /\ Len(origin) \in Nat /\ handler \in Workers
<1>1. Idle \in Workers /\ Idle.pc = "idle" /\ Idle.msg = 0
  BY DEF Idle, Workers
<1>2. Len(origin) \in Nat
  BY DEF Inv, Types, LogTypes
<1>3. handler \in Workers
  BY DEF Inv, Types, BusTypes
<1> QED
  BY <1>1, <1>2, <1>3

LEMMA HandlerTakesStep ==
  ASSUME Inv, HandlerTakes
  PROVE  Inv' /\ (OnceInv => OnceInv')
<1>1. /\ commandChan # <<>> /\ commandChan' = Tail(commandChan)
      /\ handler' = [pc |-> "send", msg |-> Head(commandChan), result |-> ""]
      /\ UNCHANGED <<online, taskVars, execVars, origin, log, delivered, respVars, flips, lost>>
  BY DEF HandlerTakes
<1>2. commandChan \in Seq(1..Len(origin)) /\ Len(commandChan) <= BusCap
  BY DEF Inv, Types, BusTypes, Capacities
<1>3. /\ Head(commandChan) \in 1..Len(origin)
      /\ commandChan' \in Seq(1..Len(origin)) /\ Len(commandChan') = Len(commandChan) - 1
      /\ Len(commandChan) \in Nat
  <2>1. /\ Head(commandChan) \in 1..Len(origin) /\ Tail(commandChan) \in Seq(1..Len(origin))
        /\ Len(Tail(commandChan)) = Len(commandChan) - 1
    BY <1>1, <1>2, HeadTailProperties
  <2>2. commandChan' = Tail(commandChan)
    BY <1>1
  <2>3. Len(commandChan) \in Nat
    BY <1>2
  <2> QED BY <2>1, <2>2, <2>3
<1>4. BusTypes'
  <2>1. handler' \in Workers /\ handler'.pc = "send" /\ handler'.msg \in 1..Len(origin)
    <3>1. Head(commandChan) \in Nat
      BY <1>3, HandlerTypes
    <3> QED BY <1>1, <1>3, <3>1 DEF Workers
  <2>2. origin' = origin
    BY <1>1
  <2> QED BY <1>3, <2>1, <2>2, HandlerTypes DEF BusTypes
<1>5. LogTypes'
  BY <1>1, SameLog DEF Inv, Types
<1>6. Len(commandChan') <= BusCap
  BY <1>2, <1>3, CommandAssumption
<1> QED
  BY <1>1, <1>4, <1>5, <1>6, HandlerFrame

LEMMA HandlerSendsStep ==
  ASSUME Inv, HandlerRefuses \/ HandlerPublishes
  PROVE  Inv' /\ (OnceInv => OnceInv')
<1>1. /\ handler.pc = "send" /\ handler.msg \in 1..Len(origin)
      /\ UNCHANGED <<online, taskVars, execVars, origin, log, commandChan, respVars, flips, lost>>
  BY DEF HandlerRefuses, HandlerPublishes, Inv, Types, BusTypes
<1>2. PICK r \in {"1", "2"} : handler' = [handler EXCEPT !.pc = "find", !.result = r]
  BY DEF HandlerRefuses, HandlerPublishes, EncodeFailed, Reports
<1>3. handler' \in Workers /\ handler'.pc = "find" /\ handler'.msg = handler.msg
      /\ handler'.result = r
  BY <1>2, HandlerTypes DEF Workers
<1>4. BusTypes'
  BY <1>1, <1>3 DEF BusTypes, Inv, Types
<1>5. delivered \subseteq delivered' /\ delivered' \subseteq delivered \cup {handler.msg}
  BY DEF HandlerRefuses, HandlerPublishes
<1>6. LogTypes'
  BY <1>1, <1>5 DEF LogTypes, Inv, Types
<1> QED
  BY <1>1, <1>4, <1>5, <1>6, HandlerFrame DEF Inv, Capacities

LEMMA HandlerReportsStep ==
  ASSUME Inv, HandlerFinds \/ HandlerSaves \/ HandlerLogFails
  PROVE  Inv' /\ (OnceInv => OnceInv')
<1>1. UNCHANGED <<online, taskVars, execVars, origin, commandChan, delivered, respVars, flips,
                  lost>>
  BY DEF HandlerFinds, HandlerSaves, HandlerLogFails
<1>2. handler.msg \in 1..Len(origin) /\ handler.pc \in {"find", "save"}
      /\ handler.result \in {"1", "2"}
  BY HandlerTypes DEF HandlerFinds, HandlerSaves, HandlerLogFails, Inv, Types, BusTypes
<1>3. LogTypes'
  <2>1. log' = log \/ log' = [log EXCEPT ![handler.msg] = handler.result]
    BY DEF HandlerFinds, HandlerSaves, HandlerLogFails
  <2>2. log \in Seq(LogCodes) /\ Len(log) = Len(origin)
    BY DEF Inv, Types, LogTypes
  <2>3. handler.result \in LogCodes
    BY <1>2 DEF LogCodes
  <2>4. log' \in Seq(LogCodes) /\ Len(log') = Len(log)
    BY <1>2, <2>1, <2>2, <2>3
  <2> QED BY <1>1, <2>2, <2>4 DEF LogTypes, Inv, Types
<1>4. BusTypes'
  <2>1. handler' = Idle \/ handler' = [handler EXCEPT !.pc = "save"]
    BY DEF HandlerFinds, HandlerSaves, HandlerLogFails
  <2>2. CASE handler' = Idle
    BY <1>1, <2>2, HandlerTypes DEF BusTypes, Inv, Types
  <2>3. CASE handler' = [handler EXCEPT !.pc = "save"]
    <3>1. handler' \in Workers /\ handler'.pc = "save" /\ handler'.msg = handler.msg
          /\ handler'.result = handler.result
      BY <2>3, HandlerTypes DEF Workers
    <3> QED BY <1>1, <1>2, <3>1 DEF BusTypes, Inv, Types
  <2> QED BY <2>1, <2>2, <2>3
<1> QED
  BY <1>1, <1>3, <1>4, HandlerFrame DEF Inv, Capacities

\* A step that only touches the response channel and its goroutine.
LEMMA ResponderFrame ==
  ASSUME Inv, AnswerTypes', Len(responseChan') <= ResponseCap, LogTypes', answers' \in Nat,
         UNCHANGED <<online, taskVars, execVars, origin, commandChan, handler, delivered, flips,
                     lost>>
  PROVE  Inv' /\ (OnceInv => OnceInv')
<1> USE DEF taskVars, execVars, Inv, Types
<1>1. Capacities' /\ CountTypes'
  BY DEF Capacities, CountTypes
<1> QED
  BY <1>1, SameTables, SameExecs, SameBus, SameHold, SamePut, SameDraft, SameRows, SameSuccess,
     SameOnce

LEMMA DeviceAnswersStep ==
  ASSUME Inv, DeviceAnswers
  PROVE  Inv' /\ (OnceInv => OnceInv')
<1>1. /\ answers' = answers + 1
      /\ UNCHANGED <<online, taskVars, execVars, msgVars, responder, flips, lost>>
  BY DEF DeviceAnswers
<1>2. PICK m \in delivered, r \in {"3", "4"} :
        responseChan' = IF Len(responseChan) < ResponseCap
                        THEN Append(responseChan, [msg |-> m, result |-> r])
                        ELSE responseChan
  BY DEF DeviceAnswers
<1> DEFINE a == [msg |-> m, result |-> r]
<1>3. a \in Answer /\ a.msg \in delivered
  BY DEF Inv, Types, LogTypes, Answer
<1>4. /\ responseChan \in Seq(Answer) /\ Len(responseChan) <= ResponseCap
      /\ \A i \in DOMAIN responseChan : responseChan[i].msg \in delivered
      /\ Len(responseChan) \in Nat /\ ResponseCap \in Nat /\ answers \in Nat
  BY CommandAssumption DEF Inv, Types, AnswerTypes, Capacities, CountTypes
<1> HIDE DEF a
<1>5. /\ responseChan' \in Seq(Answer) /\ Len(responseChan') <= ResponseCap
      /\ \A i \in DOMAIN responseChan' : responseChan'[i].msg \in delivered
  <2>1. CASE responseChan' = responseChan
    BY <1>4, <2>1
  <2>2. CASE responseChan' = Append(responseChan, a) /\ Len(responseChan) < ResponseCap
    <3>1. /\ responseChan' \in Seq(Answer) /\ Len(responseChan') = Len(responseChan) + 1
          /\ \A i \in 1..Len(responseChan) : responseChan'[i] = responseChan[i]
          /\ responseChan'[Len(responseChan) + 1] = a
      BY <1>3, <1>4, <2>2, AppendProperties
    <3>2. DOMAIN responseChan' = 1..(Len(responseChan) + 1)
          /\ DOMAIN responseChan = 1..Len(responseChan)
      BY <1>4, <3>1
    <3>3. ASSUME NEW i \in DOMAIN responseChan' PROVE responseChan'[i].msg \in delivered
      <4>1. CASE i = Len(responseChan) + 1
        BY <1>3, <3>1, <4>1
      <4>2. CASE i \in 1..Len(responseChan)
        BY <1>4, <3>1, <3>2, <4>2
      <4> QED BY <1>4, <3>2, <4>1, <4>2
    <3> QED BY <1>4, <2>2, <3>1, <3>3
  <2> QED BY <1>2, <2>1, <2>2 DEF a
<1>6. AnswerTypes'
  BY <1>1, <1>5 DEF AnswerTypes, msgVars, Inv, Types
<1>7. LogTypes'
  BY <1>1, SameLog DEF msgVars, Inv, Types
<1> QED
  BY <1>1, <1>4, <1>5, <1>6, <1>7, ResponderFrame DEF msgVars

LEMMA ResponseTail ==
  ASSUME Inv, responseChan # <<>>
  PROVE  /\ Head(responseChan) \in Answer /\ Head(responseChan).msg \in delivered
         /\ Tail(responseChan) \in Seq(Answer) /\ Len(Tail(responseChan)) <= ResponseCap
         /\ \A i \in DOMAIN Tail(responseChan) : Tail(responseChan)[i].msg \in delivered
<1>1. /\ responseChan \in Seq(Answer) /\ Len(responseChan) <= ResponseCap
      /\ \A i \in DOMAIN responseChan : responseChan[i].msg \in delivered
      /\ Len(responseChan) \in Nat /\ ResponseCap \in Nat
  BY CommandAssumption DEF Inv, Types, AnswerTypes, Capacities
<1>2. /\ Head(responseChan) \in Answer /\ Tail(responseChan) \in Seq(Answer)
      /\ Len(Tail(responseChan)) = Len(responseChan) - 1
      /\ \A i \in 1..Len(Tail(responseChan)) : Tail(responseChan)[i] = responseChan[i + 1]
  BY <1>1, HeadTailProperties
<1>3. Len(responseChan) # 0 /\ Head(responseChan) = responseChan[1] /\ 1 \in DOMAIN responseChan
  BY <1>1
<1>4. ASSUME NEW i \in DOMAIN Tail(responseChan) PROVE Tail(responseChan)[i].msg \in delivered
  <2>1. i \in 1..Len(Tail(responseChan)) /\ i + 1 \in DOMAIN responseChan
    BY <1>1, <1>2
  <2> QED BY <1>1, <1>2, <2>1
<1> QED
  BY <1>1, <1>2, <1>3, <1>4

LEMMA ResponderLogsStep ==
  ASSUME Inv, ResponderLogs
  PROVE  Inv' /\ (OnceInv => OnceInv')
<1> DEFINE r == Head(responseChan)
<1>1. /\ responder.pc = "idle" /\ responseChan # <<>> /\ responseChan' = Tail(responseChan)
      /\ UNCHANGED <<online, taskVars, execVars, origin, commandChan, handler, delivered, answers,
                     flips, lost>>
  BY DEF ResponderLogs
<1>2. \/ UNCHANGED <<log, responder>>
      \/ /\ log' = [log EXCEPT ![r.msg] = r.result]
         /\ responder' = [pc |-> "task", msg |-> r.msg, result |-> r.result]
  BY DEF ResponderLogs
<1>3. r \in Answer /\ r.msg \in delivered
  BY <1>1, ResponseTail
<1> HIDE DEF r
<1>4. /\ responseChan' \in Seq(Answer) /\ Len(responseChan') <= ResponseCap
      /\ \A i \in DOMAIN responseChan' : responseChan'[i].msg \in delivered
  BY <1>1, ResponseTail
<1>5. r.msg \in Nat /\ r.result \in {"3", "4"}
  BY <1>3 DEF Answer
<1>6. AnswerTypes'
  <2>1. CASE responder' = responder
    BY <1>1, <1>4, <2>1 DEF AnswerTypes, Inv, Types
  <2>2. CASE responder' = [pc |-> "task", msg |-> r.msg, result |-> r.result]
    <3>1. responder' \in Workers /\ responder'.pc = "task" /\ responder'.msg \in delivered
      BY <1>3, <1>5, <2>2 DEF Workers
    <3> QED BY <1>1, <1>4, <3>1 DEF AnswerTypes
  <2> QED BY <1>2, <2>1, <2>2
<1>7. LogTypes'
  <2>1. log \in Seq(LogCodes) /\ Len(log) = Len(origin) /\ r.result \in LogCodes
    BY <1>5 DEF Inv, Types, LogTypes, LogCodes
  <2>2. log' \in Seq(LogCodes) /\ Len(log') = Len(log)
    BY <1>2, <2>1
  <2> QED BY <1>1, <2>1, <2>2 DEF LogTypes, Inv, Types
<1>8. answers \in Nat
  BY DEF Inv, Types, CountTypes
<1> QED
  BY <1>1, <1>4, <1>6, <1>7, <1>8, ResponderFrame

LEMMA ResponderFailsStep ==
  ASSUME Inv, ResponderFails
  PROVE  Inv' /\ (OnceInv => OnceInv')
<1>1. /\ responder' = Idle
      /\ UNCHANGED <<online, taskVars, execVars, msgVars, answers, flips, lost>>
  BY DEF ResponderFails
<1>2. \/ responseChan' = responseChan
      \/ responseChan # <<>> /\ responseChan' = Tail(responseChan)
  BY DEF ResponderFails
<1>3. /\ responseChan' \in Seq(Answer) /\ Len(responseChan') <= ResponseCap
      /\ \A i \in DOMAIN responseChan' : responseChan'[i].msg \in delivered
  <2>1. CASE responseChan' = responseChan
    BY <2>1 DEF Inv, Types, AnswerTypes, Capacities
  <2>2. CASE responseChan # <<>> /\ responseChan' = Tail(responseChan)
    BY <2>2, ResponseTail
  <2> QED BY <1>2, <2>1, <2>2
<1>4. AnswerTypes'
  BY <1>1, <1>3, HandlerTypes DEF AnswerTypes, msgVars
<1>5. LogTypes' /\ answers' \in Nat
  BY <1>1, SameLog DEF msgVars, Inv, Types, CountTypes
<1> QED
  BY <1>1, <1>3, <1>4, <1>5, ResponderFrame DEF msgVars

LEMMA ResponderClosesTaskStep ==
  ASSUME Inv, ResponderClosesTask
  PROVE  Inv' /\ (OnceInv => OnceInv')
<1> USE DEF execVars, msgVars, Inv, Types
<1>1. /\ responder.pc = "task" /\ responder' = Idle
      /\ UNCHANGED <<online, created, message, execVars, msgVars, responseChan, answers, flips,
                     lost>>
  BY DEF ResponderClosesTask
<1>2. PICK s \in {"SUCCESS", "FAILED"} :
        status' = [t \in Tasks |-> IF t \in CarriedBy(responder.msg) THEN s ELSE status[t]]
  BY DEF ResponderClosesTask
<1>3. responder.msg \in delivered /\ responder.msg # 0
  BY <1>1 DEF AnswerTypes, LogTypes
<1>4. \A t \in Tasks :
        \/ status'[t] = status[t]
        \/ /\ status'[t] = s /\ message[t] \in delivered
           /\ status[t] \in {"SENT", "SUCCESS", "FAILED"} /\ message[t] \in MadeFor(t)
           /\ t \notin Locked
  BY <1>2, <1>3 DEF CarriedBy, RowInv
<1>5. TableTypes'
  <2>1. status' \in [Tasks -> Statuses]
    BY <1>2 DEF TableTypes, Statuses
  <2> QED BY <1>1, <2>1 DEF TableTypes
<1>6. \A t : MadeFor(t)' = MadeFor(t) /\ Locked' = Locked
  BY <1>1 DEF MadeFor, Msgs, Locked
<1>7. RowInv'
  BY <1>1, <1>4, <1>6 DEF RowInv
<1>8. SuccessInv'
  BY <1>1, <1>4 DEF SuccessInv
<1>9. OnceInv => OnceInv'
  <2>1. \A e \in Executors, t \in Tasks : SentBy(e, t)' = SentBy(e, t)
    BY <1>1 DEF SentBy
  <2>2. \A t \in Tasks :
          t \notin Locked /\ status[t] \in {"SENT", "SUCCESS", "FAILED"}
            => t \notin Locked' /\ status'[t] \in {"SENT", "SUCCESS", "FAILED"}
    BY <1>4, <1>6
  <2>3. held' = held /\ lost' = lost
    BY <1>1
  <2> QED BY <1>6, <2>1, <2>2, <2>3 DEF OnceInv
<1>10. AnswerTypes'
  BY <1>1, HandlerTypes DEF AnswerTypes
<1> QED
  BY <1>1, <1>5, <1>7, <1>8, <1>9, <1>10, SameExecs, SameLog, SameBus, SameCounts,
     SameCapacities, SameHold, SamePut, SameDraft

LEMMA CrashStep ==
  ASSUME Inv, Crash
  PROVE  Inv' /\ (OnceInv => OnceInv')
<1> USE DEF taskVars, Inv, Types
<1>1. /\ pc' = [p \in Putters |-> "idle"] /\ putting' = [p \in Putters |-> 0]
      /\ held' = [e \in Executors |-> {}] /\ todo' = [e \in Executors |-> {}]
      /\ draft' = [e \in Executors |-> {}]
  BY DEF Crash
<1>2. commandChan' = <<>> /\ handler' = Idle /\ responseChan' = <<>> /\ responder' = Idle
  BY DEF Crash
<1>3. UNCHANGED <<online, taskVars, origin, log, delivered, answers, flips>>
  BY DEF Crash
<1>4. lost' \in BOOLEAN /\ (~lost' => ~lost /\ \A e \in Executors : ~HasSent(e))
  BY Zenon DEF Crash
<1>5. /\ Executors \subseteq Putters /\ Len(origin) \in Nat
      /\ BusCap \in Nat /\ ResponseCap \in Nat
  BY CommandAssumption DEF Putters, LogTypes
<1>6. CountTypes'
  BY <1>3, <1>4 DEF CountTypes
<1>7. ExecTypes' /\ HoldInv' /\ DraftInv'
  BY <1>1, <1>3, <1>5 DEF ExecTypes, HoldInv, DraftInv, Inside
<1>8. PutInv'
  BY <1>1, <1>5 DEF PutInv
<1>9. BusTypes' /\ AnswerTypes' /\ Capacities'
  <2>1. /\ Len(<<>>) = 0 /\ DOMAIN <<>> = {} /\ <<>> \in Seq(1..Len(origin))
        /\ <<>> \in Seq(Answer)
    OBVIOUS
  <2> QED
    BY <1>2, <1>3, <1>5, <2>1, HandlerTypes DEF BusTypes, AnswerTypes, Capacities
<1>10. Locked' = {} /\ \A t : MadeFor(t)' = MadeFor(t)
  BY <1>1, <1>3 DEF Locked, MadeFor, Msgs
<1>11. RowInv'
  BY <1>3, <1>10 DEF RowInv
<1>12. OnceInv => OnceInv'
  <2> SUFFICES ASSUME OnceInv, ~lost, \A e \in Executors : ~HasSent(e),
                      NEW t \in Tasks, MadeFor(t) # {}
               PROVE  t \notin Locked' /\ status'[t] \in {"SENT", "SUCCESS", "FAILED"}
    BY <1>4, <1>10 DEF OnceInv
  <2>1. \A e \in Executors : ~SentBy(e, t)
    BY DEF SentBy, HasSent
  <2> QED BY <1>3, <1>10, <2>1 DEF OnceInv
<1> QED
  BY <1>3, <1>6, <1>7, <1>8, <1>9, <1>11, <1>12, SameTables, SameLog, SameSuccess

LEMMA StutterStep ==
  ASSUME Inv, UNCHANGED vars
  PROVE  Inv' /\ (OnceInv => OnceInv')
<1> USE DEF vars, taskVars, execVars, msgVars, respVars, Inv, Types
<1> QED
  BY SameTables, SameExecs, SameLog, SameBus, SameAnswers, SameCounts, SameCapacities, SameHold,
     SamePut, SameDraft, SameRows, SameSuccess, SameOnce

LEMMA StepInv == Inv /\ [Next]_vars => Inv' /\ (OnceInv => OnceInv')
<1> SUFFICES ASSUME Inv, [Next]_vars PROVE Inv' /\ (OnceInv => OnceInv')
  OBVIOUS
<1>1. ASSUME NEW t \in Tasks, CreateChecks(t) \/ CreateInserts(t) \/ Cancel(t)
      PROVE  Inv' /\ (OnceInv => OnceInv')
  BY <1>1, CreateChecksStep, CreateInsertsStep, CancelStep
<1>2. ASSUME NEW e \in Executors, ExecStep(e) PROVE Inv' /\ (OnceInv => OnceInv')
  BY <1>2, ExecLocksStep, ExecLooksStep, ExecPutFailsStep, ExecCreatesLogStep, ExecPublishesStep,
     ExecCommitsStep, ExecCommitFailsStep DEF ExecStep
<1>3. ASSUME NEW u \in Users, UserCreatesLog(u) \/ UserPublishes(u)
      PROVE  Inv' /\ (OnceInv => OnceInv')
  BY <1>3, UserCreatesLogStep, UserPublishesStep
<1>4. CASE HandlerStep
  BY <1>4, HandlerTakesStep, HandlerSendsStep, HandlerReportsStep DEF HandlerStep
<1>5. CASE ResponderStep
  BY <1>5, ResponderLogsStep, ResponderClosesTaskStep, ResponderFailsStep DEF ResponderStep
<1> QED
  BY <1>1, <1>2, <1>3, <1>4, <1>5, OnlineStep, DeviceAnswersStep, CrashStep, StutterStep DEF Next

\* In every reachable state the parts of the invariant hold.
LEMMA Invariants == Spec => [](Inv /\ OnceInv)
<1>1. Inv /\ OnceInv /\ [Next]_vars => (Inv /\ OnceInv)'
  BY StepInv
<1> QED
  BY InitInv, <1>1, PTL DEF Spec

-----------------------------------------------------------------------------
(* What follows from the invariant.                                         *)

\* Every variable keeps its type, neither channel ever holds more than its
\* capacity, and an executor waits at the bus exactly while it has a message
\* to put there (offline_command.go:296-310).
THEOREM TypeInvariant == Spec => []TypeOK
<1>1. Inv => TypeOK
  <2> SUFFICES ASSUME Inv PROVE TypeOK
    OBVIOUS
  <2> USE DEF Inv, Types
  <2>1. online \in BOOLEAN
    BY DEF TableTypes
  <2>2. ToSet(created) \subseteq Tasks
    BY DEF ToSet, TableTypes
  <2>3. status \in [Tasks -> Statuses] /\ message \in [Tasks -> 0..Len(origin)]
    BY DEF TableTypes
  <2>4. \A p \in Putters :
          putting[p] \in 0..Len(origin) /\ (pc[p] = "publish" <=> putting[p] # 0)
    BY DEF ExecTypes, PutInv
  <2>5. \A e \in Executors : todo[e] \subseteq held[e] /\ held[e] \subseteq Tasks
    BY DEF HoldInv, ExecTypes
  <2>6. Len(log) = Len(origin) /\ delivered \subseteq Msgs
    BY DEF LogTypes, Msgs
  <2>7. Len(commandChan) <= BusCap /\ Len(responseChan) <= ResponseCap
    BY DEF Capacities
  <2> QED BY <2>1, <2>2, <2>3, <2>4, <2>5, <2>6, <2>7 DEF TypeOK
<1> QED
  BY <1>1, Invariants, PTL

\* A task is only ever counted as executed when a message made for this very
\* task reached the device, however the answers, the executors and the
\* restarts interleave (response.go:175).
THEOREM SuccessOwn == Spec => []SuccessIsOwn
<1>1. Inv => SuccessIsOwn
  BY DEF Inv, SuccessIsOwn, SuccessInv, RowInv, Types, LogTypes
<1> QED
  BY <1>1, Invariants, PTL

\* As long as no transaction that had published was rolled back, no task is put
\* on the bus twice, whatever executors overlap, and a cancelled one never
\* (offline_command.go:281, :250).
THEOREM SentOnceIfKept == Spec => []SentOnceUnlessLost
<1>1. Inv /\ OnceInv => SentOnceUnlessLost
  <2> SUFFICES ASSUME Inv, OnceInv, ~lost, NEW t \in Tasks
               PROVE  /\ Cardinality(MadeFor(t)) <= 1
                      /\ status[t] = "CANCELLED" => MadeFor(t) = {}
    BY DEF SentOnceUnlessLost
  <2>1. Cardinality(MadeFor(t)) <= 1
    <3>1. CASE MadeFor(t) = {}
      BY <3>1, FS_EmptySet
    <3>2. CASE MadeFor(t) # {}
      <4>1. PICK m : m \in MadeFor(t)
        BY <3>2
      <4>2. MadeFor(t) = {m}
        BY <4>1 DEF OnceInv
      <4>3. Cardinality({m}) = 1
        BY FS_Singleton
      <4> QED BY <4>2, <4>3
    <3> QED BY <3>1, <3>2
  <2>2. status[t] = "CANCELLED" => MadeFor(t) = {}
    BY DEF Inv, OnceInv, RowInv, Locked
  <2> QED BY <2>1, <2>2
<1> QED
  BY <1>1, Invariants, PTL

-----------------------------------------------------------------------------
(* CommandDispatch implements OfflineTaskLifecycle.                         *)

Stage == [t \in Tasks |-> IF t \in Locked THEN "taken" ELSE StageOf(status[t])]
Sends == [t \in Tasks |-> Cardinality(MadeFor(t))]

\* What the lifecycle allows, said of the tasks one by one.
LEMMA LifecycleStutters ==
  ASSUME Stage' = Stage, Sends' = Sends
  PROVE  [Lifecycle!Next]_Lifecycle!vars
  BY DEF Lifecycle!vars, Stage, Sends

LEMMA LifecycleMoves ==
  ASSUME NEW t \in Tasks, NEW l, Stage' = [Stage EXCEPT ![t] = l], Sends' = Sends,
         \/ Stage[t] = "absent" /\ l = "waiting"
         \/ Stage[t] = "waiting" /\ l = "cancelled"
         \/ Sends[t] > 0 /\ Stage[t] \in {"sent", "done", "failed"} /\ l \in {"done", "failed"}
  PROVE  Lifecycle!Next
<1>1. CASE Stage[t] = "absent" /\ l = "waiting"
  BY <1>1 DEF Lifecycle!Next, Lifecycle!Add, Lifecycle!MoveTo, Stage, Sends
<1>2. CASE Stage[t] = "waiting" /\ l = "cancelled"
  BY <1>2 DEF Lifecycle!Next, Lifecycle!Cancel, Lifecycle!MoveTo, Stage, Sends
<1>3. CASE Sends[t] > 0 /\ Stage[t] \in {"sent", "done", "failed"} /\ l \in {"done", "failed"}
  BY <1>3 DEF Lifecycle!Next, Lifecycle!Answer, Lifecycle!MoveTo, Stage, Sends
<1> QED
  BY <1>1, <1>2, <1>3

LEMMA LifecycleTakes ==
  ASSUME NEW S \in SUBSET Tasks, \A t \in S : Stage[t] = "waiting",
         Stage' = [t \in Tasks |-> IF t \in S THEN "taken" ELSE Stage[t]], Sends' = Sends
  PROVE  Lifecycle!Next
  BY DEF Lifecycle!Next, Lifecycle!Take, Lifecycle!In, Stage, Sends

LEMMA LifecycleSends ==
  ASSUME NEW t \in Tasks, Stage[t] = "taken", Sends[t] = 0, Stage' = Stage,
         Sends' = [Sends EXCEPT ![t] = 1]
  PROVE  Lifecycle!Next
  BY DEF Lifecycle!Next, Lifecycle!Send, Stage, Sends

LEMMA LifecycleSettles ==
  ASSUME NEW S \in SUBSET Tasks, \A t \in S : Stage[t] = "taken",
         NEW refused \in SUBSET {t \in S : Sends[t] = 0}, Sends' = Sends,
         Stage' = [t \in Tasks |->
                     CASE t \notin S               -> Stage[t]
                       [] t \in S /\ Sends[t] > 0  -> "sent"
                       [] t \in refused            -> "failed"
                       [] OTHER                    -> "waiting"]
  PROVE  Lifecycle!Next
  BY DEF Lifecycle!Next, Lifecycle!Settle, Lifecycle!In, Stage, Sends

\* Steps that neither write a row, nor lock one, nor make a message.
LEMMA SameLife ==
  ASSUME UNCHANGED <<status, held, origin>>
  PROVE  [Lifecycle!Next]_Lifecycle!vars
<1>1. Stage' = Stage /\ Sends' = Sends
  BY DEF Stage, Sends, Locked, MadeFor, Msgs
<1> QED
  BY <1>1, LifecycleStutters

\* What the messages made for a task say of it.
LEMMA SendsAre ==
  ASSUME Inv, OnceInv, ~lost, NEW t \in Tasks
  PROVE  /\ Sends[t] \in {0, 1}
         /\ MadeFor(t) = {} <=> Sends[t] = 0
<1>1. Sends[t] = Cardinality(MadeFor(t))
  BY DEF Sends
<1>2. CASE MadeFor(t) = {}
  BY <1>1, <1>2, FS_EmptySet
<1>3. CASE MadeFor(t) # {}
  <2>1. PICK m : m \in MadeFor(t)
    BY <1>3
  <2>2. MadeFor(t) = {m}
    BY <2>1 DEF OnceInv
  <2>3. Cardinality({m}) = 1
    BY FS_Singleton
  <2> QED BY <1>1, <1>3, <2>2, <2>3
<1> QED
  BY <1>2, <1>3

\* Whoever holds a task that has a message has sent it.
LEMMA HolderSent ==
  ASSUME Inv, OnceInv, ~lost, NEW e \in Executors, NEW t \in held[e], MadeFor(t) # {}
  PROVE  SentBy(e, t)
<1>1. t \in Tasks /\ t \in Locked
  BY DEF Inv, Types, ExecTypes, Locked
<1>2. PICK f \in Executors : t \in held[f] /\ SentBy(f, t)
  BY <1>1 DEF OnceInv
<1> QED
  BY <1>2 DEF Inv, HoldInv

LEMMA RowLife ==
  ASSUME Inv, OnceInv, ~lost,
         \/ \E t \in Tasks : CreateChecks(t) \/ CreateInserts(t) \/ Cancel(t)
         \/ ResponderClosesTask
  PROVE  [Lifecycle!Next]_Lifecycle!vars
<1>1. UNCHANGED <<held, origin>> /\ status \in [Tasks -> Statuses]
  BY DEF CreateChecks, CreateInserts, Cancel, ResponderClosesTask, execVars, msgVars, Inv, Types,
         TableTypes
<1>2. Locked' = Locked /\ Sends' = Sends
  BY <1>1 DEF Sends, Locked, MadeFor, Msgs
<1>3. ASSUME NEW t \in Tasks, NEW s, status' = [status EXCEPT ![t] = s], t \notin Locked
      PROVE  Stage' = [Stage EXCEPT ![t] = StageOf(s)] /\ Stage[t] = StageOf(status[t])
  BY <1>1, <1>2, <1>3 DEF Stage
<1>4. ASSUME NEW t \in Tasks, CreateChecks(t) PROVE [Lifecycle!Next]_Lifecycle!vars
  <2>1. status' = status
    BY <1>4 DEF CreateChecks
  <2> QED BY <1>1, <2>1, SameLife
<1>5. ASSUME NEW t \in Tasks, CreateInserts(t) PROVE [Lifecycle!Next]_Lifecycle!vars
  <2>1. status[t] = "none" /\ status' = [status EXCEPT ![t] = "PENDING"] /\ t \notin Locked
    BY <1>5 DEF CreateInserts, Inv, RowInv
  <2>2. StageOf("none") = "absent" /\ StageOf("PENDING") = "waiting"
    BY DEF StageOf
  <2>3. Stage[t] = "absent" /\ Stage' = [Stage EXCEPT ![t] = "waiting"]
    BY <1>3, <2>1, <2>2
  <2>4. Lifecycle!Next
    BY <1>2, <2>3, LifecycleMoves
  <2> QED BY <2>4
<1>6. ASSUME NEW t \in Tasks, Cancel(t) PROVE [Lifecycle!Next]_Lifecycle!vars
  <2>1. status[t] = "PENDING" /\ status' = [status EXCEPT ![t] = "CANCELLED"] /\ t \notin Locked
    BY <1>6 DEF Cancel, Cancellable
  <2>2. StageOf("PENDING") = "waiting" /\ StageOf("CANCELLED") = "cancelled"
    BY DEF StageOf
  <2>3. Stage[t] = "waiting" /\ Stage' = [Stage EXCEPT ![t] = "cancelled"]
    BY <1>3, <2>1, <2>2
  <2>4. Lifecycle!Next
    BY <1>2, <2>3, LifecycleMoves
  <2> QED BY <2>4
<1>7. ASSUME ResponderClosesTask PROVE [Lifecycle!Next]_Lifecycle!vars
  <2>1. PICK s \in {"SUCCESS", "FAILED"} :
          status' = [t \in Tasks |-> IF t \in CarriedBy(responder.msg) THEN s ELSE status[t]]
    BY <1>7 DEF ResponderClosesTask
  <2>2. responder.msg # 0
    BY <1>7 DEF ResponderClosesTask, Inv, Types, AnswerTypes, LogTypes
  <2>3. CASE CarriedBy(responder.msg) = {}
    <3>1. status' = status
      BY <1>1, <2>1, <2>3
    <3> QED BY <1>1, <3>1, SameLife
  <2>4. CASE CarriedBy(responder.msg) # {}
    <3>1. PICK t \in Tasks : message[t] = responder.msg
      BY <2>4 DEF CarriedBy
    <3>2. \A r \in CarriedBy(responder.msg) : r \in Tasks /\ responder.msg \in MadeFor(r)
      BY <2>2 DEF CarriedBy, Inv, RowInv
    <3>3. CarriedBy(responder.msg) = {t}
      BY <3>1, <3>2 DEF MadeFor, CarriedBy
    <3>4. status' = [status EXCEPT ![t] = s]
      BY <1>1, <2>1, <3>3
    <3>5. t \notin Locked /\ status[t] \in {"SENT", "SUCCESS", "FAILED"} /\ MadeFor(t) # {}
      BY <2>2, <3>1 DEF Inv, RowInv
    <3>6. StageOf(status[t]) \in {"sent", "done", "failed"} /\ StageOf(s) \in {"done", "failed"}
      BY <3>5 DEF StageOf
    <3>7. Sends[t] > 0
      BY <3>5, SendsAre
    <3> QED BY <1>2, <1>3, <3>4, <3>5, <3>6, <3>7, LifecycleMoves
  <2> QED BY <2>3, <2>4
<1> QED
  BY <1>4, <1>5, <1>6, <1>7

LEMMA LockLife ==
  ASSUME Inv, NEW e \in Executors, ExecLocks(e)
  PROVE  [Lifecycle!Next]_Lifecycle!vars
<1>1. /\ held' = [held EXCEPT ![e] = Batch] /\ pc[e] = "lock"
      /\ UNCHANGED <<status, origin>>
  BY DEF ExecLocks, taskVars, msgVars
<1>2. \A t \in Batch : t \in Tasks /\ status[t] = "PENDING" /\ t \notin Locked
  BY DEF Batch, Available, ToSet, Inv, Types, TableTypes
<1>3. Locked' = Locked \cup Batch
  <2>1. held \in [Executors -> SUBSET Tasks] /\ held[e] = {}
    BY <1>1 DEF Inv, Types, ExecTypes, HoldInv, Inside
  <2>2. held'[e] = Batch /\ \A f \in Executors : f # e => held'[f] = held[f]
    BY <1>1, <2>1
  <2> QED BY <2>1, <2>2 DEF Locked
<1>4. \A t \in Batch : Stage[t] = "waiting"
  BY <1>2 DEF Stage, StageOf
<1>5. Stage' = [t \in Tasks |-> IF t \in Batch THEN "taken" ELSE Stage[t]]
  BY <1>1, <1>3 DEF Stage
<1>6. Sends' = Sends
  BY <1>1 DEF Sends, MadeFor, Msgs
<1>7. Batch \in SUBSET Tasks
  BY <1>2
<1>8. Lifecycle!Next
  BY <1>4, <1>5, <1>6, <1>7, LifecycleTakes
<1> QED
  BY <1>8

LEMMA MakeLife ==
  ASSUME Inv, OnceInv, ~lost,
         \/ \E e \in Executors : ExecCreatesLog(e)
         \/ \E u \in Users : UserCreatesLog(u)
  PROVE  [Lifecycle!Next]_Lifecycle!vars
<1>1. UNCHANGED <<status, held>>
  BY DEF ExecCreatesLog, UserCreatesLog, taskVars
<1>2. Stage' = Stage
  BY <1>1 DEF Stage, Locked
<1>3. ASSUME NEW p \in Putters, NEW o \in Sources, CreateLog(p, o)
      PROVE  \A t \in Tasks : MadeFor(t)' = MadeFor(t) \cup {m \in {Len(origin) + 1} : t = o}
  <2>1. /\ \A m \in 1..Len(origin) : origin'[m] = origin[m]
        /\ origin'[Len(origin) + 1] = o
        /\ Msgs = 1..Len(origin) /\ Msgs' = Msgs \cup {Len(origin) + 1}
    BY <1>3, NewMessage DEF Inv
  <2> QED BY <2>1 DEF MadeFor
<1>4. ASSUME NEW u \in Users, UserCreatesLog(u) PROVE [Lifecycle!Next]_Lifecycle!vars
  <2>1. u \in Putters /\ "user" \in Sources /\ CreateLog(u, "user") /\ "user" \notin Tasks
    BY <1>4, CommandAssumption DEF UserCreatesLog, Putters, Sources
  <2>2. \A t \in Tasks : MadeFor(t)' = MadeFor(t)
    BY <1>3, <2>1
  <2>3. Sends' = Sends
    BY <2>2 DEF Sends
  <2> QED BY <1>2, <2>3, LifecycleStutters
<1>5. ASSUME NEW e \in Executors, ExecCreatesLog(e) PROVE [Lifecycle!Next]_Lifecycle!vars
  <2>1. PICK t \in Foremost(e) : CreateLog(e, t)
    BY <1>5 DEF ExecCreatesLog
  <2>2. /\ e \in Putters /\ pc[e] = "put" /\ putting[e] = 0 /\ t \in todo[e] /\ t \in held[e]
        /\ t \in Tasks /\ t \in Sources /\ t \in Locked
    BY <1>5 DEF ExecCreatesLog, Foremost, Putters, Sources, Inv, Types, ExecTypes, HoldInv,
                PutInv, Locked
  <2>3. MadeFor(t) = {}
    <3>1. ~SentBy(e, t)
      BY <2>2 DEF SentBy, Inv, DraftInv
    <3> QED BY <2>2, <3>1, HolderSent
  <2>4. Sends[t] = 0 /\ Stage[t] = "taken"
    BY <2>2, <2>3, SendsAre DEF Stage
  <2>5. \A r \in Tasks : MadeFor(r)' = IF r = t THEN {Len(origin) + 1} ELSE MadeFor(r)
    <3>1. \A r \in Tasks : MadeFor(r)' = MadeFor(r) \cup {m \in {Len(origin) + 1} : r = t}
      BY <1>3, <2>1, <2>2
    <3>2. MadeFor(t)' = {Len(origin) + 1}
      BY <2>2, <2>3, <3>1
    <3>3. \A r \in Tasks : r # t => MadeFor(r)' = MadeFor(r)
      BY <3>1
    <3> QED BY <3>2, <3>3
  <2>6. Cardinality({Len(origin) + 1}) = 1
    BY FS_Singleton
  <2>7. Sends' = [Sends EXCEPT ![t] = 1]
    BY <2>5, <2>6 DEF Sends
  <2>8. Lifecycle!Next
    BY <1>2, <2>2, <2>4, <2>7, LifecycleSends
  <2> QED BY <2>8
<1> QED
  BY <1>4, <1>5

LEMMA CommitLife ==
  ASSUME Inv, OnceInv, ~lost, NEW e \in Executors, ExecCommits(e)
  PROVE  [Lifecycle!Next]_Lifecycle!vars
<1>1. UNCHANGED <<putting, origin, created>> /\ pc[e] = "commit" /\ EndTransaction(e)
  BY DEF ExecCommits, msgVars
<1>2. Locked' = Locked \ held[e] /\ putting[e] = 0
  BY <1>1, EndStep
<1>3. Sends' = Sends
  BY <1>1 DEF Sends, MadeFor, Msgs
<1>4. \A t \in held[e] : t \in Tasks /\ t \in Locked /\ status[t] = "PENDING"
  BY DEF Locked, Inv, Types, ExecTypes, RowInv
<1> DEFINE refused == {t \in held[e] : Sends[t] = 0 /\ status'[t] = "FAILED"}
<1>5. ASSUME NEW t \in Tasks
      PROVE  Stage'[t] = CASE t \notin held[e]              -> Stage[t]
                           [] t \in held[e] /\ Sends[t] > 0 -> "sent"
                           [] t \in refused                 -> "failed"
                           [] OTHER                         -> "waiting"
  <2>1. Sends[t] \in {0, 1} /\ (MadeFor(t) = {} <=> Sends[t] = 0)
    BY SendsAre
  <2>2. CASE t \notin held[e]
    <3>1. \A d \in draft[e] : d.task # t
      BY <2>2 DEF Inv, DraftInv
    <3>2. status'[t] = status[t]
      BY <3>1, CommitWrites
    <3>3. Stage'[t] = Stage[t]
      BY <1>2, <2>2, <3>2 DEF Stage
    <3> QED BY <2>2, <3>3
  <2>3. CASE t \in held[e] /\ Sends[t] > 0
    <3>1. MadeFor(t) # {}
      BY <2>1, <2>3
    <3>2. PICK d \in draft[e] : d.task = t /\ d.status = "SENT"
      BY <1>2, <2>3, <3>1, HolderSent DEF SentBy
    <3>3. \A c \in draft[e] : c.task = t => c = d
      BY <3>2 DEF Inv, DraftInv
    <3>4. status'[t] = "SENT"
      BY <3>2, <3>3, CommitWrites
    <3>5. Stage'[t] = "sent"
      BY <1>2, <2>3, <3>4 DEF Stage, StageOf
    <3> QED BY <2>3, <3>5
  <2>4. CASE t \in held[e] /\ Sends[t] = 0
    <3>1. \A d \in draft[e] : d.task = t => d.status = "FAILED"
      BY <2>1, <2>4 DEF Inv, Types, ExecTypes, Drafts, DraftInv
    <3>2. status'[t] \in {"FAILED", "PENDING"}
      BY <1>4, <2>4, <3>1, CommitWrites
    <3>3. CASE status'[t] = "FAILED"
      <4>1. Stage'[t] = "failed"
        BY <1>2, <2>4, <3>3 DEF Stage, StageOf
      <4> QED BY <2>4, <3>3, <4>1
    <3>4. CASE status'[t] = "PENDING"
      <4>1. Stage'[t] = "waiting"
        BY <1>2, <2>4, <3>4 DEF Stage, StageOf
      <4> QED BY <2>4, <3>4, <4>1
    <3> QED BY <3>2, <3>3, <3>4
  <2> QED BY <2>1, <2>2, <2>3, <2>4
<1>6. Stage' = [t \in Tasks |-> CASE t \notin held[e]              -> Stage[t]
                                  [] t \in held[e] /\ Sends[t] > 0 -> "sent"
                                  [] t \in refused                 -> "failed"
                                  [] OTHER                         -> "waiting"]
  BY <1>5 DEF Stage
<1>7. /\ held[e] \in SUBSET Tasks /\ refused \in SUBSET {t \in held[e] : Sends[t] = 0}
      /\ \A t \in held[e] : Stage[t] = "taken"
  BY <1>4 DEF Stage
<1> HIDE DEF refused
<1>8. Lifecycle!Next
  BY <1>3, <1>6, <1>7, LifecycleSettles
<1> QED
  BY <1>8

\* What is rolled back before anything was sent goes back to where it was.
LEMMA RollbackLife ==
  ASSUME Inv, OnceInv, ~lost, NEW S, S \subseteq Locked, Locked' = Locked \ S,
         UNCHANGED <<status, origin>>,
         \A e \in Executors : held[e] \cap S # {} => ~HasSent(e)
  PROVE  [Lifecycle!Next]_Lifecycle!vars
<1>1. Sends' = Sends
  BY DEF Sends, MadeFor, Msgs
<1>2. \A t \in S : t \in Tasks /\ status[t] = "PENDING"
  BY DEF Locked, Inv, Types, ExecTypes, RowInv
<1>3. ASSUME NEW t \in S PROVE Sends[t] = 0
  <2>1. PICK e \in Executors : t \in held[e]
    BY DEF Locked
  <2>2. ~SentBy(e, t)
    BY <2>1 DEF SentBy, HasSent
  <2> QED BY <1>2, <2>1, <2>2, HolderSent, SendsAre
<1>4. ASSUME NEW t \in Tasks
      PROVE  Stage'[t] = CASE t \notin S              -> Stage[t]
                           [] t \in S /\ Sends[t] > 0 -> "sent"
                           [] t \in {}                -> "failed"
                           [] OTHER                   -> "waiting"
  <2>1. CASE t \notin S
    <3>1. Stage'[t] = Stage[t]
      BY <2>1 DEF Stage
    <3> QED BY <2>1, <3>1
  <2>2. CASE t \in S
    <3>1. Stage'[t] = "waiting"
      BY <1>2, <2>2 DEF Stage, StageOf
    <3>2. ~(Sends[t] > 0)
      BY <1>3, <2>2
    <3> QED BY <2>2, <3>1, <3>2
  <2> QED BY <2>1, <2>2
<1>5. Stage' = [t \in Tasks |-> CASE t \notin S              -> Stage[t]
                                  [] t \in S /\ Sends[t] > 0 -> "sent"
                                  [] t \in {}                -> "failed"
                                  [] OTHER                   -> "waiting"]
  BY <1>4 DEF Stage
<1>6. S \in SUBSET Tasks /\ \A t \in S : Stage[t] = "taken"
  BY <1>2 DEF Stage
<1>7. {} \in SUBSET {t \in S : Sends[t] = 0}
  OBVIOUS
<1>8. Lifecycle!Next
  BY <1>1, <1>5, <1>6, <1>7, LifecycleSettles
<1> QED
  BY <1>8

LEMMA CommitFailsLife ==
  ASSUME Inv, OnceInv, ~lost, ~lost', NEW e \in Executors, ExecCommitFails(e)
  PROVE  [Lifecycle!Next]_Lifecycle!vars
<1>1. UNCHANGED <<status, putting, origin, created>> /\ pc[e] = "commit" /\ EndTransaction(e)
  BY DEF ExecCommitFails, msgVars, taskVars
<1>2. Locked' = Locked \ held[e]
  BY <1>1, EndStep
<1>3. ~HasSent(e)
  BY Zenon DEF ExecCommitFails
<1>4. held[e] \subseteq Locked
  BY DEF Locked
<1>5. \A f \in Executors : held[f] \cap held[e] # {} => ~HasSent(f)
  BY <1>3 DEF Inv, HoldInv
<1> QED
  BY <1>1, <1>2, <1>4, <1>5, RollbackLife

LEMMA CrashLife ==
  ASSUME Inv, OnceInv, ~lost, ~lost', Crash
  PROVE  [Lifecycle!Next]_Lifecycle!vars
<1>1. UNCHANGED <<status, origin>> /\ held' = [e \in Executors |-> {}]
  BY DEF Crash, taskVars
<1>2. \A e \in Executors : ~HasSent(e)
  BY Zenon DEF Crash
<1>3. Locked' = Locked \ Locked
  BY <1>1 DEF Locked
<1> QED
  BY <1>1, <1>2, <1>3, RollbackLife

LEMMA LifeInit == Init => Lifecycle!Init
<1> SUFFICES ASSUME Init PROVE Lifecycle!Init
  OBVIOUS
<1>1. Locked = {} /\ \A t \in Tasks : MadeFor(t) = {} /\ status[t] = "none"
  BY DEF Init, Locked, MadeFor, Msgs
<1>2. Cardinality({}) = 0
  BY FS_EmptySet
<1>3. Stage = [t \in Tasks |-> "absent"] /\ Sends = [t \in Tasks |-> 0]
  BY <1>1, <1>2 DEF Stage, Sends, StageOf
<1> QED
  BY <1>3 DEF Lifecycle!Init, Stage, Sends

LEMMA LifeStep ==
  Inv /\ OnceInv /\ ~lost /\ ~lost' /\ [Next]_vars => [Lifecycle!Next]_Lifecycle!vars
<1> SUFFICES ASSUME Inv, OnceInv, ~lost, ~lost', [Next]_vars
             PROVE  [Lifecycle!Next]_Lifecycle!vars
  OBVIOUS
<1> USE DEF taskVars, execVars, msgVars
<1>1. ASSUME NEW e \in Executors, ExecStep(e) PROVE [Lifecycle!Next]_Lifecycle!vars
  <2>1. CASE ExecLocks(e)
    BY <2>1, LockLife
  <2>2. CASE ExecFindsNothing(e) \/ ExecChecks(e) \/ ExecPutFails(e) \/ ExecPublishes(e)
    <3>1. UNCHANGED <<status, held, origin>>
      BY <2>2 DEF ExecFindsNothing, ExecChecks, ExecPutFails, ExecPublishes
    <3> QED BY <3>1, SameLife
  <2>3. CASE ExecCreatesLog(e)
    BY <2>3, MakeLife
  <2>4. CASE ExecCommits(e)
    BY <2>4, CommitLife
  <2>5. CASE ExecCommitFails(e)
    BY <2>5, CommitFailsLife
  <2> QED BY <1>1, <2>1, <2>2, <2>3, <2>4, <2>5 DEF ExecStep
<1>2. ASSUME NEW u \in Users, UserCreatesLog(u) \/ UserPublishes(u)
      PROVE  [Lifecycle!Next]_Lifecycle!vars
  <2>1. CASE UserPublishes(u)
    <3>1. UNCHANGED <<status, held, origin>>
      BY <2>1 DEF UserPublishes
    <3> QED BY <3>1, SameLife
  <2> QED BY <1>2, <2>1, MakeLife
<1>3. CASE HandlerStep \/ DeviceAnswers \/ GoOffline \/ ResponderLogs \/ ResponderFails
           \/ (\E e \in Executors : GoOnline(e)) \/ UNCHANGED vars
  <2>1. UNCHANGED <<status, held, origin>>
    BY <1>3 DEF HandlerStep, HandlerTakes, HandlerRefuses, HandlerPublishes, HandlerFinds,
                HandlerSaves, HandlerLogFails, DeviceAnswers, GoOffline, GoOnline, ResponderLogs,
                ResponderFails, vars
  <2> QED BY <2>1, SameLife
<1>4. CASE \E t \in Tasks : CreateChecks(t) \/ CreateInserts(t) \/ Cancel(t)
  BY <1>4, RowLife
<1>5. CASE ResponderClosesTask
  BY <1>5, RowLife
<1>6. CASE Crash
  BY <1>6, CrashLife
<1> QED
  BY <1>1, <1>2, <1>3, <1>4, <1>5, <1>6 DEF Next, ResponderStep

\* As long as no transaction that had published is rolled back, every offline
\* command lives the life OfflineTaskLifecycle allows: taken by one executor at a
\* time, put on the bus at most once, cancelled only before, closed only by an
\* answer (offline_command.go, response.go:170-181).
THEOREM LivesAsPromised == Spec /\ []~lost => ImplementsLifecycle
<1>1. Spec /\ []~lost => Lifecycle!Spec
  BY LifeInit, LifeStep, Invariants, PTL DEF Spec, Lifecycle!Spec
<1> QED
  BY <1>1 DEF ImplementsLifecycle

\* Nothing is lost while the database does not fail and nobody restarts the process.
LEMMA NothingLost == ASSUME ~Faults, ~MayCrash PROVE Spec => []~lost
<1>1. Init => ~lost
  BY DEF Init
<1>2. ~lost /\ [Next]_vars => ~lost'
  BY Zenon DEF Next, ExecStep, HandlerStep, ResponderStep, vars, CreateChecks, CreateInserts,
     Cancel, GoOnline, GoOffline, ExecLocks, ExecFindsNothing, ExecChecks, ExecPutFails,
     ExecCreatesLog, ExecPublishes, ExecCommits, ExecCommitFails, UserCreatesLog, UserPublishes,
     HandlerTakes, HandlerRefuses, HandlerPublishes, HandlerFinds, HandlerSaves, HandlerLogFails,
     DeviceAnswers, ResponderLogs, ResponderClosesTask, ResponderFails, Crash
<1> QED
  BY <1>1, <1>2, PTL DEF Spec

\* Without database errors and restarts the promise holds with no further condition.
THEOREM LivesAsPromisedUndisturbed == ASSUME ~Faults, ~MayCrash PROVE Spec => ImplementsLifecycle
  BY LivesAsPromised, NothingLost, PTL
-----------------------------------------------------------------------------
(* What the promise is worth: the lives OfflineTaskLifecycle allows.        *)

Stages == {"absent", "waiting", "taken", "sent", "done", "failed", "cancelled"}

\* That a task is sent once is not inductive: only a task with no message may
\* go back to waiting, and only a sent one may be answered.
LifeInv ==
    /\ Stage \in [Tasks -> Stages]
    /\ Sends \in [Tasks -> Nat]
    /\ \A t \in Tasks : /\ Sends[t] <= 1
                        /\ Stage[t] \in {"absent", "waiting", "cancelled"} => Sends[t] = 0

\* What the lifecycle does to a task, the converse of the lemmas above.
LEMMA LifecycleAllows ==
  ASSUME Lifecycle!Next
  PROVE  \/ \E t \in Tasks, l \in Stages :
              /\ Stage' = [Stage EXCEPT ![t] = l] /\ Sends' = Sends
              /\ \/ Stage[t] \in {"absent", "waiting"} /\ l \in {"waiting", "cancelled"}
                 \/ Sends[t] > 0 /\ l \in {"done", "failed"}
         \/ \E t \in Tasks :
              /\ Stage[t] = "taken" /\ Sends[t] = 0
              /\ Stage' = Stage /\ Sends' = [Sends EXCEPT ![t] = 1]
         \/ \E S \in SUBSET Tasks :
              /\ Stage' = [t \in Tasks |-> IF t \in S THEN "taken" ELSE Stage[t]]
              /\ Sends' = Sends
         \/ \E S \in SUBSET Tasks : \E refused \in SUBSET {t \in S : Sends[t] = 0} :
              /\ Stage' = [t \in Tasks |->
                             CASE t \notin S               -> Stage[t]
                               [] t \in S /\ Sends[t] > 0  -> "sent"
                               [] t \in refused            -> "failed"
                               [] OTHER                    -> "waiting"]
              /\ Sends' = Sends
<1>1. ASSUME NEW t \in Tasks, Lifecycle!Add(t)
      PROVE  /\ Stage' = [Stage EXCEPT ![t] = "waiting"] /\ Sends' = Sends
             /\ Stage[t] \in {"absent", "waiting"}
  BY <1>1 DEF Lifecycle!Add, Lifecycle!MoveTo, Stage, Sends
<1>2. ASSUME NEW t \in Tasks, Lifecycle!Cancel(t)
      PROVE  /\ Stage' = [Stage EXCEPT ![t] = "cancelled"] /\ Sends' = Sends
             /\ Stage[t] \in {"absent", "waiting"}
  BY <1>2 DEF Lifecycle!Cancel, Lifecycle!MoveTo, Stage, Sends
<1>3. ASSUME NEW t \in Tasks, Lifecycle!Answer(t)
      PROVE  \E l \in {"done", "failed"} :
               Stage' = [Stage EXCEPT ![t] = l] /\ Sends' = Sends /\ Sends[t] > 0
  BY <1>3 DEF Lifecycle!Answer, Lifecycle!MoveTo, Stage, Sends
<1>4. ASSUME NEW t \in Tasks, Lifecycle!Send(t)
      PROVE  /\ Stage[t] = "taken" /\ Sends[t] = 0
             /\ Stage' = Stage /\ Sends' = [Sends EXCEPT ![t] = 1]
  BY <1>4 DEF Lifecycle!Send, Stage, Sends
<1>5. ASSUME NEW S \in SUBSET Tasks, Lifecycle!Take(S)
      PROVE  /\ Stage' = [t \in Tasks |-> IF t \in S THEN "taken" ELSE Stage[t]]
             /\ Sends' = Sends
  BY <1>5 DEF Lifecycle!Take, Stage, Sends
<1>6. ASSUME NEW S \in SUBSET Tasks, Lifecycle!Settle(S)
      PROVE  \E refused \in SUBSET {t \in S : Sends[t] = 0} :
              /\ Stage' = [t \in Tasks |->
                             CASE t \notin S               -> Stage[t]
                               [] t \in S /\ Sends[t] > 0  -> "sent"
                               [] t \in refused            -> "failed"
                               [] OTHER                    -> "waiting"]
              /\ Sends' = Sends
  BY <1>6 DEF Lifecycle!Settle, Stage, Sends
<1>7. CASE \E t \in Tasks : Lifecycle!Add(t) \/ Lifecycle!Cancel(t) \/ Lifecycle!Answer(t)
  BY <1>1, <1>2, <1>3, <1>7, Zenon DEF Stages
<1>8. CASE \E t \in Tasks : Lifecycle!Send(t)
  BY <1>4, <1>8, Zenon
<1>9. CASE \E S \in SUBSET Tasks : Lifecycle!Take(S)
  BY <1>5, <1>9, Zenon
<1>10. CASE \E S \in SUBSET Tasks : Lifecycle!Settle(S)
  BY <1>6, <1>10, Zenon
<1> QED
  BY <1>7, <1>8, <1>9, <1>10, Zenon DEF Lifecycle!Next

LEMMA LifeInvStep == LifeInv /\ [Lifecycle!Next]_Lifecycle!vars => LifeInv'
<1> SUFFICES ASSUME LifeInv, [Lifecycle!Next]_Lifecycle!vars PROVE LifeInv'
  OBVIOUS
<1>1. CASE Lifecycle!Next
  <2>1. ASSUME NEW t \in Tasks, NEW l \in Stages,
               Stage' = [Stage EXCEPT ![t] = l], Sends' = Sends,
               \/ Stage[t] \in {"absent", "waiting"} /\ l \in {"waiting", "cancelled"}
               \/ Sends[t] > 0 /\ l \in {"done", "failed"}
        PROVE  LifeInv'
    BY <2>1 DEF LifeInv, Stages
  <2>2. ASSUME NEW t \in Tasks, Stage[t] = "taken", Sends[t] = 0, Stage' = Stage,
               Sends' = [Sends EXCEPT ![t] = 1]
        PROVE  LifeInv'
    BY <2>2 DEF LifeInv
  <2>3. ASSUME NEW S \in SUBSET Tasks, Sends' = Sends,
               Stage' = [t \in Tasks |-> IF t \in S THEN "taken" ELSE Stage[t]]
        PROVE  LifeInv'
    BY <2>3 DEF LifeInv, Stages
  <2>4. ASSUME NEW S \in SUBSET Tasks, NEW refused \in SUBSET {t \in S : Sends[t] = 0},
               Sends' = Sends,
               Stage' = [t \in Tasks |->
                           CASE t \notin S               -> Stage[t]
                             [] t \in S /\ Sends[t] > 0  -> "sent"
                             [] t \in refused            -> "failed"
                             [] OTHER                    -> "waiting"]
        PROVE  LifeInv'
    <3>1. ASSUME NEW t \in Tasks
          PROVE  /\ Stage'[t] \in Stages
                 /\ Stage'[t] \in {"absent", "waiting", "cancelled"} => Sends[t] = 0
      <4>1. CASE t \notin S
        <5>1. Stage'[t] = Stage[t]
          BY <2>4, <4>1
        <5> QED
          BY <5>1 DEF LifeInv
      <4>2. CASE t \in S /\ Sends[t] > 0
        <5>1. Stage'[t] = "sent"
          BY <2>4, <4>2
        <5> QED
          BY <5>1 DEF Stages
      <4>3. CASE t \in S /\ Sends[t] = 0
        <5>1. Stage'[t] \in {"failed", "waiting"}
          BY <2>4, <4>3
        <5> QED
          BY <4>3, <5>1 DEF Stages
      <4> QED
        BY <4>1, <4>2, <4>3 DEF LifeInv
    <3>2. Stage' = [t \in Tasks |-> Stage'[t]]
      BY <2>4
    <3> QED
      BY <2>4, <3>1, <3>2 DEF LifeInv
  <2> QED
    BY <1>1, <2>1, <2>2, <2>3, <2>4, LifecycleAllows, Zenon
<1>2. CASE UNCHANGED Lifecycle!vars
  <2>1. Stage' = Stage /\ Sends' = Sends
    BY <1>2 DEF Lifecycle!vars, Stage, Sends
  <2> QED
    BY <2>1 DEF LifeInv
<1> QED
  BY <1>1, <1>2

\* In every life the promise allows, a command is sent at most once, and not at
\* all if it is cancelled (offline_command.go:244-336).
THEOREM SentOnce == Lifecycle!Spec => []Lifecycle!SentOnceUncancelled
<1>1. Lifecycle!Init => LifeInv
  <2>1. Lifecycle!Init => Stage = [t \in Tasks |-> "absent"] /\ Sends = [t \in Tasks |-> 0]
    BY DEF Lifecycle!Init, Stage, Sends
  <2> QED
    BY <2>1 DEF LifeInv, Stages
<1>2. LifeInv => Lifecycle!SentOnceUncancelled
  BY DEF LifeInv, Lifecycle!SentOnceUncancelled, Stage, Sends
<1> QED
  BY <1>1, <1>2, LifeInvStep, PTL DEF Lifecycle!Spec
=============================================================================
