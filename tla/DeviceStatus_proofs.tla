------------------------ MODULE DeviceStatus_proofs ------------------------
(***************************************************************************)
(* Proofs about DeviceStatus, for every set of business flows and adapter  *)
(* goroutines, every choice of modes and faults and every number of        *)
(* messages.                                                               *)
(***************************************************************************)
EXTENDS DeviceStatus, FiniteSets, TLAPS, SequenceTheorems, FunctionTheorems,
        FiniteSetTheorems

Message == [status : Payloads, source : {"device", "expired"}]

-----------------------------------------------------------------------------
(* Types.                                                                   *)

Fetching == {"load", "fill", "got"}
Updating == {"compare", "reload", "write"}
Telling  == {"fetch", "loadAgain", "fillAgain", "gotAgain"}

\* Who gets where: a handler only fetches, only the status flow writes what it
\* was told, a business flow always wants its device online and, without a
\* heartbeat configuration, only fetches as well.
Control ==
    /\ mode \in {"plain", "heartbeat", "timeout"}
    /\ \A h \in Handlers : pc[h] \in {"idle"} \cup Fetching
    /\ pc["status"] \in {"idle", "evict", "evicted"} \cup Fetching \cup Updating
    /\ want["status"] \in Statuses
    /\ \A f \in Flows : want[f] = "on"
    /\ mode = "plain" => \A f \in Flows : pc[f] \in {"idle"} \cup Fetching

Types == TypeOK /\ Control

LEMMA InitTypes == Init => Types
<1> SUFFICES ASSUME Init PROVE Types
  OBVIOUS
<1>1. statusChan \in Seq(Message)
  BY DEF Init
<1>2. TypeOK
  BY <1>1 DEF Init, TypeOK, Message, Statuses, Payloads, Pcs
<1>3. Control
  BY StatusAssumption DEF Init, Control, Procs, Statuses
<1> QED
  BY <1>2, <1>3 DEF Types

\* A step that moves one goroutine and leaves what it wants keeps Control if
\* the place is one of its own.
LEMMA MoveKeepsControl ==
  ASSUME Types, NEW p \in Procs, NEW l \in Pcs, GoTo(p, l), UNCHANGED <<mode, want>>,
         p \in Handlers => l \in {"idle"} \cup Fetching,
         p = "status" => l \in {"idle", "evict", "evicted"} \cup Fetching \cup Updating,
         mode = "plain" /\ p \in Flows => l \in {"idle"} \cup Fetching
  PROVE  Control' /\ pc' \in [Procs -> Pcs]
  BY StatusAssumption DEF Types, TypeOK, Control, GoTo, Procs

LEMMA SeesStatus ==
  ASSUME Types, NEW p \in Procs, NEW s \in Statuses, Sees(p, s)
  PROVE  seen' \in [Procs -> Statuses]
  BY DEF Sees, Types, TypeOK

\* GetDeviceCacheById finds a status.
LEMMA LookUpFinds ==
  ASSUME Types, NEW p \in Procs, NEW miss, NEW hit, LookUp(p, miss, hit)
  PROVE  /\ GoTo(p, miss) \/ GoTo(p, hit)
         /\ seen' \in [Procs -> Statuses]
<1>1. CASE cache = "none"
  BY <1>1 DEF LookUp, Types, TypeOK
<1>2. CASE cache # "none"
  <2>1. cache \in Statuses /\ "off" \in Statuses
    BY <1>2 DEF Types, TypeOK, Statuses
  <2>2. PICK s \in Statuses : Sees(p, s)
    BY <1>2, <2>1 DEF LookUp
  <2> QED BY <1>2, <2>2, SeesStatus DEF LookUp
<1> QED
  BY <1>1, <1>2

LEMMA SendsMessage ==
  ASSUME Types, NEW m \in Message, statusChan' = Append(statusChan, m)
  PROVE  statusChan' \in Seq(Message)
  BY AppendProperties DEF Types, TypeOK, Message

\* The steps that any goroutine may take.
LEMMA SharedStepTypes ==
  ASSUME Types, NEW p \in Procs, Step(p) \/ Fails(p)
  PROVE  Types'
<1> USE DEF storeVars, queueVars, logVars, procVars
<1> USE DEF Types
<1>1. CASE Load(p)
  <2>1. PICK l \in {"fill", "fillAgain"} :
            GoTo(p, l) /\ (l = "fill" => pc[p] = "load") /\ (l = "fillAgain" => pc[p] = "loadAgain")
    BY <1>1 DEF Load
  <2>2. Control' /\ pc' \in [Procs -> Pcs]
    BY <1>1, <2>1, MoveKeepsControl DEF Load, Control, Fetching, Updating, Pcs
  <2>3. seen' \in [Procs -> Statuses]
    BY <1>1, SeesStatus DEF Load, TypeOK
  <2> QED BY <1>1, <2>2, <2>3 DEF Load, TypeOK
<1>2. CASE Fill(p)
  <2>1. PICK l \in {"got", "gotAgain"} :
            GoTo(p, l) /\ (l = "got" => pc[p] = "fill") /\ (l = "gotAgain" => pc[p] = "fillAgain")
    BY <1>2 DEF Fill
  <2>2. Control' /\ pc' \in [Procs -> Pcs]
    BY <1>2, <2>1, MoveKeepsControl DEF Fill, Control, Fetching, Updating, Pcs
  <2>3. seen[p] \in Statuses /\ staleFill' \in BOOLEAN
    BY <1>2 DEF Fill, TypeOK
  <2>4. PICK s \in Statuses : Sees(p, s)
    BY <1>2, <2>3 DEF Fill, Statuses
  <2>5. seen' \in [Procs -> Statuses]
    BY <2>4, SeesStatus
  <2> QED BY <1>2, <2>2, <2>3, <2>5 DEF Fill, TypeOK
<1>3. CASE Compare(p) \/ Reload(p)
  <2>1. pc[p] \in {"compare", "reload"}
    BY <1>3 DEF Compare, Reload
  <2>2. PICK l \in {"reload", AfterUnchanged(p), "write"} : GoTo(p, l)
    BY <1>3 DEF Compare, Reload, CompareWith
  <2>3. Control' /\ pc' \in [Procs -> Pcs]
    BY <1>3, <2>1, <2>2, MoveKeepsControl
       DEF Compare, Reload, AfterUnchanged, Control, Fetching, Updating, Pcs
  <2> QED BY <1>3, <2>3 DEF Compare, Reload, TypeOK
<1>4. CASE Write(p)
  <2>1. Control' /\ pc' \in [Procs -> Pcs]
    BY <1>4, MoveKeepsControl DEF Write, Control, Fetching, Updating, Pcs
  <2>2. want[p] \in Statuses
    BY <1>4 DEF Write, Control, Fetching, Procs, Statuses
  <2>3. writes' \in [Statuses -> Nat]
    BY <1>4, <2>2 DEF Write, TypeOK
  <2> QED BY <1>4, <2>1, <2>2, <2>3 DEF Write, TypeOK
<1>5. CASE Evict(p)
  <2>1. Control' /\ pc' \in [Procs -> Pcs]
    BY <1>5, MoveKeepsControl DEF Evict, Control, Fetching, Updating, Pcs
  <2> QED BY <1>5, <2>1 DEF Evict, EvictedCopy, TypeOK
<1>6. CASE Fails(p)
  <2>1. Control' /\ pc' \in [Procs -> Pcs]
    BY <1>6, MoveKeepsControl DEF Fails, Control, Pcs
  <2>2. seen' \in [Procs -> Statuses]
    BY <1>6, SeesStatus DEF Fails, Statuses
  <2> QED BY <1>6, <2>1, <2>2 DEF Fails, TypeOK
<1> QED
  BY <1>1, <1>2, <1>3, <1>4, <1>5, <1>6 DEF Step

LEMMA FlowTypes ==
  ASSUME Types, NEW f \in Flows, FlowReceives(f) \/ FlowStep(f)
  PROVE  Types'
<1> USE DEF storeVars, queueVars, logVars, procVars
<1> USE DEF Types
<1>0. f \in Procs /\ f # "status" /\ f \notin Handlers
  BY StatusAssumption DEF Procs
<1>1. CASE FlowReceives(f)
  <2>1. GoTo(f, "load") \/ GoTo(f, "got")
    BY <1>0, <1>1, LookUpFinds DEF FlowReceives
  <2>2. want' = want
    BY <1>0, <1>1 DEF FlowReceives, Control, TypeOK
  <2>3. Control' /\ pc' \in [Procs -> Pcs]
    BY <1>0, <1>1, <2>1, <2>2, MoveKeepsControl DEF FlowReceives, Fetching, Pcs
  <2>4. seen' \in [Procs -> Statuses]
    BY <1>0, <1>1, LookUpFinds DEF FlowReceives
  <2>5. sent' \in Nat /\ UNCHANGED <<mode, storeVars, queueVars, logVars, staleFill, failed>>
    BY <1>1 DEF FlowReceives, TypeOK
  <2> QED BY <2>2, <2>3, <2>4, <2>5 DEF TypeOK
<1>2. CASE FlowDecides(f)
  <2>1. PICK l \in {"idle", "arm", "compare"} :
            GoTo(f, l) /\ (mode = "plain" => l = "idle")
    BY <1>2 DEF FlowDecides
  <2>2. Control' /\ pc' \in [Procs -> Pcs]
    BY <1>0, <1>2, <2>1, MoveKeepsControl DEF FlowDecides, Pcs
  <2>3. seen' \in [Procs -> Statuses]
    BY <1>0, <1>2, SeesStatus DEF FlowDecides, Statuses
  <2> QED BY <1>2, <2>2, <2>3 DEF FlowDecides, TypeOK
<1>3. CASE FlowEvictsAgain(f)
  <2>1. Control' /\ pc' \in [Procs -> Pcs]
    BY <1>0, <1>3, MoveKeepsControl DEF FlowEvictsAgain, Control, Fetching, Pcs
  <2> QED BY <1>3, <2>1 DEF FlowEvictsAgain, EvictedCopy, TypeOK
<1>4. CASE FlowFetchesAgain(f)
  <2>1. GoTo(f, "loadAgain") \/ GoTo(f, "gotAgain")
    BY <1>0, <1>4, LookUpFinds DEF FlowFetchesAgain
  <2>2. Control' /\ pc' \in [Procs -> Pcs]
    BY <1>0, <1>4, <2>1, MoveKeepsControl DEF FlowFetchesAgain, Control, Fetching, Pcs
  <2>3. seen' \in [Procs -> Statuses]
    BY <1>0, <1>4, LookUpFinds DEF FlowFetchesAgain
  <2> QED BY <1>4, <2>2, <2>3 DEF FlowFetchesAgain, TypeOK
<1>5. CASE FlowAnnounces(f)
  <2>1. Control' /\ pc' \in [Procs -> Pcs]
    BY <1>0, <1>5, MoveKeepsControl DEF FlowAnnounces, Control, Fetching, Pcs
  <2>2. notices' \in [Statuses -> Nat]
    BY <1>5 DEF FlowAnnounces, TypeOK, Statuses
  <2> QED BY <1>5, <2>1, <2>2 DEF FlowAnnounces, TypeOK
<1>6. CASE FlowArms(f)
  <2>1. Control' /\ pc' \in [Procs -> Pcs]
    BY <1>0, <1>6, MoveKeepsControl DEF FlowArms, Control, Fetching, Pcs
  <2> QED BY <1>6, <2>1 DEF FlowArms, TypeOK
<1> QED
  BY <1>1, <1>2, <1>3, <1>4, <1>5, <1>6 DEF FlowStep

LEMMA HandlerTypes ==
  ASSUME Types, NEW h \in Handlers, HandlerReceives(h) \/ HandlerPublishes(h)
  PROVE  Types'
<1> USE DEF storeVars, queueVars, logVars, procVars
<1> USE DEF Types
<1>0. h \in Procs /\ h # "status" /\ h \notin Flows
  BY StatusAssumption DEF Procs
<1>1. CASE HandlerReceives(h)
  <2>1. PICK l \in {"load", "got"} : GoTo(h, l)
    BY <1>0, <1>1, LookUpFinds DEF HandlerReceives
  <2>2. seen' \in [Procs -> Statuses]
    BY <1>0, <1>1, LookUpFinds DEF HandlerReceives
  <2>3. PICK w \in Payloads : want' = [want EXCEPT ![h] = w]
    BY <1>1 DEF HandlerReceives
  <2>4. Control' /\ pc' \in [Procs -> Pcs] /\ want' \in [Procs -> Payloads]
    BY <1>0, <1>1, <2>1, <2>3 DEF HandlerReceives, GoTo, Control, Fetching, Pcs, TypeOK
  <2> QED BY <1>1, <2>2, <2>4 DEF HandlerReceives, TypeOK
<1>2. CASE HandlerPublishes(h)
  <2>1. Control' /\ pc' \in [Procs -> Pcs]
    BY <1>0, <1>2, MoveKeepsControl DEF HandlerPublishes, Control, Pcs
  <2>2. [status |-> want[h], source |-> "device"] \in Message
    BY <1>0 DEF TypeOK, Message
  <2>3. statusChan' \in Seq(Message)
    BY <1>2, <2>2, SendsMessage DEF HandlerPublishes
  <2> QED BY <1>2, <2>1, <2>3 DEF HandlerPublishes, TypeOK, Message
<1> QED
  BY <1>1, <1>2

LEMMA StatusTypes ==
  ASSUME Types, StatusStep
  PROVE  Types'
<1> USE DEF storeVars, queueVars, logVars, procVars
<1> USE DEF Types
<1>0. "status" \in Procs /\ "status" \notin Handlers \cup Flows
  BY StatusAssumption DEF Procs
<1>1. CASE StatusReceives
  <2> DEFINE m == Head(statusChan)
  <2>1. m \in Message /\ Tail(statusChan) \in Seq(Message)
    BY <1>1, HeadTailProperties DEF StatusReceives, TypeOK, Message
  <2>2. statusChan' \in Seq(Message)
    BY <1>1, <2>1 DEF StatusReceives
  <2>3. CASE m.status \in ParsedStatus
    <3>1. /\ want' = [want EXCEPT !["status"] = m.status] /\ source' = m.source
          /\ LookUp("status", "load", "got") /\ m.status \in Statuses
      BY <1>1, <2>3 DEF StatusReceives, ParsedStatus
    <3>2. PICK l \in {"load", "got"} : GoTo("status", l)
      BY <1>0, <3>1, LookUpFinds
    <3>3. seen' \in [Procs -> Statuses]
      BY <1>0, <3>1, LookUpFinds
    <3>4. Control' /\ pc' \in [Procs -> Pcs] /\ want' \in [Procs -> Payloads]
      <4>1. /\ pc' = [pc EXCEPT !["status"] = l] /\ pc \in [Procs -> Pcs] /\ l \in Pcs
            /\ want \in [Procs -> Payloads] /\ Statuses \subseteq Payloads /\ mode' = mode
        BY <1>1, <3>2 DEF StatusReceives, GoTo, Pcs, TypeOK, Statuses, Payloads
      <4>2. pc' \in [Procs -> Pcs] /\ want' \in [Procs -> Payloads]
        BY <3>1, <4>1
      <4>3. /\ \A p \in Procs \ {"status"} : pc'[p] = pc[p] /\ want'[p] = want[p]
            /\ pc'["status"] = l /\ want'["status"] = m.status
        BY <1>0, <3>1, <4>1
      <4>4. Handlers \subseteq Procs \ {"status"} /\ Flows \subseteq Procs \ {"status"}
        BY <1>0 DEF Procs
      <4>5. Control'
        BY <3>1, <4>1, <4>3, <4>4 DEF Control, Fetching
      <4> QED BY <4>2, <4>5
    <3>5. source' \in {"device", "expired"}
      BY <2>1, <3>1 DEF Message
    <3> QED BY <1>1, <2>2, <3>3, <3>4, <3>5 DEF StatusReceives, TypeOK, Message
  <2>4. CASE m.status \notin ParsedStatus
    <3>1. UNCHANGED <<source, procVars>>
      BY <1>1, <2>4 DEF StatusReceives
    <3> QED BY <1>1, <2>2, <3>1 DEF StatusReceives, TypeOK, Message, Control
  <2> QED BY <2>3, <2>4
<1>2. CASE StatusIgnores
  <2>1. Control' /\ pc' \in [Procs -> Pcs]
    BY <1>0, <1>2, MoveKeepsControl DEF StatusIgnores, Pcs
  <2> QED BY <1>2, <2>1 DEF StatusIgnores, TypeOK
<1>3. CASE StatusAccepts
  <2>1. Control' /\ pc' \in [Procs -> Pcs]
    BY <1>0, <1>3, MoveKeepsControl DEF StatusAccepts, Updating, Pcs
  <2>2. key' \in BOOLEAN /\ lastStatus' \in Statuses
    BY <1>3 DEF StatusAccepts, ArmsKey, TypeOK, Control
  <2> QED BY <1>3, <2>1, <2>2 DEF StatusAccepts, TypeOK
<1>4. CASE StatusAnnounces
  <2>1. Control' /\ pc' \in [Procs -> Pcs]
    BY <1>0, <1>4, MoveKeepsControl DEF StatusAnnounces, Pcs
  <2>2. notices' \in [Statuses -> Nat] /\ pendingRan' \in BOOLEAN
    BY <1>4 DEF StatusAnnounces, TypeOK, Control
  <2> QED BY <1>4, <2>1, <2>2 DEF StatusAnnounces, EvictedCopy, TypeOK
<1> QED
  BY <1>1, <1>2, <1>3, <1>4 DEF StatusStep

LEMMA UnreadTypes ==
  ASSUME Types, StatusUnread
  PROVE  Types'
<1> USE DEF storeVars, queueVars, logVars, procVars
<1> USE DEF Types
<1>1. "status" \in Procs /\ "status" \notin Handlers \cup Flows
  BY StatusAssumption DEF Procs
<1>2. Control' /\ pc' \in [Procs -> Pcs]
  BY <1>1, MoveKeepsControl DEF StatusUnread, Updating, Pcs
<1>3. slips' \in Nat /\ lastStatus' \in Statuses /\ failed' \in BOOLEAN
  <2>1. slips' \in {slips, slips + 1} /\ lastStatus' = want["status"]
    BY DEF StatusUnread
  <2>2. failed' = TRUE
    BY DEF StatusUnread
  <2> QED BY <2>1, <2>2 DEF TypeOK, Control
<1>4. UNCHANGED <<mode, storeVars, queueVars, seen, want, expiries, writes, notices,
                  pendingRan, sent, staleFill>>
  BY DEF StatusUnread
<1> QED BY <1>2, <1>3, <1>4 DEF TypeOK

LEMMA RedisTypes ==
  ASSUME Types, KeyExpires \/ MonitorPublishes \/ Restart
  PROVE  Types'
<1> USE DEF storeVars, queueVars, logVars, procVars
<1> USE DEF Types
<1>1. CASE KeyExpires
  <2>1. Control'
    BY <1>1 DEF KeyExpires, Control
  <2>2. expired' \in Nat /\ expiries' \in Nat
    <3>1. expired' = expired + 1 /\ expiries' = expiries + 1
      BY <1>1 DEF KeyExpires
    <3> QED BY <3>1 DEF TypeOK
  <2>3. key' \in BOOLEAN
    BY <1>1, Zenon DEF KeyExpires
  <2>4. UNCHANGED <<db, cache, statusChan, source, procVars, slips, writes, notices,
                    pendingRan, lastStatus, sent, staleFill, failed>>
    BY <1>1 DEF KeyExpires
  <2> QED BY <2>1, <2>2, <2>3, <2>4 DEF TypeOK
<1>2. CASE MonitorPublishes
  <2>1. [status |-> "off", source |-> ExpirySource] \in Message
    BY DEF ExpirySource, Message, Payloads, Statuses
  <2>2. statusChan' \in Seq(Message)
    BY <1>2, <2>1, SendsMessage DEF MonitorPublishes
  <2> QED BY <1>2, <2>2 DEF MonitorPublishes, TypeOK, Control, Message
<1>3. CASE Restart
  <2>1. statusChan' \in Seq(Message)
    BY <1>3 DEF Restart
  <2>2. pc' \in [Procs -> Pcs] /\ Control'
    BY <1>3 DEF Restart, Pcs, Control, Procs
  <2> QED BY <1>3, <2>1, <2>2 DEF Restart, TypeOK, Message, Statuses
<1> QED
  BY <1>1, <1>2, <1>3

LEMMA StepTypes == Types /\ [Next]_vars => Types'
<1>1. ASSUME Types, UNCHANGED vars PROVE Types'
  BY <1>1 DEF vars, storeVars, queueVars, logVars, procVars, Types, TypeOK, Control
<1> QED
  BY <1>1, SharedStepTypes, FlowTypes, HandlerTypes, StatusTypes, UnreadTypes, RedisTypes
     DEF Next

\* Every variable keeps its type: what is stored is always a parsed status.
THEOREM TypeInvariant == Spec => []TypeOK
<1>1. Types => TypeOK
  BY DEF Types
<1> QED
  BY <1>1, InitTypes, StepTypes, PTL DEF Spec

-----------------------------------------------------------------------------
(* Announcements.                                                           *)

\* Between its write and its announcement.
InFlight == {"evict", "evicted"} \cup Telling

Unannounced(s) == {p \in Procs : pc[p] \in InFlight /\ want[p] = s}

\* Every write is announced or about to be; only a fault loses one.
NoticesInv == \A s \in Statuses :
    /\ IsFiniteSet(Unannounced(s))
    /\ notices[s] + Cardinality(Unannounced(s)) <= writes[s]
    /\ ~failed => notices[s] + Cardinality(Unannounced(s)) = writes[s]

\* What a step may do to the announcements: nothing; a write, which is then to be
\* announced; an announcement; or a fault.
Quiet ==
    /\ UNCHANGED <<notices, writes, failed>>
    /\ \A q \in Procs : /\ pc'[q] \in InFlight <=> pc[q] \in InFlight
                        /\ pc[q] \in InFlight => want'[q] = want[q]

Wrote(p) ==
    /\ UNCHANGED <<notices, want, failed>>
    /\ writes' = [writes EXCEPT ![want[p]] = @ + 1]
    /\ pc[p] \notin InFlight
    /\ pc' = [pc EXCEPT ![p] = "evict"]

Announced(p, l) ==
    /\ UNCHANGED <<writes, want, failed>>
    /\ notices' = [notices EXCEPT ![want[p]] = @ + 1]
    /\ pc[p] \in InFlight
    /\ l \notin InFlight
    /\ pc' = [pc EXCEPT ![p] = l]

Faulted ==
    /\ failed'
    /\ UNCHANGED <<notices, writes, want>>
    /\ \A q \in Procs : pc'[q] \in InFlight => pc[q] \in InFlight

NoticeStep ==
    \/ Quiet
    \/ \E p \in Procs : Wrote(p)
    \/ \E p \in Procs : \E l \in Pcs : Announced(p, l)
    \/ Faulted

LEMMA MoveIsQuiet ==
  ASSUME Types, NEW p \in Procs, NEW l, GoTo(p, l), l \in InFlight <=> pc[p] \in InFlight,
         UNCHANGED <<want, notices, writes, failed>>
  PROVE  Quiet
  BY DEF Types, TypeOK, GoTo, Quiet

LEMMA SharedNoticeStep ==
  ASSUME Types, NEW p \in Procs, Step(p) \/ Fails(p)
  PROVE  NoticeStep
<1> USE DEF storeVars, queueVars, logVars, procVars
<1>1. CASE Load(p)
  BY <1>1, MoveIsQuiet DEF Load, NoticeStep, InFlight, Telling
<1>2. CASE Fill(p)
  BY <1>2, MoveIsQuiet DEF Fill, NoticeStep, InFlight, Telling
<1>3. CASE Compare(p) \/ Reload(p)
  <2>1. pc[p] \in {"compare", "reload"}
    BY <1>3 DEF Compare, Reload
  <2>2. PICK l \in {"reload", AfterUnchanged(p), "write"} : GoTo(p, l)
    BY <1>3 DEF Compare, Reload, CompareWith
  <2> QED
    BY <1>3, <2>1, <2>2, MoveIsQuiet
       DEF Compare, Reload, AfterUnchanged, NoticeStep, InFlight, Telling
<1>4. CASE Write(p)
  BY <1>4 DEF Write, GoTo, Wrote, NoticeStep, InFlight, Telling
<1>5. CASE Evict(p)
  BY <1>5, MoveIsQuiet DEF Evict, NoticeStep, InFlight
<1>6. CASE Fails(p)
  BY <1>6 DEF Fails, GoTo, Types, TypeOK, NoticeStep, Faulted, InFlight, Telling
<1> QED
  BY <1>1, <1>2, <1>3, <1>4, <1>5, <1>6 DEF Step

LEMMA FlowNoticeStep ==
  ASSUME Types, NEW f \in Flows, FlowReceives(f) \/ FlowStep(f)
  PROVE  NoticeStep
<1> USE DEF storeVars, queueVars, logVars, procVars
<1>0. f \in Procs
  BY DEF Procs
<1>1. CASE FlowReceives(f)
  <2>1. PICK l \in {"load", "got"} : GoTo(f, l)
    BY <1>0, <1>1, LookUpFinds DEF FlowReceives
  <2>2. Quiet
    BY <1>0, <1>1, <2>1 DEF FlowReceives, GoTo, Types, TypeOK, Quiet, InFlight, Telling
  <2> QED BY <2>2 DEF NoticeStep
<1>2. CASE FlowDecides(f)
  BY <1>0, <1>2, MoveIsQuiet DEF FlowDecides, NoticeStep, InFlight, Telling
<1>3. CASE FlowEvictsAgain(f)
  BY <1>0, <1>3, MoveIsQuiet DEF FlowEvictsAgain, NoticeStep, InFlight, Telling
<1>4. CASE FlowFetchesAgain(f)
  <2>1. PICK l \in {"loadAgain", "gotAgain"} : GoTo(f, l)
    BY <1>0, <1>4, LookUpFinds DEF FlowFetchesAgain
  <2> QED
    BY <1>0, <1>4, <2>1, MoveIsQuiet DEF FlowFetchesAgain, NoticeStep, InFlight, Telling
<1>5. CASE FlowAnnounces(f)
  <2>1. want[f] = "on"
    BY DEF Types, Control
  <2>2. Announced(f, "arm")
    BY <1>5, <2>1 DEF FlowAnnounces, GoTo, Announced, InFlight, Telling
  <2> QED BY <1>0, <2>2 DEF NoticeStep, Pcs
<1>6. CASE FlowArms(f)
  BY <1>0, <1>6, MoveIsQuiet DEF FlowArms, NoticeStep, InFlight, Telling
<1> QED
  BY <1>1, <1>2, <1>3, <1>4, <1>5, <1>6 DEF FlowStep

LEMMA HandlerNoticeStep ==
  ASSUME Types, NEW h \in Handlers, HandlerReceives(h) \/ HandlerPublishes(h)
  PROVE  NoticeStep
<1> USE DEF storeVars, queueVars, logVars, procVars
<1>0. h \in Procs
  BY DEF Procs
<1>1. CASE HandlerReceives(h)
  <2>1. PICK l \in {"load", "got"} : GoTo(h, l)
    BY <1>0, <1>1, LookUpFinds DEF HandlerReceives
  <2>2. PICK w \in Payloads : want' = [want EXCEPT ![h] = w]
    BY <1>1 DEF HandlerReceives
  <2>3. Quiet
    BY <1>0, <1>1, <2>1, <2>2
       DEF HandlerReceives, GoTo, Types, TypeOK, Quiet, InFlight, Telling
  <2> QED BY <2>3 DEF NoticeStep
<1>2. CASE HandlerPublishes(h)
  BY <1>0, <1>2, MoveIsQuiet DEF HandlerPublishes, NoticeStep, InFlight, Telling
<1> QED
  BY <1>1, <1>2

LEMMA StatusNoticeStep ==
  ASSUME Types, StatusStep
  PROVE  NoticeStep
<1> USE DEF storeVars, queueVars, logVars, procVars
<1>0. "status" \in Procs
  BY DEF Procs
<1>1. CASE StatusReceives
  <2>1. CASE Head(statusChan).status \in ParsedStatus
    <3>1. /\ want' = [want EXCEPT !["status"] = Head(statusChan).status]
          /\ LookUp("status", "load", "got")
      BY <1>1, <2>1 DEF StatusReceives
    <3>2. PICK l \in {"load", "got"} : GoTo("status", l)
      BY <1>0, <3>1, LookUpFinds
    <3>3. Quiet
      BY <1>0, <1>1, <3>1, <3>2
         DEF StatusReceives, GoTo, Types, TypeOK, Quiet, InFlight, Telling
    <3> QED BY <3>3 DEF NoticeStep
  <2>2. CASE Head(statusChan).status \notin ParsedStatus
    BY <1>1, <2>2 DEF StatusReceives, NoticeStep, Quiet
  <2> QED BY <2>1, <2>2
<1>2. CASE StatusIgnores
  BY <1>0, <1>2, MoveIsQuiet DEF StatusIgnores, NoticeStep, InFlight, Telling
<1>3. CASE StatusAccepts
  BY <1>0, <1>3, MoveIsQuiet DEF StatusAccepts, NoticeStep, InFlight, Telling
<1>4. CASE StatusAnnounces
  <2>1. Announced("status", "idle")
    BY <1>4 DEF StatusAnnounces, GoTo, Announced, InFlight, Telling
  <2> QED BY <1>0, <2>1 DEF NoticeStep, Pcs
<1> QED
  BY <1>1, <1>2, <1>3, <1>4 DEF StatusStep

LEMMA NextNoticeStep ==
  ASSUME Types, [Next]_vars
  PROVE  NoticeStep
<1> USE DEF storeVars, queueVars, logVars, procVars
<1>1. ASSUME KeyExpires \/ MonitorPublishes \/ UNCHANGED vars PROVE NoticeStep
  BY <1>1 DEF KeyExpires, MonitorPublishes, vars, NoticeStep, Quiet
<1>2. ASSUME Restart PROVE NoticeStep
  BY <1>2 DEF Restart, NoticeStep, Faulted, InFlight, Telling
<1>3. ASSUME StatusUnread PROVE NoticeStep
  BY <1>3 DEF StatusUnread, GoTo, Types, TypeOK, NoticeStep, Faulted, InFlight, Telling
<1> QED
  BY <1>1, <1>2, <1>3, SharedNoticeStep, FlowNoticeStep, HandlerNoticeStep, StatusNoticeStep
     DEF Next

LEMMA NoticesInvStep ==
  ASSUME Types, NoticesInv, [Next]_vars
  PROVE  NoticesInv'
<1> DEFINE U(s) == Unannounced(s)
<1>0. Types' /\ NoticeStep
  BY StepTypes, NextNoticeStep
<1>1. CASE Quiet
  <2>1. \A s \in Statuses : U(s)' = U(s)
    BY <1>1 DEF Quiet, Unannounced
  <2> QED BY <1>1, <2>1 DEF Quiet, NoticesInv
<1>2. ASSUME NEW p \in Procs, Wrote(p) PROVE NoticesInv'
  <2> DEFINE w == want[p]
  <2> SUFFICES ASSUME NEW s \in Statuses
               PROVE  /\ IsFiniteSet(U(s)')
                      /\ notices'[s] + Cardinality(U(s)') <= writes'[s]
                      /\ ~failed' => notices'[s] + Cardinality(U(s)') = writes'[s]
    BY DEF NoticesInv
  <2>1. IsFiniteSet(U(s)) /\ Cardinality(U(s)) \in Nat
    BY FS_CardinalityType DEF NoticesInv
  <2>2. notices[s] \in Nat /\ writes[s] \in Nat
    BY DEF Types, TypeOK
  <2>3. CASE s = w
    <3>1. U(s)' = U(s) \cup {p} /\ p \notin U(s)
      BY <1>2, <2>3 DEF Wrote, Unannounced, Types, TypeOK, InFlight
    <3>2. IsFiniteSet(U(s)') /\ Cardinality(U(s)') = Cardinality(U(s)) + 1
      BY <2>1, <3>1, FS_AddElement
    <3>3. writes'[s] = writes[s] + 1 /\ notices'[s] = notices[s] /\ failed' = failed
      BY <1>2, <2>3 DEF Wrote, Types, TypeOK
    <3> QED BY <2>1, <2>2, <3>2, <3>3 DEF NoticesInv
  <2>4. CASE s # w
    <3>1. U(s)' = U(s)
      BY <1>2, <2>4 DEF Wrote, Unannounced, Types, TypeOK, InFlight
    <3>2. writes'[s] = writes[s] /\ notices'[s] = notices[s] /\ failed' = failed
      BY <1>2, <2>4 DEF Wrote, Types, TypeOK
    <3> QED BY <2>1, <2>2, <3>1, <3>2 DEF NoticesInv
  <2> QED BY <2>3, <2>4
<1>3. ASSUME NEW p \in Procs, NEW l \in Pcs, Announced(p, l) PROVE NoticesInv'
  <2> DEFINE w == want[p]
  <2> SUFFICES ASSUME NEW s \in Statuses
               PROVE  /\ IsFiniteSet(U(s)')
                      /\ notices'[s] + Cardinality(U(s)') <= writes'[s]
                      /\ ~failed' => notices'[s] + Cardinality(U(s)') = writes'[s]
    BY DEF NoticesInv
  <2>1. IsFiniteSet(U(s)) /\ Cardinality(U(s)) \in Nat
    BY FS_CardinalityType DEF NoticesInv
  <2>2. notices[s] \in Nat /\ writes[s] \in Nat
    BY DEF Types, TypeOK
  <2>3. CASE s = w
    <3>1. U(s)' = U(s) \ {p} /\ p \in U(s)
      BY <1>3, <2>3 DEF Announced, Unannounced, Types, TypeOK
    <3>2. IsFiniteSet(U(s)') /\ Cardinality(U(s)') = Cardinality(U(s)) - 1
      BY <2>1, <3>1, FS_RemoveElement
    <3>3. notices'[s] = notices[s] + 1 /\ writes'[s] = writes[s] /\ failed' = failed
      BY <1>3, <2>3 DEF Announced, Types, TypeOK
    <3> QED BY <2>1, <2>2, <3>2, <3>3 DEF NoticesInv
  <2>4. CASE s # w
    <3>1. U(s)' = U(s)
      BY <1>3, <2>4 DEF Announced, Unannounced, Types, TypeOK
    <3>2. writes'[s] = writes[s] /\ notices'[s] = notices[s] /\ failed' = failed
      BY <1>3, <2>4 DEF Announced, Types, TypeOK
    <3> QED BY <2>1, <2>2, <3>1, <3>2 DEF NoticesInv
  <2> QED BY <2>3, <2>4
<1>4. CASE Faulted
  <2> SUFFICES ASSUME NEW s \in Statuses
               PROVE  /\ IsFiniteSet(U(s)')
                      /\ notices'[s] + Cardinality(U(s)') <= writes'[s]
    BY <1>4 DEF NoticesInv, Faulted
  <2>1. IsFiniteSet(U(s)) /\ Cardinality(U(s)) \in Nat
    BY FS_CardinalityType DEF NoticesInv
  <2>2. U(s)' \subseteq U(s)
    BY <1>4 DEF Faulted, Unannounced
  <2>3. IsFiniteSet(U(s)') /\ Cardinality(U(s)') <= Cardinality(U(s))
    BY <2>1, <2>2, FS_Subset
  <2>4. Cardinality(U(s)') \in Nat
    BY <2>3, FS_CardinalityType
  <2>5. notices[s] \in Nat /\ writes[s] \in Nat /\ notices'[s] = notices[s]
        /\ writes'[s] = writes[s]
    BY <1>4 DEF Faulted, Types, TypeOK
  <2> QED BY <2>1, <2>3, <2>4, <2>5 DEF NoticesInv
<1> QED
  BY <1>0, <1>1, <1>2, <1>3, <1>4 DEF NoticeStep

LEMMA InitNotices == Init => NoticesInv
<1> SUFFICES ASSUME Init PROVE NoticesInv
  OBVIOUS
<1>1. \A s \in Statuses : Unannounced(s) = {}
  BY DEF Init, Unannounced, InFlight, Telling
<1>2. \A s \in Statuses : notices[s] = 0 /\ writes[s] = 0
  BY DEF Init
<1> QED
  BY <1>1, <1>2, FS_EmptySet DEF NoticesInv

\* Nothing is announced that was not written, whatever fails; without faults and
\* with nothing in flight every write has been announced exactly once.
THEOREM NoticesMatch == Spec => []NoticesMatchWrites
<1>1. ASSUME Types, NoticesInv PROVE NoticesMatchWrites
  <2>1. \A s \in Statuses : /\ Cardinality(Unannounced(s)) \in Nat
                            /\ notices[s] \in Nat /\ writes[s] \in Nat
    BY <1>1, FS_CardinalityType DEF NoticesInv, Types, TypeOK
  <2>2. \A s \in Statuses : notices[s] <= writes[s]
    BY <1>1, <2>1 DEF NoticesInv
  <2>3. ASSUME AllIdle, ~failed PROVE notices = writes
    <3>1. \A s \in Statuses : Unannounced(s) = {}
      BY <2>3 DEF AllIdle, Unannounced, InFlight, Telling
    <3>2. \A s \in Statuses : notices[s] = writes[s]
      BY <1>1, <2>1, <2>3, <3>1, FS_EmptySet DEF NoticesInv
    <3> QED BY <1>1, <3>2 DEF Types, TypeOK
  <2> QED BY <2>2, <2>3 DEF NoticesMatchWrites
<1>2. Init => Types /\ NoticesInv
  BY InitTypes, InitNotices
<1>3. Types /\ NoticesInv /\ [Next]_vars => (Types /\ NoticesInv)'
  BY StepTypes, NoticesInvStep
<1> QED
  BY <1>1, <1>2, <1>3, PTL DEF Spec

-----------------------------------------------------------------------------
(* Expiries.                                                                *)

\* The places of a channel that hold an expiry message.
ExpiredAt(q) == {i \in DOMAIN q : q[i].source = "expired"}

Waiting(q) == Cardinality(ExpiredAt(q))
One(P) == IF P THEN 1 ELSE 0

LEMMA WaitingIsFinite ==
  ASSUME NEW q \in Seq(Message)
  PROVE  IsFiniteSet(ExpiredAt(q)) /\ Waiting(q) \in Nat
<1>1. DOMAIN q = 1 .. Len(q) /\ Len(q) \in Nat
  OBVIOUS
<1>2. IsFiniteSet(DOMAIN q)
  BY <1>1, FS_Interval
<1>3. IsFiniteSet(ExpiredAt(q))
  BY <1>2, FS_Subset DEF ExpiredAt
<1> QED
  BY <1>3, FS_CardinalityType DEF Waiting

LEMMA WaitingAppend ==
  ASSUME NEW q \in Seq(Message), NEW m \in Message
  PROVE  Waiting(Append(q, m)) = Waiting(q) + One(m.source = "expired")
<1> DEFINE r == Append(q, m)
           n == Len(q) + 1
<1>1. /\ r \in Seq(Message) /\ Len(r) = n /\ Len(q) \in Nat
      /\ \A i \in 1 .. Len(q) : r[i] = q[i]
      /\ r[n] = m
  BY AppendProperties
<1>2. DOMAIN r = DOMAIN q \cup {n} /\ n \notin DOMAIN q
  BY <1>1
<1>3. \A i \in DOMAIN q : r[i] = q[i]
  BY <1>1
<1>4. CASE m.source = "expired"
  <2>1. ExpiredAt(r) = ExpiredAt(q) \cup {n} /\ n \notin ExpiredAt(q)
    BY <1>1, <1>2, <1>3, <1>4 DEF ExpiredAt
  <2> QED BY <1>4, <2>1, WaitingIsFinite, FS_AddElement DEF Waiting, One
<1>5. CASE m.source # "expired"
  <2>1. ExpiredAt(r) = ExpiredAt(q)
    BY <1>1, <1>2, <1>3, <1>5 DEF ExpiredAt
  <2> QED BY <1>5, <2>1, WaitingIsFinite DEF Waiting, One
<1> QED
  BY <1>4, <1>5

LEMMA WaitingTail ==
  ASSUME NEW q \in Seq(Message), q # <<>>
  PROVE  Waiting(q) = Waiting(Tail(q)) + One(Head(q).source = "expired")
<1> DEFINE r == Tail(q)
           S == ExpiredAt(r)
           T == ExpiredAt(q) \ {1}
           f == [i \in S |-> i + 1]
<1>1. /\ r \in Seq(Message) /\ Len(r) = Len(q) - 1
      /\ \A i \in 1 .. Len(r) : r[i] = q[i + 1]
      /\ Len(q) \in Nat /\ DOMAIN q = 1 .. Len(q) /\ DOMAIN r = 1 .. Len(r)
  BY HeadTailProperties
<1>2. 1 \in DOMAIN q /\ q[1] = Head(q)
  BY <1>1
<1>3. f \in [S -> T]
  BY <1>1 DEF ExpiredAt
<1>4. \A i, j \in S : f[i] = f[j] => i = j
  BY <1>1 DEF ExpiredAt
<1>5. ASSUME NEW j \in T PROVE \E i \in S : f[i] = j
  <2>1. j \in 2 .. Len(q) /\ q[j].source = "expired"
    BY <1>1 DEF ExpiredAt
  <2>2. j - 1 \in 1 .. Len(r) /\ r[j - 1] = q[j]
    BY <1>1, <2>1
  <2>3. j - 1 \in S /\ f[j - 1] = j
    BY <1>1, <2>1, <2>2 DEF ExpiredAt
  <2> QED BY <2>3
<1>6. ExistsBijection(S, T)
  <2>1. f \in Bijection(S, T)
    BY <1>3, <1>4, <1>5, Fun_IsBij
  <2> QED BY <2>1 DEF ExistsBijection
<1>7. Cardinality(T) = Cardinality(S)
  BY <1>1, <1>6, WaitingIsFinite, FS_Bijection
<1>8. Cardinality(T) = Waiting(q) - One(Head(q).source = "expired")
  <2>1. 1 \in ExpiredAt(q) <=> Head(q).source = "expired"
    BY <1>2 DEF ExpiredAt
  <2>2. /\ IsFiniteSet(ExpiredAt(q)) /\ Waiting(q) \in Nat
        /\ Cardinality(T) = IF 1 \in ExpiredAt(q) THEN Waiting(q) - 1 ELSE Waiting(q)
    BY WaitingIsFinite, FS_RemoveElement DEF Waiting
  <2> QED BY <2>1, <2>2 DEF One
<1> QED
  BY <1>1, <1>7, <1>8, WaitingIsFinite DEF Waiting, One

Acts(p) ==
    \/ Step(p) \/ Fails(p)
    \/ p \in Flows /\ (FlowReceives(p) \/ FlowStep(p))
    \/ p \in Handlers /\ (HandlerReceives(p) \/ HandlerPublishes(p))

\* No other goroutine touches what the status flow is doing, and only the status
\* flow writes a device offline.
LEMMA StatusIsPrivate ==
  ASSUME Types, NEW p \in Procs \ {"status"}, Acts(p)
  PROVE  /\ pc'["status"] = pc["status"]
         /\ want'["status"] = want["status"]
         /\ UNCHANGED <<mode, source, expired, expiries, slips, lastStatus>>
         /\ writes'["off"] = writes["off"]
<1> USE DEF storeVars, queueVars, logVars, procVars, GoTo, Types, TypeOK
<1>1. CASE Step(p) \/ Fails(p)
  <2>1. CASE Write(p)
    <3>1. want[p] = "on"
      BY <2>1, StatusAssumption DEF Write, Control, Procs, Fetching
    <3> QED BY <2>1, <3>1 DEF Write, Statuses
  <2>2. CASE (Step(p) /\ ~Write(p)) \/ Fails(p)
    <3>1. \E l \in Pcs : GoTo(p, l)
      BY <2>2 DEF Step, Load, Fill, Compare, Reload, CompareWith, AfterUnchanged, Evict,
                  Fails, Pcs
    <3>2. UNCHANGED <<mode, want, source, expired, expiries, slips, lastStatus, writes>>
      BY <2>2 DEF Step, Load, Fill, Compare, Reload, Evict, Fails
    <3> QED BY <3>1, <3>2
  <2> QED BY <1>1, <2>1, <2>2
<1>2. CASE p \in Flows /\ (FlowReceives(p) \/ FlowStep(p))
  <2>1. PICK l \in Pcs : pc' = [pc EXCEPT ![p] = l]
    BY <1>2 DEF FlowReceives, FlowStep, FlowDecides, FlowEvictsAgain, FlowFetchesAgain,
                FlowAnnounces, FlowArms, LookUp, Pcs
  <2>2. UNCHANGED <<mode, source, expired, expiries, slips, lastStatus, writes>>
    BY <1>2 DEF FlowReceives, FlowStep, FlowDecides, FlowEvictsAgain, FlowFetchesAgain,
                FlowAnnounces, FlowArms
  <2>3. want' = want \/ \E w \in Payloads : want' = [want EXCEPT ![p] = w]
    BY <1>2 DEF FlowReceives, FlowStep, FlowDecides, FlowEvictsAgain, FlowFetchesAgain,
                FlowAnnounces, FlowArms, Payloads, Statuses
  <2>4. pc'["status"] = pc["status"] /\ want'["status"] = want["status"]
    BY <2>1, <2>3 DEF Procs
  <2> QED BY <2>2, <2>4
<1>3. CASE p \in Handlers /\ (HandlerReceives(p) \/ HandlerPublishes(p))
  <2>1. PICK l \in Pcs : pc' = [pc EXCEPT ![p] = l]
    BY <1>3 DEF HandlerReceives, HandlerPublishes, LookUp, Pcs
  <2>2. UNCHANGED <<mode, source, expired, expiries, slips, lastStatus, writes>>
    BY <1>3 DEF HandlerReceives, HandlerPublishes
  <2>3. want' = want \/ \E w \in Payloads : want' = [want EXCEPT ![p] = w]
    BY <1>3 DEF HandlerReceives, HandlerPublishes
  <2>4. pc'["status"] = pc["status"] /\ want'["status"] = want["status"]
    BY <2>1, <2>3 DEF Procs
  <2> QED BY <2>2, <2>4
<1> QED
  BY <1>1, <1>2, <1>3 DEF Acts

LEMMA NextByActor ==
  ASSUME [Next]_vars
  PROVE  \/ \E p \in Procs \ {"status"} : Acts(p)
         \/ Step("status") \/ Fails("status") \/ StatusStep
         \/ StatusUnread
         \/ KeyExpires \/ MonitorPublishes \/ Restart
         \/ UNCHANGED vars
  BY StatusAssumption DEF Next, Acts, Procs

\* The channel of a step that neither publishes nor receives.
LEMMA OnlyPublishersSend ==
  ASSUME Types, NEW p \in Procs \ {"status"}, Acts(p)
  PROVE  \/ UNCHANGED statusChan
         \/ \E s \in Payloads :
              statusChan' = Append(statusChan, [status |-> s, source |-> "device"])
<1> USE DEF storeVars, queueVars, logVars, procVars, Types, TypeOK
<1>1. ASSUME Step(p) \/ Fails(p) PROVE UNCHANGED statusChan
  BY <1>1 DEF Step, Load, Fill, Compare, Reload, Write, Evict, Fails
<1>2. ASSUME FlowReceives(p) \/ FlowStep(p) PROVE UNCHANGED statusChan
  BY <1>2 DEF FlowReceives, FlowStep, FlowDecides, FlowEvictsAgain, FlowFetchesAgain,
              FlowAnnounces, FlowArms
<1>3. ASSUME HandlerReceives(p) PROVE UNCHANGED statusChan
  BY <1>3 DEF HandlerReceives
<1>4. ASSUME HandlerPublishes(p)
      PROVE \E s \in Payloads :
              statusChan' = Append(statusChan, [status |-> s, source |-> "device"])
  BY <1>4 DEF HandlerPublishes
<1> QED
  BY <1>1, <1>2, <1>3, <1>4 DEF Acts

Busy == pc["status"] \in Fetching \cup Updating

\* The status flow may be about to write the device offline: it handles an expiry
\* message, or has got past the filter with any offline message.
Due ==
    \/ Busy /\ source = "expired"
    \/ pc["status"] \in Updating /\ want["status"] = "off"

Serving == One(Due)

\* In heartbeat mode every offline write, every expiry notification, every expiry
\* message in the channel and the one the status flow may be about to write stand
\* for an expiry of the key, or for a message let through unread, of their own.
ExpiryInv == mode = "heartbeat" =>
    writes["off"] + expired + Waiting(statusChan) + Serving <= expiries + slips

LEMMA ExpiryNumbers ==
  ASSUME Types
  PROVE  /\ writes["off"] \in Nat /\ expired \in Nat /\ expiries \in Nat /\ slips \in Nat
         /\ Waiting(statusChan) \in Nat /\ Serving \in {0, 1}
  BY WaitingIsFinite DEF Types, TypeOK, Statuses, Message, Serving, One

LEMMA StatusStepExpiry ==
  ASSUME Types, Types', ExpiryInv, Step("status") \/ Fails("status") \/ StatusStep
  PROVE  ExpiryInv'
<1> USE DEF storeVars, queueVars, logVars, procVars
<1> SUFFICES ASSUME mode' = "heartbeat"
             PROVE  writes'["off"] + expired' + Waiting(statusChan') + Serving'
                      <= expiries' + slips'
  BY DEF ExpiryInv
<1>0. mode = "heartbeat" /\ UNCHANGED <<expired, expiries, slips>>
  BY DEF Step, Load, Fill, Compare, Reload, Write, Evict, Fails, StatusStep, StatusReceives,
         StatusIgnores, StatusAccepts, StatusAnnounces
<1>1. writes["off"] + expired + Waiting(statusChan) + Serving <= expiries + slips
  BY <1>0 DEF ExpiryInv
<1>2. /\ writes["off"] \in Nat /\ expired \in Nat /\ expiries \in Nat /\ slips \in Nat
      /\ Waiting(statusChan) \in Nat /\ Serving \in {0, 1} /\ Serving' \in {0, 1}
      /\ Waiting(statusChan') \in Nat
  BY ExpiryNumbers, WaitingIsFinite DEF Types, TypeOK, Message, Serving, One
<1>3. pc \in [Procs -> Pcs] /\ "status" \in Procs
  BY DEF Types, TypeOK, Procs
<1>4. ASSUME UNCHANGED <<writes, statusChan>>, Due' => Due
      PROVE  writes'["off"] + expired' + Waiting(statusChan') + Serving' <= expiries' + slips'
  <2>1. Serving' <= Serving
    BY <1>4 DEF Serving, One
  <2> QED BY <1>0, <1>1, <1>2, <1>4, <2>1
<1>5. CASE (Step("status") /\ ~Write("status")) \/ Fails("status")
  <2>1. UNCHANGED <<writes, statusChan, source, want>>
    BY <1>5 DEF Step, Load, Fill, Compare, Reload, Evict, Fails
  <2>2. (Busy' => Busy) /\ (pc'["status"] \in Updating => pc["status"] \in Updating)
    BY <1>3, <1>5
       DEF Step, Load, Fill, Compare, Reload, Evict, Fails, GoTo, CompareWith, AfterUnchanged,
           Busy, Fetching, Updating, Types, TypeOK, Control
  <2> QED BY <1>4, <2>1, <2>2 DEF Due
<1>6. CASE Write("status")
  <2>1. /\ pc["status"] = "write" /\ pc'["status"] = "evict" /\ statusChan' = statusChan
        /\ writes' = [writes EXCEPT ![want["status"]] = @ + 1]
    BY <1>3, <1>6 DEF Write, GoTo
  <2>2. Serving' = 0
    BY <2>1 DEF Serving, One, Due, Busy, Fetching, Updating
  <2>3. CASE want["status"] = "off"
    <3>1. Serving = 1
      BY <2>1, <2>3 DEF Serving, One, Due, Updating
    <3>2. writes'["off"] = writes["off"] + 1
      BY <2>1, <2>3 DEF Types, TypeOK, Statuses
    <3> QED BY <1>0, <1>1, <1>2, <2>1, <2>2, <3>1, <3>2
  <2>4. CASE want["status"] # "off"
    <3>1. writes'["off"] = writes["off"]
      BY <2>1, <2>4 DEF Types, TypeOK, Statuses
    <3> QED BY <1>0, <1>1, <1>2, <2>1, <2>2, <3>1
  <2> QED BY <2>3, <2>4
<1>7. CASE StatusReceives
  <2>1. /\ pc["status"] = "idle" /\ statusChan # <<>> /\ statusChan' = Tail(statusChan)
        /\ writes' = writes
    BY <1>7 DEF StatusReceives
  <2>2. Waiting(statusChan)
          = Waiting(statusChan') + One(Head(statusChan).source = "expired")
    BY <2>1, WaitingTail DEF Types, TypeOK, Message
  <2>3. Serving' <= One(Head(statusChan).source = "expired")
    <3>1. CASE Head(statusChan).status \in ParsedStatus
      <4>1. source' = Head(statusChan).source /\ LookUp("status", "load", "got")
        BY <1>7, <3>1 DEF StatusReceives
      <4>2. pc'["status"] \in {"load", "got"}
        BY <1>3, <4>1 DEF LookUp, GoTo
      <4> QED BY <4>1, <4>2 DEF Serving, One, Due, Updating
    <3>2. CASE Head(statusChan).status \notin ParsedStatus
      <4>1. pc' = pc
        BY <1>7, <3>2 DEF StatusReceives
      <4> QED BY <2>1, <4>1 DEF Serving, One, Due, Busy, Fetching, Updating
    <3> QED BY <3>1, <3>2
  <2>4. One(Head(statusChan).source = "expired") \in {0, 1}
    BY DEF One
  <2> QED BY <1>0, <1>1, <1>2, <2>1, <2>2, <2>3, <2>4
<1>8. CASE StatusIgnores \/ StatusAccepts \/ StatusAnnounces
  <2>1. UNCHANGED <<writes, statusChan, source, want>>
    BY <1>8 DEF StatusIgnores, StatusAccepts, StatusAnnounces
  <2>2. (Busy' => Busy) /\ (pc'["status"] \in Updating => Busy /\ source = "expired")
    BY <1>0, <1>3, <1>8
       DEF StatusIgnores, StatusAccepts, StatusAnnounces, GoTo, Busy, Fetching, Updating, Ignored
  <2> QED BY <1>4, <2>1, <2>2 DEF Due
<1> QED
  BY <1>5, <1>6, <1>7, <1>8 DEF StatusStep, Step

\* A message let through unread pays for the write it may cause.
LEMMA UnreadExpiry ==
  ASSUME Types, ExpiryInv, StatusUnread
  PROVE  ExpiryInv'
<1>1. UNCHANGED <<mode, writes, expired, statusChan, source, want, expiries>>
  BY DEF StatusUnread, queueVars
<1>2. /\ writes["off"] \in Nat /\ expired \in Nat /\ expiries \in Nat /\ slips \in Nat
      /\ Waiting(statusChan) \in Nat /\ Serving \in {0, 1} /\ Serving' \in {0, 1}
  BY ExpiryNumbers DEF Serving, One
<1>3. pc["status"] = "got" /\ source \in {"device", "expired"}
  BY DEF StatusUnread, Types, TypeOK
<1>4. CASE source = "expired"
  <2>1. Serving = 1 /\ slips' = slips
    BY <1>3, <1>4 DEF StatusUnread, Serving, One, Due, Busy, Fetching
  <2> QED BY <1>1, <1>2, <2>1 DEF ExpiryInv
<1>5. CASE source = "device" /\ want["status"] = "off"
  <2>1. slips' = slips + 1
    BY <1>5 DEF StatusUnread
  <2> QED BY <1>1, <1>2, <2>1 DEF ExpiryInv
<1>6. CASE source = "device" /\ want["status"] # "off"
  <2>1. Serving' = 0 /\ slips' = slips
    BY <1>1, <1>6 DEF StatusUnread, Serving, One, Due
  <2> QED BY <1>1, <1>2, <2>1 DEF ExpiryInv
<1> QED
  BY <1>3, <1>4, <1>5, <1>6

LEMMA ExpiryInvStep ==
  ASSUME Types, ExpiryInv, [Next]_vars
  PROVE  ExpiryInv'
<1> USE DEF storeVars, queueVars, logVars, procVars
<1>0. Types'
  BY StepTypes
<1>1. statusChan \in Seq(Message)
  BY DEF Types, TypeOK, Message
<1>2. /\ writes["off"] \in Nat /\ expired \in Nat /\ expiries \in Nat /\ slips \in Nat
      /\ Waiting(statusChan) \in Nat /\ Serving \in {0, 1} /\ Serving' \in {0, 1}
  BY ExpiryNumbers DEF Serving, One
<1>3. ASSUME NEW p \in Procs \ {"status"}, Acts(p) PROVE ExpiryInv'
  <2>1. /\ pc'["status"] = pc["status"] /\ want'["status"] = want["status"]
        /\ UNCHANGED <<mode, source, expired, expiries, slips>>
        /\ writes'["off"] = writes["off"]
    BY <1>3, StatusIsPrivate
  <2>2. Waiting(statusChan') = Waiting(statusChan)
    <3>1. ASSUME NEW s \in Payloads PROVE [status |-> s, source |-> "device"] \in Message
      BY DEF Message
    <3>2. ASSUME NEW s \in Payloads,
                 statusChan' = Append(statusChan, [status |-> s, source |-> "device"])
          PROVE  Waiting(statusChan') = Waiting(statusChan)
      BY <1>1, <1>2, <3>1, <3>2, WaitingAppend DEF One
    <3> QED BY <1>3, <3>2, OnlyPublishersSend
  <2>3. Serving' = Serving
    BY <2>1 DEF Serving, Due, Busy
  <2> QED BY <2>1, <2>2, <2>3 DEF ExpiryInv
<1>4. CASE KeyExpires
  <2>1. UNCHANGED <<mode, statusChan, source, pc, want, writes, slips>>
    BY <1>4 DEF KeyExpires
  <2>2. expired' = expired + 1 /\ expiries' = expiries + 1
    BY <1>4 DEF KeyExpires
  <2>3. Serving' = Serving
    BY <2>1 DEF Serving, Due, Busy
  <2> QED BY <1>2, <2>1, <2>2, <2>3 DEF ExpiryInv
<1>5. CASE MonitorPublishes
  <2> DEFINE m == [status |-> "off", source |-> ExpirySource]
  <2>1. UNCHANGED <<mode, source, pc, want, writes, expiries, slips>> /\ expired' = expired - 1
        /\ statusChan' = Append(statusChan, m)
    BY <1>5 DEF MonitorPublishes
  <2>2. m \in Message /\ m.source = "expired"
    BY DEF Message, Payloads, Statuses, ExpirySource
  <2>3. Waiting(statusChan') = Waiting(statusChan) + 1
    BY <1>1, <2>1, <2>2, WaitingAppend DEF One
  <2>4. Serving' = Serving
    BY <2>1 DEF Serving, Due, Busy
  <2> QED BY <1>2, <2>1, <2>3, <2>4 DEF ExpiryInv
<1>6. CASE Restart
  <2>1. UNCHANGED <<mode, writes, expiries, slips>> /\ expired' = 0 /\ statusChan' = <<>>
        /\ pc'["status"] = "idle"
    BY <1>6 DEF Restart, Procs
  <2>2. Waiting(statusChan') = 0
    <3>1. ExpiredAt(statusChan') = {}
      BY <2>1 DEF ExpiredAt
    <3> QED BY <3>1, FS_EmptySet DEF Waiting
  <2>3. Serving' = 0
    BY <2>1 DEF Serving, One, Due, Busy, Fetching, Updating
  <2> QED BY <1>2, <2>1, <2>2, <2>3 DEF ExpiryInv
<1>7. CASE UNCHANGED vars
  <2>1. UNCHANGED <<mode, statusChan, source, pc, want, writes, expired, expiries, slips>>
    BY <1>7 DEF vars
  <2> QED BY <2>1 DEF ExpiryInv, Serving, Due, Busy
<1> QED
  BY <1>0, <1>3, <1>4, <1>5, <1>6, <1>7, NextByActor, StatusStepExpiry,
     UnreadExpiry

\* In heartbeat mode every offline write has an expiry of the key of its own, or a
\* message let through because the configuration could not be read.
THEOREM OfflineOnlyByExpiry == Spec => []OfflineNeedsExpiry
<1>1. Types /\ ExpiryInv => OfflineNeedsExpiry
  <2> SUFFICES ASSUME Types, ExpiryInv, mode = "heartbeat"
               PROVE  writes["off"] <= expiries + slips
    BY DEF OfflineNeedsExpiry
  <2> QED BY ExpiryNumbers DEF ExpiryInv
<1>2. Init => Types /\ ExpiryInv
  <2> SUFFICES ASSUME Init PROVE Types /\ ExpiryInv
    OBVIOUS
  <2>1. ExpiredAt(statusChan) = {} /\ pc["status"] = "idle"
    BY DEF Init, ExpiredAt, Procs
  <2>2. Waiting(statusChan) = 0 /\ Serving = 0
    BY <2>1, FS_EmptySet DEF Waiting, Serving, One, Due, Busy, Fetching, Updating
  <2>3. writes["off"] = 0 /\ expired = 0 /\ expiries = 0 /\ slips = 0
    BY DEF Init, Statuses
  <2> QED BY <2>2, <2>3, InitTypes DEF ExpiryInv
<1>3. Types /\ ExpiryInv /\ [Next]_vars => (Types /\ ExpiryInv)'
  BY StepTypes, ExpiryInvStep
<1> QED
  BY <1>1, <1>2, <1>3, PTL DEF Spec

-----------------------------------------------------------------------------
(* The copy in the cache.                                                   *)

Evicting == \E p \in Procs : pc[p] = "evict"

\* Without a stale fill and without a fault the copy is the stored status, except
\* between a write and its eviction.
CacheInv == ~staleFill /\ ~failed => cache \in {"none", db} \/ Evicting

\* What is marked stays marked.
LEMMA MarksStay ==
  ASSUME [Next]_vars
  PROVE  (staleFill => staleFill') /\ (failed => failed')
<1> USE DEF storeVars, queueVars, logVars, procVars
<1>1. staleFill' = staleFill \/ \E p \in Procs : Fill(p)
  BY DEF Next, Step, Load, Compare, Reload, Write, Evict, Fails, FlowReceives, FlowStep,
         FlowDecides, FlowEvictsAgain, FlowFetchesAgain, FlowAnnounces, FlowArms,
         HandlerReceives, HandlerPublishes, StatusStep, StatusReceives, StatusIgnores,
         StatusAccepts, StatusAnnounces, StatusUnread, KeyExpires, MonitorPublishes, Restart,
         vars
<1>2. ASSUME NEW p \in Procs, Fill(p) PROVE staleFill => staleFill'
  BY <1>2, Zenon DEF Fill
<1>3. failed' = failed \/ failed' = TRUE
  BY DEF Next, Step, Load, Fill, Compare, Reload, Write, Evict, Fails, FlowReceives, FlowStep,
         FlowDecides, FlowEvictsAgain, FlowFetchesAgain, FlowAnnounces, FlowArms,
         HandlerReceives, HandlerPublishes, StatusStep, StatusReceives, StatusIgnores,
         StatusAccepts, StatusAnnounces, StatusUnread, KeyExpires, MonitorPublishes, Restart,
         vars
<1>4. staleFill => staleFill'
  <2>1. CASE staleFill' = staleFill
    BY <2>1
  <2> QED BY <1>1, <1>2, <2>1
<1>5. failed => failed'
  BY <1>3
<1> QED
  BY <1>4, <1>5

\* A goroutine leaves "evict" only by evicting the copy, if nothing fails.
LEMMA CopyStep ==
  ASSUME Types, [Next]_vars, ~failed'
  PROVE  \/ cache' = "none"
         \/ \E p \in Procs : pc'[p] = "evict"
         \/ \E p \in Procs : cache' = seen[p] /\ db' = db /\ (seen[p] # db => staleFill')
         \/ UNCHANGED <<cache, db>> /\ ~Evicting
<1> USE DEF storeVars, queueVars, logVars, procVars, GoTo, Types, TypeOK
<1>1. ASSUME NEW p \in Procs, Step(p)
      PROVE  \/ cache' = "none"
             \/ \E q \in Procs : pc'[q] = "evict"
             \/ cache' = seen[p] /\ db' = db /\ (seen[p] # db => staleFill')
             \/ UNCHANGED <<cache, db>> /\ ~Evicting
  <2>1. CASE Fill(p)
    <3>1. cache' = seen[p] /\ db' = db
      BY <2>1 DEF Fill
    <3>2. seen[p] # db => staleFill'
      BY <2>1, Zenon DEF Fill
    <3> QED BY <3>1, <3>2
  <2>2. CASE Write(p)
    BY <2>2 DEF Write
  <2>3. CASE Evict(p)
    BY <2>3 DEF Evict, EvictedCopy
  <2>4. CASE Load(p) \/ Compare(p) \/ Reload(p)
    <3>1. pc[p] # "evict" /\ (\E l \in Pcs : pc' = [pc EXCEPT ![p] = l])
          /\ UNCHANGED <<cache, db>>
      BY <2>4 DEF Load, Compare, Reload, CompareWith, AfterUnchanged, Pcs
    <3> QED BY <3>1 DEF Evicting
  <2> QED BY <1>1, <2>1, <2>2, <2>3, <2>4 DEF Step
<1>2. ASSUME NEW p \in Procs, Fails(p) PROVE FALSE
  BY <1>2 DEF Fails
<1>3. ASSUME NEW f \in Flows, FlowReceives(f) \/ FlowStep(f)
      PROVE  \/ cache' = "none"
             \/ \E q \in Procs : pc'[q] = "evict"
             \/ UNCHANGED <<cache, db>> /\ ~Evicting
  <2>1. CASE FlowEvictsAgain(f)
    BY <2>1 DEF FlowEvictsAgain, EvictedCopy
  <2>2. CASE FlowReceives(f) \/ (FlowStep(f) /\ ~FlowEvictsAgain(f))
    <3>1. UNCHANGED <<cache, db>>
      BY <2>2 DEF FlowReceives, FlowStep, FlowDecides, FlowFetchesAgain, FlowAnnounces, FlowArms
    <3>2. pc[f] # "evict"
      BY <2>2 DEF FlowReceives, FlowStep, FlowDecides, FlowFetchesAgain, FlowAnnounces, FlowArms
    <3>3. \E l \in Pcs : pc' = [pc EXCEPT ![f] = l]
      BY <2>2 DEF FlowReceives, FlowStep, FlowDecides, FlowFetchesAgain, FlowAnnounces, FlowArms,
                  LookUp, Pcs
    <3> QED BY <3>1, <3>2, <3>3 DEF Evicting, Procs
  <2> QED BY <1>3, <2>1, <2>2
<1>4. ASSUME NEW h \in Handlers, HandlerReceives(h) \/ HandlerPublishes(h)
      PROVE  \/ \E q \in Procs : pc'[q] = "evict"
             \/ UNCHANGED <<cache, db>> /\ ~Evicting
  <2>1. UNCHANGED <<cache, db>> /\ pc[h] # "evict"
    BY <1>4 DEF HandlerReceives, HandlerPublishes
  <2>2. \E l \in Pcs : pc' = [pc EXCEPT ![h] = l]
    BY <1>4 DEF HandlerReceives, HandlerPublishes, LookUp, Pcs
  <2> QED BY <2>1, <2>2 DEF Evicting, Procs
<1>5. ASSUME StatusStep
      PROVE  \/ cache' = "none"
             \/ \E q \in Procs : pc'[q] = "evict"
             \/ UNCHANGED <<cache, db>> /\ ~Evicting
  <2>1. CASE StatusAnnounces
    BY <2>1 DEF StatusAnnounces, EvictedCopy
  <2>2. CASE StatusReceives \/ StatusIgnores \/ StatusAccepts
    <3>1. UNCHANGED <<cache, db>> /\ pc["status"] # "evict"
      BY <2>2 DEF StatusReceives, StatusIgnores, StatusAccepts
    <3>2. pc' = pc \/ \E l \in Pcs : pc' = [pc EXCEPT !["status"] = l]
      BY <2>2 DEF StatusReceives, StatusIgnores, StatusAccepts, LookUp, Pcs
    <3> QED BY <3>1, <3>2 DEF Evicting, Procs
  <2> QED BY <1>5, <2>1, <2>2 DEF StatusStep
<1>6. ASSUME KeyExpires \/ MonitorPublishes \/ UNCHANGED vars
      PROVE  UNCHANGED <<cache, db, pc>>
  BY <1>6 DEF KeyExpires, MonitorPublishes, vars
<1>7. ASSUME Restart \/ StatusUnread PROVE FALSE
  BY <1>7 DEF Restart, StatusUnread
<1> QED
  BY <1>1, <1>2, <1>3, <1>4, <1>5, <1>6, <1>7 DEF Next, Evicting

LEMMA CacheInvStep ==
  ASSUME Types, CacheInv, [Next]_vars
  PROVE  CacheInv'
<1> SUFFICES ASSUME ~staleFill', ~failed' PROVE cache' \in {"none", db'} \/ Evicting'
  BY DEF CacheInv
<1>1. cache \in {"none", db} \/ Evicting
  BY MarksStay DEF CacheInv
<1> QED
  BY <1>1, CopyStep DEF Evicting

-----------------------------------------------------------------------------
(* The last status, without a heartbeat configuration.                      *)

LastInv == mode = "plain" /\ ~staleFill /\ ~failed =>
    lastStatus = IF pc["status"] \in Updating THEN want["status"] ELSE db

LEMMA LastInvStep ==
  ASSUME Types, CacheInv, LastInv, [Next]_vars
  PROVE  LastInv'
<1> USE DEF storeVars, queueVars, logVars, procVars, Types, TypeOK
<1> SUFFICES ASSUME mode' = "plain", ~staleFill', ~failed'
             PROVE  lastStatus' = IF pc'["status"] \in Updating THEN want'["status"] ELSE db'
  BY DEF LastInv
<1>0. mode = "plain"
  BY DEF Next, Step, Load, Fill, Compare, Reload, Write, Evict, Fails, FlowReceives, FlowStep,
         FlowDecides, FlowEvictsAgain, FlowFetchesAgain, FlowAnnounces, FlowArms,
         HandlerReceives, HandlerPublishes, StatusStep, StatusReceives, StatusIgnores,
         StatusAccepts, StatusAnnounces, StatusUnread, KeyExpires, MonitorPublishes, Restart,
         vars
<1>1. /\ lastStatus = IF pc["status"] \in Updating THEN want["status"] ELSE db
      /\ cache \in {"none", db} \/ Evicting
  BY <1>0, MarksStay DEF LastInv, CacheInv
<1>2. \A p \in Procs \ {"status"} : pc[p] \in {"idle"} \cup Fetching
  BY <1>0, StatusAssumption DEF Control, Procs
<1>3. "status" \in Procs /\ pc["status"] \in Pcs
  BY DEF Procs
<1>4. ASSUME NEW p \in Procs \ {"status"}, Acts(p)
      PROVE  UNCHANGED <<db, lastStatus>> /\ pc'["status"] = pc["status"]
             /\ want'["status"] = want["status"]
  <2>1. ~Write(p)
    BY <1>2 DEF Write, Fetching
  <2>2. db' = db
    BY <1>4, <2>1 DEF Acts, Step, Load, Fill, Compare, Reload, Evict, Fails, FlowReceives,
         FlowStep, FlowDecides, FlowEvictsAgain, FlowFetchesAgain, FlowAnnounces, FlowArms,
         HandlerReceives, HandlerPublishes
  <2> QED BY <1>4, <2>2, StatusIsPrivate
<1>5. CASE Load("status") \/ Fill("status")
  BY <1>1, <1>3, <1>5 DEF Load, Fill, GoTo, Updating
<1>6. CASE Compare("status") \/ Reload("status")
  <2>1. pc["status"] \in Updating /\ UNCHANGED <<db, lastStatus, want>>
    BY <1>6 DEF Compare, Reload, Updating
  <2>2. ~Evicting
    BY <1>2, <1>3, <2>1 DEF Evicting, Updating, Fetching
  <2>3. pc'["status"] \in Updating \/ db = want["status"]
    BY <1>1, <1>3, <1>6, <2>2
       DEF Compare, Reload, CompareWith, AfterUnchanged, GoTo, Updating, Statuses
  <2> QED BY <1>1, <2>1, <2>3
<1>7. CASE Write("status") \/ Evict("status")
  BY <1>1, <1>3, <1>7 DEF Write, Evict, GoTo, Updating
<1>8. CASE Fails("status") \/ StatusUnread \/ Restart
  BY <1>8 DEF Fails, StatusUnread, Restart
<1>9. CASE StatusReceives
  <2>1. pc["status"] = "idle" /\ UNCHANGED <<db, lastStatus>>
    BY <1>9 DEF StatusReceives
  <2>2. pc'["status"] \notin Updating
    BY <1>3, <1>9, <2>1 DEF StatusReceives, LookUp, GoTo, Updating
  <2> QED BY <1>1, <2>1, <2>2 DEF Updating
<1>10. CASE StatusIgnores \/ StatusAnnounces
  BY <1>1, <1>3, <1>10 DEF StatusIgnores, StatusAnnounces, GoTo, Updating
<1>11. CASE StatusAccepts
  BY <1>3, <1>11 DEF StatusAccepts, GoTo, Updating
<1>12. CASE KeyExpires \/ MonitorPublishes \/ UNCHANGED vars
  <2>1. UNCHANGED <<db, lastStatus, pc, want>>
    BY <1>12 DEF KeyExpires, MonitorPublishes, vars
  <2> QED BY <1>1, <2>1
<1> QED
  BY <1>1, <1>4, <1>5, <1>6, <1>7, <1>8, <1>9, <1>10, <1>11, <1>12, NextByActor
     DEF Step, StatusStep

\* Without a heartbeat configuration and with nothing in flight, the stored status
\* is the last one the flow handled, unless a stale copy or a fault hid it.
THEOREM LastReportedWins == Spec => []LastStatusWins
<1>1. ASSUME Types, LastInv PROVE LastStatusWins
  <2>1. AllIdle => pc["status"] \notin Updating
    BY DEF AllIdle, Procs, Updating
  <2> QED BY <1>1, <2>1 DEF LastStatusWins, LastInv
<1>2. Init => Types /\ CacheInv /\ LastInv
  <2> SUFFICES ASSUME Init PROVE Types /\ CacheInv /\ LastInv
    OBVIOUS
  <2>1. cache = "none" /\ pc["status"] = "idle" /\ lastStatus = db
    BY DEF Init, Procs
  <2> QED BY <2>1, InitTypes DEF CacheInv, LastInv, Updating
<1>3. Types /\ CacheInv /\ LastInv /\ [Next]_vars => (Types /\ CacheInv /\ LastInv)'
  BY StepTypes, CacheInvStep, LastInvStep
<1> QED
  BY <1>1, <1>2, <1>3, PTL DEF Spec

-----------------------------------------------------------------------------
(* The watch over an online device, with heartbeats or timeouts.            *)

\* What comes from an expiry says that the device is offline.
ExpiryMeansOff ==
    /\ \A i \in DOMAIN statusChan : statusChan[i].source = "expired" => statusChan[i].status = "off"
    /\ Busy /\ source = "expired" => want["status"] = "off"

TakesOffline ==
    /\ Busy
    /\ want["status"] = "off"
    /\ mode = "heartbeat" => source = "expired"

FlowBusy == \E f \in Flows : pc[f] # "idle"

Promised == key \/ OfflineQueued \/ TakesOffline \/ FlowBusy

\* A device shown online is promised a look; and so is one the status flow is about
\* to show online, which only happens in timeout mode.
WatchInv == mode # "plain" /\ ~staleFill /\ ~failed =>
    /\ db = "on" => Promised
    /\ pc["status"] \in Updating /\ want["status"] = "on" => mode = "timeout" /\ Promised

\* A message that would take the device offline, if the flow heeds it.
Heeded(m) == m.status = "off" /\ (mode = "heartbeat" => m.source = "expired")

LEMMA QueuedAppend ==
  ASSUME Types, NEW m \in Message, statusChan' = Append(statusChan, m), mode' = mode
  PROVE  /\ (\E i \in DOMAIN statusChan : Heeded(statusChan[i])) => OfflineQueued'
         /\ Heeded(m) => OfflineQueued'
<1>1. statusChan \in Seq(Message) /\ Len(statusChan) \in Nat
  BY DEF Types, TypeOK, Message
<1>2. /\ Len(statusChan') = Len(statusChan) + 1 /\ statusChan' \in Seq(Message)
      /\ \A i \in 1 .. Len(statusChan) : statusChan'[i] = statusChan[i]
      /\ statusChan'[Len(statusChan) + 1] = m
  BY <1>1, AppendProperties
<1>3. ASSUME NEW i \in DOMAIN statusChan, Heeded(statusChan[i]) PROVE OfflineQueued'
  <2>1. i \in DOMAIN statusChan' /\ statusChan'[i] = statusChan[i]
    BY <1>1, <1>2
  <2> QED BY <1>3, <2>1 DEF OfflineQueued, Heeded
<1>4. ASSUME Heeded(m) PROVE OfflineQueued'
  <2>1. Len(statusChan) + 1 \in DOMAIN statusChan'
    BY <1>1, <1>2
  <2> QED BY <1>2, <1>4, <2>1 DEF OfflineQueued, Heeded
<1> QED
  BY <1>3, <1>4

LEMMA QueuedTail ==
  ASSUME Types, statusChan # <<>>, statusChan' = Tail(statusChan), mode' = mode
  PROVE  \/ (\E i \in DOMAIN statusChan : Heeded(statusChan[i])) => OfflineQueued'
         \/ Heeded(Head(statusChan))
<1>1. statusChan \in Seq(Message) /\ Len(statusChan) \in Nat
  BY DEF Types, TypeOK, Message
<1>2. /\ Len(statusChan') = Len(statusChan) - 1 /\ statusChan' \in Seq(Message)
      /\ \A i \in 1 .. Len(statusChan') : statusChan'[i] = statusChan[i + 1]
  BY <1>1, HeadTailProperties
<1>3. ASSUME NEW i \in DOMAIN statusChan, Heeded(statusChan[i]), ~Heeded(Head(statusChan))
      PROVE OfflineQueued'
  <2>1. i # 1 /\ i \in 1 .. Len(statusChan)
    BY <1>1, <1>3
  <2>2. i - 1 \in DOMAIN statusChan' /\ statusChan'[i - 1] = statusChan[i]
    BY <1>1, <1>2, <2>1
  <2> QED BY <1>3, <2>2 DEF OfflineQueued, Heeded
<1> QED
  BY <1>3

LEMMA ExpiryMeansOffStep ==
  ASSUME Types, ExpiryMeansOff, [Next]_vars
  PROVE  ExpiryMeansOff'
<1> USE DEF storeVars, queueVars, logVars, procVars
<1> DEFINE Off(q) == \A i \in DOMAIN q : q[i].source = "expired" => q[i].status = "off"
<1>0. /\ statusChan \in Seq(Message) /\ Off(statusChan)
      /\ pc \in [Procs -> Pcs] /\ "status" \in Procs
      /\ Len(statusChan) \in Nat /\ want \in [Procs -> Payloads]
  BY DEF Types, TypeOK, Message, ExpiryMeansOff, Procs
<1>1. ASSUME NEW m \in Message, m.source = "expired" => m.status = "off",
             statusChan' = Append(statusChan, m)
      PROVE  Off(statusChan')
  <2>1. /\ Len(statusChan') = Len(statusChan) + 1 /\ statusChan' \in Seq(Message)
        /\ \A i \in 1 .. Len(statusChan) : statusChan'[i] = statusChan[i]
        /\ statusChan'[Len(statusChan) + 1] = m
    BY <1>0, <1>1, AppendProperties
  <2>2. DOMAIN statusChan' = DOMAIN statusChan \cup {Len(statusChan) + 1}
        /\ DOMAIN statusChan = 1 .. Len(statusChan)
    BY <1>0, <2>1
  <2> QED BY <1>0, <1>1, <2>1, <2>2
<1>2. ASSUME NEW p \in Procs \ {"status"}, Acts(p) PROVE ExpiryMeansOff'
  <2>1. pc'["status"] = pc["status"] /\ want'["status"] = want["status"] /\ source' = source
    BY <1>2, StatusIsPrivate
  <2>2. Off(statusChan')
    <3>1. ASSUME NEW s \in Payloads,
                 statusChan' = Append(statusChan, [status |-> s, source |-> "device"])
          PROVE  Off(statusChan')
      <4>1. [status |-> s, source |-> "device"] \in Message
        BY DEF Message
      <4> QED BY <1>1, <3>1, <4>1
    <3> QED BY <1>0, <1>2, <3>1, OnlyPublishersSend
  <2> QED BY <2>1, <2>2 DEF ExpiryMeansOff, Busy
<1>3. CASE Step("status") \/ Fails("status") \/ StatusIgnores \/ StatusAccepts \/ StatusAnnounces
  <2>1. UNCHANGED <<want, source, statusChan>>
    BY <1>3 DEF Step, Load, Fill, Compare, Reload, Write, Evict, Fails, StatusIgnores,
                StatusAccepts, StatusAnnounces
  <2>2. Busy' => Busy
    <3>1. Step("status") \/ Fails("status") => (Busy' => Busy)
      BY <1>0 DEF Step, Load, Fill, Compare, Reload, Write, Evict, Fails, GoTo, CompareWith,
                  AfterUnchanged, Busy, Fetching, Updating, Types, Control
    <3>2. StatusIgnores \/ StatusAccepts \/ StatusAnnounces => (Busy' => Busy)
      BY <1>0 DEF StatusIgnores, StatusAccepts, StatusAnnounces, GoTo, Busy, Fetching, Updating
    <3> QED BY <1>3, <3>1, <3>2
  <2> QED BY <2>1, <2>2 DEF ExpiryMeansOff
<1>4. CASE StatusReceives
  <2>1. statusChan # <<>> /\ statusChan' = Tail(statusChan) /\ pc["status"] = "idle"
    BY <1>4 DEF StatusReceives
  <2>2. /\ Len(statusChan') = Len(statusChan) - 1 /\ statusChan' \in Seq(Message)
        /\ \A i \in 1 .. Len(statusChan') : statusChan'[i] = statusChan[i + 1]
    BY <1>0, <2>1, HeadTailProperties
  <2>3. Off(statusChan')
    <3>1. ASSUME NEW i \in DOMAIN statusChan'
          PROVE  i + 1 \in DOMAIN statusChan /\ statusChan'[i] = statusChan[i + 1]
      BY <1>0, <2>2
    <3> QED BY <1>0, <3>1
  <2>4. Busy' /\ source' = "expired" => want'["status"] = "off"
    <3>1. CASE Head(statusChan).status \in ParsedStatus
      <4>1. source' = Head(statusChan).source /\ want'["status"] = Head(statusChan).status
        BY <1>0, <1>4, <3>1 DEF StatusReceives
      <4>2. 1 \in DOMAIN statusChan /\ Head(statusChan) = statusChan[1]
        BY <1>0, <2>1
      <4> QED BY <1>0, <4>1, <4>2
    <3>2. CASE Head(statusChan).status \notin ParsedStatus
      <4>1. pc' = pc
        BY <1>4, <3>2 DEF StatusReceives
      <4> QED BY <2>1, <4>1 DEF Busy, Fetching, Updating
    <3> QED BY <3>1, <3>2
  <2> QED BY <2>3, <2>4 DEF ExpiryMeansOff
<1>5. CASE MonitorPublishes
  <2>1. [status |-> "off", source |-> ExpirySource] \in Message
    BY DEF Message, ExpirySource, Payloads, Statuses
  <2>2. Off(statusChan')
    BY <1>1, <1>5, <2>1 DEF MonitorPublishes
  <2>3. UNCHANGED <<pc, want, source>>
    BY <1>5 DEF MonitorPublishes
  <2> QED BY <2>2, <2>3 DEF ExpiryMeansOff, Busy
<1>6. CASE Restart
  <2>1. statusChan' = <<>> /\ pc'["status"] = "idle"
    BY <1>0, <1>6 DEF Restart
  <2> QED BY <2>1 DEF ExpiryMeansOff, Busy, Fetching, Updating
<1>7. CASE KeyExpires \/ UNCHANGED vars
  <2>1. UNCHANGED <<pc, want, source, statusChan>>
    BY <1>7 DEF KeyExpires, vars
  <2> QED BY <2>1 DEF ExpiryMeansOff, Busy
<1>8. CASE StatusUnread
  <2>1. UNCHANGED <<want, source, statusChan>> /\ Busy
    BY <1>8 DEF StatusUnread, Busy, Fetching
  <2> QED BY <2>1 DEF ExpiryMeansOff
<1> QED
  BY <1>2, <1>3, <1>4, <1>5, <1>6, <1>7, <1>8, NextByActor DEF StatusStep

Queued == \E i \in DOMAIN statusChan : Heeded(statusChan[i])

LEMMA QueuedIsOfflineQueued == OfflineQueued <=> expired > 0 \/ Queued
  BY DEF OfflineQueued, Queued, Heeded

\* A business flow that handles a message keeps the promise until it has set a key.
LEMMA FlowsPromise ==
  ASSUME Types, mode # "plain", NEW f \in Flows,
         FlowReceives(f) \/ FlowStep(f) \/ Step(f)
  PROVE  Promised'
<1> USE DEF storeVars, queueVars, logVars, procVars, GoTo
<1>0. f \in Procs /\ f # "status" /\ pc \in [Procs -> Pcs]
  BY StatusAssumption DEF Procs, Types, TypeOK
<1>1. CASE FlowArms(f)
  <2>1. key'
    BY <1>1, Zenon DEF FlowArms
  <2> QED BY <2>1, Zenon DEF Promised
<1>2. CASE FlowReceives(f) \/ (FlowStep(f) /\ ~FlowArms(f)) \/ Step(f)
  <2>1. pc'[f] # "idle"
    BY <1>0, <1>2
       DEF FlowReceives, FlowStep, FlowDecides, FlowEvictsAgain, FlowFetchesAgain, FlowAnnounces,
           LookUp, Step, Load, Fill, Compare, CompareWith, Reload, AfterUnchanged, Write, Evict
  <2>2. FlowBusy'
    BY <2>1 DEF FlowBusy
  <2> QED BY <2>2 DEF Promised
<1> QED
  BY <1>1, <1>2

\* A goroutine of the adapter only adds to the channel.
LEMMA HandlersKeepPromise ==
  ASSUME Types, Promised, NEW h \in Handlers, Acts(h), ~failed'
  PROVE  Promised' /\ db' = db
<1> USE DEF storeVars, queueVars, logVars, procVars, GoTo
<1>0. h \in Procs \ {"status"} /\ h \notin Flows /\ pc \in [Procs -> Pcs]
  BY StatusAssumption DEF Procs, Types, TypeOK
<1>1. pc[h] \in {"idle"} \cup Fetching
  BY DEF Types, Control
<1>2. Load(h) \/ Fill(h) \/ HandlerReceives(h) \/ HandlerPublishes(h)
  BY <1>0, <1>1 DEF Acts, Step, Compare, Reload, Write, Evict, Fails, Fetching
<1>3. UNCHANGED <<key, db>>
  BY <1>2 DEF Load, Fill, HandlerReceives, HandlerPublishes
<1>4. /\ pc'["status"] = pc["status"] /\ want'["status"] = want["status"]
      /\ UNCHANGED <<mode, source, expired>>
  BY <1>0, StatusIsPrivate
<1>5. \A f \in Flows : pc'[f] = pc[f]
  <2>1. \E l \in Pcs : pc' = [pc EXCEPT ![h] = l]
    BY <1>2 DEF Load, Fill, HandlerReceives, HandlerPublishes, LookUp, Pcs
  <2> QED BY <1>0, <2>1 DEF Procs
<1>6. TakesOffline' <=> TakesOffline
  BY <1>4 DEF TakesOffline, Busy
<1>7. FlowBusy' <=> FlowBusy
  BY <1>5 DEF FlowBusy
<1>8. OfflineQueued => OfflineQueued'
  <2>1. ASSUME UNCHANGED statusChan PROVE OfflineQueued => OfflineQueued'
    BY <1>4, <2>1 DEF OfflineQueued
  <2>2. ASSUME NEW s \in Payloads,
               statusChan' = Append(statusChan, [status |-> s, source |-> "device"])
        PROVE  OfflineQueued => OfflineQueued'
    <3>1. [status |-> s, source |-> "device"] \in Message
      BY DEF Message
    <3>2. Queued => OfflineQueued'
      BY <1>4, <2>2, <3>1, QueuedAppend DEF Queued
    <3>3. expired > 0 => OfflineQueued'
      BY <1>4 DEF OfflineQueued
    <3> QED BY <3>2, <3>3, QueuedIsOfflineQueued
  <2> QED BY <1>0, <2>1, <2>2, OnlyPublishersSend
<1> QED
  BY <1>3, <1>6, <1>7, <1>8, Zenon DEF Promised

\* The status flow breaks a promise only by having taken the device offline, or
\* by finding it offline.
LEMMA StatusKeepsPromise ==
  ASSUME Types, CacheInv, Promised, mode # "plain", ~failed', ~staleFill, ~failed,
         Step("status") \/ Fails("status") \/ StatusStep
  PROVE  Promised' \/ (db' = "off" /\ pc'["status"] \notin Updating)
<1> USE DEF storeVars, queueVars, logVars, procVars, GoTo
<1>0. /\ "status" \in Procs /\ pc \in [Procs -> Pcs] /\ "status" \notin Flows
      /\ want \in [Procs -> Payloads] /\ want["status"] \in Statuses
      /\ db \in Statuses /\ cache \in Statuses \cup {"none"}
  BY StatusAssumption DEF Procs, Types, TypeOK, Control
<1>1. UNCHANGED <<mode, expired>> /\ (key => key')
  <2>1. UNCHANGED <<mode, expired>>
    BY DEF Step, Load, Fill, Compare, Reload, Write, Evict, Fails, StatusStep, StatusReceives,
           StatusIgnores, StatusAccepts, StatusAnnounces
  <2>2. CASE StatusAccepts
    <3>1. key => key'
      BY <2>2, Zenon DEF StatusAccepts
    <3> QED BY <2>1, <3>1
  <2>3. CASE ~StatusAccepts
    <3>1. key' = key
      BY <2>3 DEF Step, Load, Fill, Compare, Reload, Write, Evict, Fails, StatusStep,
             StatusReceives, StatusIgnores, StatusAnnounces
    <3> QED BY <2>1, <3>1
  <2> QED BY <2>2, <2>3
<1>2. FlowBusy => FlowBusy'
  <2>1. pc' = pc \/ \E l \in Pcs : pc' = [pc EXCEPT !["status"] = l]
    BY DEF Step, Load, Fill, Compare, CompareWith, AfterUnchanged, Reload, Write, Evict, Fails,
           StatusStep, StatusReceives, StatusIgnores, StatusAccepts, StatusAnnounces, LookUp, Pcs
  <2> QED BY <1>0, <2>1 DEF FlowBusy, Procs
<1>3. CASE StatusReceives
  <2>1. statusChan # <<>> /\ statusChan' = Tail(statusChan) /\ pc["status"] = "idle"
    BY <1>3 DEF StatusReceives
  <2>2. ~TakesOffline
    BY <2>1 DEF TakesOffline, Busy, Fetching, Updating
  <2>3. Queued => OfflineQueued' \/ TakesOffline'
    <3>1. ASSUME Heeded(Head(statusChan)) PROVE TakesOffline'
      <4>1. Head(statusChan).status \in ParsedStatus
        BY <3>1 DEF Heeded, ParsedStatus, Statuses
      <4>2. /\ want' = [want EXCEPT !["status"] = Head(statusChan).status]
            /\ source' = Head(statusChan).source /\ LookUp("status", "load", "got")
        BY <1>3, <4>1 DEF StatusReceives
      <4>3. Busy'
        BY <1>0, <4>2 DEF LookUp, Busy, Fetching
      <4> QED BY <1>0, <1>1, <3>1, <4>2, <4>3 DEF TakesOffline, Heeded
    <3> QED BY <1>1, <2>1, <3>1, QueuedTail DEF Queued
  <2>4. expired > 0 => OfflineQueued'
    BY <1>1 DEF OfflineQueued
  <2>5. OfflineQueued => OfflineQueued' \/ TakesOffline'
    BY <2>3, <2>4, QueuedIsOfflineQueued
  <2>6. FlowBusy' \/ key' => Promised'
    BY Zenon DEF Promised
  <2> QED BY <1>1, <1>2, <2>2, <2>5, <2>6 DEF Promised
<1>4. CASE ~StatusReceives
  <2>1. statusChan' = statusChan /\ UNCHANGED <<want, source>>
    BY <1>4 DEF Step, Load, Fill, Compare, Reload, Write, Evict, Fails, StatusStep, StatusIgnores,
                StatusAccepts, StatusAnnounces
  <2>2. OfflineQueued => OfflineQueued'
    BY <1>1, <2>1 DEF OfflineQueued
  <2>3. TakesOffline => TakesOffline' \/ FlowBusy' \/ (db' = "off" /\ pc'["status"] \notin Updating)
    <3> SUFFICES ASSUME TakesOffline, ~Busy'
                 PROVE  FlowBusy' \/ (db' = "off" /\ pc'["status"] \notin Updating)
      BY <1>1, <2>1 DEF TakesOffline
    <3>0. pc'["status"] \notin Updating
      BY DEF Busy
    <3>1. CASE Load("status") \/ Fill("status")
      BY <1>0, <3>1 DEF Load, Fill, Busy, Fetching, Updating, TakesOffline
    <3>2. CASE Compare("status") \/ Reload("status")
      <4>1. pc["status"] \in {"compare", "reload"}
        BY <3>2 DEF Compare, Reload
      <4>2. Evicting => FlowBusy
        <5>1. ASSUME NEW p \in Procs, pc[p] = "evict" PROVE p \in Flows
          BY <4>1, <5>1 DEF Procs, Types, Control, Fetching
        <5> QED BY <5>1 DEF Evicting, FlowBusy
      <4>3. ~Evicting => db' = "off"
        BY <1>0, <3>2 DEF CacheInv, Compare, Reload, CompareWith, AfterUnchanged, Busy,
              Updating, TakesOffline, Statuses
      <4> QED BY <1>2, <3>0, <4>2, <4>3
    <3>3. CASE Write("status")
      <4>1. db' = "off"
        BY <3>3 DEF Write, TakesOffline
      <4> QED BY <3>0, <4>1
    <3>4. CASE Evict("status") \/ StatusAnnounces
      BY <3>4 DEF Evict, StatusAnnounces, TakesOffline, Busy, Fetching, Updating
    <3>5. CASE Fails("status")
      BY <3>5 DEF Fails
    <3>6. CASE StatusIgnores
      BY <3>6 DEF StatusIgnores, Ignored, TakesOffline
    <3>7. CASE StatusAccepts
      BY <1>0, <3>7 DEF StatusAccepts, Busy, Updating
    <3> QED BY <1>4, <3>1, <3>2, <3>3, <3>4, <3>5, <3>6, <3>7 DEF Step, StatusStep
  <2> QED BY <1>1, <1>2, <2>2, <2>3, Zenon DEF Promised
<1> QED
  BY <1>3, <1>4

LEMMA RedisKeepsPromise ==
  ASSUME Types, Promised, KeyExpires \/ MonitorPublishes \/ UNCHANGED vars
  PROVE  Promised'
<1> USE DEF storeVars, queueVars, logVars, procVars
<1>1. UNCHANGED <<mode, pc, want, source>>
  BY DEF KeyExpires, MonitorPublishes, vars
<1>2. (TakesOffline => TakesOffline') /\ (FlowBusy => FlowBusy')
  BY <1>1 DEF TakesOffline, Busy, FlowBusy
<1>3. CASE KeyExpires
  <2>1. expired' = expired + 1 /\ expired \in Nat
    BY <1>3 DEF KeyExpires, Types, TypeOK
  <2>2. OfflineQueued'
    BY <2>1 DEF OfflineQueued
  <2> QED BY <2>2 DEF Promised
<1>4. CASE MonitorPublishes
  <2> DEFINE m == [status |-> "off", source |-> ExpirySource]
  <2>1. m \in Message /\ Heeded(m)
    BY DEF Message, ExpirySource, Payloads, Statuses, Heeded
  <2>2. OfflineQueued'
    BY <1>1, <1>4, <2>1, QueuedAppend DEF MonitorPublishes
  <2> QED BY <2>2 DEF Promised
<1>5. CASE UNCHANGED vars
  <2>1. UNCHANGED <<expired, statusChan, key>>
    BY <1>5 DEF vars
  <2>2. OfflineQueued => OfflineQueued'
    BY <1>1, <2>1 DEF OfflineQueued
  <2> QED BY <1>2, <2>1, <2>2 DEF Promised
<1> QED
  BY <1>3, <1>4, <1>5

LEMMA WatchInvStep ==
  ASSUME Types, CacheInv, ExpiryMeansOff, WatchInv, [Next]_vars
  PROVE  WatchInv'
<1> USE DEF storeVars, queueVars, logVars, procVars, GoTo
<1> DEFINE Raises == pc["status"] \in Updating /\ want["status"] = "on"
<1> SUFFICES ASSUME mode' # "plain", ~staleFill', ~failed'
             PROVE  /\ db' = "on" => Promised'
                    /\ Raises' => mode' = "timeout" /\ Promised'
  BY DEF WatchInv
<1>0. mode' = mode
  BY DEF Next, Step, Load, Fill, Compare, Reload, Write, Evict, Fails, FlowReceives, FlowStep,
         FlowDecides, FlowEvictsAgain, FlowFetchesAgain, FlowAnnounces, FlowArms,
         HandlerReceives, HandlerPublishes, StatusStep, StatusReceives, StatusIgnores,
         StatusAccepts, StatusAnnounces, StatusUnread, KeyExpires, MonitorPublishes, Restart,
         vars
<1>1. /\ mode # "plain" /\ ~staleFill /\ ~failed
      /\ db = "on" => Promised
      /\ Raises => mode = "timeout" /\ Promised
      /\ mode \in {"plain", "heartbeat", "timeout"}
  BY <1>0, MarksStay DEF WatchInv, Types, Control
<1>2. Types'
  BY StepTypes
<1>3. ASSUME NEW p \in Procs \ {"status"}, Acts(p)
      PROVE  /\ db' = "on" => Promised'
             /\ Raises' => mode' = "timeout" /\ Promised'
  <2>1. pc'["status"] = pc["status"] /\ want'["status"] = want["status"]
    BY <1>3, StatusIsPrivate
  <2>2. CASE p \in Flows
    <3>1. ~Fails(p) /\ p \notin Handlers
      BY <2>2, StatusAssumption DEF Fails
    <3>2. Promised'
      BY <1>1, <1>3, <2>2, <3>1, FlowsPromise DEF Acts
    <3> QED BY <1>0, <1>1, <2>1, <3>2
  <2>3. CASE p \in Handlers
    <3>1. CASE Promised
      BY <1>0, <1>1, <1>3, <2>1, <2>3, <3>1, HandlersKeepPromise
    <3>2. CASE ~Promised
      <4>1. db # "on" /\ ~Raises
        BY <1>1, <3>2
      <4>2. ~Write(p)
        BY <2>3 DEF Write, Types, Control, Fetching
      <4>3. db' = db
        BY <1>3, <2>3, <4>2, StatusAssumption
           DEF Acts, Step, Load, Fill, Compare, Reload, Evict, Fails, HandlerReceives,
               HandlerPublishes
      <4> QED BY <2>1, <4>1, <4>3
    <3> QED BY <3>1, <3>2
  <2> QED BY <2>2, <2>3 DEF Procs
<1>4. CASE Step("status") \/ Fails("status") \/ StatusStep
  <2>0. "status" \in Procs /\ pc \in [Procs -> Pcs] /\ want \in [Procs -> Payloads]
    BY DEF Procs, Types, TypeOK
  <2>1. Raises' => mode' = "timeout" /\ (Promised \/ key')
    <3>1. CASE StatusAccepts
      <4>1. mode # "heartbeat" \/ source = "expired"
        BY <3>1 DEF StatusAccepts, Ignored
      <4>2. want' = want /\ pc["status"] = "got"
        BY <3>1 DEF StatusAccepts
      <4>3. Raises' => mode # "heartbeat"
        BY <4>1, <4>2 DEF ExpiryMeansOff, Busy, Fetching
      <4>4. Raises' => mode = "timeout"
        BY <1>0, <1>1, <4>3 DEF WatchInv
      <4>5. Raises' => key'
        BY <3>1, <4>2, <4>4, Zenon DEF StatusAccepts, ArmsKey
      <4> QED BY <1>0, <4>4, <4>5
    <3>2. CASE ~StatusAccepts
      <4>1. Raises' => Raises
        <5>1. CASE StatusReceives
          <6>1. pc'["status"] \notin Updating
            BY <2>0, <5>1 DEF StatusReceives, LookUp, Updating
          <6> QED BY <6>1
        <5>2. CASE ~StatusReceives
          <6>1. want' = want
            BY <1>4, <3>2, <5>2 DEF Step, Load, Fill, Compare, Reload, Write, Evict, Fails,
                  StatusStep, StatusIgnores, StatusAnnounces
          <6>2. pc'["status"] \in Updating => pc["status"] \in Updating
            BY <1>4, <2>0, <3>2, <5>2 DEF Step, Load, Fill, Compare, CompareWith, AfterUnchanged,
                  Reload, Write, Evict, Fails, StatusStep, StatusIgnores, StatusAnnounces,
                  Updating, Types, Control, Fetching
          <6> QED BY <6>1, <6>2
        <5> QED BY <5>1, <5>2
      <4> QED BY <1>0, <1>1, <4>1
    <3> QED BY <3>1, <3>2
  <2>2. db' = "on" => Promised
    <3>1. CASE Write("status")
      <4>1. pc["status"] = "write" /\ db' = want["status"]
        BY <3>1 DEF Write
      <4> QED BY <1>1, <4>1 DEF Updating
    <3>2. CASE ~Write("status")
      <4>1. db' = db
        BY <1>4, <3>2 DEF Step, Load, Fill, Compare, Reload, Evict, Fails, StatusStep,
              StatusReceives, StatusIgnores, StatusAccepts, StatusAnnounces
      <4> QED BY <1>1, <4>1
    <3> QED BY <3>1, <3>2
  <2>3. key' => Promised'
    BY Zenon DEF Promised
  <2>4. Promised => Promised' \/ (db' = "off" /\ pc'["status"] \notin Updating)
    BY <1>1, <1>4, StatusKeepsPromise
  <2> QED BY <2>1, <2>2, <2>3, <2>4
<1>5. CASE KeyExpires \/ MonitorPublishes \/ UNCHANGED vars
  <2>1. UNCHANGED <<db, pc, want>>
    BY <1>5 DEF KeyExpires, MonitorPublishes, vars
  <2> QED BY <1>0, <1>1, <1>5, <2>1, RedisKeepsPromise
<1>6. CASE Restart \/ StatusUnread
  BY <1>6 DEF Restart, StatusUnread
<1> QED
  BY <1>3, <1>4, <1>5, <1>6, NextByActor

\* With heartbeats or timeouts a device shown online is watched: its key is set, an
\* offline message is on its way, or a goroutine is about to see to it.
THEOREM OnlineWatched == Spec => []OnlineIsWatched
<1>1. ASSUME WatchInv PROVE OnlineIsWatched
  <2>1. TakesOffline \/ FlowBusy => \E p \in Procs : pc[p] # "idle"
    BY DEF TakesOffline, Busy, Fetching, Updating, FlowBusy, Procs
  <2> QED BY <1>1, <2>1, Zenon DEF WatchInv, OnlineIsWatched, Promised
<1>2. Init => Types /\ CacheInv /\ ExpiryMeansOff /\ WatchInv
  <2> SUFFICES ASSUME Init PROVE Types /\ CacheInv /\ ExpiryMeansOff /\ WatchInv
    OBVIOUS
  <2>1. cache = "none" /\ pc["status"] = "idle" /\ db = "off" /\ statusChan = <<>>
    BY DEF Init, Procs
  <2> QED
    BY <2>1, InitTypes DEF CacheInv, ExpiryMeansOff, WatchInv, Busy, Fetching, Updating
<1>3. Types /\ CacheInv /\ ExpiryMeansOff /\ WatchInv /\ [Next]_vars
        => (Types /\ CacheInv /\ ExpiryMeansOff /\ WatchInv)'
  BY StepTypes, CacheInvStep, ExpiryMeansOffStep, WatchInvStep
<1> QED
  BY <1>1, <1>2, <1>3, PTL DEF Spec
=============================================================================
