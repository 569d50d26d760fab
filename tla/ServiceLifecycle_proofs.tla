---------------------- MODULE ServiceLifecycle_proofs ----------------------
(***************************************************************************)
(* Proofs about ServiceLifecycle, for every number of services, whichever  *)
(* of them fail to start or hang when they stop, and every set of          *)
(* goroutines that call Shutdown.                                          *)
(***************************************************************************)
EXTENDS ServiceLifecycle, TLAPS, FiniteSetTheorems

\* A service that was started and that the WaitGroup still counts.
Counted == {s \in Services : state[s] \in {"running", "stopping", "returned"}}

\* Told to stop, and stopped unless a StopAll ran into its timeout.
Told(s) == /\ state[s] \in {"stopping", "returned", "stopped"}
           /\ ~slow => Stopped(s)

Starting == pc["main"] = "start"

WaitGroupInv == wg = Cardinality(Counted)

\* While main starts the services nobody stops any.
StartInv == Starting =>
    /\ ~started /\ holder = "none" /\ redisOpen /\ at \in 1..(N + 1)
    /\ \A s \in Services : state[s] = IF s < at THEN "running" ELSE "registered"

\* Between StartAll and StopAll every service runs; the StopAll that holds the
\* mutex has told the services above the one it is at; after it all are told.
StopInv == Alive /\ ~Starting =>
    /\ started /\ holder = "none" => \A s \in Services : state[s] = "running"
    /\ ~started => holder = "none" /\ \A s \in Services : Told(s)
    /\ holder # "none" =>
         /\ pc[holder] \in {"loop", "await"}
         /\ at \in 0..N
         /\ \A s \in Services : /\ s < at => state[s] = "running"
                                /\ s > at => Told(s)
         /\ pc[holder] = "loop" /\ at > 0 => state[at] = "running"
         /\ pc[holder] = "await" => at > 0 /\ state[at] \in {"stopping", "returned", "stopped"}

\* Only the holder of the mutex is inside StopAll, and who closes Redis found the
\* services stopped.
MutexInv == Alive => \A g \in Goroutines :
    /\ pc[g] \in {"loop", "await"} => holder = g
    /\ pc[g] = "close" => ~started /\ ~Starting

SlowInv == ~slow => ~timedOut

Inv ==
    /\ TypeOK
    /\ WaitGroupInv
    /\ StartInv
    /\ StopInv
    /\ MutexInv
    /\ SlowInv
    /\ StopsInOrderUnlessSlow
    /\ RedisOutlivesServices

-----------------------------------------------------------------------------
LEMMA CountedIsFinite == IsFiniteSet(Counted) /\ Cardinality(Counted) \in Nat
<1>1. IsFiniteSet(Services)
  BY ServiceAssumption, FS_Interval DEF Services
<1>2. IsFiniteSet(Counted)
  BY <1>1, FS_Subset DEF Counted
<1> QED
  BY <1>2, FS_CardinalityType

\* Moving a service within what is counted, or none at all, leaves the WaitGroup right.
LEMMA SameCount ==
  ASSUME Inv, wg' = wg, Counted' = Counted
  PROVE  WaitGroupInv' /\ wg' \in Nat
  BY DEF Inv, TypeOK, WaitGroupInv

LEMMA InitInv == Init => Inv
<1> SUFFICES ASSUME Init PROVE Inv
  OBVIOUS
<1>1. Counted = {}
  BY DEF Init, Counted
<1>2. WaitGroupInv
  BY <1>1, FS_EmptySet DEF Init, WaitGroupInv
<1>3. TypeOK
  <2>1. at \in 0..(N + 1) /\ wg \in Nat
    BY ServiceAssumption DEF Init
  <2>2. state \in [Services -> States]
    BY DEF Init, States
  <2>3. pc \in [Goroutines -> Pcs]
    BY DEF Init, Pcs
  <2> QED BY <2>1, <2>2, <2>3 DEF Init, TypeOK
<1>4. pc["main"] = "start" /\ \A g \in Goroutines : pc[g] \in {"start", "idle"}
  BY DEF Init, Goroutines
<1>5. StartInv /\ StopInv /\ MutexInv /\ SlowInv
  BY <1>4, ServiceAssumption
     DEF Init, StartInv, StopInv, MutexInv, SlowInv, Starting, Services
<1>6. StopsInOrderUnlessSlow /\ RedisOutlivesServices
  BY DEF Init, StopsInOrderUnlessSlow, StopsInOrder, RedisOutlivesServices
<1> QED
  BY <1>2, <1>3, <1>5, <1>6 DEF Inv

\* StartAll.
LEMMA StartKeepsInv ==
  ASSUME Inv, StartsNext \/ StartFails \/ StartAllEnds
  PROVE  Inv'
<1>0. /\ Starting /\ "main" \in Goroutines /\ pc \in [Goroutines -> Pcs] /\ N \in Nat
      /\ ~started /\ holder = "none" /\ redisOpen /\ at \in 1..(N + 1)
      /\ \A s \in Services : state[s] = IF s < at THEN "running" ELSE "registered"
      /\ state \in [Services -> States] /\ wg \in Nat /\ SlowInv
  BY ServiceAssumption
     DEF StartsNext, StartFails, StartAllEnds, Inv, TypeOK, StartInv, Starting, Goroutines
<1>1. CASE StartsNext
  <2>1. /\ at \in Services /\ at' = at + 1 /\ state' = [state EXCEPT ![at] = "running"]
        /\ wg' = wg + 1 /\ UNCHANGED <<started, pc, holder, timedOut, slow, redisOpen>>
    BY <1>0, <1>1 DEF StartsNext, Services
  <2>2. Counted' = Counted \cup {at} /\ at \notin Counted
    BY <1>0, <2>1 DEF Counted
  <2>3. WaitGroupInv'
    BY <2>1, <2>2, CountedIsFinite, FS_AddElement DEF Inv, WaitGroupInv
  <2>4. \A s \in Services : state'[s] = IF s < at' THEN "running" ELSE "registered"
    BY <1>0, <2>1 DEF Services
  <2>5. TypeOK'
    <3>1. state' \in [Services -> States] /\ wg' \in Nat /\ at' \in 0..(N + 1)
      BY <1>0, <2>1 DEF States, Services
    <3> QED BY <2>1, <3>1 DEF Inv, TypeOK
  <2>6. StartInv'
    <3>1. at' \in 1..(N + 1)
      BY <1>0, <2>1 DEF Services
    <3> QED BY <1>0, <2>1, <2>4, <3>1 DEF StartInv
  <2>7. Starting'
    BY <1>0, <2>1 DEF Starting
  <2>8. MutexInv' /\ StopInv' /\ SlowInv'
    BY <1>0, <2>1, <2>7 DEF Inv, MutexInv, StopInv, SlowInv, Alive, Starting
  <2>9. StopsInOrderUnlessSlow' /\ RedisOutlivesServices'
    BY <1>0, <2>1, <2>4 DEF StopsInOrderUnlessSlow, StopsInOrder, RedisOutlivesServices
  <2> QED BY <2>3, <2>5, <2>6, <2>8, <2>9 DEF Inv
<1>2. CASE StartFails \/ StartAllEnds
  <2>1. /\ UNCHANGED <<state, wg, at, holder, timedOut, slow, redisOpen>>
        /\ started' \in BOOLEAN
        /\ \/ pc' = [pc EXCEPT !["main"] = "fatal"]
           \/ pc' = [pc EXCEPT !["main"] = "wait"] /\ at > N /\ started'
    BY <1>2 DEF StartFails, StartAllEnds, GoTo, Inv, TypeOK
  <2>2. Counted' = Counted
    BY <2>1 DEF Counted
  <2>3. TypeOK'
    BY <2>1 DEF Inv, TypeOK, Pcs
  <2>4. StartInv' /\ StopInv' /\ SlowInv'
    <3>1. ~Starting'
      BY <1>0, <2>1 DEF Starting
    <3>2. Alive' => started' /\ \A s \in Services : state'[s] = "running"
      BY <1>0, <2>1 DEF Alive, Services
    <3>3. holder' = "none" /\ SlowInv'
      BY <1>0, <2>1 DEF SlowInv
    <3>4. StopInv'
      BY <3>2, <3>3 DEF StopInv
    <3> QED BY <3>1, <3>3, <3>4 DEF StartInv
  <2>5. MutexInv'
    <3>1. \A g \in Goroutines : pc[g] \notin {"loop", "await", "close"}
      BY <1>0, ServiceAssumption DEF Inv, MutexInv, Alive, Starting, Goroutines
    <3> QED BY <1>0, <2>1, <3>1 DEF MutexInv
  <2>6. StopsInOrderUnlessSlow' /\ RedisOutlivesServices'
    BY <1>0, <2>1 DEF Inv, StopsInOrderUnlessSlow, StopsInOrder, RedisOutlivesServices, Stopped
  <2> QED BY <2>1, <2>2, <2>3, <2>4, <2>5, <2>6, SameCount DEF Inv
<1> QED
  BY <1>1, <1>2

\* Calling Shutdown, and the end of the process.
LEMMA CallKeepsInv ==
  ASSUME Inv, MainWaits \/ (\E c \in Callers : CallsShutdown(c)) \/ IsClosed
  PROVE  Inv'
<1>1. /\ UNCHANGED <<state, wg, started, at, holder, timedOut, slow, redisOpen>>
      /\ "main" \in Goroutines
  BY DEF MainWaits, CallsShutdown, IsClosed, Goroutines
<1>2. Counted' = Counted
  BY <1>1 DEF Counted
<1>3. UNCHANGED <<SlowInv, StopsInOrderUnlessSlow, RedisOutlivesServices>>
  BY <1>1 DEF SlowInv, StopsInOrderUnlessSlow, StopsInOrder, RedisOutlivesServices, Stopped
<1>4. ASSUME NEW g \in Goroutines, pc[g] \in {"idle", "wait"}, Alive,
             pc' = [pc EXCEPT ![g] = "call"]
      PROVE  Inv'
  <2>1. TypeOK'
    BY <1>1, <1>4 DEF Inv, TypeOK, Pcs
  <2>2. (Starting' <=> Starting) /\ Alive'
    BY <1>1, <1>4 DEF Inv, TypeOK, Starting, Alive
  <2>3. StartInv'
    BY <1>1, <2>2 DEF Inv, StartInv
  <2>4. ASSUME ~Starting, holder # "none" PROVE pc'[holder] = pc[holder]
    <3>1. pc[holder] \in {"loop", "await"} /\ holder \in Goroutines
      BY <1>4, <2>4 DEF Inv, TypeOK, StopInv
    <3> QED BY <1>4, <3>1 DEF Inv, TypeOK
  <2>5. StopInv'
    BY <1>1, <1>4, <2>2, <2>4 DEF Inv, StopInv, Told, Stopped
  <2>6. MutexInv'
    BY <1>1, <1>4, <2>2 DEF Inv, TypeOK, MutexInv
  <2> QED BY <1>1, <1>2, <1>3, <2>1, <2>3, <2>5, <2>6, SameCount DEF Inv
<1>5. CASE IsClosed
  <2>1. TypeOK'
    BY <1>1, <1>5 DEF IsClosed, GoTo, Inv, TypeOK, Pcs
  <2>2. ~Alive' /\ ~Starting'
    BY <1>1, <1>5 DEF IsClosed, GoTo, Inv, TypeOK, Alive, Starting
  <2> QED
    BY <1>1, <1>2, <1>3, <2>1, <2>2, SameCount DEF Inv, StartInv, StopInv, MutexInv
<1> QED
  BY <1>1, <1>4, <1>5 DEF MainWaits, CallsShutdown, GoTo, Goroutines

\* StopAll takes the mutex, or finds the services stopped.
LEMMA LockKeepsInv ==
  ASSUME Inv, NEW g \in Goroutines, StopAllLocks(g)
  PROVE  Inv'
<1>1. /\ UNCHANGED <<state, wg, started, slow, redisOpen>>
      /\ Alive /\ ~Starting /\ pc[g] = "call" /\ holder = "none"
      /\ N \in Nat /\ g # "none"
  BY ServiceAssumption DEF StopAllLocks, Starting, Goroutines
<1>2. Counted' = Counted
  BY <1>1 DEF Counted
<1>3. UNCHANGED <<StopsInOrderUnlessSlow, RedisOutlivesServices>>
  BY <1>1 DEF StopsInOrderUnlessSlow, StopsInOrder, RedisOutlivesServices, Stopped
<1>4. \A h \in Goroutines : pc[h] \notin {"loop", "await"}
  BY <1>1, ServiceAssumption DEF Inv, MutexInv, Goroutines
<1>5. PICK l \in {"loop", "close"} : pc' = [pc EXCEPT ![g] = l] /\ (started <=> l = "loop")
  BY <1>1 DEF StopAllLocks, GoTo, Inv, TypeOK
<1>6. pc' \in [Goroutines -> Pcs] /\ pc'[g] = l /\ Alive' /\ ~Starting'
      /\ \A h \in Goroutines \ {g} : pc'[h] = pc[h]
  BY <1>1, <1>5 DEF Inv, TypeOK, Pcs, Alive, Starting
<1>7. CASE started
  <2>1. /\ holder' = g /\ at' = N /\ l = "loop"
        /\ \A s \in Services : state[s] = "running"
    BY <1>1, <1>5, <1>7 DEF StopAllLocks, StopsLast, Inv, StopInv
  <2>2. ~timedOut' /\ timedOut' \in BOOLEAN
    BY <1>7, Zenon DEF StopAllLocks
  <2>3. TypeOK'
    <3>1. at' \in 0..(N + 1) /\ holder' \in Goroutines \cup {"none"}
      BY <1>1, <2>1
    <3> QED BY <1>1, <1>6, <2>2, <3>1 DEF Inv, TypeOK
  <2>4. SlowInv'
    BY <2>2 DEF SlowInv
  <2>5. StopInv'
    <3>1. \A s \in Services : s <= at'
      BY <1>1, <2>1 DEF Services
    <3>2. at' > 0 => at' \in Services
      BY <1>1, <2>1 DEF Services
    <3> QED BY <1>1, <1>6, <1>7, <2>1, <3>1, <3>2 DEF StopInv, Services
  <2>6. MutexInv'
    BY <1>1, <1>4, <1>5, <1>6, <2>1 DEF Inv, MutexInv
  <2> QED
    BY <1>1, <1>2, <1>3, <1>6, <2>3, <2>4, <2>5, <2>6, SameCount DEF Inv, StartInv
<1>8. CASE ~started
  <2>1. UNCHANGED <<at, holder, timedOut>> /\ l = "close"
    BY <1>1, <1>5, <1>8 DEF StopAllLocks
  <2>2. TypeOK' /\ SlowInv'
    BY <1>1, <1>6, <2>1 DEF Inv, TypeOK, SlowInv
  <2>3. StopInv'
    BY <1>1, <1>6, <1>8, <2>1 DEF Inv, StopInv, Told, Stopped
  <2>4. MutexInv'
    BY <1>1, <1>4, <1>5, <1>6, <1>8, <2>1 DEF Inv, MutexInv
  <2> QED BY <1>1, <1>2, <1>3, <1>6, <2>2, <2>3, <2>4, SameCount DEF Inv, StartInv
<1> QED
  BY <1>7, <1>8

\* What the holder of the mutex finds.
LEMMA HolderFinds ==
  ASSUME Inv, NEW g \in Goroutines, Alive, pc[g] \in {"loop", "await"}
  PROVE  /\ ~Starting /\ holder = g /\ g # "none" /\ started
         /\ at \in 0..N /\ N \in Nat
         /\ \A s \in Services : (s < at => state[s] = "running") /\ (s > at => Told(s))
         /\ pc[g] = "loop" /\ at > 0 => state[at] = "running"
         /\ pc[g] = "await" => at > 0 /\ state[at] \in {"stopping", "returned", "stopped"}
<1>1. holder = g /\ g # "none"
  BY ServiceAssumption DEF Inv, MutexInv, Goroutines
<1>2. ~Starting
  BY <1>1 DEF Inv, StartInv
<1> QED
  BY <1>1, <1>2, ServiceAssumption DEF Inv, StopInv

\* StopAll tells the service it is at, and goes on to the next.
LEMMA LoopKeepsInv ==
  ASSUME Inv, NEW g \in Goroutines, StopsNext(g) \/ Proceeds(g)
  PROVE  Inv'
<1>0. Alive /\ pc[g] \in {"loop", "await"}
  BY DEF StopsNext, Proceeds
<1>1. /\ ~Starting /\ holder = g /\ g # "none" /\ started
      /\ at \in 0..N /\ N \in Nat
      /\ \A s \in Services : (s < at => state[s] = "running") /\ (s > at => Told(s))
      /\ pc[g] = "loop" /\ at > 0 => state[at] = "running"
      /\ pc[g] = "await" => at > 0 /\ state[at] \in {"stopping", "returned", "stopped"}
  BY <1>0, HolderFinds
<1>2. /\ state \in [Services -> States] /\ pc \in [Goroutines -> Pcs] /\ wg \in Nat
      /\ SlowInv
  BY DEF Inv, TypeOK
<1>3. CASE StopsNext(g)
  <2>1. /\ pc[g] = "loop" /\ at \in Services /\ state' = [state EXCEPT ![at] = "stopping"]
        /\ pc' = [pc EXCEPT ![g] = "await"]
        /\ UNCHANGED <<wg, started, at, holder, timedOut, slow, redisOpen>>
    BY <1>1, <1>3 DEF StopsNext, GoTo, Services
  <2>2. state[at] = "running"
    BY <1>1, <2>1 DEF Services
  <2>3. Counted' = Counted
    BY <1>2, <2>1, <2>2 DEF Counted
  <2>4. TypeOK'
    <3>1. state' \in [Services -> States] /\ pc' \in [Goroutines -> Pcs]
      BY <1>2, <2>1 DEF States, Pcs
    <3> QED BY <2>1, <3>1 DEF Inv, TypeOK
  <2>5. ~Starting' /\ Alive' /\ pc'[g] = "await"
    BY <1>0, <1>1, <1>2, <2>1 DEF Starting, Alive
  <2>6. \A s \in Services : (s < at => state'[s] = "running") /\ (s > at => Told(s)')
    BY <1>1, <1>2, <2>1 DEF Told, Stopped, Services
  <2>7. StopInv'
    <3>1. at > 0 /\ state'[at] = "stopping"
      BY <1>2, <2>1 DEF Services
    <3> QED BY <1>1, <2>1, <2>5, <2>6, <3>1 DEF StopInv
  <2>8. MutexInv'
    BY <1>0, <1>1, <1>2, <2>1, <2>5 DEF Inv, MutexInv
  <2>9. StopsInOrderUnlessSlow'
    <3> SUFFICES ASSUME ~slow', NEW s \in Services, state'[s] = "stopping",
                        NEW r \in Services, r > s
                 PROVE  Stopped(r)'
      BY DEF StopsInOrderUnlessSlow, StopsInOrder
    <3>1. ~(s < at)
      BY <2>6
    <3>2. ~(s > at)
      BY <2>1, <2>6 DEF Told, Stopped
    <3>3. r > at
      BY <2>1, <3>1, <3>2, ServiceAssumption DEF Services
    <3> QED BY <2>1, <2>6, <3>3 DEF Told
  <2>10. RedisOutlivesServices'
    BY <2>1, <2>2 DEF Inv, RedisOutlivesServices, Stopped
  <2> QED
    BY <1>2, <2>1, <2>3, <2>4, <2>5, <2>7, <2>8, <2>9, <2>10, SameCount
       DEF Inv, StartInv, SlowInv
<1>4. CASE Proceeds(g)
  <2>1. /\ pc[g] = "await" /\ at' = at - 1 /\ pc' = [pc EXCEPT ![g] = "loop"]
        /\ UNCHANGED <<state, wg, started, holder, timedOut, slow, redisOpen>>
        /\ MayProceed
    BY <1>4 DEF Proceeds, GoTo
  <2>2. Counted' = Counted
    BY <2>1 DEF Counted
  <2>3. at \in Services /\ at' \in 0..N
    BY <1>1, <2>1 DEF Services
  <2>4. TypeOK'
    <3>1. pc' \in [Goroutines -> Pcs] /\ at' \in 0..(N + 1)
      BY <1>1, <1>2, <2>1, <2>3 DEF Pcs
    <3> QED BY <2>1, <3>1 DEF Inv, TypeOK
  <2>5. ~Starting' /\ Alive' /\ pc'[g] = "loop"
    BY <1>0, <1>1, <1>2, <2>1 DEF Starting, Alive
  <2>6. Told(at)
    BY <1>1, <1>2, <2>1 DEF MayProceed, Told, Stopped, SlowInv
  <2>7. \A s \in Services : (s < at' => state[s] = "running") /\ (s > at' => Told(s))
    <3>1. ASSUME NEW s \in Services, s > at' PROVE s > at \/ s = at
      BY <1>1, <2>1, <2>3, <3>1 DEF Services
    <3>2. ASSUME NEW s \in Services, s < at' PROVE s < at
      BY <1>1, <2>1, <2>3, <3>2 DEF Services
    <3> QED BY <1>1, <2>6, <3>1, <3>2
  <2>8. at' > 0 => state[at'] = "running"
    BY <1>1, <2>1, <2>3 DEF Services
  <2>9. StopInv'
    BY <1>1, <2>1, <2>3, <2>5, <2>7, <2>8 DEF StopInv, Told, Stopped
  <2>10. MutexInv'
    BY <1>0, <1>1, <1>2, <2>1, <2>5 DEF Inv, MutexInv
  <2>11. UNCHANGED <<StopsInOrderUnlessSlow, RedisOutlivesServices>>
    BY <2>1 DEF StopsInOrderUnlessSlow, StopsInOrder, RedisOutlivesServices, Stopped
  <2> QED
    BY <1>2, <2>1, <2>2, <2>4, <2>5, <2>9, <2>10, <2>11, SameCount DEF Inv, StartInv, SlowInv
<1> QED
  BY <1>3, <1>4

\* The end of StopAll, and the rest of Shutdown.
LEMMA EndKeepsInv ==
  ASSUME Inv, NEW g \in Goroutines, StopAllEnds(g) \/ ClosesRedis(g)
  PROVE  Inv'
<1>1. /\ UNCHANGED <<state, wg, at, timedOut, slow>> /\ Alive
      /\ pc \in [Goroutines -> Pcs]
  BY DEF StopAllEnds, ClosesRedis, Inv, TypeOK
<1>2. Counted' = Counted
  BY <1>1 DEF Counted
<1>3. UNCHANGED <<SlowInv, StopsInOrderUnlessSlow>>
  BY <1>1 DEF SlowInv, StopsInOrderUnlessSlow, StopsInOrder, Stopped
<1>4. CASE StopAllEnds(g)
  <2>1. /\ pc[g] = "loop" /\ at = 0 /\ holder' = "none" /\ redisOpen' = redisOpen
        /\ pc' = [pc EXCEPT ![g] = "close"]
    BY <1>4 DEF StopAllEnds, GoTo
  <2>2. ~started' /\ started' \in BOOLEAN
    BY <1>4, Zenon DEF StopAllEnds, StartedAfter
  <2>3. ~Starting /\ holder = g /\ \A s \in Services : s > at => Told(s)
    BY <1>1, <2>1, HolderFinds
  <2>4. \A s \in Services : Told(s)
    BY <2>1, <2>3, ServiceAssumption DEF Services
  <2>5. TypeOK'
    BY <1>1, <2>1, <2>2 DEF Inv, TypeOK, Pcs
  <2>6. ~Starting' /\ Alive'
    BY <1>1, <2>1, <2>3 DEF Starting, Alive
  <2>7. StopInv'
    BY <1>1, <2>1, <2>2, <2>4 DEF StopInv, Told, Stopped
  <2>8. MutexInv'
    BY <1>1, <2>1, <2>2, <2>3, <2>6 DEF Inv, MutexInv
  <2>9. RedisOutlivesServices' = RedisOutlivesServices
    BY <1>1, <2>1 DEF RedisOutlivesServices, Stopped
  <2> QED
    BY <1>1, <1>2, <1>3, <2>5, <2>6, <2>7, <2>8, <2>9, SameCount DEF Inv, StartInv
<1>5. CASE ClosesRedis(g)
  <2>1. /\ pc[g] = "close" /\ holder' = holder /\ started' = started
        /\ pc' = [pc EXCEPT ![g] = "done"]
    BY <1>5 DEF ClosesRedis, GoTo
  <2>2. redisOpen' \in BOOLEAN
    BY <1>5, Zenon DEF ClosesRedis
  <2>3. ~Starting /\ ~started
    BY <1>1, <2>1 DEF Inv, MutexInv
  <2>4. holder = "none" /\ \A s \in Services : Told(s)
    BY <1>1, <2>3 DEF Inv, StopInv
  <2>5. TypeOK'
    BY <1>1, <2>1, <2>2 DEF Inv, TypeOK, Pcs
  <2>6. ~Starting'
    BY <1>1, <2>1, <2>3 DEF Starting
  <2>7. StopInv'
    BY <1>1, <2>1, <2>3, <2>4 DEF StopInv, Told, Stopped
  <2>8. MutexInv'
    BY <1>1, <2>1, <2>3, <2>6 DEF Inv, MutexInv
  <2>9. RedisOutlivesServices'
    BY <1>1, <2>4 DEF RedisOutlivesServices, Told, Stopped
  <2> QED
    BY <1>1, <1>2, <1>3, <2>5, <2>6, <2>7, <2>8, <2>9, SameCount DEF Inv, StartInv
<1> QED
  BY <1>4, <1>5

\* A Stop returns, then counts down.
LEMMA ReturnKeepsInv ==
  ASSUME Inv, NEW s \in Services, StopReturns(s) \/ StopCounts(s)
  PROVE  Inv'
<1>1. /\ UNCHANGED <<started, pc, at, holder, timedOut, slow, redisOpen>>
      /\ Alive /\ state \in [Services -> States] /\ N \in Nat
  BY ServiceAssumption DEF StopReturns, StopCounts, Inv, TypeOK
<1>2. PICK l \in {"returned", "stopped"} :
        /\ state' = [state EXCEPT ![s] = l]
        /\ l = "returned" => state[s] = "stopping" /\ wg' = wg
        /\ l = "stopped" => state[s] = "returned" /\ wg' = wg - 1
  BY DEF StopReturns, StopCounts, CountsDown
<1>3. state[s] \in {"stopping", "returned"} /\ state'[s] = l
      /\ \A r \in Services \ {s} : state'[r] = state[r]
  BY <1>1, <1>2
<1>4. WaitGroupInv' /\ wg' \in Nat
  <2>1. CASE l = "returned"
    <3>1. Counted' = Counted
      BY <1>1, <1>2, <1>3, <2>1 DEF Counted
    <3> QED BY <1>2, <2>1, <3>1, SameCount
  <2>2. CASE l = "stopped"
    <3>1. Counted' = Counted \ {s} /\ s \in Counted
      BY <1>1, <1>2, <1>3, <2>2 DEF Counted
    <3>2. Cardinality(Counted') = Cardinality(Counted) - 1
      BY <3>1, CountedIsFinite, FS_RemoveElement
    <3>3. Cardinality(Counted') \in Nat
      BY <3>1, CountedIsFinite, FS_RemoveElement, FS_CardinalityType
    <3> QED BY <1>2, <2>2, <3>2, <3>3 DEF Inv, WaitGroupInv
  <2> QED BY <2>1, <2>2
<1>5. \A r \in Services : (Told(r) => Told(r)') /\ (Stopped(r) => Stopped(r)')
  BY <1>1, <1>2, <1>3 DEF Told, Stopped
<1>6. TypeOK'
  BY <1>1, <1>2, <1>4 DEF Inv, TypeOK, States
<1>7. StartInv'
  <2>1. ~Starting
    BY <1>3 DEF Inv, StartInv
  <2> QED BY <1>1, <2>1 DEF StartInv, Starting
<1>8. StopInv'
  <2> SUFFICES ASSUME ~Starting PROVE StopInv'
    BY <1>1 DEF StopInv, Starting
  <2>1. ASSUME NEW r \in Services, state[r] = "running" PROVE state'[r] = "running"
    BY <1>3, <2>1
  <2>2. at \in Services /\ state[at] \in {"stopping", "returned", "stopped"}
          => state'[at] \in {"stopping", "returned", "stopped"}
    BY <1>3
  <2>3. at \in 0..N /\ at > 0 => at \in Services
    BY <1>1 DEF Services
  <2> QED BY <1>1, <1>5, <2>1, <2>2, <2>3 DEF Inv, StopInv, Alive, Starting
<1>9. MutexInv' /\ SlowInv'
  BY <1>1 DEF Inv, MutexInv, SlowInv, Alive, Starting
<1>10. StopsInOrderUnlessSlow'
  <2>1. \A r \in Services : state'[r] = "stopping" => state[r] = "stopping"
    BY <1>2, <1>3
  <2> QED BY <1>1, <1>5, <2>1 DEF Inv, StopsInOrderUnlessSlow, StopsInOrder
<1>11. RedisOutlivesServices'
  BY <1>1, <1>5 DEF Inv, RedisOutlivesServices
<1> QED
  BY <1>4, <1>6, <1>7, <1>8, <1>9, <1>10, <1>11 DEF Inv

LEMMA TimeoutKeepsInv ==
  ASSUME Inv, TimesOut
  PROVE  Inv'
<1>1. /\ UNCHANGED <<state, wg, started, pc, at, holder, redisOpen>> /\ slow'
      /\ holder # "none"
  BY DEF TimesOut
<1>2. slow' \in BOOLEAN /\ timedOut' \in BOOLEAN
  BY Zenon DEF TimesOut
<1>3. Counted' = Counted
  BY <1>1 DEF Counted
<1>4. TypeOK'
  BY <1>1, <1>2 DEF Inv, TypeOK
<1>5. StartInv' /\ MutexInv' /\ SlowInv'
  BY <1>1 DEF Inv, StartInv, MutexInv, SlowInv, Starting, Alive
<1>6. \A s \in Services : Told(s) => Told(s)'
  BY <1>1 DEF Told
<1>7. StopInv'
  BY <1>1, <1>6 DEF Inv, StopInv, Starting, Alive
<1>8. StopsInOrderUnlessSlow' /\ RedisOutlivesServices'
  BY <1>1 DEF StopsInOrderUnlessSlow, RedisOutlivesServices
<1> QED
  BY <1>1, <1>3, <1>4, <1>5, <1>7, <1>8, SameCount DEF Inv

LEMMA StepInv == Inv /\ [Next]_vars => Inv'
<1>1. ASSUME Inv, UNCHANGED vars PROVE Inv'
  BY <1>1 DEF vars, Inv, TypeOK, WaitGroupInv, Counted, StartInv, StopInv, MutexInv, SlowInv,
              Told, Stopped, Starting, Alive, StopsInOrderUnlessSlow, StopsInOrder,
              RedisOutlivesServices
<1> QED
  BY <1>1, StartKeepsInv, CallKeepsInv, LockKeepsInv, LoopKeepsInv, EndKeepsInv,
     ReturnKeepsInv, TimeoutKeepsInv DEF Next, StopAllStep

-----------------------------------------------------------------------------
\* Every variable has its type; the WaitGroup in particular never goes negative
\* (a second Done would panic), however late a Stop returns.
THEOREM TypeInvariant == Spec => []TypeOK
<1>1. Inv => TypeOK
  BY DEF Inv
<1> QED
  BY <1>1, InitInv, StepInv, PTL DEF Spec

\* A service is told to stop when all that depend on it have stopped, unless a
\* StopAll ran into its timeout.
THEOREM StopsInOrderIfInTime == Spec => []StopsInOrderUnlessSlow
<1>1. Inv => StopsInOrderUnlessSlow
  BY DEF Inv
<1> QED
  BY <1>1, InitInv, StepInv, PTL DEF Spec

\* Redis is closed after the services that use it, unless a StopAll ran into its
\* timeout.
THEOREM RedisOutlives == Spec => []RedisOutlivesServices
<1>1. Inv => RedisOutlivesServices
  BY DEF Inv
<1> QED
  BY <1>1, InitInv, StepInv, PTL DEF Spec
=============================================================================
