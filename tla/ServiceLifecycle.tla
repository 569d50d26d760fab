-------------------------- MODULE ServiceLifecycle --------------------------
(***************************************************************************)
(* main, Application and ServiceManager: the services are started in the   *)
(* order of registration, main waits on a WaitGroup, and StopAll stops     *)
(* them in the opposite order under one timeout of 30 s.                   *)
(*                                                                         *)
(* Service s + 1 depends on service s (main.go lists them in that order).  *)
(* In this program only main calls Shutdown, and only once Wait returns;   *)
(* Callers are the goroutines an embedding program would call it from.     *)
(***************************************************************************)
EXTENDS Naturals, FiniteSets

CONSTANTS
    N,       \* number of services
    Failing, \* services whose Start may fail
    Hanging, \* services whose Stop may never return
    Callers  \* goroutines other than main that may call Shutdown

ASSUME ServiceAssumption ==
    /\ N \in Nat
    /\ Failing \subseteq 1..N
    /\ Hanging \subseteq 1..N
    /\ {"main", "none"} \cap Callers = {}
    /\ IsFiniteSet(Callers)

VARIABLES
    state,     \* where each service is
    wg,        \* the WaitGroup
    started,   \* ServiceManager.started
    pc,        \* where main and the callers of Shutdown are
    at,        \* the service StopAll is at
    holder,    \* the goroutine that holds mu in StopAll, or "none"
    timedOut,  \* the context of the current StopAll is done
    slow,      \* some StopAll ran into its timeout
    redisOpen  \* the Redis connection has not been closed

vars == <<state, wg, started, pc, at, holder, timedOut, slow, redisOpen>>

Services   == 1..N
Goroutines == {"main"} \cup Callers
States     == {"registered", "running", "stopping", "returned", "stopped"}
Pcs        == {"idle", "start", "wait", "call", "loop", "await", "close", "done", "fatal", "killed"}

Init ==
    /\ state = [s \in Services |-> "registered"]
    /\ wg = 0
    /\ started = FALSE
    /\ pc = [g \in Goroutines |-> IF g = "main" THEN "start" ELSE "idle"]
    /\ at = 1
    /\ holder = "none"
    /\ timedOut = FALSE
    /\ slow = FALSE
    /\ redisOpen = TRUE

\* The process is gone once main has returned, logged fatally or been killed.
Alive == pc["main"] \notin {"done", "fatal", "killed"}

GoTo(g, l) == pc' = [pc EXCEPT ![g] = l]

-----------------------------------------------------------------------------
(* StartAll holds mu from its first service to its last.                    *)

StartsNext ==
    /\ pc["main"] = "start"
    /\ at <= N
    /\ state' = [state EXCEPT ![at] = "running"]
    /\ wg' = wg + 1
    /\ at' = at + 1
    /\ UNCHANGED <<started, pc, holder, timedOut, slow, redisOpen>>

StartFails ==
    /\ pc["main"] = "start"
    /\ at \in Failing
    /\ GoTo("main", "fatal")
    /\ UNCHANGED <<state, wg, started, at, holder, timedOut, slow, redisOpen>>

StartAllEnds ==
    /\ pc["main"] = "start"
    /\ at > N
    /\ started' = TRUE
    /\ GoTo("main", "wait")
    /\ UNCHANGED <<state, wg, at, holder, timedOut, slow, redisOpen>>

-----------------------------------------------------------------------------
(* Wait, and Shutdown with StopAll.                                         *)

\* Wait returns; the deferred Shutdown runs.
MainWaits ==
    /\ Alive
    /\ pc["main"] = "wait"
    /\ wg = 0
    /\ GoTo("main", "call")
    /\ UNCHANGED <<state, wg, started, at, holder, timedOut, slow, redisOpen>>

CallsShutdown(c) ==
    /\ Alive
    /\ pc[c] = "idle"
    /\ GoTo(c, "call")
    /\ UNCHANGED <<state, wg, started, at, holder, timedOut, slow, redisOpen>>

StopsFirst == 1
StopsLast  == N

StopAllLocks(g) ==
    /\ Alive
    /\ pc[g] = "call"
    /\ pc["main"] # "start"
    /\ holder = "none"
    /\ IF started
       THEN holder' = g /\ at' = StopsLast /\ timedOut' = FALSE /\ GoTo(g, "loop")
       ELSE GoTo(g, "close") /\ UNCHANGED <<at, holder, timedOut>>
    /\ UNCHANGED <<state, wg, started, slow, redisOpen>>

StopsNext(g) ==
    /\ Alive
    /\ pc[g] = "loop"
    /\ at >= 1
    /\ state' = [state EXCEPT ![at] = "stopping"]
    /\ GoTo(g, "await")
    /\ UNCHANGED <<wg, started, at, holder, timedOut, slow, redisOpen>>

\* The goroutine of a stop: Stop returns, then the WaitGroup is told.
StopReturns(s) ==
    /\ Alive
    /\ state[s] = "stopping"
    /\ state' = [state EXCEPT ![s] = "returned"]
    /\ UNCHANGED <<wg, started, pc, at, holder, timedOut, slow, redisOpen>>

CountsDown == wg' = wg - 1

StopCounts(s) ==
    /\ Alive
    /\ state[s] = "returned"
    /\ state' = [state EXCEPT ![s] = "stopped"]
    /\ CountsDown
    /\ UNCHANGED <<started, pc, at, holder, timedOut, slow, redisOpen>>

TimesOut ==
    /\ Alive
    /\ holder # "none"
    /\ ~timedOut
    /\ timedOut' = TRUE
    /\ slow' = TRUE
    /\ UNCHANGED <<state, wg, started, pc, at, holder, redisOpen>>

AtOnce      == TRUE
OnceStopped      == state[at] \in {"returned", "stopped"}
MayProceed  == state[at] \in {"returned", "stopped"} \/ timedOut

Proceeds(g) ==
    /\ Alive
    /\ pc[g] = "await"
    /\ MayProceed
    /\ at' = at - 1
    /\ GoTo(g, "loop")
    /\ UNCHANGED <<state, wg, started, holder, timedOut, slow, redisOpen>>

StillStarted == TRUE
StartedAfter == FALSE

StopAllEnds(g) ==
    /\ Alive
    /\ pc[g] = "loop"
    /\ at = 0
    /\ started' = StartedAfter
    /\ holder' = "none"
    /\ GoTo(g, "close")
    /\ UNCHANGED <<state, wg, at, timedOut, slow, redisOpen>>

\* The rest of Shutdown; when it is main's, the process ends.
ClosesRedis(g) ==
    /\ Alive
    /\ pc[g] = "close"
    /\ redisOpen' = FALSE
    /\ GoTo(g, "done")
    /\ UNCHANGED <<state, wg, started, at, holder, timedOut, slow>>

\* The process gets a signal; nothing handles it.
IsClosed ==
    /\ Alive
    /\ GoTo("main", "killed")
    /\ UNCHANGED <<state, wg, started, at, holder, timedOut, slow, redisOpen>>

StopAllStep(g) ==
    StopAllLocks(g) \/ StopsNext(g) \/ Proceeds(g) \/ StopAllEnds(g) \/ ClosesRedis(g)

Next ==
    \/ StartsNext \/ StartFails \/ StartAllEnds \/ MainWaits
    \/ \E c \in Callers : CallsShutdown(c)
    \/ \E g \in Goroutines : StopAllStep(g)
    \/ \E s \in Services : StopReturns(s) \/ StopCounts(s)
    \/ TimesOut
    \/ IsClosed

Spec == Init /\ [][Next]_vars

\* Every goroutine is scheduled; a Stop that does not hang returns.
Fairness ==
    /\ WF_vars(StartsNext \/ StartAllEnds \/ MainWaits)
    /\ \A g \in Goroutines : WF_vars(StopAllStep(g))
    /\ \A s \in Services : WF_vars(StopCounts(s))
    /\ \A s \in Services \ Hanging : WF_vars(StopReturns(s))
    /\ WF_vars(TimesOut)

FairSpec == Spec /\ Fairness

-----------------------------------------------------------------------------
(* Properties.                                                              *)

TypeOK ==
    /\ state \in [Services -> States]
    /\ wg \in Nat
    /\ started \in BOOLEAN
    /\ pc \in [Goroutines -> Pcs]
    /\ at \in 0..(N + 1)
    /\ holder \in Goroutines \cup {"none"}
    /\ timedOut \in BOOLEAN
    /\ slow \in BOOLEAN
    /\ redisOpen \in BOOLEAN

Stopped(s) == state[s] \in {"returned", "stopped"}

\* Services stop in the order of their dependencies (service.go:82): when one
\* is told to stop, all that depend on it have.
StopsInOrder ==
    \A s \in Services :
        state[s] = "stopping" => \A r \in Services : r > s => Stopped(r)

\* The same as long as no StopAll ran into its timeout.
StopsInOrderUnlessSlow == ~slow => StopsInOrder

\* Redis is closed after the services that use it, as long as no StopAll ran
\* into its timeout and the process lives (application.go:74-79).
RedisOutlivesServices ==
    (~slow /\ ~redisOpen) => \A s \in Services : Stopped(s)

\* StopAll returns even if a Stop hangs (service.go:78), unless the process is
\* gone before.
StopAllReturns ==
    \A c \in Callers : pc[c] = "call" ~> (pc[c] = "done" \/ ~Alive)

\* "When the application is closed Shutdown is called to clean up"
\* (main.go:69): no service is left running in a process that was closed.
ClosingCleansUp ==
    (started /\ pc["main"] = "killed") => \A s \in Services : state[s] # "running"
=============================================================================
