------------------------ MODULE OfflineTaskLifecycle ------------------------
(***************************************************************************)
(* What the offline commands of a device promise: a command stored while   *)
(* the device is offline is taken by one transaction at a time, reaches    *)
(* the downlink bus at most once, can be cancelled only before that, and   *)
(* is closed by an answer to the message that carried it.                  *)
(* CommandDispatch implements this when no commit is lost.                 *)
(***************************************************************************)
EXTENDS Naturals

CONSTANT Tasks

VARIABLES
    stage, \* where each task is
    sends  \* messages made for each task so far

vars == <<stage, sends>>

Stages == {"absent", "waiting", "taken", "sent", "done", "failed", "cancelled"}

Init ==
    /\ stage = [t \in Tasks |-> "absent"]
    /\ sends = [t \in Tasks |-> 0]

In(S, s) == \A t \in S : stage[t] = s

MoveTo(t, s) == stage' = [stage EXCEPT ![t] = s]

Add(t)    == stage[t] = "absent" /\ MoveTo(t, "waiting") /\ UNCHANGED sends
Cancel(t) == stage[t] = "waiting" /\ MoveTo(t, "cancelled") /\ UNCHANGED sends

Take(S) ==
    /\ In(S, "waiting")
    /\ stage' = [t \in Tasks |-> IF t \in S THEN "taken" ELSE stage[t]]
    /\ UNCHANGED sends

Send(t) ==
    /\ stage[t] = "taken"
    /\ sends[t] = 0
    /\ sends' = [sends EXCEPT ![t] = 1]
    /\ UNCHANGED stage

\* The transaction ends: what was sent stays sent, the rest was refused or
\* goes back.
Settle(S) ==
    /\ In(S, "taken")
    /\ \E refused \in SUBSET {t \in S : sends[t] = 0} :
         stage' = [t \in Tasks |->
                     CASE t \notin S               -> stage[t]
                       [] t \in S /\ sends[t] > 0  -> "sent"
                       [] t \in refused           -> "failed"
                       [] OTHER                   -> "waiting"]
    /\ UNCHANGED sends

Answer(t) ==
    /\ sends[t] > 0
    /\ stage[t] \in {"sent", "done", "failed"}
    /\ \E s \in {"done", "failed"} : MoveTo(t, s)
    /\ UNCHANGED sends

Next ==
    \/ \E t \in Tasks : Add(t) \/ Cancel(t) \/ Send(t) \/ Answer(t)
    \/ \E S \in SUBSET Tasks : Take(S) \/ Settle(S)

Spec == Init /\ [][Next]_vars

\* A cancelled command never went out, and a command that did goes out once.
SentOnceUncancelled ==
    \A t \in Tasks :
        /\ sends[t] <= 1
        /\ stage[t] \in {"absent", "waiting", "cancelled"} => sends[t] = 0
=============================================================================
