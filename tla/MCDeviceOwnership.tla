------------------------- MODULE MCDeviceOwnership -------------------------
(* DeviceOwnership with two users of different organisations; the first     *)
(* organisation is above the second. An end user has none.                  *)
EXTENDS DeviceOwnership, TLC

CONSTANTS x1, x2, x3, d1, d2, u1, u2, o1, o2, dealer1, dealer2

OrgOfUser  == u1 :> o1 @@ u2 :> o2
EndUser    == u1 :> o1 @@ u2 :> None
OrgClosure == {<<o1, o1>>, <<o1, o2>>, <<o2, o2>>}

Symmetric == Permutations(Txs) \cup Permutations(Devices) \cup Permutations(Dealers)

\* What later steps of a transaction look at: a bind its id; the row it read and
\* the device it is at until the write, the request until it is about to commit.
Remembered(t) ==
    LET request == [t EXCEPT !.id = IF t.op = "bind" THEN @ ELSE 0] IN
    CASE t.pc = "commit" -> <<t.pc, t.staged, t.adds, t.gone, t.logged, t.seen, t.dirty>>
      [] t.pc = "battery" /\ t.op \in Batches -> [request EXCEPT !.saw = NoRow, !.dev = None]
      [] OTHER -> request

View == <<battery, bindings, [x \in Txs |-> Remembered(tx[x])], begun, raced>>
=============================================================================
