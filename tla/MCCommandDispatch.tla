-------------------------- MODULE MCCommandDispatch --------------------------
(* CommandDispatch on small instances: one or two offline commands, one or   *)
(* two overlapping executors, a command sent at once next to them.           *)
EXTENDS CommandDispatch

NoUsers      == {}
OneUser      == {"u1"}
OneTask      == {"t1"}
TwoTasks     == {"t1", "t2"}
OneExecutor  == {"e1"}
TwoExecutors == {"e1", "e2"}
=============================================================================
