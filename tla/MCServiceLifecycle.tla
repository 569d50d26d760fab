------------------------- MODULE MCServiceLifecycle -------------------------
(* ServiceLifecycle with three services and up to two callers of Shutdown.   *)
EXTENDS ServiceLifecycle

NoServices == {}
Middle     == {2}
NoCallers  == {}
TwoCallers == {"c1", "c2"}
=============================================================================
