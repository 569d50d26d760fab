---------------------------- MODULE MCOtaUpgrade ----------------------------
(* OtaUpgrade on small sets of tasks, devices and requests.                 *)
EXTENDS OtaUpgrade

CONSTANTS t1, t2, d1, d2, r1, r2
=============================================================================
