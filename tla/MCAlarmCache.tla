---------------------------- MODULE MCAlarmCache ----------------------------
(* AlarmCache with one group that names a device and one that is of a        *)
(* configuration both devices have.                                          *)
EXTENDS AlarmCache

CONSTANTS d1, d2

TwoConds   == {"named", "config"}
NamesOne   == [c \in TwoConds |-> IF c = "named" THEN {d1} ELSE {}]
ConfigOnly == {"config"}

OneSave     == {<<1, 1, 0>>}
ThreeOthers == {<<0, 0, 3>>}
SaveOrThree == OneSave \cup ThreeOthers
Quiet       == {<<0, 0, 0>>}
=============================================================================
