--------------------------- MODULE MCRestoreQueue ---------------------------
(* Model values for checking RestoreQueue with TLC. *)
EXTENDS RestoreQueue, TLC

CONSTANTS s1, s2

PoolOfTwo == {s1, s2}
JustOne   == {s1}
=============================================================================
