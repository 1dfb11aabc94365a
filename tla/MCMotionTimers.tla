--------------------------- MODULE MCMotionTimers ----------------------------
(* Small instances of MotionTimers for TLC.                                 *)
EXTENDS MotionTimers, TLC

\* Every sensor controls every room; one timeout for all.
EveryRoom == [s \in Sensors |-> Rooms]
Three == [r \in Rooms |-> 3]
=============================================================================
