------------------------------ MODULE TaskBoardMC ------------------------------
(***************************************************************************)
(* A small instance of TaskBoard for TLC: a plan whose last step waits on    *)
(* two others.                                                               *)
(***************************************************************************)
EXTENDS TaskBoard, TLC

CONSTANTS t1, t2, t3

LastUnder == [t \in Tasks |-> IF t = t3 THEN {NoTask, t1} ELSE {NoTask}]
LastWaits == [t \in Tasks |-> IF t = t3 THEN {t1, t2} ELSE {}]
================================================================================
