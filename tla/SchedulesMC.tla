------------------------------ MODULE SchedulesMC ------------------------------
(***************************************************************************)
(* A small instance of Schedules for TLC: two rules with their instants.     *)
(***************************************************************************)
EXTENDS Schedules, FiniteSetsExt

CONSTANTS s1, s2, daily, noon

After ==
  LET slots == [r \in Rules |-> IF r = daily THEN {1} ELSE {2}]
  IN [r \in Rules |-> [i \in Instants |-> Min({x \in slots[r] : x > i} \cup {Never})]]
================================================================================
