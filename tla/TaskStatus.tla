------------------------------ MODULE TaskStatus ------------------------------
(***************************************************************************)
(* Tasks, their statuses and the map of the moves between them              *)
(* (core/tasking/transitions.py), as every writer of tasks.status sees it.  *)
(***************************************************************************)
CONSTANTS
  Tasks,
  NoTask

ASSUME NoTaskAssumption == NoTask \notin Tasks

Terminal == {"complete", "abandoned", "declined", "cancelled"}
Working == {"accepted", "active", "waiting", "blocked", "stalled", "delegated"}
Status == {"none", "pending", "held"} \cup Working \cup Terminal   \* "none": no row

\* ALLOWED_TASK_TRANSITIONS: a closed task has no way out.
OnMap(from, to) ==
  \/ from = "pending" /\ to \in Status \ {"none", "pending", "complete"}
  \/ from = "held" /\ to \in {"pending", "blocked", "cancelled", "abandoned"}
  \/ from = "accepted" /\ to \in Status \ {"none", "held", "accepted"}
  \/ from \in Working \ {"accepted"} /\ to \in Status \ {"none", "held", "declined", from}

is_allowed(from, to) == from = to \/ OnMap(from, to)
===============================================================================
