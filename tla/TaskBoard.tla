------------------------------- MODULE TaskBoard -------------------------------
(***************************************************************************)
(* Tasks, the allow-map of their statuses and the tasks that wait on others  *)
(* (core/tasking/transitions.py, dependencies.py, operator_actions.py,       *)
(* db/tasks.py, db/task_dependencies.py).                                    *)
(*                                                                           *)
(* Two processes write one database: the operator's routes run in the app,   *)
(* agents, dispatcher and watchdog in the worker.  A handler runs to its end *)
(* within its process, and its statements interleave with the other's.       *)
(* Only the status of a task and its edges are kept: the events, notices,    *)
(* wakes and activities that a move leaves behind decide nothing here.       *)
(***************************************************************************)
EXTENDS TaskStatus, Naturals, FiniteSets

CONSTANTS
  MayBeUnder,    \* task -> the tasks it may be delegated under; NoTask for top level
  MayWaitOn,     \* task -> the tasks that its "after" entries resolve to
  AgentMoves,    \* the statuses that agents move their tasks to
  FloorsMove,    \* whether an agent may have left the floor of its task
  Faults,        \* whether settling a dependent may raise, and a process die
  LostUpdates    \* whether a write may come between update_task's read and its own

ASSUME TaskAssumption ==
  /\ MayBeUnder \in [Tasks -> SUBSET (Tasks \cup {NoTask})]
  /\ MayWaitOn \in [Tasks -> SUBSET Tasks]
  /\ AgentMoves \subseteq Status \ {"none", "held", "cancelled"}
  /\ {FloorsMove, Faults, LostUpdates} \subseteq BOOLEAN

VARIABLES
  status,   \* tasks.status
  parent,   \* tasks.parent_task_id
  waits,    \* task -> its edges of task_dependencies
  op,       \* process -> the handler it is in
  parked,   \* history: tasks that the operator's hold put into held
  dropped   \* history: held tasks whose settling a fault or a crash cut off

vars == <<status, parent, waits, op, parked, dropped>>

-----------------------------------------------------------------------------
Dead == Terminal \ {"complete"}          \* DEAD_PREREQUISITE_STATUSES

Open(t) == status[t] \notin Terminal \cup {"none"}
Unfinished(t) == {q \in waits[t] : status[q] # "complete"}
is_released(t) == status[t] # "held" /\ Unfinished(t) = {}
ParentClosed(t) == parent[t] # NoTask /\ status[parent[t]] \in Terminal
OpenChildren(t) == {c \in Tasks : parent[c] = t /\ Open(c) /\ status[c] # "delegated"}

\* _ancestor_ids
Above(t) ==
  LET above[x \in Tasks] == IF parent[x] = NoTask THEN {} ELSE {parent[x]} \cup above[parent[x]]
  IN above[t]

Procs == {"app", "worker"}
Steps == {"idle", "drop", "check", "write", "put", "settle", "next", "apply"}
Idle == [at |-> "idle", task |-> NoTask, to |-> "none", from |-> "none",
         todo |-> {}, cur |-> NoTask]

\* The types; a process in the loop of settle_dependents has a task left to look at.
TypeOK ==
  /\ status \in [Tasks -> Status]
  /\ parent \in [Tasks -> Tasks \cup {NoTask}]
  /\ waits \in [Tasks -> SUBSET Tasks]
  /\ op \in [Procs -> [at : Steps, task : Tasks \cup {NoTask}, to : Status, from : Status,
                       todo : SUBSET Tasks, cur : Tasks \cup {NoTask}]]
  /\ parked \subseteq Tasks /\ dropped \subseteq Tasks
  /\ \A p \in Procs :
       /\ op[p].at = "idle" <=> op[p].task = NoTask
       /\ op[p].at \in {"next", "apply"} => op[p].todo # {}
       /\ op[p].at = "apply" => op[p].cur \in op[p].todo

\* Without LostUpdates no hold and no other update_task of the same row comes in
\* between the two statements of update_task.
Undisturbed(p, t) ==
  LostUpdates \/ \A q \in Procs \ {p} : ~(op[q].at = "put" /\ op[q].task = t)

\* A row gets a new status; the histories are about held rows only.
Moves(t, to) ==
  /\ status' = [status EXCEPT ![t] = to]
  /\ IF to = "held" THEN UNCHANGED <<parked, dropped>>
     ELSE parked' = parked \ {t} /\ dropped' = dropped \ {t}

Begins(p, at, t, to) == op' = [op EXCEPT ![p] = [Idle EXCEPT !.at = at, !.task = t, !.to = to]]
Ends(p) == op' = [op EXCEPT ![p] = Idle]

-----------------------------------------------------------------------------
(* The handlers, up to the move they ask transition_task for.               *)

\* One savepoint, whose first statement takes the write lock.  A dead
\* prerequisite refuses the task; an edge is kept for a finished one too.
create_task(t) ==
  /\ status[t] = "none"
  /\ \E under \in MayBeUnder[t], after \in SUBSET MayWaitOn[t] :
       /\ under # NoTask => Open(under) /\ after \cap ({under} \cup Above(under)) = {}
       /\ parent' = [parent EXCEPT ![t] = under]
       /\ \A q \in after : status[q] \notin Dead \cup {"none"}
       /\ waits' = [waits EXCEPT ![t] = after]
       /\ status' = [status EXCEPT ![t] =
                       IF \A q \in after : status[q] = "complete" THEN "pending" ELSE "held"]
  /\ UNCHANGED <<op, parked, dropped>>

\* An agent moves work it was given.  It cannot finish a task that has open
\* children, but for the stuck ones.
AgentActs(t) ==
  /\ op["worker"].at = "idle"
  /\ Open(t) /\ is_released(t)
  /\ \E to \in AgentMoves :
       /\ to = status[t] => to = "pending"      \* a defer
       /\ to = "complete" =>
            \A c \in OpenChildren(t) : status[c] \in {"blocked", "stalled"}
       /\ Begins("worker", "check", t, to)
  /\ UNCHANGED <<status, parent, waits, parked, dropped>>

\* _exhaust_failed_trigger: the task of a wake that is given up on stalls,
\* whoever the wake was for.
TurnGivenUp(t) ==
  /\ op["worker"].at = "idle"
  /\ Open(t) /\ status[t] \notin {"delegated", "stalled"}
  /\ Begins("worker", "check", t, "stalled")
  /\ UNCHANGED <<status, parent, waits, parked, dropped>>

\* The reset of an agent's runtime blocks the tasks it was working on.
ResetBlocks(t) ==
  /\ op["app"].at = "idle"
  /\ status[t] \in {"pending", "accepted", "active", "waiting"}
  /\ Begins("app", "check", t, "blocked")
  /\ UNCHANGED <<status, parent, waits, parked, dropped>>

cancel_task_as_operator(t) ==
  /\ op["app"].at = "idle"
  /\ Open(t)
  /\ Begins("app", "check", t, "cancelled")
  /\ UNCHANGED <<status, parent, waits, parked, dropped>>

complete_task_as_operator(t) ==
  /\ op["app"].at = "idle"
  /\ Open(t) /\ is_allowed(status[t], "complete") /\ OpenChildren(t) = {}
  /\ Begins("app", "check", t, "complete")
  /\ UNCHANGED <<status, parent, waits, parked, dropped>>

\* resume, reassign and edit of a task that is neither held nor pending: its
\* unfinished prerequisites go first, then it moves to pending.
_re_present(t) ==
  /\ op["app"].at = "idle"
  /\ status[t] \in Working
  /\ Begins("app", "drop", t, "pending")
  /\ UNCHANGED <<status, parent, waits, parked, dropped>>

_drop_unfinished_prerequisites(p) ==
  /\ op[p].at = "drop"
  /\ waits' = [waits EXCEPT ![op[p].task] = @ \ Unfinished(op[p].task)]
  /\ op' = [op EXCEPT ![p].at = "check"]
  /\ UNCHANGED <<status, parent, parked, dropped>>

\* hold and release are one write transaction each, with a compare-and-set.
hold_task_as_operator(t) ==
  /\ op["app"].at = "idle"
  /\ status[t] = "pending" /\ Undisturbed("app", t)
  /\ status' = [status EXCEPT ![t] = "held"]
  /\ parked' = parked \cup {t}
  /\ UNCHANGED <<parent, waits, op, dropped>>

release_task_as_operator(t) ==
  /\ op["app"].at = "idle"
  /\ status[t] = "held"
  /\ Moves(t, "pending")
  /\ waits' = [waits EXCEPT ![t] = @ \ Unfinished(t)]
  /\ UNCHANGED <<parent, op>>

-----------------------------------------------------------------------------
(* transition_task: its first read; update_task with its own read and the   *)
(* UPDATE; and the settling of dependents when the task has closed.         *)

Check(p) ==
  /\ op[p].at = "check"
  /\ LET now == status[op[p].task]
     IN IF is_allowed(now, op[p].to)
        THEN op' = [op EXCEPT ![p].at = "write", ![p].from = now]
        ELSE Ends(p)
  /\ UNCHANGED <<status, parent, waits, parked, dropped>>

\* Seeded fault: only a task that completed settles the ones waiting on it.
SettlesIfComplete(p) ==
  IF op[p].from # op[p].to /\ op[p].to = "complete"
  THEN op' = [op EXCEPT ![p].at = "settle"]
  ELSE Ends(p)

AfterUpdate(p) ==
  IF op[p].from # op[p].to /\ op[p].to \in Terminal
  THEN op' = [op EXCEPT ![p].at = "settle"]
  ELSE Ends(p)

\* Seeded fault: update_task relies on the check that transition_task made.
UpdateTrusts(p) ==
  /\ op[p].at = "write" /\ Undisturbed(p, op[p].task)
  /\ op' = [op EXCEPT ![p].at = "put"]
  /\ UNCHANGED <<status, parent, waits, parked, dropped>>

update_task(p) ==
  /\ op[p].at = "write" /\ Undisturbed(p, op[p].task)
  /\ IF is_allowed(status[op[p].task], op[p].to)
     THEN op' = [op EXCEPT ![p].at = "put"]
     ELSE Ends(p)
  /\ UNCHANGED <<status, parent, waits, parked, dropped>>

\* The UPDATE of update_task names no status: it writes over whatever is there.
Put(p) ==
  /\ op[p].at = "put"
  /\ Moves(op[p].task, op[p].to) /\ AfterUpdate(p)
  /\ UNCHANGED <<parent, waits>>

ListHeldDependents(p) ==
  /\ op[p].at = "settle"
  /\ LET held == {d \in Tasks : status[d] = "held" /\ op[p].task \in waits[d]}
     IN IF held = {} THEN Ends(p)
        ELSE op' = [op EXCEPT ![p].at = "next", ![p].todo = held]
  /\ UNCHANGED <<status, parent, waits, parked, dropped>>

\* The rest of the loop of settle_dependents.
LoopsOn(p, d) ==
  IF op[p].todo = {d} THEN Ends(p)
  ELSE op' = [op EXCEPT ![p].at = "next", ![p].todo = @ \ {d}, ![p].cur = NoTask]

\* What _settle_one reads about one dependent, and what it decides to do.
Decides(p, d, to) ==
  op' = [op EXCEPT ![p] = [@ EXCEPT !.at = "apply", !.cur = d, !.from = to]]

\* Seeded faults: other open prerequisites are not counted; a prerequisite that
\* closed without completing leaves the dependent waiting.
SettleCountsNothing(p) ==
  /\ op[p].at = "next"
  /\ \E d \in op[p].todo :
       IF ParentClosed(d) THEN LoopsOn(p, d)
       ELSE Decides(p, d, IF op[p].to = "complete" THEN "pending" ELSE "blocked")
  /\ UNCHANGED <<status, parent, waits, parked, dropped>>
SettleIgnoresDead(p) ==
  /\ op[p].at = "next"
  /\ \E d \in op[p].todo :
       IF ParentClosed(d) \/ op[p].to \in Dead \/ Unfinished(d) # {} THEN LoopsOn(p, d)
       ELSE Decides(p, d, "pending")
  /\ UNCHANGED <<status, parent, waits, parked, dropped>>

_settle_one(p) ==
  /\ op[p].at = "next"
  /\ \E d \in op[p].todo :
       IF ParentClosed(d) THEN LoopsOn(p, d)
       ELSE \/ op[p].to \in Dead /\ Decides(p, d, "blocked")
            \/ FloorsMove /\ op[p].to = "complete" /\ Decides(p, d, "blocked")
            \/ op[p].to = "complete" /\ Unfinished(d) = {} /\ Decides(p, d, "pending")
            \/ op[p].to = "complete" /\ Unfinished(d) # {} /\ LoopsOn(p, d)
  /\ UNCHANGED <<status, parent, waits, parked, dropped>>

\* release_task and fail_dependent: a compare-and-set from held.
SettleApplies(p) ==
  /\ op[p].at = "apply"
  /\ LET d == op[p].cur
     IN /\ IF status[d] = "held" THEN Moves(d, op[p].from)
           ELSE UNCHANGED <<status, parked, dropped>>
        /\ LoopsOn(p, d)
  /\ UNCHANGED <<parent, waits>>

\* The exception of one dependent is logged and the loop goes on.
SettleRaises(p) ==
  /\ Faults /\ op[p].at = "apply"
  /\ dropped' = dropped \cup {d \in {op[p].cur} : status[d] = "held"}
  /\ LoopsOn(p, op[p].cur)
  /\ UNCHANGED <<status, parent, waits, parked>>

Settling(p, d) ==
  \/ op[p].at = "settle" /\ op[p].task \in waits[d]
  \/ op[p].at \in {"next", "apply"} /\ d \in op[p].todo

ProcessDies(p) ==
  /\ Faults /\ op[p].at # "idle"
  /\ Ends(p)
  /\ dropped' = dropped \cup {d \in Tasks : status[d] = "held" /\ Settling(p, d)}
  /\ UNCHANGED <<status, parent, waits, parked>>

HandlerSteps(p) ==
  \/ _drop_unfinished_prerequisites(p) \/ Check(p) \/ update_task(p) \/ Put(p)
  \/ ListHeldDependents(p) \/ _settle_one(p) \/ SettleApplies(p)

OperatorActs(t) ==
  \/ ResetBlocks(t) \/ cancel_task_as_operator(t) \/ complete_task_as_operator(t)
  \/ _re_present(t) \/ hold_task_as_operator(t) \/ release_task_as_operator(t)

Init ==
  /\ status = [t \in Tasks |-> "none"]
  /\ parent = [t \in Tasks |-> NoTask]
  /\ waits = [t \in Tasks |-> {}]
  /\ op = [p \in Procs |-> Idle]
  /\ parked = {} /\ dropped = {}

Next ==
  \/ \E t \in Tasks : create_task(t) \/ AgentActs(t) \/ TurnGivenUp(t) \/ OperatorActs(t)
  \/ \E p \in Procs : HandlerSteps(p) \/ SettleRaises(p) \/ ProcessDies(p)

\* A handler that has begun goes on to its end, unless its process dies.
Spec == Init /\ [][Next]_vars /\ \A p \in Procs : WF_vars(HandlerSteps(p))

-----------------------------------------------------------------------------
\* "a non-terminal task with an edge to a prerequisite that is not complete has
\* not been released": whatever the processes do between two statements, it is
\* in no status its assignee works in.
NothingReleasedWaits ==
  \A t \in Tasks : Open(t) /\ Unfinished(t) # {} => status[t] \in {"held", "blocked", "stalled"}

Ready(t) ==
  /\ status[t] = "held" /\ waits[t] # {}
  /\ Unfinished(t) = {} \/ \E q \in waits[t] : status[q] \in Dead
Excused(t) == t \in parked \cup dropped \/ ParentClosed(t)

\* A held task whose prerequisites are done for is never forgotten: the handler
\* that closed one of them still has it to settle, unless the operator holds
\* it, its workstream is closed, or a fault cut the settling off.
NoForgottenDependent ==
  \A t \in Tasks : Ready(t) => Excused(t) \/ \E p \in Procs : Settling(p, t)

\* ... and it is settled: released, or blocked with its failed prerequisite.
EveryDependentSettles ==
  \A t \in {d \in Tasks : MayWaitOn[d] # {}} : Ready(t) ~> (status[t] # "held" \/ Excused(t))

\* Every change of status is on the allow-map, "so the graph cannot be bypassed".
MovesOnTheMap ==
  [][\A t \in Tasks : status[t] # "none" => is_allowed(status[t], status'[t])]_vars

================================================================================
