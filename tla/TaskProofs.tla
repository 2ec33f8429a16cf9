----------------------------- MODULE TaskProofs -----------------------------
(***************************************************************************)
(* Proofs about tasks. TaskBoard, for every number of tasks and every shape  *)
(* of plan: while no write comes between the two statements of update_task,  *)
(* statuses move on the map, nothing released waits and no dependent is      *)
(* forgotten; where one does, only an overwriting UPDATE leaves the map.     *)
(* LiveWork, for every number of tasks, incidents and clicks: an agent does  *)
(* one thing, its work in flight has a turn coming, and the tasks it works   *)
(* on move on the map.                                                       *)
(***************************************************************************)
EXTENDS TaskBoard, LiveWork, FiniteSetTheorems, TLAPS

-----------------------------------------------------------------------------
(* The inductive invariant.                                                 *)

\* What a handler is about to write.
PutIsAllowed ==
  \A p \in Procs : op[p].at = "put" => is_allowed(status[op[p].task], op[p].to)
PutIsAlone ==
  op["app"].at = "put" /\ op["worker"].at = "put" => op["app"].task # op["worker"].task

\* A handler works on a task that has a row; it never asks for held, and asks
\* for a status in which the assignee works only when nothing is unfinished.
HandlerIsSound(p) ==
  op[p].at # "idle" =>
    /\ status[op[p].task] # "none" /\ op[p].to \notin {"none", "held"}
    /\ op[p].at = "drop" => p = "app" /\ status[op[p].task] # "held" /\ op[p].to = "pending"
    /\ op[p].at \in {"check", "write", "put"} =>
         op[p].to \in Terminal \cup {"blocked", "stalled"} \/ Unfinished(op[p].task) = {}
    /\ op[p].at \in {"write", "put"} /\ op[p].from = op[p].to /\ op[p].to \in Terminal =>
         status[op[p].task] = op[p].to
    /\ op[p].at \in {"settle", "next", "apply"} =>
         op[p].to \in Terminal /\ status[op[p].task] = op[p].to
    /\ op[p].at \in {"next", "apply"} => \A d \in op[p].todo : status[d] # "none"
    /\ op[p].at = "apply" =>
         op[p].from = "blocked" \/ (op[p].from = "pending" /\ Unfinished(op[p].cur) = {})

\* Every task that a closed prerequisite leaves to be settled has its handler:
\* one that closed it dead, or one that completed the last of them.
DeadIsSettled ==
  \A d \in Tasks : status[d] = "held" /\ (\E q \in waits[d] : status[q] \in Dead) =>
    Excused(d) \/ \E p \in Procs : Settling(p, d) /\ op[p].to \in Dead
CompleteIsSettled ==
  \A d \in Tasks : status[d] = "held" /\ waits[d] # {} /\ Unfinished(d) = {} =>
    Excused(d) \/ \E p \in Procs : Settling(p, d) /\ op[p].to = "complete"

Core ==
  /\ TypeOK /\ PutIsAllowed /\ PutIsAlone /\ NothingReleasedWaits
  /\ \A p \in Procs : HandlerIsSound(p)

IInv == Core /\ DeadIsSettled /\ CompleteIsSettled
-----------------------------------------------------------------------------
(* What a step does to statuses and edges.                                  *)

Steady == LostUpdates = FALSE

\* A move to one of the statuses that held allows is allowed from where a
\* release or a failure puts the task.
LEMMA HeldMovesStayAllowed ==
  ASSUME NEW to, is_allowed("held", to), to # "held"
  PROVE  is_allowed("pending", to) /\ is_allowed("blocked", to)
BY DEF is_allowed, OnMap, Status, Working, Terminal

\* No status is left but along the map, and terminal ones not at all.
StatusStep ==
  \A t \in Tasks :
    \/ status'[t] = status[t]
    \/ status[t] = "none" /\ status'[t] \in {"pending", "held"}
    \/ /\ status[t] # "none" /\ OnMap(status[t], status'[t])
       /\ status'[t] = "held" => op["app"].at = "idle" /\ t \in parked'

LEMMA StatusMoves == ASSUME Core, Next PROVE StatusStep
<1> USE DEF Core, TypeOK, StatusStep
<1>1. CASE UNCHANGED status
  BY <1>1
<1>2. ASSUME NEW t \in Tasks, create_task(t) PROVE StatusStep
  BY <1>2 DEF create_task
<1>3. ASSUME NEW t \in Tasks, hold_task_as_operator(t) PROVE StatusStep
  BY <1>3 DEF hold_task_as_operator, OnMap, Status, Working
<1>4. ASSUME NEW t \in Tasks, release_task_as_operator(t) PROVE StatusStep
  BY <1>4 DEF release_task_as_operator, Moves, OnMap
<1>5. ASSUME NEW p \in Procs, Put(p) PROVE StatusStep
  <2>1. op[p].task \in Tasks /\ is_allowed(status[op[p].task], op[p].to)
        /\ status[op[p].task] # "none" /\ op[p].to # "held"
    BY <1>5 DEF Put, PutIsAllowed, HandlerIsSound, Steps
  <2> QED
    BY <1>5, <2>1 DEF Put, Moves, is_allowed
<1>6. ASSUME NEW p \in Procs, SettleApplies(p) PROVE StatusStep
  <2>1. op[p].from \in {"pending", "blocked"}
    BY <1>6 DEF SettleApplies, HandlerIsSound
  <2> QED
    BY <1>6, <2>1 DEF SettleApplies, Moves, OnMap
<1> QED
  BY <1>1, <1>2, <1>3, <1>4, <1>5, <1>6
     DEF Next, HandlerSteps, OperatorActs, AgentActs, TurnGivenUp, ResetBlocks,
         cancel_task_as_operator, complete_task_as_operator, _re_present,
         _drop_unfinished_prerequisites, Check, update_task, ListHeldDependents, _settle_one,
         SettleRaises, ProcessDies

\* Edges are written when a task is created, and removed after that.
WaitsStep == \A t \in Tasks : status[t] # "none" => waits'[t] \subseteq waits[t]
LEMMA WaitsShrink == ASSUME Core, Next PROVE WaitsStep
<1> USE DEF Core, TypeOK, WaitsStep
<1>1. CASE UNCHANGED waits
  BY <1>1
<1>2. ASSUME NEW t \in Tasks, create_task(t) PROVE WaitsStep
  BY <1>2 DEF create_task
<1>3. ASSUME NEW t \in Tasks, release_task_as_operator(t) PROVE WaitsStep
  BY <1>3 DEF release_task_as_operator, Moves
<1>4. ASSUME NEW p \in Procs, _drop_unfinished_prerequisites(p) PROVE WaitsStep
  BY <1>4 DEF _drop_unfinished_prerequisites
<1> QED
  BY <1>1, <1>2, <1>3, <1>4
     DEF Next, HandlerSteps, OperatorActs, AgentActs, TurnGivenUp, ResetBlocks,
         cancel_task_as_operator, complete_task_as_operator, _re_present, hold_task_as_operator,
         Put, SettleApplies, Check, update_task, ListHeldDependents, _settle_one,
         SettleRaises, ProcessDies

\* So a task with nothing unfinished keeps having nothing unfinished.
LEMMA FinishedStaysFinished ==
  ASSUME Core, StatusStep, WaitsStep
  PROVE  /\ \A t \in Tasks : status[t] \in Terminal => status'[t] = status[t]
         /\ \A t \in Tasks : status[t] # "none" => status'[t] # "none"
         /\ \A t \in Tasks : status[t] # "none" /\ Unfinished(t) = {} => Unfinished(t)' = {}
<1>1. \A t \in Tasks : status[t] \in Terminal => status'[t] = status[t]
  BY DEF StatusStep, OnMap, Terminal, Working
<1>2. \A t \in Tasks : status[t] # "none" => status'[t] # "none"
  BY DEF StatusStep, OnMap, Status, Working, Terminal
<1>3. ASSUME NEW t \in Tasks, status[t] # "none", Unfinished(t) = {} PROVE Unfinished(t)' = {}
  <2>1. \A q \in waits'[t] : q \in Tasks /\ status[q] = "complete"
    BY <1>3 DEF WaitsStep, Unfinished, Core, TypeOK
  <2> QED
    BY <1>1, <2>1 DEF Unfinished, Terminal
<1> QED
  BY <1>1, <1>2, <1>3
-----------------------------------------------------------------------------
(* Types.                                                                   *)

LEMMA InitTypes == ASSUME NoTaskAssumption, TaskAssumption, Init PROVE TypeOK
BY DEF NoTaskAssumption, TaskAssumption, Init, TypeOK, Idle, Procs, Steps, Status

\* A handler that begins, ends or goes on in its loop stays well formed.
LEMMA BeginsIsTyped ==
  ASSUME TypeOK, NoTaskAssumption, TaskAssumption, NEW p \in Procs, NEW t \in Tasks, NEW to \in Status,
         NEW at \in {"drop", "check"}, Begins(p, at, t, to),
         UNCHANGED <<status, parent, waits, parked, dropped>>
  PROVE  TypeOK'
BY DEF TypeOK, NoTaskAssumption, TaskAssumption, Begins, Idle, Steps, Procs, Status
\* One process goes on to a well-formed place of its own, or ends its handler.
Ops ==
  [at : Steps, task : Tasks \cup {NoTask}, to : Status, from : Status,
   todo : SUBSET Tasks, cur : Tasks \cup {NoTask}]
LEMMA GoesOnIsTyped ==
  ASSUME TypeOK, NEW p \in Procs, NEW o \in Ops, op' = [op EXCEPT ![p] = o],
         o.at \notin {"idle", "apply"} /\ o.task = op[p].task /\ op[p].at # "idle",
         o.at = "next" => o.todo # {},
         UNCHANGED <<parent, waits>>, status' \in [Tasks -> Status],
         parked' \subseteq Tasks, dropped' \subseteq Tasks
  PROVE  TypeOK'
<1>1. op' \in [Procs -> Ops]
  BY DEF TypeOK, Ops
<1> QED
  BY <1>1 DEF TypeOK, Ops
LEMMA EndsIsTyped ==
  ASSUME TypeOK, NEW p \in Procs, Ends(p),
         UNCHANGED <<parent, waits>>, status' \in [Tasks -> Status],
         parked' \subseteq Tasks, dropped' \subseteq Tasks
  PROVE  TypeOK'
<1>1. Idle \in Ops /\ Idle.at = "idle" /\ Idle.task = NoTask
  BY DEF Idle, Ops, Steps, Status
<1>2. op' \in [Procs -> Ops] /\ op' = [op EXCEPT ![p] = Idle]
  BY <1>1 DEF TypeOK, Ops, Ends
<1> QED
  BY <1>1, <1>2 DEF TypeOK, Ops

LEMMA LoopsOnIsTyped ==
  ASSUME TypeOK, NEW p \in Procs, NEW d \in op[p].todo, LoopsOn(p, d),
         op[p].at \in {"next", "apply"}
  PROVE  /\ op' \in [Procs -> [at : Steps, task : Tasks \cup {NoTask}, to : Status, from : Status,
                               todo : SUBSET Tasks, cur : Tasks \cup {NoTask}]]
         /\ \A q \in Procs :
              /\ op'[q].at = "idle" <=> op'[q].task = NoTask
              /\ op'[q].at \in {"next", "apply"} => op'[q].todo # {}
              /\ op'[q].at = "apply" => op'[q].cur \in op'[q].todo
BY DEF TypeOK, LoopsOn, Ends, Idle, Steps, Procs, Status

LEMMA TypesAreKept == ASSUME NoTaskAssumption, TaskAssumption, TypeOK, Next PROVE TypeOK'
<1>1. ASSUME NEW t \in Tasks, create_task(t) PROVE TypeOK'
  BY <1>1 DEF create_task, TypeOK, NoTaskAssumption, TaskAssumption, Status
<1>2. ASSUME NEW t \in Tasks, AgentActs(t) PROVE TypeOK'
  <2>1. PICK to \in AgentMoves : Begins("worker", "check", t, to)
    BY <1>2 DEF AgentActs
  <2>2. to \in Status
    BY <2>1 DEF NoTaskAssumption, TaskAssumption
  <2> QED
    BY <1>2, <2>1, <2>2, BeginsIsTyped DEF AgentActs, Procs
<1>3. ASSUME NEW t \in Tasks, TurnGivenUp(t) PROVE TypeOK'
  BY <1>3, BeginsIsTyped DEF TurnGivenUp, Procs, Status, Working
<1>4. ASSUME NEW t \in Tasks, ResetBlocks(t) \/ cancel_task_as_operator(t)
                               \/ complete_task_as_operator(t) \/ _re_present(t)
      PROVE  TypeOK'
  BY <1>4, BeginsIsTyped DEF ResetBlocks, cancel_task_as_operator, complete_task_as_operator,
       _re_present, Procs, Status, Working, Terminal
<1>5. ASSUME NEW t \in Tasks, hold_task_as_operator(t) PROVE TypeOK'
  BY <1>5 DEF hold_task_as_operator, TypeOK, Status
<1>6. ASSUME NEW t \in Tasks, release_task_as_operator(t) PROVE TypeOK'
  BY <1>6 DEF release_task_as_operator, Moves, TypeOK, Status
<1>7. ASSUME NEW p \in Procs, _drop_unfinished_prerequisites(p) PROVE TypeOK'
  BY <1>7, SMTT(30) DEF _drop_unfinished_prerequisites, TypeOK, Steps
<1>8. ASSUME NEW p \in Procs, Check(p) \/ update_task(p) PROVE TypeOK'
  <2>1. /\ op \in [Procs -> Ops] /\ op[p] \in Ops /\ status \in [Tasks -> Status]
        /\ op[p].task \in Tasks /\ op[p].at \in {"check", "write"}
        /\ UNCHANGED <<status, parent, waits, parked, dropped>>
    BY <1>8 DEF Check, update_task, TypeOK, Ops
  <2>2. CASE Ends(p)
    BY <2>1, <2>2, EndsIsTyped DEF TypeOK
  <2>3. CASE Check(p) /\ ~Ends(p)
    <3> DEFINE now == status[op[p].task]
               o == [op[p] EXCEPT !.at = "write", !.from = now]
    <3>1. op' = [op EXCEPT ![p].at = "write", ![p].from = now]
      BY <2>3 DEF Check
    <3>2. now \in Status /\ "write" \in Steps
      BY <2>1 DEF Steps
    <3> HIDE DEF now
    <3>3. o \in Ops /\ o.at = "write" /\ o.task = op[p].task
      BY <2>1, <3>2 DEF Ops
    <3>4. op' = [op EXCEPT ![p] = o]
      BY <2>1, <3>1
    <3> HIDE DEF o
    <3> QED
      BY <2>1, <3>3, <3>4, GoesOnIsTyped DEF TypeOK
  <2>4. CASE update_task(p) /\ ~Ends(p)
    <3> DEFINE o == [op[p] EXCEPT !.at = "put"]
    <3>1. op' = [op EXCEPT ![p] = o]
      BY <2>4 DEF update_task
    <3>2. "put" \in Steps
      BY DEF Steps
    <3>3. o \in Ops /\ o.at = "put" /\ o.task = op[p].task
      BY <2>1, <3>2 DEF Ops
    <3> HIDE DEF o
    <3> QED
      BY <2>1, <3>1, <3>3, GoesOnIsTyped DEF TypeOK
  <2> QED
    BY <1>8, <2>2, <2>3, <2>4
<1>9. ASSUME NEW p \in Procs, Put(p) PROVE TypeOK'
  <2>1. /\ op \in [Procs -> Ops] /\ op[p] \in Ops /\ status \in [Tasks -> Status]
        /\ op[p].task \in Tasks /\ op[p].at = "put" /\ UNCHANGED <<parent, waits>>
    BY <1>9 DEF Put, TypeOK, Ops
  <2>2. /\ status' = [status EXCEPT ![op[p].task] = op[p].to] /\ op[p].to \in Status
        /\ parked' \subseteq Tasks /\ dropped' \subseteq Tasks
    BY <1>9, <2>1 DEF Put, Moves, TypeOK, Ops
  <2>3. status' \in [Tasks -> Status]
    BY <2>1, <2>2
  <2>4. CASE Ends(p)
    BY <2>1, <2>2, <2>3, <2>4, EndsIsTyped
  <2>5. CASE ~Ends(p)
    <3> DEFINE o == [op[p] EXCEPT !.at = "settle"]
    <3>1. op' = [op EXCEPT ![p] = o]
      BY <1>9, <2>5 DEF Put, AfterUpdate
    <3>2. "settle" \in Steps
      BY DEF Steps
    <3>3. o \in Ops /\ o.at = "settle" /\ o.task = op[p].task
      BY <2>1, <3>2 DEF Ops
    <3> HIDE DEF o
    <3> QED
      BY <2>1, <2>2, <2>3, <3>1, <3>3, GoesOnIsTyped
  <2> QED
    BY <2>4, <2>5
<1>10. ASSUME NEW p \in Procs, ListHeldDependents(p) PROVE TypeOK'
  <2>1. /\ op \in [Procs -> Ops] /\ op[p] \in Ops /\ status \in [Tasks -> Status]
        /\ op[p].task \in Tasks /\ op[p].at = "settle"
        /\ UNCHANGED <<status, parent, waits, parked, dropped>>
    BY <1>10 DEF ListHeldDependents, TypeOK, Ops
  <2>2. CASE Ends(p)
    BY <2>1, <2>2, EndsIsTyped DEF TypeOK
  <2>3. CASE ~Ends(p)
    <3> DEFINE held == {d \in Tasks : status[d] = "held" /\ op[p].task \in waits[d]}
               o == [op[p] EXCEPT !.at = "next", !.todo = held]
    <3>1. held # {} /\ op' = [op EXCEPT ![p].at = "next", ![p].todo = held]
      BY <1>10, <2>3 DEF ListHeldDependents
    <3>2. held \in SUBSET Tasks /\ "next" \in Steps
      BY DEF Steps
    <3> HIDE DEF held
    <3>3. o \in Ops /\ o.at = "next" /\ o.task = op[p].task /\ o.todo = held
      BY <2>1, <3>2 DEF Ops
    <3>4. op' = [op EXCEPT ![p] = o]
      BY <2>1, <3>1
    <3> HIDE DEF o
    <3> QED
      BY <2>1, <3>1, <3>3, <3>4, GoesOnIsTyped DEF TypeOK
  <2> QED
    BY <2>2, <2>3
<1>11. ASSUME NEW p \in Procs, _settle_one(p) PROVE TypeOK'
  <2>1. PICK d \in op[p].todo : LoopsOn(p, d) \/ Decides(p, d, "blocked") \/ Decides(p, d, "pending")
    BY <1>11 DEF _settle_one
  <2>2. CASE LoopsOn(p, d)
    BY <1>11, <2>2, LoopsOnIsTyped DEF _settle_one, TypeOK
  <2>3. ASSUME NEW to \in {"pending", "blocked"}, Decides(p, d, to) PROVE TypeOK'
    <3>1. to \in Status /\ d \in Tasks /\ "apply" \in Steps
      BY DEF Status, Working, TypeOK, Steps
    <3>2. op[p].at = "next" /\ UNCHANGED <<status, parent, waits, parked, dropped>>
      BY <1>11 DEF _settle_one
    <3>3. /\ \A q \in Procs : q # p => op'[q] = op[q]
          /\ op'[p].at = "apply" /\ op'[p].task = op[p].task /\ op'[p].todo = op[p].todo
          /\ op'[p].cur = d
      BY <2>3 DEF Decides, TypeOK
    <3>4. op \in [Procs -> Ops]
      BY DEF TypeOK, Ops
    <3>5. [op[p] EXCEPT !.at = "apply", !.cur = d, !.from = to] \in Ops
      BY <3>1, <3>4 DEF Ops
    <3>6. op' \in [Procs -> Ops]
      BY <2>3, <3>4, <3>5 DEF Decides
    <3> QED
      BY <3>1, <3>2, <3>3, <3>6 DEF TypeOK, Ops
  <2> QED
    BY <2>1, <2>2, <2>3
<1>12. ASSUME NEW p \in Procs, SettleApplies(p) PROVE TypeOK'
  <2>1. op[p].cur \in op[p].todo /\ LoopsOn(p, op[p].cur)
    BY <1>12 DEF SettleApplies, TypeOK
  <2> QED
    BY <1>12, <2>1, LoopsOnIsTyped DEF SettleApplies, Moves, TypeOK
<1>13. ASSUME NEW p \in Procs, SettleRaises(p) PROVE TypeOK'
  <2>1. op[p].cur \in op[p].todo /\ LoopsOn(p, op[p].cur)
    BY <1>13 DEF SettleRaises, TypeOK
  <2> QED
    BY <1>13, <2>1, LoopsOnIsTyped DEF SettleRaises, TypeOK
<1>14. ASSUME NEW p \in Procs, ProcessDies(p) PROVE TypeOK'
  BY <1>14 DEF ProcessDies, Ends, Idle, TypeOK, Steps, Status
<1> QED
  BY <1>1, <1>2, <1>3, <1>4, <1>5, <1>6, <1>7, <1>8, <1>9, <1>10, <1>11, <1>12, <1>13, <1>14
     DEF Next, HandlerSteps, OperatorActs
-----------------------------------------------------------------------------
(* The handlers.                                                            *)

\* Whose step it is: a process goes on in its handler, or begins one.
LEMMA OwnStep ==
  ASSUME TypeOK, Next, NEW p \in Procs, op'[p] # op[p]
  PROVE  \/ p = "worker" /\ \E t \in Tasks : AgentActs(t) \/ TurnGivenUp(t)
         \/ p = "app" /\ \E t \in Tasks : ResetBlocks(t) \/ cancel_task_as_operator(t)
                                \/ complete_task_as_operator(t) \/ _re_present(t)
         \/ HandlerSteps(p) \/ SettleRaises(p) \/ ProcessDies(p)
<1>1. ASSUME NEW t \in Tasks, create_task(t) \/ hold_task_as_operator(t)
                                \/ release_task_as_operator(t)
      PROVE  FALSE
  BY <1>1 DEF create_task, hold_task_as_operator, release_task_as_operator
<1>2. ASSUME NEW t \in Tasks, AgentActs(t) \/ TurnGivenUp(t) PROVE p = "worker"
  <2>1. PICK at, to : Begins("worker", at, t, to)
    BY <1>2 DEF AgentActs, TurnGivenUp
  <2> QED
    BY <2>1 DEF Begins, TypeOK
<1>3. ASSUME NEW t \in Tasks, ResetBlocks(t) \/ cancel_task_as_operator(t)
                                \/ complete_task_as_operator(t) \/ _re_present(t)
      PROVE  p = "app"
  BY <1>3 DEF ResetBlocks, cancel_task_as_operator, complete_task_as_operator, _re_present,
       Begins, TypeOK
<1>4. ASSUME NEW q \in Procs, HandlerSteps(q) \/ SettleRaises(q) \/ ProcessDies(q) PROVE p = q
  <2> SUFFICES ASSUME p # q PROVE FALSE
    OBVIOUS
  <2>1. CASE ListHeldDependents(q)
    BY <2>1 DEF ListHeldDependents, Ends, TypeOK
  <2>2. CASE _settle_one(q)
    BY <2>2 DEF _settle_one, LoopsOn, Decides, Ends, TypeOK
  <2>3. CASE Put(q)
    BY <2>3 DEF Put, AfterUpdate, Ends, TypeOK
  <2>4. CASE SettleApplies(q) \/ SettleRaises(q)
    BY <2>4 DEF SettleApplies, SettleRaises, LoopsOn, Ends, TypeOK
  <2>5. CASE _drop_unfinished_prerequisites(q) \/ Check(q) \/ update_task(q) \/ ProcessDies(q)
    BY <2>5 DEF _drop_unfinished_prerequisites, Check, update_task, ProcessDies, Ends, TypeOK
  <2> QED
    BY <1>4, <2>1, <2>2, <2>3, <2>4, <2>5 DEF HandlerSteps
<1> QED
  BY <1>1, <1>2, <1>3, <1>4 DEF Next, OperatorActs

\* While another process steps, what a handler relies on stays true.
LEMMA OthersKeepSound ==
  ASSUME Core, Next, NEW p \in Procs, op'[p] = op[p]
  PROVE  HandlerIsSound(p)'
<1> USE DEF Core
<1>1. StatusStep /\ WaitsStep
  BY StatusMoves, WaitsShrink
<1>2. /\ \A t \in Tasks : status[t] \in Terminal => status'[t] = status[t]
      /\ \A t \in Tasks : status[t] # "none" => status'[t] # "none"
      /\ \A t \in Tasks : status[t] # "none" /\ Unfinished(t) = {} => Unfinished(t)' = {}
  BY <1>1, FinishedStaysFinished
<1> SUFFICES ASSUME op[p].at # "idle" PROVE HandlerIsSound(p)'
  BY DEF HandlerIsSound
<1>3. op[p].task \in Tasks /\ status[op[p].task] # "none" /\ op[p].to \notin {"none", "held"}
  BY DEF HandlerIsSound, TypeOK
<1>4. op[p].at = "drop" => p = "app" /\ status'[op[p].task] # "held" /\ op[p].to = "pending"
  BY <1>1, <1>3 DEF HandlerIsSound, StatusStep
<1>5. op[p].at \in {"check", "write", "put"} =>
        op[p].to \in Terminal \cup {"blocked", "stalled"} \/ Unfinished(op[p].task)' = {}
  BY <1>2, <1>3 DEF HandlerIsSound
<1>6. op[p].at \in {"write", "put"} /\ op[p].from = op[p].to /\ op[p].to \in Terminal =>
        status'[op[p].task] = op[p].to
  BY <1>2, <1>3 DEF HandlerIsSound
<1>7. op[p].at \in {"settle", "next", "apply"} =>
        op[p].to \in Terminal /\ status'[op[p].task] = op[p].to
  BY <1>2, <1>3 DEF HandlerIsSound
<1>8. op[p].at \in {"next", "apply"} => \A d \in op[p].todo : status'[d] # "none"
  BY <1>2 DEF HandlerIsSound, TypeOK
<1>9. op[p].at = "apply" =>
        op[p].from = "blocked" \/ (op[p].from = "pending" /\ Unfinished(op[p].cur)' = {})
  BY <1>2 DEF HandlerIsSound, TypeOK
<1> QED
  BY <1>2, <1>3, <1>4, <1>5, <1>6, <1>7, <1>8, <1>9 DEF HandlerIsSound, Unfinished

LEMMA HandlersStaySound ==
  ASSUME NoTaskAssumption, TaskAssumption, Core, Next, NEW p \in Procs
  PROVE  HandlerIsSound(p)'
<1> USE DEF Core
<1>1. StatusStep /\ WaitsStep
  BY StatusMoves, WaitsShrink
<1>2. /\ \A t \in Tasks : status[t] \in Terminal => status'[t] = status[t]
      /\ \A t \in Tasks : status[t] # "none" => status'[t] # "none"
      /\ \A t \in Tasks : status[t] # "none" /\ Unfinished(t) = {} => Unfinished(t)' = {}
  BY <1>1, FinishedStaysFinished
<1>3. CASE op'[p] = op[p]
  BY <1>3, OthersKeepSound
<1>4. ASSUME NEW t \in Tasks, AgentActs(t), p = "worker" PROVE HandlerIsSound(p)'
  <2>1. PICK to \in AgentMoves : Begins("worker", "check", t, to)
    BY <1>4 DEF AgentActs
  <2>2. /\ op'[p].at = "check" /\ op'[p].task = t /\ op'[p].to = to
        /\ to \notin {"none", "held"}
    BY <1>4, <2>1 DEF Begins, Idle, TypeOK, NoTaskAssumption, TaskAssumption
  <2>3. status'[t] # "none" /\ Unfinished(t)' = {}
    BY <1>4, <1>2 DEF AgentActs, Open, is_released
  <2> QED
    BY <2>2, <2>3 DEF HandlerIsSound, Unfinished
<1>5. ASSUME NEW t \in Tasks, NEW to \in Terminal \cup {"blocked", "stalled"}, status[t] # "none",
             Begins(p, "check", t, to)
      PROVE  HandlerIsSound(p)'
  BY <1>5, <1>2 DEF Begins, Idle, TypeOK, HandlerIsSound, Terminal
<1>6. ASSUME NEW t \in Tasks, TurnGivenUp(t), p = "worker" PROVE HandlerIsSound(p)'
  BY <1>6, <1>5 DEF TurnGivenUp, Open
<1>7. ASSUME NEW t \in Tasks, p = "app",
             ResetBlocks(t) \/ cancel_task_as_operator(t) \/ complete_task_as_operator(t)
      PROVE  HandlerIsSound(p)'
  BY <1>7, <1>5 DEF ResetBlocks, cancel_task_as_operator, complete_task_as_operator, Open, Terminal
<1>8. ASSUME NEW t \in Tasks, p = "app", _re_present(t) PROVE HandlerIsSound(p)'
  BY <1>8 DEF _re_present, Begins, Idle, TypeOK, HandlerIsSound, Working
<1>9. CASE _drop_unfinished_prerequisites(p)
  <2>1. /\ op'[p].at = "check" /\ op'[p].task = op[p].task /\ op'[p].to = op[p].to
        /\ op[p].task \in Tasks
    BY <1>9 DEF _drop_unfinished_prerequisites, TypeOK
  <2>2. Unfinished(op[p].task)' = {}
    BY <1>9, <2>1 DEF _drop_unfinished_prerequisites, TypeOK, Unfinished
  <2> QED
    BY <1>9, <1>2, <2>1, <2>2 DEF HandlerIsSound, _drop_unfinished_prerequisites, Unfinished
<1>10. CASE Check(p)
  BY <1>10 DEF Check, Ends, Idle, TypeOK, HandlerIsSound, Unfinished
<1>11. CASE update_task(p)
  BY <1>11, SMTT(30) DEF update_task, Ends, Idle, TypeOK, HandlerIsSound, Unfinished
<1>12. CASE Put(p)
  BY <1>12, <1>2 DEF Put, Moves, AfterUpdate, Ends, Idle, TypeOK, HandlerIsSound
<1>13. CASE ListHeldDependents(p)
  BY <1>13 DEF ListHeldDependents, Ends, Idle, TypeOK, HandlerIsSound
<1>14. ASSUME NEW d \in op[p].todo, LoopsOn(p, d), op[p].at \in {"next", "apply"}
       PROVE  HandlerIsSound(p)'
  BY <1>14, <1>2 DEF LoopsOn, Ends, Idle, TypeOK, HandlerIsSound
<1>15. CASE _settle_one(p)
  <2>1. PICK d \in op[p].todo :
          \/ LoopsOn(p, d)
          \/ Decides(p, d, "blocked")
          \/ Decides(p, d, "pending") /\ Unfinished(d) = {}
    BY <1>15 DEF _settle_one
  <2>2. CASE LoopsOn(p, d)
    BY <1>14, <1>15, <2>2 DEF _settle_one
  <2>3. ASSUME NEW to \in {"pending", "blocked"}, Decides(p, d, to),
               to = "pending" => Unfinished(d) = {}
        PROVE  HandlerIsSound(p)'
    <3>1. /\ op'[p].at = "apply" /\ op'[p].task = op[p].task /\ op'[p].to = op[p].to
          /\ op'[p].from = to /\ op'[p].cur = d /\ op'[p].todo = op[p].todo
      BY <2>3 DEF Decides, TypeOK
    <3>2. op[p].at = "next" /\ d \in Tasks /\ status[d] # "none"
      BY <1>15 DEF _settle_one, TypeOK, HandlerIsSound
    <3>3. to = "pending" => Unfinished(d)' = {}
      BY <1>2, <2>3, <3>2
    <3>4. UNCHANGED status
      BY <1>15 DEF _settle_one
    <3> QED
      BY <3>1, <3>2, <3>3, <3>4 DEF HandlerIsSound, Unfinished
  <2> QED
    BY <2>1, <2>2, <2>3
<1>16. CASE SettleApplies(p) \/ SettleRaises(p)
  BY <1>14, <1>16 DEF SettleApplies, SettleRaises, TypeOK
<1>17. CASE ProcessDies(p)
  BY <1>17 DEF ProcessDies, Ends, Idle, TypeOK, HandlerIsSound
<1> QED
  BY <1>3, <1>4, <1>6, <1>7, <1>8, <1>9, <1>10, <1>11, <1>12, <1>13, <1>15, <1>16, <1>17, OwnStep
     DEF HandlerSteps
-----------------------------------------------------------------------------
(* update_task.                                                             *)

\* Nothing that may come in between its read and its UPDATE forbids the move.
LEMMA PutStaysAllowed ==
  ASSUME Steady, Core, Next, NEW p \in Procs, op[p].at = "put", op'[p] = op[p]
  PROVE  is_allowed(status'[op[p].task], op[p].to)
<1> USE DEF Core
<1>1. /\ op[p].task \in Tasks /\ is_allowed(status[op[p].task], op[p].to)
      /\ status[op[p].task] # "none" /\ op[p].to # "held"
  BY DEF TypeOK, HandlerIsSound, PutIsAllowed
<1>2. CASE UNCHANGED status
  BY <1>1, <1>2
<1>3. ASSUME NEW t \in Tasks, create_task(t) PROVE status'[op[p].task] = status[op[p].task]
  BY <1>1, <1>3 DEF create_task, TypeOK
<1>4. ASSUME NEW t \in Tasks, hold_task_as_operator(t)
      PROVE  status'[op[p].task] = status[op[p].task]
  BY <1>1, <1>4 DEF hold_task_as_operator, Undisturbed, Steady, TypeOK
<1>5. ASSUME NEW t \in Tasks, release_task_as_operator(t)
      PROVE  \/ status'[op[p].task] = status[op[p].task]
             \/ status[op[p].task] = "held" /\ status'[op[p].task] = "pending"
  BY <1>1, <1>5 DEF release_task_as_operator, Moves, TypeOK
<1>6. ASSUME NEW q \in Procs, Put(q) PROVE status'[op[p].task] = status[op[p].task]
  <2>1. q # p
    BY <1>6 DEF Put, AfterUpdate, Ends, Idle, TypeOK
  <2>2. op[q].task # op[p].task
    BY <1>6, <2>1 DEF Put, PutIsAlone, Procs
  <2> QED
    BY <1>1, <1>6, <2>2 DEF Put, Moves, TypeOK
<1>7. ASSUME NEW q \in Procs, SettleApplies(q)
      PROVE  \/ status'[op[p].task] = status[op[p].task]
             \/ /\ status[op[p].task] = "held"
                /\ status'[op[p].task] \in {"pending", "blocked"}
  BY <1>1, <1>7 DEF SettleApplies, Moves, HandlerIsSound, TypeOK
<1>8. \/ status'[op[p].task] = status[op[p].task]
      \/ status[op[p].task] = "held" /\ status'[op[p].task] \in {"pending", "blocked"}
  BY <1>2, <1>3, <1>4, <1>5, <1>6, <1>7
     DEF Next, HandlerSteps, OperatorActs, AgentActs, TurnGivenUp, ResetBlocks,
         cancel_task_as_operator, complete_task_as_operator, _re_present,
         _drop_unfinished_prerequisites, Check, update_task, ListHeldDependents, _settle_one,
         SettleRaises, ProcessDies
<1> QED
  BY <1>1, <1>8, HeldMovesStayAllowed

\* Only update_task brings a handler to its UPDATE.
LEMMA ComesToPut ==
  ASSUME Core, Next, NEW p \in Procs, op'[p].at = "put", op'[p] # op[p]
  PROVE  update_task(p)
<1> USE DEF Core
<1>1. ASSUME NEW t \in Tasks, NEW q \in Procs, NEW to, NEW at \in {"check", "drop"},
             Begins(q, at, t, to)
      PROVE  FALSE
  BY <1>1 DEF Begins, Idle, TypeOK
<1>2. CASE _settle_one(p) \/ SettleApplies(p) \/ SettleRaises(p)
  <2>1. ASSUME NEW d, LoopsOn(p, d) PROVE FALSE
    BY <2>1 DEF LoopsOn, Ends, Idle, TypeOK
  <2>2. ASSUME NEW d, NEW to, Decides(p, d, to) PROVE FALSE
    BY <2>2 DEF Decides, TypeOK
  <2> QED
    BY <1>2, <2>1, <2>2 DEF _settle_one, SettleApplies, SettleRaises
<1>3. CASE _drop_unfinished_prerequisites(p) \/ Check(p) \/ Put(p) \/ ListHeldDependents(p)
             \/ ProcessDies(p)
  BY <1>3 DEF _drop_unfinished_prerequisites, Check, Put, AfterUpdate, ListHeldDependents,
       ProcessDies, Ends, Idle, TypeOK
<1>4. \A t \in Tasks : ~AgentActs(t) /\ ~TurnGivenUp(t) /\ ~ResetBlocks(t) /\ ~_re_present(t)
        /\ ~cancel_task_as_operator(t) /\ ~complete_task_as_operator(t)
  BY <1>1 DEF AgentActs, TurnGivenUp, ResetBlocks, cancel_task_as_operator,
       complete_task_as_operator, _re_present, Procs
<1> QED
  BY <1>2, <1>3, <1>4, OwnStep DEF HandlerSteps

LEMMA PutsStayAllowed == ASSUME Steady, Core, Next PROVE PutIsAllowed'
<1> SUFFICES ASSUME NEW p \in Procs, op'[p].at = "put"
             PROVE  is_allowed(status'[op'[p].task], op'[p].to)
  BY DEF PutIsAllowed, is_allowed, OnMap
<1>1. CASE op'[p] = op[p]
  BY <1>1, PutStaysAllowed
<1>2. CASE op'[p] # op[p]
  <2>1. update_task(p) /\ p \in Procs
    BY <1>2, ComesToPut
  <2>2. op'[p].task = op[p].task /\ op'[p].to = op[p].to /\ UNCHANGED status
        /\ is_allowed(status[op[p].task], op[p].to)
    BY <2>1 DEF update_task, Ends, Idle, Core, TypeOK
  <2> QED
    BY <2>2
<1> QED
  BY <1>1, <1>2

LEMMA PutsStayAlone == ASSUME Steady, Core, Next PROVE PutIsAlone'
<1> SUFFICES ASSUME op'["app"].at = "put", op'["worker"].at = "put"
             PROVE  op'["app"].task # op'["worker"].task
  BY DEF PutIsAlone
<1>1. ASSUME NEW p \in Procs, NEW q \in Procs, p # q, op'[p] # op[p], op'[p].at = "put",
             op'[q].at = "put"
      PROVE  op'[p].task # op'[q].task
  <2>1. update_task(p)
    BY <1>1, ComesToPut
  <2>2. op'[q] = op[q] /\ op'[p].task = op[p].task
    BY <1>1, <2>1 DEF update_task, Ends, Idle, Core, TypeOK
  <2> QED
    BY <1>1, <2>1, <2>2 DEF update_task, Undisturbed, Steady
<1>2. CASE op'["app"] = op["app"] /\ op'["worker"] = op["worker"]
  BY <1>2 DEF Core, PutIsAlone
<1> QED
  BY <1>1, <1>2 DEF Procs
-----------------------------------------------------------------------------
(* Nothing released waits.                                                  *)

LEMMA ReleasedStaysReady == ASSUME Core, Next PROVE NothingReleasedWaits'
<1> USE DEF Core
<1>1. StatusStep /\ WaitsStep
  BY StatusMoves, WaitsShrink
<1>2. \A t \in Tasks : status[t] # "none" /\ Unfinished(t) = {} => Unfinished(t)' = {}
  BY <1>1, FinishedStaysFinished
<1> SUFFICES ASSUME NEW t \in Tasks, Open(t)', Unfinished(t)' # {}
             PROVE  status'[t] \in {"held", "blocked", "stalled"}
  BY DEF NothingReleasedWaits
<1>3. CASE status'[t] = status[t]
  BY <1>2, <1>3 DEF NothingReleasedWaits, Open
<1>4. ASSUME NEW u \in Tasks, create_task(u), t = u PROVE status'[t] = "held"
  <2>1. status'[t] = IF \A q \in waits'[t] : status[q] = "complete" THEN "pending" ELSE "held"
    BY <1>4 DEF create_task, TypeOK
  <2>2. \A q \in waits'[t] : status[q] = "complete" => status'[q] = "complete"
    BY <1>4 DEF create_task, TypeOK
  <2> QED
    BY <2>1, <2>2 DEF Unfinished
<1>5. ASSUME NEW p \in Procs, Put(p), t = op[p].task
      PROVE  status'[t] \in {"held", "blocked", "stalled"}
  <2>1. status'[t] = op[p].to
    BY <1>5 DEF Put, Moves, TypeOK
  <2>2. op[p].to \in Terminal \cup {"blocked", "stalled"} \/ Unfinished(t)' = {}
    BY <1>2, <1>5 DEF Put, HandlerIsSound
  <2> QED
    BY <2>1, <2>2 DEF Open
<1>6. ASSUME NEW p \in Procs, SettleApplies(p), t = op[p].cur
      PROVE  status'[t] \in {"held", "blocked", "stalled"} \/ status'[t] = status[t]
  <2>1. status[t] # "none" /\ (op[p].from = "blocked" \/ Unfinished(t)' = {})
    BY <1>2, <1>6 DEF SettleApplies, HandlerIsSound, TypeOK
  <2> QED
    BY <1>6, <2>1 DEF SettleApplies, Moves, TypeOK
<1>7. ASSUME NEW u \in Tasks, hold_task_as_operator(u), t = u PROVE status'[t] = "held"
  BY <1>7 DEF hold_task_as_operator, TypeOK
<1>8. ASSUME NEW u \in Tasks, release_task_as_operator(u), t = u PROVE FALSE
  BY <1>8 DEF release_task_as_operator, Moves, Unfinished, TypeOK
<1>9. ASSUME NEW u \in Tasks, t # u,
             create_task(u) \/ hold_task_as_operator(u) \/ release_task_as_operator(u)
      PROVE  status'[t] = status[t]
  BY <1>9 DEF create_task, hold_task_as_operator, release_task_as_operator, Moves, TypeOK
<1>10. ASSUME NEW p \in Procs,
              (Put(p) /\ t # op[p].task) \/ (SettleApplies(p) /\ t # op[p].cur)
       PROVE  status'[t] = status[t]
  BY <1>10 DEF Put, SettleApplies, Moves, TypeOK
<1> QED
  BY <1>3, <1>4, <1>5, <1>6, <1>7, <1>8, <1>9, <1>10
     DEF Next, HandlerSteps, OperatorActs, AgentActs, TurnGivenUp, ResetBlocks,
         cancel_task_as_operator, complete_task_as_operator, _re_present,
         _drop_unfinished_prerequisites, Check, update_task, ListHeldDependents, _settle_one,
         SettleRaises, ProcessDies
-----------------------------------------------------------------------------
(* No dependent is forgotten.                                               *)

\* A held task that stays held keeps its edges, its parent and what excuses it.
LEMMA HeldKeepsEdges ==
  ASSUME Core, Next, NEW d \in Tasks, status[d] = "held", status'[d] = "held"
  PROVE  waits'[d] = waits[d] /\ parent'[d] = parent[d]
<1> USE DEF Core
<1>1. ASSUME NEW t \in Tasks, create_task(t) PROVE waits'[d] = waits[d] /\ parent'[d] = parent[d]
  BY <1>1 DEF create_task, TypeOK
<1>2. ASSUME NEW t \in Tasks, release_task_as_operator(t)
      PROVE  waits'[d] = waits[d] /\ parent'[d] = parent[d]
  BY <1>2 DEF release_task_as_operator, Moves, TypeOK
<1>3. ASSUME NEW p \in Procs, _drop_unfinished_prerequisites(p)
      PROVE  waits'[d] = waits[d] /\ parent'[d] = parent[d]
  BY <1>3 DEF _drop_unfinished_prerequisites, HandlerIsSound, TypeOK
<1> QED
  BY <1>1, <1>2, <1>3
     DEF Next, HandlerSteps, OperatorActs, AgentActs, TurnGivenUp, ResetBlocks,
         cancel_task_as_operator, complete_task_as_operator, _re_present, hold_task_as_operator,
         Put, SettleApplies, Check, update_task, ListHeldDependents, _settle_one,
         SettleRaises, ProcessDies

LEMMA ExcuseStays ==
  ASSUME Core, Next, NEW d \in Tasks, status[d] = "held", status'[d] = "held", Excused(d)
  PROVE  Excused(d)'
<1> USE DEF Core
<1>1. \A t \in Tasks : status[t] \in Terminal => status'[t] = status[t]
  BY StatusMoves, WaitsShrink, FinishedStaysFinished
<1>2. CASE ParentClosed(d)
  BY <1>1, <1>2, HeldKeepsEdges DEF ParentClosed, Excused, TypeOK
<1>3. CASE d \in parked \cup dropped
  <2>1. ASSUME NEW t \in Tasks, NEW to, Moves(t, to) PROVE d \in parked' \cup dropped'
    BY <1>3, <2>1 DEF Moves, TypeOK
  <2>2. ASSUME NEW t \in Tasks, create_task(t) \/ hold_task_as_operator(t)
        PROVE  d \in parked' \cup dropped'
    BY <1>3, <2>2 DEF create_task, hold_task_as_operator
  <2>3. ASSUME NEW p \in Procs, Put(p) \/ SettleApplies(p) PROVE d \in parked' \cup dropped'
    <3>1. CASE Put(p)
      BY <2>1, <3>1 DEF Put, HandlerIsSound, TypeOK
    <3>2. CASE SettleApplies(p)
      BY <1>3, <2>1, <3>2 DEF SettleApplies, TypeOK
    <3> QED
      BY <2>3, <3>1, <3>2
  <2>4. ASSUME NEW t \in Tasks, release_task_as_operator(t) PROVE d \in parked' \cup dropped'
    BY <2>1, <2>4 DEF release_task_as_operator
  <2>5. d \in parked' \cup dropped'
    BY <1>3, <2>2, <2>3, <2>4
       DEF Next, HandlerSteps, OperatorActs, AgentActs, TurnGivenUp, ResetBlocks,
           cancel_task_as_operator, complete_task_as_operator, _re_present,
           _drop_unfinished_prerequisites, Check, update_task, ListHeldDependents, _settle_one,
           SettleRaises, ProcessDies
  <2> QED
    BY <2>5 DEF Excused
<1> QED
  BY <1>2, <1>3 DEF Excused

\* The handler that has a held task to settle keeps it, until it moves or is
\* excused: one that closed a prerequisite dead, or completed the last one.
LEMMA SettlingStays ==
  ASSUME NoTaskAssumption, TaskAssumption, Core, Next, NEW d \in Tasks, status[d] = "held", status'[d] = "held",
         NEW p \in Procs, Settling(p, d), op[p].to \in Dead \/ Unfinished(d) = {}
  PROVE  Excused(d)' \/ (Settling(p, d)' /\ op'[p].to = op[p].to)
<1> USE DEF Core
<1>1. waits'[d] = waits[d]
  BY HeldKeepsEdges
<1>2. CASE op'[p] = op[p]
  BY <1>1, <1>2 DEF Settling
<1>3. CASE ListHeldDependents(p)
  <2>1. op[p].task \in waits[d]
    BY <1>3 DEF ListHeldDependents, Settling
  <2>2. /\ op'[p].at = "next" /\ op'[p].to = op[p].to
        /\ op'[p].todo = {e \in Tasks : status[e] = "held" /\ op[p].task \in waits[e]}
    BY <1>3, <2>1 DEF ListHeldDependents, TypeOK
  <2> QED
    BY <2>1, <2>2 DEF Settling
<1>4. ASSUME NEW e, LoopsOn(p, e), e # d, op[p].at \in {"next", "apply"}
      PROVE  Settling(p, d)' /\ op'[p].to = op[p].to
  BY <1>4 DEF LoopsOn, Settling, TypeOK
<1>5. CASE _settle_one(p)
  <2>1. op[p].at = "next"
    BY <1>5 DEF _settle_one
  <2>2. PICK e \in op[p].todo :
          \/ LoopsOn(p, e)
               /\ (ParentClosed(e) \/ (op[p].to = "complete" /\ Unfinished(e) # {}))
          \/ Decides(p, e, "blocked") \/ Decides(p, e, "pending")
    BY <1>5 DEF _settle_one
  <2>3. CASE Decides(p, e, "blocked") \/ Decides(p, e, "pending")
    <3>1. ASSUME NEW to, Decides(p, e, to)
          PROVE  op'[p].at = "apply" /\ op'[p].todo = op[p].todo /\ op'[p].to = op[p].to
      BY <3>1 DEF Decides, TypeOK
    <3> QED
      BY <2>1, <2>3, <3>1 DEF Settling
  <2>4. CASE LoopsOn(p, e) /\ e # d
    BY <1>4, <2>1, <2>4
  <2>5. CASE LoopsOn(p, e) /\ e = d /\ ParentClosed(d)
    BY <2>5, ExcuseStays DEF Excused
  <2>6. CASE e = d /\ op[p].to = "complete" /\ Unfinished(e) # {}
    BY <2>6 DEF Dead
  <2> QED
    BY <2>2, <2>3, <2>4, <2>5, <2>6
<1>6. CASE SettleApplies(p)
  <2>1. op[p].cur # d
    BY <1>6 DEF SettleApplies, Moves, HandlerIsSound, TypeOK
  <2> QED
    BY <1>4, <1>6, <2>1 DEF SettleApplies
<1>7. CASE SettleRaises(p)
  <2>1. CASE op[p].cur = d
    BY <1>7, <2>1 DEF SettleRaises, Excused
  <2>2. CASE op[p].cur # d
    BY <1>4, <1>7, <2>2 DEF SettleRaises
  <2> QED
    BY <2>1, <2>2
<1>8. CASE ProcessDies(p)
  BY <1>8 DEF ProcessDies, Excused
<1>9. op[p].at \notin {"idle", "drop", "check", "write", "put"}
  BY DEF Settling
<1>10. \A t \in Tasks : /\ p = "worker" => ~AgentActs(t) /\ ~TurnGivenUp(t)
                        /\ p = "app" => /\ ~ResetBlocks(t) /\ ~cancel_task_as_operator(t)
                                       /\ ~complete_task_as_operator(t) /\ ~_re_present(t)
  BY <1>9 DEF AgentActs, TurnGivenUp, ResetBlocks, cancel_task_as_operator,
       complete_task_as_operator, _re_present
<1>11. ~_drop_unfinished_prerequisites(p) /\ ~Check(p) /\ ~update_task(p) /\ ~Put(p)
  BY <1>9 DEF _drop_unfinished_prerequisites, Check, update_task, Put
<1> QED
  BY <1>2, <1>3, <1>5, <1>6, <1>7, <1>8, <1>10, <1>11, OwnStep DEF HandlerSteps

\* A task closes by an UPDATE, and its handler goes on to settle.
LEMMA ClosingSettles ==
  ASSUME Core, Next, NEW q \in Tasks, status'[q] \in Terminal, status'[q] # status[q]
  PROVE  \E p \in Procs : op'[p].at = "settle" /\ op'[p].task = q /\ op'[p].to = status'[q]
<1> USE DEF Core
<1>1. ASSUME NEW p \in Procs, Put(p)
      PROVE  \E r \in Procs : op'[r].at = "settle" /\ op'[r].task = q /\ op'[r].to = status'[q]
  <2>1. op[p].task = q /\ op[p].to = status'[q]
    BY <1>1 DEF Put, Moves, TypeOK
  <2>2. op[p].from # op[p].to
    BY <1>1, <2>1 DEF Put, HandlerIsSound
  <2> QED
    BY <1>1, <2>1, <2>2 DEF Put, AfterUpdate, TypeOK
<1>2. ASSUME NEW t \in Tasks,
             create_task(t) \/ hold_task_as_operator(t) \/ release_task_as_operator(t)
      PROVE  FALSE
  BY <1>2 DEF create_task, hold_task_as_operator, release_task_as_operator, Moves, TypeOK, Terminal
<1>3. ASSUME NEW p \in Procs, SettleApplies(p) PROVE FALSE
  BY <1>3 DEF SettleApplies, Moves, HandlerIsSound, TypeOK, Terminal
<1> QED
  BY <1>1, <1>2, <1>3
     DEF Next, HandlerSteps, OperatorActs, AgentActs, TurnGivenUp, ResetBlocks,
         cancel_task_as_operator, complete_task_as_operator, _re_present,
         _drop_unfinished_prerequisites, Check, update_task, ListHeldDependents, _settle_one,
         SettleRaises, ProcessDies

\* A new task is not held for nothing, and not created with a dead prerequisite.
LEMMA CreatedHasWork ==
  ASSUME Core, Next, NEW d \in Tasks, status[d] = "none", status'[d] = "held"
  PROVE  Unfinished(d)' # {} /\ \A q \in waits'[d] : status'[q] \notin Dead
<1> USE DEF Core
<1>1. ASSUME NEW t \in Tasks, create_task(t)
      PROVE  Unfinished(d)' # {} /\ \A q \in waits'[d] : status'[q] \notin Dead
  <2>1. t = d
    BY <1>1 DEF create_task, TypeOK
  <2>2. /\ \A q \in waits'[d] : status[q] \notin Dead /\ q \in Tasks
        /\ \E q \in waits'[d] : status[q] # "complete"
        /\ \A q \in Tasks : q # d => status'[q] = status[q]
    <3>1. PICK after \in SUBSET MayWaitOn[t] :
            /\ \A q \in after : status[q] \notin Dead \cup {"none"}
            /\ waits' = [waits EXCEPT ![t] = after]
            /\ status' = [status EXCEPT ![t] =
                            IF \A q \in after : status[q] = "complete" THEN "pending" ELSE "held"]
      BY <1>1 DEF create_task
    <3>2. waits'[d] = after /\ after \subseteq Tasks
      BY <2>1, <3>1, NoTaskAssumption, TaskAssumption DEF TypeOK, NoTaskAssumption, TaskAssumption
    <3>3. \E q \in after : status[q] # "complete"
      BY <2>1, <3>1 DEF TypeOK
    <3> QED
      BY <2>1, <3>1, <3>2, <3>3 DEF TypeOK
  <2> QED
    BY <2>2 DEF Unfinished, Dead, Terminal
<1>2. ASSUME NEW p \in Procs, Put(p) PROVE FALSE
  BY <1>2 DEF Put, Moves, HandlerIsSound, TypeOK
<1>3. ASSUME NEW p \in Procs, SettleApplies(p) PROVE FALSE
  BY <1>3 DEF SettleApplies, Moves, HandlerIsSound, TypeOK
<1>4. ASSUME NEW t \in Tasks, hold_task_as_operator(t) \/ release_task_as_operator(t) PROVE FALSE
  BY <1>4 DEF hold_task_as_operator, release_task_as_operator, Moves, TypeOK
<1> QED
  BY <1>1, <1>2, <1>3, <1>4
     DEF Next, HandlerSteps, OperatorActs, AgentActs, TurnGivenUp, ResetBlocks,
         cancel_task_as_operator, complete_task_as_operator, _re_present,
         _drop_unfinished_prerequisites, Check, update_task, ListHeldDependents, _settle_one,
         SettleRaises, ProcessDies

LEMMA DeadStaysSettled ==
  ASSUME NoTaskAssumption, TaskAssumption, Core, DeadIsSettled, Next PROVE DeadIsSettled'
<1> USE DEF Core
<1> SUFFICES ASSUME NEW d \in Tasks, status'[d] = "held",
                    NEW q \in waits'[d], status'[q] \in Dead
             PROVE  Excused(d)' \/ \E p \in Procs : Settling(p, d)' /\ op'[p].to \in Dead
  BY DEF DeadIsSettled
<1>1. CASE status[d] # "held"
  BY <1>1, StatusMoves, CreatedHasWork DEF StatusStep, Excused
<1>2. CASE status[d] = "held"
  <2>1. q \in Tasks /\ q \in waits[d]
    BY <1>2, HeldKeepsEdges DEF TypeOK
  <2>2. CASE status[q] \in Dead
    <3>1. CASE Excused(d)
      BY <1>2, <3>1, ExcuseStays
    <3>2. ASSUME NEW p \in Procs, Settling(p, d), op[p].to \in Dead
          PROVE  Excused(d)' \/ (Settling(p, d)' /\ op'[p].to \in Dead)
      BY <1>2, <3>2, SettlingStays
    <3> QED
      BY <1>2, <2>1, <2>2, <3>1, <3>2 DEF DeadIsSettled
  <2>3. CASE status[q] \notin Dead
    <3>1. PICK p \in Procs : op'[p].at = "settle" /\ op'[p].task = q /\ op'[p].to = status'[q]
      BY <2>1, <2>3, ClosingSettles DEF Dead
    <3> QED
      BY <3>1 DEF Settling
  <2> QED
    BY <2>2, <2>3
<1> QED
  BY <1>1, <1>2

LEMMA CompleteStaysSettled ==
  ASSUME NoTaskAssumption, TaskAssumption, Core, CompleteIsSettled, Next PROVE CompleteIsSettled'
<1> USE DEF Core
<1> SUFFICES ASSUME NEW d \in Tasks, status'[d] = "held", waits'[d] # {}, Unfinished(d)' = {}
             PROVE  Excused(d)' \/ \E p \in Procs : Settling(p, d)' /\ op'[p].to = "complete"
  BY DEF CompleteIsSettled
<1>1. CASE status[d] # "held"
  BY <1>1, StatusMoves, CreatedHasWork DEF StatusStep, Excused
<1>2. CASE status[d] = "held"
  <2>1. waits'[d] = waits[d] /\ waits[d] \subseteq Tasks
    BY <1>2, HeldKeepsEdges DEF TypeOK
  <2>2. CASE Unfinished(d) = {}
    <3>1. CASE Excused(d)
      BY <1>2, <3>1, ExcuseStays
    <3>2. ASSUME NEW p \in Procs, Settling(p, d), op[p].to = "complete"
          PROVE  Excused(d)' \/ (Settling(p, d)' /\ op'[p].to = "complete")
      BY <1>2, <2>2, <3>2, SettlingStays
    <3> QED
      BY <1>2, <2>1, <2>2, <3>1, <3>2 DEF CompleteIsSettled
  <2>3. CASE Unfinished(d) # {}
    <3>1. PICK q \in waits[d] : status[q] # "complete" /\ status'[q] = "complete"
      BY <2>1, <2>3 DEF Unfinished
    <3>2. PICK p \in Procs : op'[p].at = "settle" /\ op'[p].task = q /\ op'[p].to = status'[q]
      BY <2>1, <3>1, ClosingSettles DEF Terminal
    <3> QED
      BY <2>1, <3>1, <3>2 DEF Settling
  <2> QED
    BY <2>2, <2>3
<1> QED
  BY <1>1, <1>2
-----------------------------------------------------------------------------
(* The theorems.                                                            *)

LEMMA Initially == ASSUME NoTaskAssumption, TaskAssumption, Init PROVE IInv
<1>1. TypeOK
  BY InitTypes
<1> QED
  BY <1>1 DEF Init, Idle, Procs, IInv, Core, PutIsAllowed, PutIsAlone, NothingReleasedWaits, Open,
       HandlerIsSound, DeadIsSettled, CompleteIsSettled

LEMMA Inductive == ASSUME NoTaskAssumption, TaskAssumption, Steady, IInv, [Next]_vars PROVE IInv'
<1>1. CASE Next
  BY <1>1, TypesAreKept, PutsStayAllowed, PutsStayAlone, ReleasedStaysReady, HandlersStaySound,
     DeadStaysSettled, CompleteStaysSettled DEF IInv, Core
<1>2. CASE UNCHANGED vars
  BY <1>2 DEF vars, IInv, Core, TypeOK, PutIsAllowed, PutIsAlone, NothingReleasedWaits, Open,
       Unfinished, HandlerIsSound, DeadIsSettled, CompleteIsSettled, Excused, ParentClosed,
       Settling, is_allowed, OnMap
<1> QED
  BY <1>1, <1>2

\* The invariant above, from every initial state on.
THEOREM Invariance == ASSUME Steady PROVE Spec => []IInv
<1>1. Init => IInv
  BY Initially, NoTaskAssumption, TaskAssumption
<1>2. IInv /\ [Next]_vars => IInv'
  BY Inductive, NoTaskAssumption, TaskAssumption
<1> QED
  BY <1>1, <1>2, PTL DEF Spec

\* A handler is always somewhere in its code, with a task of the board, and in
\* the loop of settle_dependents there is a dependent left.
\* This holds whatever updates are lost.
THEOREM TypeInvariant == Spec => []TypeOK
<1>1. Init => TypeOK
  BY InitTypes, NoTaskAssumption, TaskAssumption
<1>2. TypeOK /\ [Next]_vars => TypeOK'
  <2>1. CASE Next
    BY <2>1, TypesAreKept, NoTaskAssumption, TaskAssumption
  <2>2. CASE UNCHANGED vars
    BY <2>2 DEF vars, TypeOK
  <2> QED
    BY <2>1, <2>2
<1> QED
  BY <1>1, <1>2, PTL DEF Spec

\* However the app and the worker interleave, a task that waits on something
\* unfinished is in no status its assignee works in.
THEOREM ReleasedNeverWaits == ASSUME Steady PROVE Spec => []NothingReleasedWaits
<1>1. IInv => NothingReleasedWaits
  BY DEF IInv, Core
<1> QED
  BY <1>1, Invariance, PTL

\* Every held task whose last prerequisite completed, or one of whose
\* prerequisites closed dead, still has a handler that will settle it.
THEOREM NoDependentForgotten == ASSUME Steady PROVE Spec => []NoForgottenDependent
<1>1. IInv => NoForgottenDependent
  BY DEF IInv, DeadIsSettled, CompleteIsSettled, NoForgottenDependent, Ready
<1> QED
  BY <1>1, Invariance, PTL

\* No handler moves a task off the allow-map, even one whose check is stale.
THEOREM StatusesMoveOnTheMap == ASSUME Steady PROVE Spec => MovesOnTheMap
<1>1. IInv /\ [Next]_vars =>
        [\A t \in Tasks : status[t] # "none" => is_allowed(status[t], status'[t])]_vars
  <2>1. ASSUME IInv, Next, NEW t \in Tasks, status[t] # "none"
        PROVE  is_allowed(status[t], status'[t])
    BY <2>1, StatusMoves DEF IInv, StatusStep, is_allowed
  <2> QED
    BY <2>1
<1> QED
  BY <1>1, Invariance, PTL DEF Spec, MovesOnTheMap

\* Where updates may be lost (LostUpdates), a move off the map was still allowed
\* from the status that transition_task had read, and that status has changed
\* since: no handler asks for such a move of its own accord.
ReadsAreAllowed ==
  \A p \in Procs :
    /\ op[p].at \in {"write", "put"} => is_allowed(op[p].from, op[p].to)
    /\ op[p].at = "apply" => op[p].from \in {"pending", "blocked"}
OffTheMapIfStale ==
  [][\A t \in Tasks : status[t] # "none" =>
       \/ is_allowed(status[t], status'[t])
       \/ \E p \in Procs :
            /\ op[p].at = "put" /\ op[p].task = t /\ op[p].from # status[t]
            /\ status'[t] = op[p].to /\ is_allowed(op[p].from, op[p].to)]_vars

LEMMA ReadsStayAllowed == ASSUME TypeOK, ReadsAreAllowed, Next PROVE ReadsAreAllowed'
<1> SUFFICES ASSUME NEW p \in Procs
             PROVE  /\ op'[p].at \in {"write", "put"} => is_allowed(op'[p].from, op'[p].to)
                    /\ op'[p].at = "apply" => op'[p].from \in {"pending", "blocked"}
  BY DEF ReadsAreAllowed, is_allowed, OnMap
<1>1. CASE op'[p] = op[p]
  BY <1>1 DEF ReadsAreAllowed
<1>2. CASE op'[p] # op[p]
  <2>1. ASSUME NEW t \in Tasks, NEW to, NEW at \in {"drop", "check"}, NEW q \in Procs,
               Begins(q, at, t, to)
        PROVE  op'[q].at = at
    BY <2>1 DEF Begins, Idle, TypeOK
  <2>2. ASSUME NEW q \in Procs, Ends(q) PROVE op'[q].at = "idle"
    BY <2>2 DEF Ends, Idle, TypeOK
  <2>3. CASE p = "worker" /\ \E t \in Tasks : AgentActs(t) \/ TurnGivenUp(t)
    <3>1. op'[p].at = "check"
      BY <2>1, <2>3 DEF AgentActs, TurnGivenUp
    <3> QED
      BY <3>1
  <2>4. CASE p = "app" /\ \E t \in Tasks : ResetBlocks(t) \/ cancel_task_as_operator(t)
                                      \/ complete_task_as_operator(t) \/ _re_present(t)
    <3>1. op'[p].at \in {"check", "drop"}
      BY <2>1, <2>4 DEF ResetBlocks, cancel_task_as_operator, complete_task_as_operator, _re_present
    <3> QED
      BY <3>1
  <2>5. CASE Check(p)
    BY <2>2, <2>5 DEF Check, TypeOK
  <2>6. CASE update_task(p)
    BY <2>2, <2>6 DEF update_task, TypeOK, ReadsAreAllowed
  <2>7. CASE _drop_unfinished_prerequisites(p) \/ Put(p) \/ ListHeldDependents(p) \/ ProcessDies(p)
    <3>1. op'[p].at \in {"check", "settle", "next", "idle"}
      BY <2>2, <2>7 DEF _drop_unfinished_prerequisites, Put, AfterUpdate, ListHeldDependents,
         ProcessDies, TypeOK
    <3> QED
      BY <3>1
  <2>8. ASSUME NEW d, LoopsOn(p, d) PROVE op'[p].at \in {"idle", "next"}
    BY <2>2, <2>8 DEF LoopsOn, TypeOK
  <2>9. CASE SettleApplies(p) \/ SettleRaises(p)
    BY <2>8, <2>9 DEF SettleApplies, SettleRaises
  <2>10. CASE _settle_one(p)
    <3>1. PICK d \in op[p].todo :
            LoopsOn(p, d) \/ Decides(p, d, "blocked") \/ Decides(p, d, "pending")
      BY <2>10 DEF _settle_one
    <3>2. ASSUME NEW to, Decides(p, d, to) PROVE op'[p].at = "apply" /\ op'[p].from = to
      BY <3>2 DEF Decides, TypeOK
    <3> QED
      BY <2>8, <3>1, <3>2
  <2> QED
    BY <1>2, <2>3, <2>4, <2>5, <2>6, <2>7, <2>9, <2>10, OwnStep DEF HandlerSteps
<1> QED
  BY <1>1, <1>2

LEMMA OtherMovesAreAllowed ==
  ASSUME TypeOK, ReadsAreAllowed, Next, \A p \in Procs : ~Put(p)
  PROVE  \A t \in Tasks : status[t] # "none" => is_allowed(status[t], status'[t])
<1> DEFINE Moved == \A t \in Tasks : status[t] # "none" => is_allowed(status[t], status'[t])
<1>1. CASE UNCHANGED status
  BY <1>1 DEF is_allowed
<1>2. ASSUME NEW t \in Tasks, create_task(t) PROVE Moved
  BY <1>2 DEF create_task, is_allowed, TypeOK
<1>3. ASSUME NEW t \in Tasks, hold_task_as_operator(t) PROVE Moved
  BY <1>3 DEF hold_task_as_operator, is_allowed, OnMap, Status, Working, TypeOK
<1>4. ASSUME NEW t \in Tasks, release_task_as_operator(t) PROVE Moved
  BY <1>4 DEF release_task_as_operator, Moves, is_allowed, OnMap, TypeOK
<1>5. ASSUME NEW p \in Procs, SettleApplies(p) PROVE Moved
  <2>1. op[p].from \in {"pending", "blocked"}
    BY <1>5 DEF SettleApplies, ReadsAreAllowed
  <2> QED
    BY <1>5, <2>1 DEF SettleApplies, Moves, is_allowed, OnMap, TypeOK
<1> QED
  BY <1>1, <1>2, <1>3, <1>4, <1>5
     DEF Next, HandlerSteps, OperatorActs, AgentActs, TurnGivenUp, ResetBlocks,
         cancel_task_as_operator, complete_task_as_operator, _re_present,
         _drop_unfinished_prerequisites, Check, update_task, ListHeldDependents, _settle_one,
         SettleRaises, ProcessDies

\* No step of any handler but an UPDATE over a changed row leaves the map, with
\* or without lost updates.
THEOREM OnlyStaleMovesLeaveTheMap == Spec => OffTheMapIfStale
<1> DEFINE W == TypeOK /\ ReadsAreAllowed
           Ok(t) == \/ is_allowed(status[t], status'[t])
                    \/ \E p \in Procs :
                         /\ op[p].at = "put" /\ op[p].task = t /\ op[p].from # status[t]
                         /\ status'[t] = op[p].to /\ is_allowed(op[p].from, op[p].to)
           Moved == \A t \in Tasks : status[t] # "none" => Ok(t)
<1>1. Init => W
  BY InitTypes, NoTaskAssumption, TaskAssumption DEF Init, Idle, Procs, ReadsAreAllowed
<1>2. W /\ [Next]_vars => W'
  <2>1. CASE Next
    BY <2>1, TypesAreKept, ReadsStayAllowed, NoTaskAssumption, TaskAssumption
  <2>2. CASE UNCHANGED vars
    BY <2>2 DEF vars, TypeOK, ReadsAreAllowed, is_allowed, OnMap
  <2> QED
    BY <2>1, <2>2
<1>3. ASSUME W, Next PROVE Moved
  <2>1. ASSUME NEW p \in Procs, Put(p) PROVE Moved
    <3>1. op[p].at = "put" /\ op[p].task \in Tasks /\ is_allowed(op[p].from, op[p].to)
      BY <1>3, <2>1 DEF Put, TypeOK, ReadsAreAllowed
    <3>2. status' = [status EXCEPT ![op[p].task] = op[p].to] /\ status \in [Tasks -> Status]
      BY <1>3, <2>1 DEF Put, Moves, TypeOK
    <3>3. Ok(op[p].task)
      BY <3>1, <3>2
    <3>4. \A t \in Tasks \ {op[p].task} : is_allowed(status[t], status'[t])
      BY <3>2 DEF is_allowed
    <3> QED
      BY <3>3, <3>4
  <2>2. ASSUME \A p \in Procs : ~Put(p)
        PROVE  \A t \in Tasks : status[t] # "none" => is_allowed(status[t], status'[t])
    BY <1>3, <2>2, OtherMovesAreAllowed
  <2> QED
    BY <2>1, <2>2
<1>4. W /\ [Next]_vars => [Moved]_vars
  BY <1>3
<1> HIDE DEF W, Moved
<1> QED
  BY <1>1, <1>2, <1>4, PTL DEF Spec, OffTheMapIfStale, Moved

-----------------------------------------------------------------------------
(* The work of one agent: the inductive invariant.                          *)

\* At most one work activity is active, and none beside an assignment or a talk.
OneAtATime(b) ==
  /\ \A t, u \in Tasks : b.work[t] = "active" /\ b.work[u] = "active" => t = u
  /\ b.side.kind # "none" => \A t \in Tasks : b.work[t] # "active"

Sound(b) == b \in Boards /\ OneAtATime(b)

\* A task that is closed stays closed, and one that was made stays made.
Onward(b, c) ==
  /\ Sound(c)
  /\ \A t \in Tasks : /\ b.task[t] = "closed" => c.task[t] = "closed"
                      /\ b.task[t] # "unborn" => c.task[t] # "unborn"

\* Work in flight has a wake of its own, or one that any work is good for.
Attended(b) ==
  Live(b) # NoTask /\ b.task[Live(b)] \in {"accepted", "active"} =>
    \E w \in b.wakes : w.task \in {Live(b), NoTask}

WorkInv ==
  /\ WorkTypeOK /\ OneAtATime(board)
  /\ InTurn \/ turn = NoTurn
  /\ ~InTurn /\ ~gate /\ incidents = 0 => Attended(board)

\* How the statuses of LiveWork read on the map of transitions.py.
Reads(s) == CASE s = "unborn" -> {"none"} [] s = "closed" -> Terminal
              [] s = "blocked" -> {"blocked", "stalled"} [] OTHER -> {s}

WorkMovesOnTheMap ==
  [][\A t \in Tasks : board.task[t] # "unborn" =>
       \A from \in Reads(board.task[t]) : \E to \in Reads(board'.task[t]) :
         is_allowed(from, to)]_workVars

-----------------------------------------------------------------------------
(* The live activity, and what each operator does to a board.               *)

LEMMA LiveIs ==
  ASSUME NEW b \in Boards
  PROVE  /\ Live(b) \in Tasks => b.work[Live(b)] = "active"
         /\ Live(b) \notin Tasks => Live(b) = NoTask /\ \A t \in Tasks : b.work[t] # "active"
         /\ OneAtATime(b) => \A t \in Tasks : b.work[t] = "active" => t = Live(b)
<1>1. CASE \E t \in Tasks : b.work[t] = "active"
  <2>1. Live(b) \in Tasks /\ b.work[Live(b)] = "active"
    BY <1>1 DEF Live
  <2> QED
    BY <2>1, NoTaskAssumption DEF OneAtATime
<1>2. CASE ~\E t \in Tasks : b.work[t] = "active"
  <2>1. Live(b) = NoTask
    BY <1>2 DEF Live
  <2> QED
    BY <1>2, <2>1, NoTaskAssumption
<1> QED
  BY <1>1, <1>2

\* The fields of a board.
LEMMA BoardFields ==
  ASSUME NEW b \in Boards
  PROVE  /\ b.task \in [Tasks -> Statuses]
         /\ b.work \in [Tasks -> {"none", "active", "paused"}]
         /\ b.side \in [kind : {"none", "assignment", "talk"}, task : Tasks \cup {NoTask}]
         /\ b.wakes \subseteq Wakes /\ b.pinged \subseteq Tasks
BY DEF Boards

\* Onward steps add up.
LEMMA OnwardOn ==
  ASSUME NEW b, NEW c, NEW d, Onward(b, c), Onward(c, d)
  PROVE  Onward(b, d)
BY DEF Onward

LEMMA OnwardStays == ASSUME NEW b, Sound(b) PROVE Onward(b, b)
BY DEF Onward

\* A board that differs in its wakes and marks alone.
LEMMA OnwardAlike ==
  ASSUME NEW b, Sound(b), NEW ws \in SUBSET Wakes, NEW ps \in SUBSET Tasks
  PROVE  /\ Onward(b, [b EXCEPT !.wakes = ws])
         /\ Onward(b, [b EXCEPT !.pinged = ps])
         /\ Live([b EXCEPT !.wakes = ws]) = Live(b)
         /\ Live([b EXCEPT !.pinged = ps]) = Live(b)
<1> DEFINE v == [b EXCEPT !.wakes = ws]
           p == [b EXCEPT !.pinged = ps]
<1>1. /\ v \in Boards /\ v.task = b.task /\ v.work = b.work /\ v.side = b.side
      /\ p \in Boards /\ p.task = b.task /\ p.work = b.work /\ p.side = b.side
  BY DEF Sound, Boards
<1> HIDE DEF v, p
<1>2. Live(v) = Live(b) /\ Live(p) = Live(b)
  BY <1>1 DEF Live
<1>3. Onward(b, v) /\ Onward(b, p)
  BY <1>1 DEF Onward, Sound, OneAtATime
<1> QED
  BY <1>2, <1>3 DEF v, p

\* A move of one task.
LEMMA MoveOnward ==
  ASSUME NEW b, Sound(b), NEW t \in Tasks, NEW s \in Statuses \ {"unborn"},
         b.task[t] = "closed" => s = "closed"
  PROVE  LET c == transition_task(b, t, s)
         IN /\ Onward(b, c) /\ Live(c) = Live(b)
            /\ c.task = [b.task EXCEPT ![t] = s] /\ c.work = b.work /\ c.side = b.side
            /\ c.wakes = b.wakes
<1> DEFINE c == transition_task(b, t, s)
<1>1. /\ c \in Boards /\ c.task = [b.task EXCEPT ![t] = s] /\ c.work = b.work /\ c.side = b.side
      /\ c.wakes = b.wakes
  BY DEF transition_task, Sound, Boards
<1> HIDE DEF c
<1>2. Live(c) = Live(b)
  BY <1>1 DEF Live
<1>3. Onward(b, c)
  BY <1>1, BoardFields DEF Onward, Sound, OneAtATime
<1> QED
  BY <1>1, <1>2, <1>3 DEF c

\* A board whose activities are other ones.
LEMMA ActivityOnward ==
  ASSUME NEW b \in Boards, NEW t \in Tasks, NEW a \in {"none", "active", "paused"}
  PROVE  LET c == [b EXCEPT !.work[t] = a]
         IN /\ c \in Boards /\ c.task = b.task /\ c.work = [b.work EXCEPT ![t] = a]
            /\ c.side = b.side /\ c.wakes = b.wakes
            /\ Sound(b) /\ a # "active" => Onward(b, c)
<1> DEFINE c == [b EXCEPT !.work[t] = a]
<1>1. /\ c \in Boards /\ c.task = b.task /\ c.work = [b.work EXCEPT ![t] = a]
      /\ c.side = b.side /\ c.wakes = b.wakes
  BY DEF Boards
<1> HIDE DEF c
<1>2. Sound(b) /\ a # "active" => Onward(b, c)
  BY <1>1, BoardFields DEF Onward, Sound, OneAtATime
<1> QED
  BY <1>1, <1>2 DEF c

\* refresh_agent_status touches no activity.
LEMMA RefreshOnward ==
  ASSUME NEW b, Sound(b)
  PROVE  LET c == refresh_agent_status(b)
         IN /\ Onward(b, c) /\ Live(c) = Live(b)
            /\ c.work = b.work /\ c.side = b.side /\ c.wakes = b.wakes
<1>1. CASE Live(b) # NoTask /\ b.task[Live(b)] = "blocked"
  <2>1. Live(b) \in Tasks /\ "active" \in Statuses \ {"unborn"} /\ b.task[Live(b)] # "closed"
    BY <1>1, LiveIs DEF Sound, Statuses
  <2>2. refresh_agent_status(b) = transition_task(b, Live(b), "active")
    BY <1>1 DEF refresh_agent_status
  <2> DEFINE d == transition_task(b, Live(b), "active")
  <2>3. Onward(b, d) /\ Live(d) = Live(b) /\ d.work = b.work /\ d.side = b.side /\ d.wakes = b.wakes
    BY <2>1, MoveOnward
  <2> QED
    BY <2>2, <2>3
<1>2. CASE ~(Live(b) # NoTask /\ b.task[Live(b)] = "blocked")
  BY <1>2, OnwardStays DEF refresh_agent_status
<1> QED
  BY <1>1, <1>2

\* pause_active_work leaves nothing active.
LEMMA PauseOnward ==
  ASSUME NEW b, Sound(b), NEW s \in {"pending", "waiting", "blocked"}
  PROVE  LET c == pause_active_work(b, s)
         IN /\ Onward(b, c) /\ \A u \in Tasks : c.work[u] # "active"
            /\ \A u \in Tasks \ {Live(b)} : c.task[u] = b.task[u]
            /\ c.side = b.side /\ c.wakes = b.wakes
<1> DEFINE t == Live(b)
           c == pause_active_work(b, s)
<1>1. CASE t = NoTask
  BY <1>1, LiveIs, OnwardStays, NoTaskAssumption DEF pause_active_work, Sound
<1>2. CASE t # NoTask /\ is_live_work_task(b, t)
  <2> DEFINE d == transition_task(b, t, s)
  <2>1. t \in Tasks /\ b.task[t] \notin {"unborn", "closed"} /\ s \in Statuses \ {"unborn"}
    BY <1>2 DEF is_live_work_task, Statuses
  <2>2. /\ Onward(b, d) /\ d.work = b.work /\ d.side = b.side /\ d.wakes = b.wakes
        /\ d.task = [b.task EXCEPT ![t] = s]
    BY <2>1, MoveOnward
  <2>3. c = [d EXCEPT !.work[t] = "paused"]
    BY <1>2 DEF pause_active_work
  <2> HIDE DEF d, c
  <2>4. /\ Onward(d, c) /\ c.work = [b.work EXCEPT ![t] = "paused"]
        /\ c.task = d.task /\ c.side = b.side /\ c.wakes = b.wakes
    <3>1. d \in Boards /\ Sound(d)
      BY <2>2 DEF Onward, Sound
    <3>2. c.work = [d.work EXCEPT ![t] = "paused"] /\ c.task = d.task /\ Onward(d, c)
          /\ c.side = d.side /\ c.wakes = d.wakes
      BY <2>1, <2>3, <3>1, ActivityOnward
    <3> QED
      BY <2>2, <3>2
  <2>5. \A u \in Tasks : c.work[u] # "active"
    BY <2>1, <2>4, LiveIs, BoardFields DEF Sound
  <2>6. \A u \in Tasks \ {t} : c.task[u] = b.task[u]
    BY <2>2, <2>4, BoardFields DEF Sound
  <2> HIDE DEF t
  <2> QED
    BY <2>2, <2>4, <2>5, <2>6, OnwardOn DEF c, t
<1>3. CASE t # NoTask /\ ~is_live_work_task(b, t)
  <2>1. t \in Tasks
    BY <1>3, LiveIs DEF Sound
  <2>2. c = [b EXCEPT !.work[t] = "none"]
    BY <1>3 DEF pause_active_work
  <2> HIDE DEF c
  <2>4. /\ Onward(b, c) /\ c.work = [b.work EXCEPT ![t] = "none"]
        /\ c.task = b.task /\ c.side = b.side /\ c.wakes = b.wakes
    BY <2>1, <2>2, ActivityOnward DEF Sound
  <2>5. \A u \in Tasks : c.work[u] # "active"
    BY <2>1, <2>4, LiveIs, BoardFields DEF Sound
  <2> QED
    BY <2>4, <2>5 DEF c
<1> QED
  BY <1>1, <1>2, <1>3

\* activate_work_activity: the older work is paused, what is beside work ends.
LEMMA ActivateOnward ==
  ASSUME NEW b, Sound(b), NEW t \in Tasks, NEW s \in {"accepted", "active"}
  PROVE  Onward(b, activate_work_activity(b, t, s))
<1> DEFINE older == Live(b)
           paused == IF older \in {NoTask, t} THEN b
                     ELSE [pause_active_work(b, "pending")
                             EXCEPT !.wakes = @ \ {Wake("resumed", older)}]
           moved == transition_task(paused, t, s)
           c == [moved EXCEPT !.work[t] = "active", !.side = NoSide]
<1>1. CASE ~is_live_work_task(b, t)
  BY <1>1, ActivityOnward DEF activate_work_activity, Sound
<1>2. CASE is_live_work_task(b, t)
  <2>1. Onward(b, paused) /\ \A u \in Tasks : paused.work[u] = "active" => u = t
    <3>1. CASE older \in {NoTask, t}
      BY <3>1, OnwardStays, LiveIs, NoTaskAssumption DEF Sound
    <3>2. CASE older \notin {NoTask, t}
      <4> DEFINE p == pause_active_work(b, "pending")
                 ws == p.wakes \ {Wake("resumed", older)}
      <4>1. Onward(b, p) /\ \A u \in Tasks : p.work[u] # "active"
        BY PauseOnward
      <4>2. ws \in SUBSET Wakes /\ Sound(p)
        BY <4>1, BoardFields DEF Onward, Sound
      <4>3. paused = [p EXCEPT !.wakes = ws]
        BY <3>2
      <4> HIDE DEF p, ws, paused
      <4>4. Onward(p, paused) /\ paused.work = p.work
        BY <4>2, <4>3, OnwardAlike DEF Sound, Boards
      <4> QED
        BY <4>1, <4>4, OnwardOn
    <3> QED
      BY <3>1, <3>2
  <2>2. Sound(paused) /\ paused.task[t] \in Statuses /\ s \in Statuses \ {"unborn"}
    BY <2>1, BoardFields DEF Onward, Sound, Statuses
  <2>3. paused.task[t] # "closed"
    <3>1. CASE older \in {NoTask, t}
      BY <1>2, <3>1 DEF is_live_work_task
    <3>2. CASE older \notin {NoTask, t}
      <4>1. b.task[t] # "closed" /\ pause_active_work(b, "pending").task[t] = b.task[t]
        BY <1>2, <3>2, PauseOnward DEF is_live_work_task
      <4>2. pause_active_work(b, "pending") \in Boards
        BY PauseOnward DEF Onward, Sound
      <4>3. paused.task = pause_active_work(b, "pending").task
        BY <3>2, <4>2 DEF Boards
      <4> QED
        BY <4>1, <4>3
    <3> QED
      BY <3>1, <3>2
  <2> HIDE DEF paused
  <2>4. Onward(paused, moved) /\ moved.work = paused.work
    BY <2>2, <2>3, MoveOnward
  <2> HIDE DEF moved
  <2>5. /\ c \in Boards /\ c.task = moved.task /\ c.side = NoSide
        /\ c.work = [moved.work EXCEPT ![t] = "active"]
    <3>1. moved \in Boards
      BY <2>4 DEF Onward, Sound
    <3> QED
      BY <3>1 DEF Boards, NoSide
  <2> HIDE DEF c
  <2>6. Onward(moved, c)
    <3>1. moved.work \in [Tasks -> {"none", "active", "paused"}]
      BY <2>4, BoardFields DEF Onward, Sound
    <3>2. \A u \in Tasks : c.work[u] = "active" => u = t
      BY <2>1, <2>4, <2>5, <3>1
    <3> QED
      BY <2>5, <3>2 DEF Onward, Sound, OneAtATime, NoSide
  <2>7. activate_work_activity(b, t, s) = c
    BY <1>2 DEF activate_work_activity, c, moved, paused
  <2> QED
    BY <2>1, <2>4, <2>6, <2>7, OnwardOn
<1> QED
  BY <1>1, <1>2

\* What was beside the work ends, and the work it suspended is active again.
LEMMA LeavesOnward == ASSUME NEW b, Sound(b) PROVE Onward(b, Leaves(b))
<1> DEFINE t == IF b.side.kind = "talk" THEN b.side.task ELSE NoTask
           c == IF t # NoTask /\ b.work[t] = "paused"
                THEN [b EXCEPT !.side = NoSide, !.work[t] = "active"]
                ELSE [b EXCEPT !.side = NoSide]
<1>1. t \in Tasks \/ t = NoTask
  BY BoardFields DEF Sound
<1>2. CASE t # NoTask /\ b.work[t] = "paused"
  <2>1. \A u \in Tasks : b.work[u] # "active"
    BY <1>2 DEF Sound, OneAtATime
  <2>2. t \in Tasks /\ c = [b EXCEPT !.side = NoSide, !.work[t] = "active"]
    BY <1>1, <1>2
  <2> HIDE DEF c, t
  <2>3. /\ c \in Boards /\ c.task = b.task /\ c.side = NoSide
        /\ c.work = [b.work EXCEPT ![t] = "active"]
    BY <2>2 DEF Sound, Boards, NoSide
  <2>4. \A u \in Tasks : c.work[u] = "active" => u = t
    BY <2>1, <2>2, <2>3, BoardFields DEF Sound
  <2>5. Onward(b, c)
    BY <2>3, <2>4 DEF Onward, Sound, OneAtATime, NoSide
  <2>6. Onward(c, refresh_agent_status(c))
    BY <2>5, RefreshOnward DEF Onward
  <2>7. Leaves(b) = refresh_agent_status(c)
    BY DEF Leaves, c, t
  <2> QED
    BY <2>5, <2>6, <2>7, OnwardOn
<1>3. CASE ~(t # NoTask /\ b.work[t] = "paused")
  <2>1. c = [b EXCEPT !.side = NoSide]
    BY <1>3
  <2> HIDE DEF c, t
  <2>2. c \in Boards /\ c.task = b.task /\ c.side = NoSide /\ c.work = b.work
    BY <2>1 DEF Sound, Boards, NoSide
  <2>3. Onward(b, c)
    BY <2>2 DEF Onward, Sound, OneAtATime, NoSide
  <2>4. Onward(c, refresh_agent_status(c))
    BY <2>3, RefreshOnward DEF Onward
  <2>5. Leaves(b) = refresh_agent_status(c)
    BY DEF Leaves, c, t
  <2> QED
    BY <2>3, <2>4, <2>5, OnwardOn
<1> QED
  BY <1>2, <1>3

LEMMA DropsOnward == ASSUME NEW b, Sound(b) PROVE Onward(b, DropsAssignment(b))
BY LeavesOnward, OnwardStays DEF DropsAssignment

\* A talk begins over paused work.
LEMMA CommitmentOnward ==
  ASSUME NEW b, Sound(b) PROVE Onward(b, begin_commitment_activity(b))
<1> DEFINE behind == IF Live(b) \in OpenTasks(b) THEN Live(b)
                     ELSE IF b.side.kind = "talk" THEN b.side.task ELSE NoTask
           p == pause_active_work(b, "pending")
           c == [p EXCEPT !.side = [kind |-> "talk", task |-> behind]]
<1>1. behind \in Tasks \cup {NoTask}
  BY BoardFields DEF Sound, OpenTasks
<1>2. Onward(b, p) /\ \A u \in Tasks : p.work[u] # "active"
  BY PauseOnward
<1> HIDE DEF p, behind
<1>3. p \in Boards
  BY <1>2 DEF Onward, Sound
<1>4. c \in Boards /\ c.task = p.task /\ c.work = p.work
  BY <1>1, <1>3 DEF Boards
<1> HIDE DEF c
<1>5. Onward(p, c)
  BY <1>2, <1>4 DEF Onward, Sound, OneAtATime
<1>6. begin_commitment_activity(b) = c
  BY DEF begin_commitment_activity, c, p, behind
<1> QED
  BY <1>2, <1>5, <1>6, OnwardOn

\* Every activity ends.
LEMMA ClearsOnward ==
  ASSUME NEW b, Sound(b)
  PROVE  LET c == Clears(b)
         IN /\ Onward(b, c) /\ c.task = b.task /\ c.wakes = b.wakes
            /\ \A u \in Tasks : c.work[u] # "active"
<1> DEFINE c == Clears(b)
<1>1. /\ c \in Boards /\ c.task = b.task /\ c.wakes = b.wakes /\ c.side = NoSide
      /\ c.work = [u \in Tasks |-> "none"]
  BY DEF Clears, Sound, Boards, NoSide
<1> HIDE DEF c
<1>2. ASSUME NEW v \in Tasks PROVE c.work[v] # "active"
  <2>1. c.work[v] = "none"
    BY <1>1
  <2> QED
    BY <2>1
<1>3. Onward(b, c)
  BY <1>1, <1>2 DEF Onward, Sound, OneAtATime, NoSide
<1> QED
  BY <1>1, <1>2, <1>3 DEF c

\* The activities and wakes of one task go.
LEMMA RetiresOnward ==
  ASSUME NEW b, Sound(b), NEW t \in Tasks
  PROVE  LET c == Retires(b, t)
         IN /\ Onward(b, c) /\ c.task = b.task /\ c.wakes = {w \in b.wakes : w.task # t}
            /\ c.work = [b.work EXCEPT ![t] = "none"]
<1> DEFINE c == Retires(b, t)
           ws == {w \in b.wakes : w.task # t}
           beside == IF b.side = [kind |-> "assignment", task |-> t] THEN NoSide ELSE b.side
<1>0. /\ ws \in SUBSET Wakes /\ beside \in {b.side, NoSide}
      /\ beside \in [kind : {"none", "assignment", "talk"}, task : Tasks \cup {NoTask}]
  BY BoardFields DEF Sound, NoSide
<1>1. c = [b EXCEPT !.work[t] = "none", !.wakes = ws, !.side = beside]
  BY DEF Retires
<1> HIDE DEF c, ws, beside
<1>3. /\ c \in Boards /\ c.task = b.task /\ c.wakes = ws
      /\ c.side = beside /\ c.work = [b.work EXCEPT ![t] = "none"]
  BY <1>0, <1>1 DEF Sound, Boards
<1>2. Onward(b, c)
  BY <1>0, <1>3, BoardFields DEF Onward, Sound, OneAtATime, NoSide
<1> QED
  BY <1>2, <1>3 DEF c, ws

\* The live task is closed and its activity with it.
LEMMA FinishedOnward ==
  ASSUME NEW b, Sound(b), Live(b) \in Tasks
  PROVE  Onward(b, Finished(b))
<1> DEFINE t == Live(b)
           d == transition_task(b, t, "closed")
<1>1. Onward(b, d)
  BY MoveOnward DEF Statuses
<1>2. Finished(b) = [d EXCEPT !.work[t] = "none"]
  BY DEF Finished
<1> HIDE DEF d, t
<1>3. Onward(d, [d EXCEPT !.work[t] = "none"])
  BY <1>1, ActivityOnward DEF Onward, Sound, t
<1> QED
  BY <1>1, <1>2, <1>3, OnwardOn

LEMMA WakeForms ==
  /\ \A t \in Tasks, k \in {"assigned", "resumed", "ping"} : Wake(k, t) \in Wakes
  /\ \A k \in {"resumed", "chat", "resolved"} : Wake(k, NoTask) \in Wakes
  /\ \A k, t : Wake(k, t).kind = k /\ Wake(k, t).task = t
BY DEF Wake, Wakes

\* A commitment is taken up again.
LEMMA RequeueOnward ==
  ASSUME NEW b, Sound(b), NEW t \in Tasks
  PROVE  /\ Onward(b, requeue_commitment(b, t).board)
         /\ requeue_commitment(b, t).asks \subseteq Wakes
  BY ActivateOnward, OnwardStays, WakeForms DEF requeue_commitment, Outcome

\* So is the next of the backlog.
LEMMA NextWorkOnward ==
  ASSUME NEW b, Sound(b), NEW ended, NEW next \in next_work_after_end(b, ended)
  PROVE  Onward(b, next.board) /\ next.asks \subseteq Wakes
  BY RequeueOnward, OnwardStays, WakeForms DEF next_work_after_end, Outcome

LEMMA ContinuationForms ==
  ASSUME NEW b \in Boards
  PROVE  /\ ensure_live_work_continuation(b) \subseteq Wakes
         /\ ~gate /\ Live(b) # NoTask /\ b.task[Live(b)] \in {"accepted", "active"} =>
              Wake("resumed", Live(b)) \in ensure_live_work_continuation(b)
  BY LiveIs, WakeForms DEF ensure_live_work_continuation

LEMMA QueuesOnward ==
  ASSUME NEW b, Sound(b), NEW ws \in SUBSET Wakes
  PROVE  /\ Onward(b, Queues(b, ws)) /\ Live(Queues(b, ws)) = Live(b)
         /\ Queues(b, ws).wakes = b.wakes \cup ws /\ Queues(b, ws).task = b.task
<1> DEFINE all == b.wakes \cup ws
<1>1. all \in SUBSET Wakes /\ b \in Boards
  BY BoardFields DEF Sound
<1>2. Queues(b, ws) = [b EXCEPT !.wakes = all]
  BY DEF Queues
<1> HIDE DEF all
<1>3. [b EXCEPT !.wakes = all].wakes = all /\ [b EXCEPT !.wakes = all].task = b.task
  BY <1>1 DEF Boards
<1>4. Onward(b, [b EXCEPT !.wakes = all]) /\ Live([b EXCEPT !.wakes = all]) = Live(b)
  BY <1>1, OnwardAlike
<1> QED
  BY <1>2, <1>3, <1>4 DEF all

LEMMA ResumesOnward ==
  ASSUME NEW b, Sound(b), NEW t \in Tasks PROVE Onward(b, Resumes(b, t))
  BY RefreshOnward, ActivateOnward DEF Resumes

LEMMA PresentsOnward ==
  ASSUME NEW b, Sound(b), NEW w \in Wakes PROVE Onward(b, Presents(b, w))
<1>1. CASE /\ w.kind = "assigned" /\ b.task[w.task] = "pending"
           /\ Live(b) = NoTask /\ b.side = NoSide
  <2> DEFINE t == w.task
             c == [b EXCEPT !.side = [kind |-> "assignment", task |-> t]]
  <2>1. t \in Tasks
    BY <1>1 DEF Wakes
  <2>2. Presents(b, w) = c
    BY <1>1 DEF Presents
  <2>3. \A u \in Tasks : b.work[u] # "active"
    BY <1>1, LiveIs, NoTaskAssumption DEF Sound
  <2> HIDE DEF t
  <2>4. c \in Boards /\ c.task = b.task /\ c.work = b.work
    BY <2>1 DEF Sound, Boards
  <2> HIDE DEF c
  <2> QED
    BY <2>2, <2>3, <2>4 DEF Onward, Sound, OneAtATime
<1>2. CASE Presents(b, w) = b
  BY <1>2, OnwardStays
<1>3. CASE Presents(b, w) = refresh_agent_status(b)
  BY <1>3, RefreshOnward
<1> QED
  BY <1>1, <1>2, <1>3 DEF Presents

\* Taking a wake off the queue.
LEMMA TakenOnward ==
  ASSUME NEW b, Sound(b), NEW w
  PROVE  LET c == [b EXCEPT !.wakes = @ \ {w}]
         IN Onward(b, c) /\ Live(c) = Live(b) /\ c.wakes = b.wakes \ {w} /\ c.task = b.task
<1> DEFINE ws == b.wakes \ {w}
<1>1. ws \in SUBSET Wakes /\ b \in Boards
  BY BoardFields DEF Sound
<1> HIDE DEF ws
<1>2. Onward(b, [b EXCEPT !.wakes = ws]) /\ Live([b EXCEPT !.wakes = ws]) = Live(b)
  BY <1>1, OnwardAlike
<1>3. [b EXCEPT !.wakes = ws].wakes = ws /\ [b EXCEPT !.wakes = ws].task = b.task
  BY <1>1 DEF Boards
<1> QED
  BY <1>2, <1>3 DEF ws

\* A heartbeat.
LEMMA BeatOnward ==
  ASSUME NEW b, Sound(b), NEW t PROVE Onward(b, [b EXCEPT !.pinged = @ \ {t}])
<1>1. b.pinged \ {t} \in SUBSET Tasks
  BY BoardFields DEF Sound
<1> QED
  BY <1>1, OnwardAlike

LEMMA RepliedOnward == ASSUME NEW b, Sound(b) PROVE Onward(b, Replied(b))
BY BeatOnward, OnwardStays DEF Replied

LEMMA SoftBlocksOnward ==
  ASSUME NEW b, Sound(b), NEW c \in resume_soft_blocked_work(b) PROVE Onward(b, c)
BY RefreshOnward, ActivateOnward DEF resume_soft_blocked_work

-----------------------------------------------------------------------------
(* The actions.                                                             *)

Turns ==
  [at : {"idle", "body", "ending"}, wake : Wakes, asks : SUBSET Wakes, replan : BOOLEAN]

\* The board a step leaves, and the turn.
Kept == Onward(board, board') /\ turn' \in Turns /\ (InTurn' \/ turn' = NoTurn)

LEMMA TurnForms ==
  /\ NoTurn \in Turns /\ NoTurn.at = "idle"
  /\ \A b : \A w \in Wakes : TurnBegins(b, w) => turn' \in Turns /\ InTurn'
  /\ \A b : \A ws \in SUBSET Wakes, r \in BOOLEAN :
       turn \in Turns /\ TurnEnds(b, ws, r) => turn' \in Turns /\ InTurn'
<1>1. NoTurn \in Turns /\ NoTurn.at = "idle"
  BY WakeForms DEF NoTurn, Turns
<1>2. ASSUME NEW b, NEW w \in Wakes, TurnBegins(b, w) PROVE turn' \in Turns /\ InTurn'
  BY <1>2 DEF TurnBegins, NoTurn, Turns, InTurn
<1>3. ASSUME NEW b, NEW ws \in SUBSET Wakes, NEW r \in BOOLEAN, turn \in Turns, TurnEnds(b, ws, r)
      PROVE  turn' \in Turns /\ InTurn'
  <2> DEFINE again == r /\ turn.wake.kind = "chat"
  <2>1. again \in BOOLEAN /\ turn' = [turn EXCEPT !.at = "ending", !.asks = ws, !.replan = again]
    BY <1>3 DEF TurnEnds
  <2> HIDE DEF again
  <2> QED
    BY <1>3, <2>1 DEF Turns, InTurn
<1> QED
  BY <1>1, <1>2, <1>3

LEMMA LiveWakeTasksAreTasks == ASSUME NEW b PROVE LiveWakeTasks(b) \subseteq Tasks
BY DEF LiveWakeTasks, OpenTasks

\* Without a task to go on with, nothing is in flight.
LEMMA NothingOpen ==
  ASSUME NEW b, LiveWakeTasks(b) = {}, NEW t \in Tasks
  PROVE  b.task[t] \notin {"accepted", "active"}
BY DEF LiveWakeTasks, OpenTasks, is_live_work_task

LEMMA ClaimsKeeps ==
  ASSUME WorkInv, Claims
  PROVE  Kept /\ (~InTurn' => Attended(board'))
<1>0. Sound(board) /\ turn \in Turns /\ turn = NoTurn /\ board.wakes \subseteq Wakes
  BY BoardFields DEF WorkInv, WorkTypeOK, Sound, Turns, Claims
<1>1. PICK w \in board.wakes :
        LET b == [board EXCEPT !.wakes = @ \ {w}]
            closed == w.kind = "resumed" /\ w.task # NoTask /\ ~is_live_work_task(b, w.task)
        IN \/ /\ w.kind = "resumed" /\ w.task # NoTask /\ ~closed
              /\ TurnBegins(Resumes(b, w.task), w)
           \/ /\ closed
              /\ \E t \in LiveWakeTasks(b) : TurnBegins(Resumes(b, t), Wake("resumed", t))
           \/ /\ closed /\ LiveWakeTasks(b) = {}
              /\ board' = [b EXCEPT !.work[w.task] = "none"]
              /\ UNCHANGED turn
           \/ /\ w.kind = "ping" /\ Live(b) = NoTask
              /\ board' = b /\ UNCHANGED turn
           \/ /\ w.task = NoTask \/ w.kind = "assigned" \/ (w.kind = "ping" /\ Live(b) # NoTask)
              /\ TurnBegins(Presents(b, w), w)
  BY Zenon DEF Claims
<1> DEFINE b == [board EXCEPT !.wakes = @ \ {w}]
<1>2. w \in Wakes /\ Onward(board, b) /\ Sound(b)
  BY <1>0, <1>1, TakenOnward DEF Onward
<1>3. w.task # NoTask => w.task \in Tasks
  BY <1>2 DEF Wakes
<1> HIDE DEF b
<1>4. CASE w.kind = "resumed" /\ w.task # NoTask /\ TurnBegins(Resumes(b, w.task), w)
  <2>1. Onward(b, Resumes(b, w.task)) /\ board' = Resumes(b, w.task)
    BY <1>2, <1>3, <1>4, ResumesOnward DEF TurnBegins
  <2> QED
    BY <1>2, <1>4, <2>1, TurnForms, OnwardOn DEF Kept
<1>5. ASSUME NEW t \in LiveWakeTasks(b), TurnBegins(Resumes(b, t), Wake("resumed", t))
      PROVE  Kept /\ InTurn'
  <2>1. t \in Tasks /\ Wake("resumed", t) \in Wakes
    BY LiveWakeTasksAreTasks, WakeForms
  <2>2. Onward(b, Resumes(b, t)) /\ board' = Resumes(b, t)
    BY <1>2, <1>5, <2>1, ResumesOnward DEF TurnBegins
  <2> QED
    BY <1>2, <1>5, <2>1, <2>2, TurnForms, OnwardOn DEF Kept
<1>6. CASE /\ w.kind = "resumed" /\ w.task # NoTask /\ LiveWakeTasks(b) = {}
           /\ board' = [b EXCEPT !.work[w.task] = "none"] /\ UNCHANGED turn
  <2>1. Onward(b, board') /\ board'.task = b.task /\ board' \in Boards
    BY <1>2, <1>3, <1>6, ActivityOnward DEF Sound
  <2>2. Attended(board')
    BY <1>6, <2>1, NothingOpen, LiveIs DEF Attended
  <2> QED
    BY <1>0, <1>2, <1>6, <2>1, <2>2, OnwardOn DEF Kept
<1>7. CASE Live(b) = NoTask /\ board' = b /\ UNCHANGED turn
  BY <1>0, <1>2, <1>7 DEF Kept, Attended
<1>8. CASE TurnBegins(Presents(b, w), w)
  <2>1. Onward(b, Presents(b, w)) /\ board' = Presents(b, w)
    BY <1>2, <1>8, PresentsOnward DEF TurnBegins
  <2> QED
    BY <1>2, <1>8, <2>1, TurnForms, OnwardOn DEF Kept
<1> QED
  BY <1>1, <1>4, <1>5, <1>6, <1>7, <1>8 DEF b

\* A turn ends with an onward board.
LEMMA EndKeeps ==
  ASSUME WorkInv, NEW b, NEW asks \in SUBSET Wakes, NEW r \in BOOLEAN,
         Onward(board, b), TurnEnds(b, asks, r)
  PROVE  Kept /\ InTurn'
<1>1. turn \in Turns /\ board' = b
  BY DEF WorkInv, WorkTypeOK, Turns, TurnEnds
<1> QED
  BY <1>1, TurnForms DEF Kept

LEMMA ReplyKeeps ==
  ASSUME WorkInv, NEW b, NEW asks \in SUBSET Wakes, NEW r \in BOOLEAN,
         Onward(board, b), TurnEnds(Replied(b), asks, r)
  PROVE  Kept /\ InTurn'
<1>1. Onward(board, Replied(b))
  BY RepliedOnward, OnwardOn DEF Onward
<1> QED
  BY <1>1, EndKeeps

\* The claimed wake of an assignment names its task.
LEMMA TurnWake ==
  ASSUME WorkInv
  PROVE  /\ Sound(board) /\ turn \in Turns /\ turn.wake \in Wakes
         /\ turn.wake.kind = "assigned" => turn.wake.task \in Tasks
         /\ turn.wake.task \in Tasks \cup {NoTask}
         /\ Bound \subseteq {t \in Tasks : board.task[t] # "closed"}
<1>1. Sound(board) /\ turn \in Turns /\ turn.wake \in Wakes
  BY DEF WorkInv, WorkTypeOK, Turns, Sound
<1>2. /\ turn.wake.kind = "assigned" => turn.wake.task \in Tasks
      /\ turn.wake.task \in Tasks \cup {NoTask}
  BY <1>1 DEF Wakes
<1>3. Bound \subseteq {t \in Tasks : board.task[t] # "closed"}
  BY DEF Bound, OpenTasks, is_live_work_task
<1> QED
  BY <1>1, <1>2, <1>3

LEMMA AnswersKeeps == ASSUME WorkInv, Answers PROVE Kept /\ InTurn'
<1>0. {} \in SUBSET Wakes /\ FALSE \in BOOLEAN /\ Sound(board)
  BY TurnWake
<1>1. PICK b \in resume_soft_blocked_work(board) :
       \/ TurnEnds(Replied(b), {}, FALSE)
       \/ /\ Live(board) = NoTask
          /\ \E t \in IF turn.wake.task \in OpenTasks(board) THEN {turn.wake.task}
                      ELSE LiveWakeTasks(board) :
               LET next == requeue_commitment(b, t)
               IN TurnEnds(Replied(next.board), next.asks, FALSE)
  BY Zenon DEF Answers
<1>2. Onward(board, b) /\ Sound(b)
  BY <1>0, <1>1, SoftBlocksOnward DEF Onward
<1>3. CASE TurnEnds(Replied(b), {}, FALSE)
  BY <1>0, <1>2, <1>3, ReplyKeeps
<1>4. ASSUME NEW t \in IF turn.wake.task \in OpenTasks(board) THEN {turn.wake.task}
                       ELSE LiveWakeTasks(board),
             TurnEnds(Replied(requeue_commitment(b, t).board), requeue_commitment(b, t).asks, FALSE)
      PROVE  Kept /\ InTurn'
  <2>1. t \in Tasks
    BY <1>4, LiveWakeTasksAreTasks DEF OpenTasks
  <2>2. Onward(b, requeue_commitment(b, t).board)
        /\ requeue_commitment(b, t).asks \in SUBSET Wakes
    BY <1>2, <2>1, RequeueOnward
  <2>3. Onward(board, requeue_commitment(b, t).board)
    BY <1>2, <2>2, OnwardOn
  <2> QED
    BY <1>0, <1>4, <2>2, <2>3, ReplyKeeps
<1> QED
  BY <1>1, <1>3, <1>4

LEMMA CancelsKeeps == ASSUME WorkInv, Cancels PROVE Kept /\ InTurn'
<1>1. {} \in SUBSET Wakes /\ FALSE \in BOOLEAN /\ Sound(board) /\ Live(board) \in Tasks
  BY TurnWake DEF Cancels, OpenTasks
<1> QED
  BY <1>1, FinishedOnward, ReplyKeeps DEF Cancels

LEMMA DeclinesKeeps == ASSUME WorkInv, Declines PROVE Kept /\ InTurn'
<1> DEFINE t == turn.wake.task
           b == DropsAssignment(board)
<1>1. {} \in SUBSET Wakes /\ FALSE \in BOOLEAN /\ Sound(board) /\ t \in Tasks
  BY TurnWake DEF Declines
<1>2. Onward(board, b) /\ Sound(b)
  BY <1>1, DropsOnward DEF Onward
<1>3. TurnEnds(transition_task(b, t, "closed"), {}, FALSE)
  BY DEF Declines
<1> HIDE DEF b, t
<1>4. Onward(b, transition_task(b, t, "closed"))
  BY <1>1, <1>2, MoveOnward DEF Statuses
<1> QED
  BY <1>1, <1>2, <1>3, <1>4, OnwardOn, EndKeeps

LEMMA DefersKeeps == ASSUME WorkInv, Defers PROVE Kept /\ InTurn'
<1>1. PICK t \in Bound :
        TurnEnds(Replied(DropsAssignment(transition_task(board, t, "pending"))), {}, TRUE)
  BY DEF Defers
<1>2. t \in Tasks /\ board.task[t] # "closed" /\ Sound(board) /\ {} \in SUBSET Wakes
  BY TurnWake
<1> DEFINE b == transition_task(board, t, "pending")
<1>3. Onward(board, b)
  BY <1>2, MoveOnward DEF Statuses
<1> HIDE DEF b
<1>4. Onward(b, DropsAssignment(b))
  BY <1>3, DropsOnward DEF Onward
<1> QED
  BY <1>1, <1>2, <1>3, <1>4, OnwardOn, ReplyKeeps DEF b

LEMMA AcceptsWorkKeeps == ASSUME WorkInv, AcceptsWork PROVE Kept /\ InTurn'
<1> DEFINE Made(t) == IF board.task[t] = "unborn" THEN transition_task(board, t, "pending")
                      ELSE board
           Asks(t, first) == IF first THEN {Wake("resumed", t)} ELSE {}
<1>1. PICK t \in Bound, first \in BOOLEAN :
        TurnEnds(Replied(activate_work_activity(Made(t), t, "accepted")), Asks(t, first), TRUE)
  BY Zenon DEF AcceptsWork
<1>2. t \in Tasks /\ board.task[t] # "closed" /\ Sound(board) /\ Asks(t, first) \in SUBSET Wakes
  BY TurnWake, WakeForms
<1>3. Onward(board, Made(t))
  BY <1>2, MoveOnward, OnwardStays DEF Statuses
<1> HIDE DEF Made, Asks
<1>4. Onward(Made(t), activate_work_activity(Made(t), t, "accepted"))
  BY <1>2, <1>3, ActivateOnward DEF Onward
<1>5. Onward(board, activate_work_activity(Made(t), t, "accepted"))
  BY <1>3, <1>4, OnwardOn
<1> QED
  BY <1>1, <1>2, <1>5, ReplyKeeps

LEMMA AcceptsTalkKeeps == ASSUME WorkInv, AcceptsTalk PROVE Kept /\ InTurn'
<1>1. {Wake("resumed", NoTask)} \in SUBSET Wakes /\ FALSE \in BOOLEAN /\ Sound(board)
  BY TurnWake, WakeForms
<1> QED
  BY <1>1, CommitmentOnward, ReplyKeeps DEF AcceptsTalk

LEMMA DecisionKeeps == ASSUME WorkInv, Decision PROVE Kept /\ InTurn'
<1>1. CASE Observes
  BY <1>1, TurnWake, OnwardStays, ReplyKeeps DEF Observes
<1> QED
  BY <1>1, AnswersKeeps, CancelsKeeps, DeclinesKeeps, DefersKeeps, AcceptsWorkKeeps,
     AcceptsTalkKeeps DEF Decision


LEMMA NextWorkKeeps ==
  ASSUME WorkInv, NEW b, Onward(board, b), NEW ended, NEW next \in next_work_after_end(b, ended),
         TurnEnds(next.board, next.asks, FALSE)
  PROVE  Kept /\ InTurn'
<1>1. Onward(b, next.board) /\ next.asks \in SUBSET Wakes
  BY NextWorkOnward DEF Onward
<1>2. Onward(board, next.board) /\ FALSE \in BOOLEAN
  BY <1>1, OnwardOn
<1> QED
  BY <1>1, <1>2, EndKeeps

LEMMA SuspendsKeeps == ASSUME WorkInv, Suspends PROVE Kept /\ InTurn'
<1>1. PICK s \in {"waiting", "blocked"} :
        \E next \in next_work_after_end(pause_active_work(board, s), Live(board)) :
          TurnEnds(next.board, next.asks, FALSE)
  BY DEF Suspends
<1>2. Onward(board, pause_active_work(board, s))
  BY TurnWake, PauseOnward
<1> QED
  BY <1>1, <1>2, NextWorkKeeps

LEMMA EndsWorkKeeps == ASSUME WorkInv, EndsWork PROVE Kept /\ InTurn'
<1>1. Onward(board, Finished(board))
  BY TurnWake, FinishedOnward DEF EndsWork, OpenTasks
<1> QED
  BY <1>1, NextWorkKeeps DEF EndsWork

LEMMA WorksOnKeeps == ASSUME WorkInv, WorksOn PROVE Kept /\ InTurn'
<1>1. PICK asks \in {{}, {Wake("resumed", t) : t \in {Live(board)} \cap Tasks}} :
        TurnEnds(Beat(board), asks, FALSE)
  BY DEF WorksOn
<1>2. asks \in SUBSET Wakes /\ FALSE \in BOOLEAN
  BY WakeForms
<1>3. Onward(board, Beat(board))
  BY TurnWake, BeatOnward DEF Beat
<1> QED
  BY <1>1, <1>2, <1>3, EndKeeps

\* A talk begins over the live work, which is suspended as it is.
LEMMA TalkOnward ==
  ASSUME NEW b, Sound(b), NEW t, t = Live(b)
  PROVE  /\ t = NoTask => Onward(b, [b EXCEPT !.side = [kind |-> "talk", task |-> NoTask]])
         /\ t # NoTask => Onward(b, [b EXCEPT !.work[t] = "paused",
                                              !.side = [kind |-> "talk", task |-> t]])
<1>1. ASSUME t = NoTask
      PROVE  Onward(b, [b EXCEPT !.side = [kind |-> "talk", task |-> NoTask]])
  <2> DEFINE c == [b EXCEPT !.side = [kind |-> "talk", task |-> NoTask]]
  <2>1. c \in Boards /\ c.task = b.task /\ c.work = b.work
    BY DEF Sound, Boards
  <2>2. \A u \in Tasks : b.work[u] # "active"
    BY <1>1, LiveIs, NoTaskAssumption DEF Sound
  <2> HIDE DEF c
  <2>3. Onward(b, c)
    BY <2>1, <2>2 DEF Onward, Sound, OneAtATime
  <2> QED
    BY <2>3 DEF c
<1>2. ASSUME t # NoTask
      PROVE  Onward(b, [b EXCEPT !.work[t] = "paused", !.side = [kind |-> "talk", task |-> t]])
  <2> DEFINE c == [b EXCEPT !.work[t] = "paused", !.side = [kind |-> "talk", task |-> t]]
  <2>1. t \in Tasks
    BY <1>2, LiveIs DEF Sound
  <2>2. c \in Boards /\ c.task = b.task /\ c.work = [b.work EXCEPT ![t] = "paused"]
    BY <2>1 DEF Sound, Boards
  <2> HIDE DEF c
  <2>3. \A u \in Tasks : c.work[u] # "active"
    BY <2>1, <2>2, LiveIs, BoardFields DEF Sound
  <2>4. Onward(b, c)
    BY <2>2, <2>3 DEF Onward, Sound, OneAtATime
  <2> QED
    BY <2>4 DEF c
<1> QED
  BY <1>1, <1>2

LEMMA AttendsMeetingKeeps == ASSUME WorkInv, AttendsMeeting PROVE Kept /\ InTurn'
<1> DEFINE t == Live(board)
           d == Beat(board)
<1>0. Sound(board) /\ {} \in SUBSET Wakes /\ FALSE \in BOOLEAN
  BY TurnWake
<1>1. Onward(board, d) /\ Sound(d) /\ Live(d) = t
  <2>1. board.pinged \ {t} \in SUBSET Tasks
    BY <1>0, BoardFields DEF Sound
  <2> QED
    BY <1>0, <2>1, OnwardAlike DEF Beat, Onward
<1>2. CASE t = NoTask
  <2> DEFINE c == [board EXCEPT !.side = [kind |-> "talk", task |-> NoTask]]
  <2>1. TurnEnds(c, {}, FALSE)
    BY <1>2 DEF AttendsMeeting
  <2>2. Onward(board, c)
    BY <1>0, <1>2, TalkOnward, Zenon
  <2> HIDE DEF c
  <2> QED
    BY <1>0, <2>1, <2>2, EndKeeps
<1>3. CASE t # NoTask
  <2> DEFINE c == [d EXCEPT !.work[t] = "paused", !.side = [kind |-> "talk", task |-> t]]
  <2>1. TurnEnds(c, {}, FALSE)
    BY <1>3 DEF AttendsMeeting
  <2>2. Onward(d, c)
    BY <1>1, <1>3, TalkOnward, Zenon
  <2> HIDE DEF c, d
  <2> QED
    BY <1>0, <1>1, <2>1, <2>2, OnwardOn, EndKeeps
<1> QED
  BY <1>2, <1>3

LEMMA AsksApprovalKeeps == ASSUME WorkInv, AsksApproval PROVE Kept /\ InTurn'
<1>1. Onward(board, board')
  BY TurnWake, BeatOnward DEF Beat, AsksApproval
<1>2. turn' \in Turns /\ InTurn'
  BY TurnWake DEF AsksApproval, Turns, InTurn
<1> QED
  BY <1>1, <1>2 DEF Kept

LEMMA ExecutionKeeps == ASSUME WorkInv, Execution PROVE Kept /\ InTurn'
<1>0. {} \in SUBSET Wakes /\ FALSE \in BOOLEAN /\ Sound(board)
  BY TurnWake
<1>1. CASE BlocksUnproductive
  BY <1>0, <1>1, PauseOnward, EndKeeps DEF BlocksUnproductive
<1>2. CASE Idles
  BY <1>0, <1>2, LeavesOnward, EndKeeps DEF Idles
<1> QED
  BY <1>1, <1>2, WorksOnKeeps, SuspendsKeeps, EndsWorkKeeps, AttendsMeetingKeeps,
     AsksApprovalKeeps DEF Execution


\* Work in flight stays attended when one other task is taken from the agent.
LEMMA AttendedOn ==
  ASSUME NEW b, NEW c, Sound(b), Sound(c), Attended(b), NEW t \in Tasks,
         \A u \in Tasks \ {t} :
           c.work[u] = "active" => b.work[u] = "active" /\ c.task[u] = b.task[u],
         c.work[t] = "active" => c.task[t] \notin {"accepted", "active"},
         \A w \in b.wakes : w.task # t => w \in c.wakes
  PROVE  Attended(c)
<1> SUFFICES ASSUME Live(c) # NoTask, c.task[Live(c)] \in {"accepted", "active"}
             PROVE  \E w \in c.wakes : w.task \in {Live(c), NoTask}
  BY DEF Attended
<1>1. Live(c) \in Tasks /\ c.work[Live(c)] = "active" /\ Live(c) # t
  BY LiveIs DEF Sound
<1>2. Live(b) = Live(c) /\ b.task[Live(b)] \in {"accepted", "active"}
  BY <1>1, LiveIs DEF Sound
<1>3. PICK w \in b.wakes : w.task \in {Live(b), NoTask}
  BY <1>1, <1>2, NoTaskAssumption DEF Attended
<1> QED
  BY <1>1, <1>2, <1>3, NoTaskAssumption

\* The wakes are filed, and the live work has its own.
LEMMA ContinuedIsAttended ==
  ASSUME NEW b, Sound(b), NEW ws \in SUBSET Wakes, ~gate,
         ensure_live_work_continuation(b) \subseteq ws
  PROVE  Attended(Queues(b, ws))
<1>1. Live(Queues(b, ws)) = Live(b) /\ Queues(b, ws).task = b.task
      /\ Queues(b, ws).wakes = b.wakes \cup ws
  BY QueuesOnward
<1>2. Live(b) # NoTask /\ b.task[Live(b)] \in {"accepted", "active"} =>
        Wake("resumed", Live(b)) \in ws
  BY ContinuationForms DEF Sound
<1>3. Wake("resumed", Live(b)).task = Live(b)
  BY DEF Wake
<1> QED
  BY <1>1, <1>2, <1>3 DEF Attended

LEMMA RebuiltOnward ==
  ASSUME NEW b, Sound(b) PROVE Onward(b, Rebuilt(b))
<1> DEFINE ws == {w \in b.wakes : w.kind \in {"chat", "resolved"}}
                   \cup {Wake("assigned", t) : t \in {u \in Tasks : b.task[u] = "pending"}}
<1>1. ws \in SUBSET Wakes
  BY BoardFields, WakeForms DEF Sound
<1>2. Rebuilt(b) = [b EXCEPT !.wakes = ws]
  BY DEF Rebuilt
<1> HIDE DEF ws
<1> QED
  BY <1>1, <1>2, OnwardAlike

LEMMA ReplannedOnward ==
  ASSUME WorkInv PROVE Onward(board, Replanned) /\ Sound(Replanned)
BY TurnWake, RebuiltOnward, OnwardStays DEF Replanned, Onward

\* What the kept facts and the wakes leave to show for a step.
Served == ~InTurn' /\ ~gate' /\ incidents' = 0 => Attended(board')

\* After an incident the watchdog has to help.
LEMMA IncidentServed == ASSUME WorkInv, Incident PROVE Served
<1>1. incidents \in Nat /\ incidents' = incidents + 1
  BY BoundsAssumption DEF WorkInv, WorkTypeOK, Incident
<1> QED
  BY <1>1 DEF Served

\* A turn is over, or goes on as it was.
LEMMA TurnOver ==
  ASSUME WorkInv, Onward(board, board'), turn' = NoTurn \/ UNCHANGED turn PROVE Kept
<1>1. turn' = NoTurn => turn' \in Turns
  BY TurnForms
<1>2. UNCHANGED turn => turn' \in Turns /\ (InTurn' \/ turn' = NoTurn)
  BY TurnWake DEF WorkInv, InTurn
<1> QED
  BY <1>1, <1>2 DEF Kept

LEMMA FinishesKeeps == ASSUME WorkInv, Finishes PROVE Kept /\ Served
<1> DEFINE ws == turn.asks \cup ensure_live_work_continuation(Replanned)
<1>1. Sound(Replanned) /\ Onward(board, Replanned)
  BY ReplannedOnward
<1>2. ws \in SUBSET Wakes
  BY <1>1, TurnWake, ContinuationForms DEF Turns, Sound
<1>3. board' = Queues(Replanned, ws) /\ turn' = NoTurn /\ gate' = gate
  BY DEF Finishes
<1>4. ~gate => Attended(board')
  BY <1>1, <1>2, <1>3, ContinuedIsAttended
<1> HIDE DEF ws
<1>5. Onward(board, board')
  BY <1>1, <1>2, <1>3, QueuesOnward, OnwardOn
<1> QED
  BY <1>3, <1>4, <1>5, TurnOver DEF Served

LEMMA SkipsKeeps == ASSUME WorkInv, Skips PROVE Kept /\ Served
<1>1. Sound(board) /\ ensure_live_work_continuation(board) \in SUBSET Wakes
  BY TurnWake, ContinuationForms DEF Sound
<1>2. Onward(board, board')
  BY <1>1, OnwardStays, QueuesOnward DEF Skips
<1> QED
  BY <1>2, TurnOver, IncidentServed DEF Skips

LEMMA RetriesKeeps == ASSUME WorkInv, Retries PROVE Kept /\ Served
<1>1. Sound(board) /\ {turn.wake} \in SUBSET Wakes
  BY TurnWake
<1>2. Onward(board, board')
  BY <1>1, QueuesOnward DEF Retries
<1> QED
  BY <1>2, TurnOver, IncidentServed DEF Retries

LEMMA GivesUpKeeps == ASSUME WorkInv, GivesUp PROVE Kept /\ Served
<1> DEFINE t == IF turn.wake.task # NoTask THEN turn.wake.task ELSE Live(board)
           b == transition_task(board, t, "blocked")
<1>0. board' = (IF t \in OpenTasks(board) THEN Clears(b) ELSE Leaves(board))
      /\ turn' = NoTurn /\ Incident
  BY DEF GivesUp
<1>1. Sound(board)
  BY TurnWake
<1>2. CASE t \in OpenTasks(board)
  <2>1. t \in Tasks /\ board.task[t] # "closed"
    BY <1>2 DEF OpenTasks, is_live_work_task
  <2> HIDE DEF t
  <2>2. Onward(board, b)
    BY <1>1, <2>1, MoveOnward DEF Statuses
  <2> HIDE DEF b
  <2>3. Onward(b, Clears(b))
    BY <2>2, ClearsOnward DEF Onward
  <2> QED
    BY <1>0, <1>2, <2>2, <2>3, OnwardOn, TurnOver, IncidentServed
<1>3. CASE t \notin OpenTasks(board)
  BY <1>0, <1>1, <1>3, LeavesOnward, TurnOver, IncidentServed
<1> QED
  BY <1>2, <1>3

LEMMA CrashesKeeps == ASSUME WorkInv, Crashes PROVE Kept /\ Served
<1>1. /\ Onward(board, board) /\ Onward(board, Replanned) /\ Sound(board) /\ Sound(Replanned)
      /\ {turn.wake} \in SUBSET Wakes /\ turn.asks \in SUBSET Wakes
  BY TurnWake, ReplannedOnward, OnwardStays DEF Turns
<1>2. Onward(board, board')
  BY <1>1, QueuesOnward, OnwardOn DEF Crashes
<1> QED
  BY <1>2, TurnOver, IncidentServed DEF Crashes


LEMMA PingsKeeps == ASSUME WorkInv, NEW t \in Tasks, Pings(t) PROVE Kept /\ Served
<1> DEFINE c == Queues(board, {Wake("ping", t)})
           ps == board.pinged \cup {t}
<1>1. Sound(board) /\ {Wake("ping", t)} \in SUBSET Wakes
  BY TurnWake, WakeForms
<1>2. Onward(board, c) /\ Live(c) = Live(board) /\ c.task = board.task /\ board.wakes \subseteq c.wakes
  BY <1>1, QueuesOnward
<1>3. c.pinged = board.pinged
  BY <1>1, BoardFields DEF Queues, Sound, Boards
<1>4. board' = [c EXCEPT !.pinged = ps]
  BY <1>3 DEF Pings
<1>5. ps \in SUBSET Tasks /\ Sound(c)
  BY <1>1, <1>2, BoardFields DEF Sound, Onward
<1> HIDE DEF c, ps
<1>6. Onward(c, board') /\ Live(board') = Live(c) /\ board'.task = c.task /\ board'.wakes = c.wakes
  BY <1>4, <1>5, OnwardAlike DEF Sound, Boards
<1>7. Attended(board) => Attended(board')
  BY <1>2, <1>6 DEF Attended
<1>8. Onward(board, board') /\ UNCHANGED <<gate, turn, incidents>>
  BY <1>2, <1>6, OnwardOn DEF Pings
<1>9. Served
  BY <1>7, <1>8 DEF Served, WorkInv, InTurn
<1> QED
  BY <1>8, <1>9, TurnOver

LEMMA EscalatesKeeps == ASSUME WorkInv, NEW t \in Tasks, Escalates(t) PROVE Kept /\ Served
<1> DEFINE b == [board EXCEPT !.task[t] = "blocked"]
<1>1. Sound(board) /\ board.task[t] # "closed"
  BY TurnWake DEF Escalates, InFlight
<1>2. b \in Boards /\ b.task = [board.task EXCEPT ![t] = "blocked"] /\ b.work = board.work
      /\ b.side = board.side
  BY <1>1 DEF Sound, Boards, Statuses
<1>3. board' = Clears(b) /\ UNCHANGED turn
  BY DEF Escalates
<1> HIDE DEF b
<1>4. Onward(board, b)
  BY <1>1, <1>2, BoardFields DEF Onward, Sound, OneAtATime
<1>5. Onward(b, board') /\ \A u \in Tasks : board'.work[u] # "active"
  BY <1>3, <1>4, ClearsOnward DEF Onward
<1>6. Attended(board')
  BY <1>5, LiveIs DEF Attended, Onward, Sound
<1> QED
  BY <1>3, <1>4, <1>5, <1>6, OnwardOn, TurnOver DEF Served

LEMMA EndMeetingKeeps == ASSUME WorkInv, _end_meeting PROVE Kept /\ Served
<1> DEFINE b == [Leaves(board) EXCEPT !.wakes = @ \ {Wake("resumed", NoTask)}]
           ws == {w \in ensure_live_work_continuation(b) : w # turn.wake}
<1>1. Onward(board, b) /\ Sound(b)
  <2>1. Onward(board, Leaves(board)) /\ Sound(Leaves(board))
    BY TurnWake, LeavesOnward DEF Onward
  <2>2. Onward(Leaves(board), b)
    BY <2>1, TakenOnward
  <2> HIDE DEF b
  <2> QED
    BY <2>1, <2>2, OnwardOn DEF Onward
<1>2. board' = Queues(b, ws) /\ UNCHANGED <<gate, turn, incidents>>
  BY DEF _end_meeting
<1> HIDE DEF b
<1>3. ws \in SUBSET Wakes /\ ensure_live_work_continuation(b) \subseteq {Wake("resumed", Live(b))}
  BY <1>1, ContinuationForms DEF Sound, ensure_live_work_continuation
<1>4. ~InTurn => ensure_live_work_continuation(b) \subseteq ws
  <2>1. ~InTurn => turn.wake.kind = "chat"
    BY DEF WorkInv, NoTurn, Wake
  <2>2. Wake("resumed", Live(b)).kind = "resumed"
    BY DEF Wake
  <2> QED
    BY <1>3, <2>1, <2>2
<1> HIDE DEF ws
<1>5. ~InTurn /\ ~gate => Attended(board')
  BY <1>1, <1>2, <1>3, <1>4, ContinuedIsAttended
<1>6. Onward(board, board')
  BY <1>1, <1>2, <1>3, QueuesOnward, OnwardOn
<1>7. Served
  BY <1>2, <1>5 DEF Served, InTurn
<1> QED
  BY <1>2, <1>6, <1>7, TurnOver

\* A wake that any work is good for is queued.
LEMMA WokenIsAttended ==
  ASSUME NEW b, NEW w \in b.wakes, w.task = NoTask PROVE Attended(b)
BY DEF Attended

LEMMA ResolvedKeeps == ASSUME WorkInv, resume_cli_approval PROVE Kept /\ Served
<1> DEFINE w == Wake("resolved", NoTask)
<1>1. Sound(board) /\ {w} \in SUBSET Wakes /\ w.task = NoTask
  BY TurnWake, WakeForms
<1> HIDE DEF w
<1>2. CASE board' = Queues(board, {w}) /\ UNCHANGED turn
  <2>1. Onward(board, board') /\ w \in board'.wakes
    BY <1>1, <1>2, QueuesOnward
  <2> QED
    BY <1>1, <1>2, <2>1, WokenIsAttended, TurnOver DEF Served
<1>3. CASE Incident /\ UNCHANGED <<board, turn>>
  BY <1>1, <1>3, OnwardStays, TurnOver, IncidentServed
<1> QED
  BY <1>2, <1>3 DEF resume_cli_approval, w

LEMMA ChatsKeeps == ASSUME WorkInv, Chats PROVE Kept /\ Served
<1> DEFINE w == Wake("chat", NoTask)
           ws == {v \in board.wakes : v.kind \notin {"resumed", "ping"}} \cup {w}
<1>1. Sound(board) /\ ws \in SUBSET Wakes /\ w.task = NoTask /\ w \in ws
  BY TurnWake, WakeForms, BoardFields DEF Sound
<1>2. board' = [board EXCEPT !.wakes = ws] /\ UNCHANGED turn
  BY DEF Chats
<1> HIDE DEF w, ws
<1>3. Onward(board, board') /\ w \in board'.wakes
  BY <1>1, <1>2, OnwardAlike DEF Sound, Boards
<1> QED
  BY <1>1, <1>2, <1>3, WokenIsAttended, TurnOver DEF Served

\* A step of the app on one task.
LEMMA AppKeeps ==
  ASSUME WorkInv, NEW t \in Tasks, Onward(board, board'), UNCHANGED <<gate, turn>>,
         incidents' = incidents,
         \A u \in Tasks \ {t} :
           board'.work[u] = "active" =>
             board.work[u] = "active" /\ board'.task[u] = board.task[u],
         board'.work[t] = "active" => board'.task[t] \notin {"accepted", "active"},
         \A w \in board.wakes : w.task # t => w \in board'.wakes
  PROVE  Kept /\ Served
<1>1. Sound(board) /\ Sound(board')
  BY TurnWake DEF Onward
<1>2. Attended(board) => Attended(board')
  BY <1>1, AttendedOn
<1>3. Served
  BY <1>2 DEF Served, WorkInv, InTurn
<1> QED
  BY <1>3, TurnOver

LEMMA AssignsKeeps == ASSUME WorkInv, NEW t \in Tasks, Assigns(t) PROVE Kept /\ Served
<1> DEFINE b == transition_task(board, t, "pending")
<1>1. Sound(board) /\ {Wake("assigned", t)} \in SUBSET Wakes /\ board.task \in [Tasks -> Statuses]
  BY TurnWake, WakeForms, BoardFields DEF Sound
<1>2. Onward(board, b) /\ b.task = [board.task EXCEPT ![t] = "pending"] /\ b.work = board.work
      /\ b.wakes = board.wakes
  BY <1>1, MoveOnward DEF Assigns, Statuses
<1>3. board' = Queues(b, {Wake("assigned", t)}) /\ UNCHANGED <<gate, turn>> /\ incidents' = incidents
  BY DEF Assigns
<1> HIDE DEF b
<1>4. Sound(b) /\ Queues(b, {Wake("assigned", t)}).work = b.work
  BY <1>2 DEF Onward, Queues, Sound, Boards
<1>5. Onward(b, board') /\ board'.wakes = b.wakes \cup {Wake("assigned", t)}
      /\ board'.task = b.task /\ board'.work = b.work
  BY <1>1, <1>3, <1>4, QueuesOnward
<1>6. Onward(board, board')
  BY <1>2, <1>5, OnwardOn
<1> QED
  BY <1>1, <1>2, <1>3, <1>5, <1>6, AppKeeps

LEMMA ClosesKeeps == ASSUME WorkInv, NEW t \in Tasks, Closes(t) PROVE Kept /\ Served
<1> DEFINE b == transition_task(board, t, "closed")
<1>1. /\ Sound(board) /\ board.task \in [Tasks -> Statuses]
      /\ board.work \in [Tasks -> {"none", "active", "paused"}]
  BY TurnWake, BoardFields DEF Sound
<1>2. Onward(board, b) /\ b.task = [board.task EXCEPT ![t] = "closed"] /\ b.work = board.work
      /\ b.wakes = board.wakes
  BY <1>1, MoveOnward DEF Statuses
<1>3. board' = Retires(b, t) /\ UNCHANGED <<gate, turn>> /\ incidents' = incidents
  BY DEF Closes
<1> HIDE DEF b
<1>3a. Sound(b)
  BY <1>2 DEF Onward
<1>4. /\ Onward(b, board') /\ board'.task = b.task /\ board'.wakes = {w \in b.wakes : w.task # t}
      /\ board'.work = [b.work EXCEPT ![t] = "none"]
  BY <1>3, <1>3a, RetiresOnward
<1>5. Onward(board, board')
  BY <1>2, <1>4, OnwardOn
<1> QED
  BY <1>1, <1>2, <1>3, <1>4, <1>5, AppKeeps

LEMMA StartsOverKeeps == ASSUME WorkInv, NEW t \in Tasks, StartsOver(t) PROVE Kept /\ Served
<1> DEFINE ws == {w \in board.wakes : w.task # t}
           as == {Wake("assigned", t)}
           b == IF board.task[t] = "pending" THEN [board EXCEPT !.wakes = ws]
                ELSE transition_task(Retires(board, t), t, "pending")
<1>1. /\ Sound(board) /\ as \in SUBSET Wakes /\ ws \in SUBSET Wakes
      /\ board.task \in [Tasks -> Statuses]
      /\ board.work \in [Tasks -> {"none", "active", "paused"}]
  BY TurnWake, WakeForms, BoardFields DEF Sound
<1>2. board' = Queues(b, as) /\ UNCHANGED <<gate, turn>> /\ incidents' = incidents
  BY DEF StartsOver
<1>3. /\ Onward(board, b) /\ b.wakes = ws
      /\ b.work[t] = "active" => b.task[t] = "pending"
      /\ \A u \in Tasks \ {t} : b.work[u] = board.work[u] /\ b.task[u] = board.task[u]
  <2>1. CASE board.task[t] = "pending"
    <3>1. b = [board EXCEPT !.wakes = ws]
      BY <2>1
    <3> HIDE DEF b, ws
    <3>2. Onward(board, b) /\ b.wakes = ws /\ b.task = board.task /\ b.work = board.work
      BY <1>1, <3>1, OnwardAlike DEF Sound, Boards
    <3> QED
      BY <2>1, <3>2
  <2>2. CASE board.task[t] # "pending"
    <3> DEFINE r == Retires(board, t)
    <3>1. /\ Onward(board, r) /\ r.task = board.task /\ r.wakes = ws
          /\ r.work = [board.work EXCEPT ![t] = "none"]
      BY <1>1, RetiresOnward
    <3>2. b = transition_task(r, t, "pending") /\ board.task[t] # "closed"
      BY <2>2 DEF StartsOver, OpenTasks, is_live_work_task
    <3> HIDE DEF r, b, ws
    <3>3. /\ Onward(r, b) /\ b.task = [r.task EXCEPT ![t] = "pending"]
          /\ b.work = r.work /\ b.wakes = r.wakes
      BY <3>1, <3>2, MoveOnward DEF Onward, Statuses
    <3> QED
      BY <1>1, <3>1, <3>3, OnwardOn
  <2> QED
    BY <2>1, <2>2
<1> HIDE DEF b, as
<1>4. Sound(b) /\ Queues(b, as).work = b.work
  BY <1>3 DEF Onward, Queues, Sound, Boards
<1>5. Onward(b, board') /\ board'.wakes = b.wakes \cup as
      /\ board'.task = b.task /\ board'.work = b.work
  BY <1>1, <1>2, <1>4, QueuesOnward
<1>6. Onward(board, board')
  BY <1>3, <1>5, OnwardOn
<1>7. /\ \A u \in Tasks \ {t} : board'.work[u] = board.work[u] /\ board'.task[u] = board.task[u]
      /\ board'.work[t] = "active" => board'.task[t] \notin {"accepted", "active"}
  BY <1>3, <1>5
<1>8. \A w \in board.wakes : w.task # t => w \in board'.wakes
  BY <1>3, <1>5
<1> QED
  BY <1>2, <1>6, <1>7, <1>8, AppKeeps


\* The counters and the approval.
LEMMA CountersKeep ==
  ASSUME WorkInv, WorkNext
  PROVE  gate' \in BOOLEAN /\ incidents' \in 0 .. MaxIncidents /\ clicks' \in 0 .. MaxClicks
<1> DEFINE Same == gate' = gate /\ incidents' = incidents /\ clicks' = clicks
<1>1. gate \in BOOLEAN /\ incidents \in 0 .. MaxIncidents /\ clicks \in 0 .. MaxClicks
  BY DEF WorkInv, WorkTypeOK
<1>2. /\ Incident => incidents' \in 0 .. MaxIncidents
      /\ Click => clicks' \in 0 .. MaxClicks
  BY <1>1, BoundsAssumption DEF Incident, Click
<1>3. \A b, asks, r : TurnEnds(b, asks, r) => Same
  BY Zenon DEF TurnEnds
<1>4. Claims => Same
  BY Zenon DEF Claims
<1>5. Decision => Same
  BY <1>3, Zenon DEF Decision, Answers, Observes, Cancels, Declines, Defers, AcceptsWork, AcceptsTalk
<1>6. Execution => Same \/ (gate' = TRUE /\ incidents' = incidents /\ clicks' = clicks)
  BY <1>3, Zenon DEF Execution, WorksOn, Suspends, EndsWork, BlocksUnproductive, Idles,
     AttendsMeeting, AsksApproval
<1>7. Finishes \/ Watches \/ _end_meeting \/ (\E t \in Tasks : Assigns(t)) => Same
  BY Zenon DEF Finishes, Watches, Pings, Escalates, _end_meeting, Assigns
<1>8. Skips \/ Retries \/ GivesUp \/ Crashes => Incident /\ gate' = gate /\ clicks' = clicks
  BY Zenon DEF Skips, Retries, GivesUp, Crashes
<1>9. Chats \/ (\E t \in Tasks : Closes(t) \/ StartsOver(t)) =>
        Click /\ gate' = gate /\ incidents' = incidents
  BY Zenon DEF Chats, Closes, StartsOver
<1>10. resume_cli_approval => gate' = FALSE /\ clicks' = clicks /\ (incidents' = incidents \/ Incident)
  BY Zenon DEF resume_cli_approval
<1> HIDE DEF Same
<1>11. Same => gate' \in BOOLEAN /\ incidents' \in 0 .. MaxIncidents /\ clicks' \in 0 .. MaxClicks
  BY <1>1 DEF Same
<1> QED
  BY <1>1, <1>2, <1>4, <1>5, <1>6, <1>7, <1>8, <1>9, <1>10, <1>11 DEF WorkNext, TurnSteps

LEMMA WorkInitially == ASSUME WorkInit PROVE WorkInv
<1>1. /\ board \in Boards /\ (\A t \in Tasks : board.work[t] # "active")
      /\ board.side.kind = "none"
  BY DEF WorkInit, Boards, Statuses, NoSide
<1>2. gate = FALSE /\ gate \in BOOLEAN /\ turn \in Turns /\ turn = NoTurn /\ incidents = 0 /\ clicks = 0
  BY TurnForms DEF WorkInit
<1>3. Attended(board) /\ OneAtATime(board)
  BY <1>1, LiveIs DEF Attended, OneAtATime
<1>4. incidents \in 0 .. MaxIncidents /\ clicks \in 0 .. MaxClicks
  BY <1>2, BoundsAssumption
<1>5. WorkTypeOK
  BY <1>1, <1>2, <1>4, Zenon DEF WorkTypeOK, Turns
<1> QED
  BY <1>2, <1>3, <1>5, Zenon DEF WorkInv

\* Every step: one case for each action.
LEMMA WorkGoesOn ==
  ASSUME WorkInv, [WorkNext]_workVars PROVE WorkInv' /\ Onward(board, board')
<1>1. ASSUME WorkNext PROVE Kept /\ Served
  <2>1. CASE Claims
    BY <2>1, ClaimsKeeps DEF Served
  <2>2. CASE Decision
    BY <2>2, DecisionKeeps DEF Served
  <2>3. CASE Execution
    BY <2>3, ExecutionKeeps DEF Served
  <2>4. CASE Finishes
    BY <2>4, FinishesKeeps
  <2>5. CASE Watches
    BY <2>5, PingsKeeps, EscalatesKeeps DEF Watches
  <2>6. CASE Skips \/ Retries \/ GivesUp \/ Crashes
    BY <2>6, SkipsKeeps, RetriesKeeps, GivesUpKeeps, CrashesKeeps
  <2>7. CASE _end_meeting \/ resume_cli_approval \/ Chats
    BY <2>7, EndMeetingKeeps, ResolvedKeeps, ChatsKeeps
  <2>8. CASE \E t \in Tasks : Assigns(t) \/ Closes(t) \/ StartsOver(t)
    BY <2>8, AssignsKeeps, ClosesKeeps, StartsOverKeeps
  <2> QED
    BY <1>1, <2>1, <2>2, <2>3, <2>4, <2>5, <2>6, <2>7, <2>8 DEF WorkNext, TurnSteps
<1>2. CASE WorkNext
  <2>1. WorkTypeOK'
    BY <1>1, <1>2, CountersKeep DEF Kept, Onward, Sound, Turns, WorkTypeOK
  <2> QED
    BY <1>1, <1>2, <2>1 DEF WorkInv, Kept, Served, Onward, Sound
<1>3. CASE UNCHANGED workVars
  <2>1. WorkInv'
    BY <1>3 DEF WorkInv, WorkTypeOK, workVars, InTurn
  <2>2. Onward(board, board')
    BY <1>3, TurnWake, OnwardStays DEF workVars
  <2> QED
    BY <2>1, <2>2
<1> QED
  BY <1>2, <1>3

LEMMA WorkHolds == WorkSpec => []WorkInv
<1>1. WorkInit => WorkInv
  BY WorkInitially
<1>2. WorkInv /\ [WorkNext]_workVars => WorkInv'
  BY WorkGoesOn
<1> QED
  BY <1>1, <1>2, PTL DEF WorkSpec

\* Type correctness of LiveWork.
THEOREM WorkTypes == WorkSpec => []WorkTypeOK
BY WorkHolds, PTL DEF WorkInv

\* "Every agent is doing one thing": one work activity or one thing beside it.
THEOREM OneThingAtATime == WorkSpec => []OneActivity
<1>1. ASSUME WorkInv PROVE OneActivity
  <2> DEFINE A == {t \in Tasks : board.work[t] = "active"}
  <2>1. \A t, u \in A : t = u
    BY <1>1 DEF WorkInv, OneAtATime
  <2>2. board.side.kind # "none" => A = {}
    BY <1>1 DEF WorkInv, OneAtATime
  <2>3. A = {} \/ \E t \in A : A = {t}
    BY <2>1
  <2> HIDE DEF A
  <2>4. Cardinality(A) \in {0, 1} /\ (A = {} => Cardinality(A) = 0)
    BY <2>3, FS_EmptySet, FS_Singleton
  <2>5. Cardinality(A) + (IF board.side.kind = "none" THEN 0 ELSE 1) <= 1
    BY <2>2, <2>4
  <2> QED
    BY <1>1, <2>5 DEF OneActivity, WorkInv, A
<1> QED
  BY <1>1, WorkHolds, PTL

\* "An agent with an accepted or active task on its live work activity always
\* has a next execution turn queued" (ensure_live_work_continuation).
THEOREM LiveWorkHasItsTurn == WorkSpec => []LiveWorkIsDriven
<1>1. ASSUME WorkInv PROVE LiveWorkIsDriven
  BY <1>1 DEF WorkInv, LiveWorkIsDriven, Attended, InFlight
<1> QED
  BY <1>1, WorkHolds, PTL

\* Two statuses that a step may leave one after the other are on the map.
LEMMA ReadsOnTheMap ==
  ASSUME NEW s \in Statuses \ {"unborn"}, NEW r \in Statuses \ {"unborn"},
         s = "closed" => r = "closed", NEW from \in Reads(s)
  PROVE  \E to \in Reads(r) : is_allowed(from, to)
<1>1. s = "closed" \/ (r = "closed" /\ s # "closed") \/ (s # "closed" /\ r # "closed")
  OBVIOUS
<1>2. CASE s = "closed"
  <2>1. Reads(r) = Reads(s)
    BY <1>2
  <2> QED
    BY <2>1 DEF is_allowed
<1>3. CASE r = "closed" /\ s # "closed"
  <2>1. "abandoned" \in Reads(r) /\ from \in {"pending"} \cup Working
    BY <1>3 DEF Reads, Statuses, Working, Terminal
  <2>2. is_allowed(from, "abandoned")
    BY <2>1 DEF is_allowed, OnMap, Status, Working, Terminal
  <2> QED
    BY <2>1, <2>2
<1>4. CASE s # "closed" /\ r # "closed"
  <2>1. from \in {"pending", "accepted", "active", "waiting", "blocked", "stalled"}
    BY <1>4 DEF Reads, Statuses
  <2>2. PICK to \in {"pending", "accepted", "active", "waiting", "blocked"} : to \in Reads(r)
    BY <1>4 DEF Reads, Statuses
  <2>3. is_allowed(from, to)
    BY <2>1, <2>2 DEF is_allowed, OnMap, Status, Working, Terminal
  <2> QED
    BY <2>2, <2>3
<1> QED
  BY <1>1, <1>2, <1>3, <1>4

\* transition_task never meets a move it refuses: whatever the turns, the app
\* and the watchdog do, a task leaves its status along the map, and a closed one
\* stays closed.
THEOREM WorkKeepsToTheMap == WorkSpec => WorkMovesOnTheMap
<1> DEFINE Moved ==
      \A t \in Tasks : board.task[t] # "unborn" =>
        \A from \in Reads(board.task[t]) : \E to \in Reads(board'.task[t]) :
          is_allowed(from, to)
<1>1. ASSUME WorkInv, [WorkNext]_workVars PROVE [Moved]_workVars
  <2>1. Onward(board, board') /\ board \in Boards /\ board' \in Boards
    BY <1>1, WorkGoesOn, TurnWake DEF Onward, Sound
  <2>2. board.task \in [Tasks -> Statuses] /\ board'.task \in [Tasks -> Statuses]
    BY <2>1, BoardFields
  <2> QED
    BY <2>1, <2>2, ReadsOnTheMap DEF Onward
<1>2. WorkInv /\ [WorkNext]_workVars => [Moved]_workVars
  BY <1>1
<1> HIDE DEF Moved
<1>3. []WorkInv /\ [][WorkNext]_workVars => [][Moved]_workVars
  BY <1>2, PTL
<1> QED
  BY <1>3, WorkHolds, PTL DEF WorkSpec, WorkMovesOnTheMap, Moved
==============================================================================
