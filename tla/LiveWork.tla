------------------------------ MODULE LiveWork ------------------------------
(* The work of one agent: the activities that say what it is doing, the     *)
(* tasks they belong to, and the wakes that keep it going. The agent's      *)
(* turns, the app and the watchdog move them; a stretch of code without an  *)
(* await is one step.                                                       *)
EXTENDS TaskStatus, FiniteSets, Naturals

CONSTANTS
  MaxIncidents, \* crashes, failures, skipped turns and lost wakes
  MaxClicks     \* messages of the boss and edits or ends of tasks by an operator

ASSUME BoundsAssumption == MaxIncidents \in Nat /\ MaxClicks \in Nat

VARIABLES
  board,      \* tasks, activities, queued wakes and the watchdog's marks
  gate,       \* a CLI approval of the agent is pending
  turn,       \* the claimed wake and what its turn will file
  incidents,
  clicks

workVars == <<board, gate, turn, incidents, clicks>>

Statuses == {"unborn", "pending", "accepted", "active", "waiting", "blocked", "closed"}
Wakes ==
  [kind : {"assigned", "resumed", "ping"}, task : Tasks]
    \cup [kind : {"resumed", "chat", "resolved"}, task : {NoTask}]
Boards ==
  [task   : [Tasks -> Statuses],
   work   : [Tasks -> {"none", "active", "paused"}],
   side   : [kind : {"none", "assignment", "talk"}, task : Tasks \cup {NoTask}],
   wakes  : SUBSET Wakes,
   pinged : SUBSET Tasks]
NoSide == [kind |-> "none", task |-> NoTask]
Wake(k, t) == [kind |-> k, task |-> t]
NoTurn == [at |-> "idle", wake |-> Wake("chat", NoTask), asks |-> {}, replan |-> FALSE]

WorkTypeOK ==
  /\ board \in Boards /\ gate \in BOOLEAN
  /\ turn \in [at : {"idle", "body", "ending"}, wake : Wakes, asks : SUBSET Wakes,
               replan : BOOLEAN]
  /\ incidents \in 0 .. MaxIncidents /\ clicks \in 0 .. MaxClicks

-----------------------------------------------------------------------------
(* Activities. A work activity belongs to a task; beside them the agent has *)
(* at most one other, an assignment to look at or a talk (a meeting or a    *)
(* conversation) over the work it suspended.                                *)

is_live_work_task(b, t) == t \in Tasks /\ b.task[t] \notin {"unborn", "closed"}
OpenTasks(b) == {t \in Tasks : is_live_work_task(b, t)}

\* get_active_work_activity, by its task.
Live(b) == IF \E t \in Tasks : b.work[t] = "active"
           THEN CHOOSE t \in Tasks : b.work[t] = "active" ELSE NoTask

\* transition_task with watchdog_pinged_at=None.
transition_task(b, t, status) == [b EXCEPT !.task[t] = status, !.pinged = @ \ {t}]

\* refresh_agent_status: live work clears the soft block of its task.
refresh_agent_status(b) ==
  IF Live(b) # NoTask /\ b.task[Live(b)] = "blocked"
  THEN transition_task(b, Live(b), "active") ELSE b

pause_active_work(b, status) ==
  LET t == Live(b)
  IN IF t = NoTask THEN b
     ELSE IF is_live_work_task(b, t)
          THEN [transition_task(b, t, status) EXCEPT !.work[t] = "paused"]
          ELSE [b EXCEPT !.work[t] = "none"]

\* Seeded fault: the assignment or talk is left open beside the work.
ActivatesBeside(b, t, status) ==
  [transition_task(pause_active_work(b, "pending"), t, status) EXCEPT !.work[t] = "active"]

\* activate_work_activity: older work is paused and loses its queued resume.
activate_work_activity(b, t, status) ==
  LET older == Live(b)
      paused == IF older \in {NoTask, t} THEN b
                ELSE [pause_active_work(b, "pending")
                        EXCEPT !.wakes = @ \ {Wake("resumed", older)}]
  IN IF is_live_work_task(b, t)
     THEN [transition_task(paused, t, status) EXCEPT !.work[t] = "active", !.side = NoSide]
     ELSE [b EXCEPT !.work[t] = "none"]

\* complete_activity or cancel_activity of what the agent does beside work:
\* the suspended work becomes active, and its task keeps its status.
Leaves(b) ==
  LET t == IF b.side.kind = "talk" THEN b.side.task ELSE NoTask
  IN refresh_agent_status(
       IF t # NoTask /\ b.work[t] = "paused"
       THEN [b EXCEPT !.side = NoSide, !.work[t] = "active"]
       ELSE [b EXCEPT !.side = NoSide])

\* _complete_assignment_if_present
DropsAssignment(b) == IF b.side.kind = "assignment" THEN Leaves(b) ELSE b

\* begin_commitment_activity: work goes back to pending, a talk is replaced.
begin_commitment_activity(b) ==
  LET parent == IF Live(b) \in OpenTasks(b) THEN Live(b)
                ELSE IF b.side.kind = "talk" THEN b.side.task ELSE NoTask
  IN [pause_active_work(b, "pending") EXCEPT !.side = [kind |-> "talk", task |-> parent]]

\* cancel_open_activities
Clears(b) == [b EXCEPT !.work = [t \in Tasks |-> "none"], !.side = NoSide]

\* The live work ends for good, with its task.
Finished(b) == [transition_task(b, Live(b), "closed") EXCEPT !.work[Live(b)] = "none"]

\* What an operator does to one task: its activities end, its wakes go.
Retires(b, t) ==
  [b EXCEPT !.work[t] = "none", !.wakes = {w \in @ : w.task # t},
            !.side = IF @ = [kind |-> "assignment", task |-> t] THEN NoSide ELSE @]

-----------------------------------------------------------------------------
(* What comes next. An outcome is a board and the wakes the turn will file. *)

Outcome(b, asks) == [board |-> b, asks |-> asks]

\* requeue_commitment; the claimed wake counts as open.
requeue_commitment(b, t) ==
  IF /\ b.task[t] \in {"accepted", "active", "waiting", "blocked"}
          \/ (b.task[t] = "pending" /\ b.work[t] = "paused")
     /\ Wake("resumed", t) \notin b.wakes \cup {turn.wake}
  THEN Outcome(IF b.work[t] # "active" /\ (b.work[t] = "paused" \/ b.task[t] # "active")
               THEN activate_work_activity(b, t, "active") ELSE b,
               {Wake("resumed", t)})
  ELSE Outcome(b, {})

\* next_work_after_end: paused work first, then the backlog.
next_work_after_end(b, ended) ==
  LET pending == {t \in Tasks \ {ended} : b.task[t] = "pending"}
      paused == {t \in pending : b.work[t] = "paused"}
  IN IF Live(b) # NoTask \/ (\E w \in b.wakes : w.kind \in {"resumed", "assigned"})
          \/ pending = {}
     THEN {Outcome(b, {})}
     ELSE IF paused # {} THEN {requeue_commitment(b, t) : t \in paused}
     ELSE {Outcome(b, {Wake("assigned", t)}) : t \in pending}

\* Seeded fault: the check forgets the accepted task.
EnsuresActive(b) ==
  IF Live(b) # NoTask /\ b.task[Live(b)] = "active" /\ ~gate
  THEN {Wake("resumed", Live(b))} ELSE {}

\* ensure_live_work_continuation
ensure_live_work_continuation(b) ==
  IF Live(b) # NoTask /\ b.task[Live(b)] \in {"accepted", "active"} /\ ~gate
  THEN {Wake("resumed", Live(b))} ELSE {}

Queues(b, new) == [b EXCEPT !.wakes = @ \cup new]

-----------------------------------------------------------------------------
(* A turn begins: its wake is claimed and prepared.                         *)

InTurn == turn.at # "idle"
Incident == incidents < MaxIncidents /\ incidents' = incidents + 1
Click == clicks < MaxClicks /\ clicks' = clicks + 1

\* resolve_live_wake_task: live work, then paused work, then any open task.
LiveWakeTasks(b) ==
  IF Live(b) \in OpenTasks(b) THEN {Live(b)}
  ELSE LET paused == {t \in OpenTasks(b) : b.work[t] = "paused"}
       IN IF paused # {} THEN paused ELSE OpenTasks(b)

\* prepare_trigger_context for a resume of t.
Resumes(b, t) ==
  IF b.work[t] = "active" THEN refresh_agent_status(b)
  ELSE activate_work_activity(b, t, "active")

\* prepare_trigger_context: a pending assignment is looked at when the agent
\* does nothing else; any other wake clears the soft block of live work.
Presents(b, w) ==
  IF w.kind = "assigned" /\ b.task[w.task] = "pending"
  THEN IF Live(b) = NoTask /\ b.side = NoSide
       THEN [b EXCEPT !.side = [kind |-> "assignment", task |-> w.task]] ELSE b
  ELSE refresh_agent_status(b)

TurnBegins(b, w) ==
  /\ board' = b
  /\ turn' = [NoTurn EXCEPT !.at = "body", !.wake = w]

\* A ping without live work fails; the resume of a closed task goes to other
\* open work, and without any it ends at once.
Claims ==
  /\ ~InTurn
  /\ \E w \in board.wakes :
       LET b == [board EXCEPT !.wakes = @ \ {w}]
           closed == w.kind = "resumed" /\ w.task # NoTask /\ ~is_live_work_task(b, w.task)
       IN \/ /\ w.kind = "resumed" /\ w.task # NoTask /\ ~closed
             /\ TurnBegins(Resumes(b, w.task), w)
          \/ /\ closed
             /\ \E t \in LiveWakeTasks(b) : TurnBegins(Resumes(b, t), Wake("resumed", t))
          \/ /\ closed /\ LiveWakeTasks(b) = {}
             /\ board' = [b EXCEPT !.work[w.task] = "none"]
             /\ UNCHANGED turn
          \/ /\ w.kind = "ping" /\ Live(b) = NoTask
             /\ board' = b /\ UNCHANGED turn
          \/ /\ w.task = NoTask \/ w.kind = "assigned" \/ (w.kind = "ping" /\ Live(b) # NoTask)
             /\ TurnBegins(Presents(b, w), w)
  /\ UNCHANGED <<gate, incidents, clicks>>

-----------------------------------------------------------------------------
(* What a turn does. A wake that asks is answered with a decision, the      *)
(* others run steps of work.                                                *)

Deciding == turn.at = "body" /\ turn.wake.kind \in {"assigned", "ping", "chat"}
Executing == turn.at = "body" /\ turn.wake.kind \in {"resumed", "resolved"}

TurnEnds(b, asks, replan) ==
  /\ board' = b
  /\ turn' = [turn EXCEPT !.at = "ending", !.asks = asks,
                          !.replan = replan /\ turn.wake.kind = "chat"]
  /\ UNCHANGED <<gate, incidents, clicks>>

\* _record_watchdog_reply_if_needed
Replied(b) ==
  IF turn.wake.kind = "ping" THEN [b EXCEPT !.pinged = @ \ {turn.wake.task}] ELSE b

\* resume_soft_blocked_work
resume_soft_blocked_work(b) ==
  LET stuck == {t \in Tasks : b.task[t] = "blocked" /\ b.work[t] = "paused"}
  IN IF Live(b) # NoTask \/ stuck = {} THEN {refresh_agent_status(b)}
     ELSE {activate_work_activity(b, t, "active") : t \in stuck}

\* answer, with or without work_commit: the task it continues is settled first.
Answers ==
  /\ Deciding
  /\ \E b \in resume_soft_blocked_work(board) :
       \/ TurnEnds(Replied(b), {}, FALSE)
       \/ /\ Live(board) = NoTask
          /\ \E t \in IF turn.wake.task \in OpenTasks(board) THEN {turn.wake.task}
                      ELSE LiveWakeTasks(board) :
               LET next == requeue_commitment(b, t)
               IN TurnEnds(Replied(next.board), next.asks, FALSE)

\* observe and clarify.
Observes == Deciding /\ TurnEnds(Replied(board), {}, FALSE)

\* cancel: nothing is picked up after it.
Cancels ==
  /\ Deciding /\ Live(board) \in OpenTasks(board)
  /\ TurnEnds(Replied(Finished(board)), {}, FALSE)

\* decline of an assignment.
Declines ==
  /\ Deciding /\ turn.wake.kind = "assigned"
  /\ board.task[turn.wake.task] \in {"pending", "accepted"}
  /\ TurnEnds(transition_task(DropsAssignment(board), turn.wake.task, "closed"), {}, FALSE)

\* The task a decision is about: the assigned one, or any that is bound or made.
Bound == IF turn.wake.kind = "assigned" THEN {turn.wake.task} \cap OpenTasks(board)
         ELSE {t \in Tasks : board.task[t] # "closed"}

\* defer: the task stays in the backlog.
Defers ==
  /\ Deciding
  /\ \E t \in Bound :
       TurnEnds(Replied(DropsAssignment(transition_task(board, t, "pending"))), {}, TRUE)

\* accept work; delegated parts hold back the first resume.
AcceptsWork ==
  /\ Deciding
  /\ \E t \in Bound, first \in BOOLEAN :
       LET made == IF board.task[t] = "unborn" THEN transition_task(board, t, "pending") ELSE board
       IN TurnEnds(Replied(activate_work_activity(made, t, "accepted")),
               IF first THEN {Wake("resumed", t)} ELSE {}, TRUE)

\* accept a meeting or a conversation.
AcceptsTalk ==
  /\ Deciding
  /\ TurnEnds(Replied(begin_commitment_activity(board)), {Wake("resumed", NoTask)}, FALSE)

\* record_action_liveness on the task the turn is bound to.
Beat(b) == [b EXCEPT !.pinged = @ \ {Live(b)}]

\* A turn yields with its work unfinished, or at a no-progress checkpoint.
WorksOn ==
  /\ Executing
  /\ \E asks \in {{}, {Wake("resumed", t) : t \in {Live(board)} \cap Tasks}} :
       TurnEnds(Beat(board), asks, FALSE)

\* wait and block: the work is paused.
Suspends ==
  /\ Executing /\ Live(board) \in OpenTasks(board)
  /\ \E status \in {"waiting", "blocked"} :
       \E next \in next_work_after_end(pause_active_work(board, status), Live(board)) :
         TurnEnds(next.board, next.asks, FALSE)

\* done and drop; a pending task cannot be done.
EndsWork ==
  /\ Executing /\ Live(board) \in OpenTasks(board)
  /\ \E next \in next_work_after_end(Finished(board), Live(board)) :
       TurnEnds(next.board, next.asks, FALSE)

\* apply_no_progress_block: nothing is picked up after it.
BlocksUnproductive ==
  /\ Executing /\ Live(board) \in OpenTasks(board)
  /\ TurnEnds(pause_active_work(board, "blocked"), {}, FALSE)

\* idle leaves a meeting or a conversation.
Idles == Executing /\ Live(board) = NoTask /\ TurnEnds(Leaves(board), {}, FALSE)

\* attendMeeting suspends the work and leaves its task as it is.
AttendsMeeting ==
  /\ Executing /\ board.side = NoSide
  /\ LET t == Live(board)
     IN TurnEnds(IF t = NoTask THEN [board EXCEPT !.side = [kind |-> "talk", task |-> NoTask]]
             ELSE [Beat(board) EXCEPT !.work[t] = "paused",
                                      !.side = [kind |-> "talk", task |-> t]], {}, FALSE)

\* A command needs approval: the turn ends and waits for the operator.
AsksApproval ==
  /\ Executing
  /\ board' = Beat(board) /\ gate' = TRUE
  /\ turn' = [turn EXCEPT !.at = "ending"]
  /\ UNCHANGED <<incidents, clicks>>

-----------------------------------------------------------------------------
(* A turn ends.                                                             *)

\* _rebuild_backlog_queue
Rebuilt(b) ==
  [b EXCEPT !.wakes = {w \in @ : w.kind \in {"chat", "resolved"}}
                        \cup {Wake("assigned", t) : t \in {u \in Tasks : b.task[u] = "pending"}}]

Replanned == IF turn.replan THEN Rebuilt(board) ELSE board

\* The wake is completed, its follow-ups are filed, live work is resumed.
Finishes ==
  /\ turn.at = "ending"
  /\ board' = Queues(Replanned, turn.asks \cup ensure_live_work_continuation(Replanned))
  /\ turn' = NoTurn
  /\ UNCHANGED <<gate, incidents, clicks>>

\* No model: the wake is completed, and a skipped resume is not filed again.
Skips ==
  /\ turn.at = "body" /\ Incident
  /\ board' = IF turn.wake.kind = "resumed" THEN board
              ELSE Queues(board, ensure_live_work_continuation(board))
  /\ turn' = NoTurn
  /\ UNCHANGED <<gate, clicks>>

\* A failed turn is repeated.
Retries ==
  /\ InTurn /\ Incident
  /\ board' = Queues(board, {turn.wake})
  /\ turn' = NoTurn
  /\ UNCHANGED <<gate, clicks>>

\* _exhaust_failed_trigger: the wake's task, or the live one, is stalled and
\* every activity of the agent ends; without such a task only a talk does.
GivesUp ==
  /\ InTurn /\ Incident
  /\ LET t == IF turn.wake.task # NoTask THEN turn.wake.task ELSE Live(board)
     IN board' = IF t \in OpenTasks(board)
                 THEN Clears(transition_task(board, t, "blocked")) ELSE Leaves(board)
  /\ turn' = NoTurn
  /\ UNCHANGED <<gate, clicks>>

\* The worker dies and starts again: the claim is requeued, unless the wake
\* was completed already and what it filed was lost.
Crashes ==
  /\ InTurn /\ Incident
  /\ turn' = NoTurn
  /\ \/ \E b \in {board, Replanned} : board' = Queues(b, {turn.wake})
     \/ /\ turn.at = "ending"
        /\ board' \in {Replanned, Queues(Replanned, turn.asks)}
  /\ UNCHANGED <<gate, clicks>>

-----------------------------------------------------------------------------
(* The rest of the worker and the app.                                      *)

InFlight(t) == board.task[t] \in {"accepted", "active"}

\* _check_tasks: a quiet task is pinged once ...
Pings(t) ==
  /\ ~InTurn /\ board.wakes = {} /\ t \notin board.pinged
  /\ InFlight(t) \/ board.task[t] = "waiting"
  /\ board' = [Queues(board, {Wake("ping", t)}) EXCEPT !.pinged = @ \cup {t}]
  /\ UNCHANGED <<gate, turn, incidents, clicks>>

\* Seeded fault: only the task the agent works on is stalled.
EscalatesLive(t) ==
  /\ ~InTurn /\ board.wakes = {} /\ t \in board.pinged /\ Live(board) = t
  /\ board' = Clears([board EXCEPT !.task[t] = "blocked"])
  /\ UNCHANGED <<gate, turn, incidents, clicks>>

\* ... and stalled when no heartbeat follows, with all that its agent did.
Escalates(t) ==
  /\ ~InTurn /\ board.wakes = {} /\ t \in board.pinged /\ InFlight(t)
  /\ board' = Clears([board EXCEPT !.task[t] = "blocked"])
  /\ UNCHANGED <<gate, turn, incidents, clicks>>

\* _end_meeting, while the agent is in it.
_end_meeting ==
  /\ board.side.kind = "talk"
  /\ LET b == [Leaves(board) EXCEPT !.wakes = @ \ {Wake("resumed", NoTask)}]
     IN board' = Queues(b, {w \in ensure_live_work_continuation(b) : w # turn.wake})
  /\ UNCHANGED <<gate, turn, incidents, clicks>>

\* resume_cli_approval: the decision is written, then the agent is woken.
resume_cli_approval ==
  /\ gate /\ gate' = FALSE
  /\ \/ board' = Queues(board, {Wake("resolved", NoTask)}) /\ UNCHANGED <<incidents, clicks>>
     \/ Incident /\ UNCHANGED <<board, clicks>>
  /\ UNCHANGED turn

\* A message of the boss takes the place of resumes and pings.
Chats ==
  /\ Click
  /\ board' = [board EXCEPT !.wakes =
                 {w \in @ : w.kind \notin {"resumed", "ping"}} \cup {Wake("chat", NoTask)}]
  /\ UNCHANGED <<gate, turn, incidents>>

Assigns(t) ==
  /\ board.task[t] = "unborn"
  /\ board' = Queues(transition_task(board, t, "pending"), {Wake("assigned", t)})
  /\ UNCHANGED <<gate, turn, incidents, clicks>>

\* cancel and complete by the operator.
Closes(t) ==
  /\ t \in OpenTasks(board) /\ Click
  /\ board' = Retires(transition_task(board, t, "closed"), t)
  /\ UNCHANGED <<gate, turn, incidents>>

\* _re_present: an edited task starts over; a pending one keeps its activities.
StartsOver(t) ==
  /\ t \in OpenTasks(board) /\ Click
  /\ board' = Queues(IF board.task[t] = "pending"
                     THEN [board EXCEPT !.wakes = {w \in @ : w.task # t}]
                     ELSE transition_task(Retires(board, t), t, "pending"), {Wake("assigned", t)})
  /\ UNCHANGED <<gate, turn, incidents>>

-----------------------------------------------------------------------------
WorkInit ==
  /\ board = [task |-> [t \in Tasks |-> "unborn"], work |-> [t \in Tasks |-> "none"],
              side |-> NoSide, wakes |-> {}, pinged |-> {}]
  /\ gate = FALSE /\ turn = NoTurn /\ incidents = 0 /\ clicks = 0

Decision == \/ Answers \/ Observes \/ Cancels \/ Declines \/ Defers \/ AcceptsWork \/ AcceptsTalk
Execution == \/ WorksOn \/ Suspends \/ EndsWork \/ BlocksUnproductive \/ Idles
             \/ AttendsMeeting \/ AsksApproval
TurnSteps == Claims \/ Decision \/ Execution \/ Finishes
Watches == \E t \in Tasks : Pings(t) \/ Escalates(t)

WorkNext ==
  \/ TurnSteps \/ Watches
  \/ Skips \/ Retries \/ GivesUp \/ Crashes
  \/ _end_meeting \/ resume_cli_approval \/ Chats
  \/ \E t \in Tasks : Assigns(t) \/ Closes(t) \/ StartsOver(t)

\* The loop claims what is queued, a turn ends, and the watchdog keeps looking.
WorkSpec == WorkInit /\ [][WorkNext]_workVars /\ WF_workVars(TurnSteps \/ Watches)

-----------------------------------------------------------------------------
\* "Every agent is doing one thing" (activities): whatever turns, talks, the
\* operator and the watchdog do, at most one activity of the agent is active.
OneActivity ==
  WorkTypeOK /\ Cardinality({t \in Tasks : board.work[t] = "active"})
              + (IF board.side.kind = "none" THEN 0 ELSE 1) <= 1

\* "An agent with an accepted or active task on its live work activity always
\* has a next execution turn queued" (ensure_live_work_continuation): between
\* two turns some wake is queued, or the agent waits for an approval. After a
\* failed turn or a lost wake the watchdog has to help.
LiveWorkIsDriven ==
  ~InTurn /\ Live(board) # NoTask /\ ~gate /\ incidents = 0
    => ~InFlight(Live(board)) \/ board.wakes # {}

\* While a task is in flight its agent gets turns: the watchdog makes up for
\* every continuation that was dropped.
InFlightIsAttended == []<>(turn.at = "body" \/ \A t \in Tasks : ~InFlight(t))

\* A meeting that ends runs the check "to give resumed live work its next
\* turn" (_end_meeting): work that is live again has its resume queued.
EndedMeetingGivesATurn ==
  [][_end_meeting /\ ~gate /\ ~InTurn =>
       \A t \in Tasks : board.work[t] # "active" /\ board'.work[t] = "active"
         => Wake("resumed", t) \in board'.wakes]_workVars
=============================================================================
