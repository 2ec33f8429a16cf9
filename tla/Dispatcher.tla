------------------------------ MODULE Dispatcher ------------------------------
(***************************************************************************)
(* The turn dispatcher (core/agent_loop/dispatcher.py) over the durable     *)
(* trigger queue and the model-call budget, with the worker commands that   *)
(* start it, stop it and cancel one agent's turn.                           *)
(*                                                                          *)
(* The worker is one asyncio loop, so code between two awaits is one step   *)
(* and every interleaving happens at an await.  A value of loop, cmd or     *)
(* turn[c] names the await a task is suspended in; "listed", "claim" and    *)
(* "launch" are where the dispatcher loop goes on without an await, and     *)
(* there no other task of the worker may run (WorkerYields).  The app       *)
(* process runs beside it and shares only the database: row, lanes, paused. *)
(***************************************************************************)
EXTENDS TriggerQueue

CONSTANTS
  SystemCalls,      \* System AI routes of the app process that take lanes
  Limit,            \* max_concurrent_model_calls
  NoClaim,          \* no claim, no lane
  ChannelOf,        \* the channel a trigger speaks in, else NoChannel
  NoChannel,
  Human,            \* human_chat triggers
  Preempted,        \* triggers of the types a human_chat deletes
  NoRepeat,         \* triggers whose turn runs a command marked no-retry
  Rank,             \* dispatch order: type priority, then age
  RetryLimit,       \* turn_failure_retry_limit
  LateHeartbeats,   \* whether a live turn's lease may look old
  MaxUpsets,        \* bound: the upsets below, together
  UpsetCost         \* what each kind counts for, more than MaxUpsets for never

\* The operator pauses or resets, the worker crashes, a turn is parked on a paused
\* connection; a fault: something raises, or a queued wake is deleted.
UpsetKinds == {"pause", "reset", "crash", "park", "fault"}

ASSUME DispatcherAssumption ==
  /\ Limit \in Nat \ {0}
  /\ Agents # {} /\ IsFiniteSet(Triggers) /\ IsFiniteSet(Agents) /\ IsFiniteSet(SystemCalls)
  /\ NoClaim \notin Claims
  /\ SystemCalls \cap Claims = {}
  /\ Human \subseteq Triggers /\ Preempted \subseteq Triggers \ Human
  /\ NoRepeat \subseteq Triggers
  /\ Rank \in [Triggers -> Nat]
  /\ RetryLimit \in Nat /\ RetryLimit <= MaxRetries
  /\ LateHeartbeats \in BOOLEAN
  /\ MaxUpsets \in Nat /\ UpsetCost \in [UpsetKinds -> Nat \ {0}]

VARIABLES
  lanes, dead,  \* the model-call budget
  up,           \* whether a worker process runs
  running,      \* _running
  loop,         \* where _loop is suspended
  cand,         \* the claim _drain_queue is launching or resolving
  candBlocked,  \* retry_blocked of the row object it holds for cand
  pending,      \* listed orphans not resolved yet: <<claim, retry_blocked>>
  wake,         \* _wake_event
  notices,      \* agents in _queue_notices
  painted,      \* agents in _painted_queued
  active,       \* _active_turns: agent -> the claim of its turn
  turnLane,     \* _turn_lanes: agent -> the lane (named by its claim)
  turn,         \* claim -> where its _run_trigger task is suspended
  cancelled,    \* turns whose cancel is requested and not delivered yet
  heartbeats,   \* claims with a live _heartbeat_claim_lease task
  mem,          \* turns whose own retry_blocked flag is set
  ran,          \* history: times a trigger's no-retry command ran
  unrecorded,   \* history: turns whose record in active an older turn's end took
  paused,       \* runtime_control_state = "paused"
  cmd,          \* the runtime command filed or being executed
  target,       \* the agent of a reset_agent_runtime command
  waitFor,      \* the turns that command awaits
  bell,         \* a wake_dispatcher command is open
  left          \* what is left of MaxUpsets

Budget == INSTANCE CallBudget WITH TurnLanes <- Claims, OtherCalls <- {}, waiting <- {}

budgetVars == <<lanes, dead>>
loopVars   == <<loop, cand, candBlocked, pending, notices, painted>>
turnVars   == <<active, turnLane, turn, cancelled, heartbeats, mem, ran, unrecorded>>
cmdVars    == <<paused, cmd, target, waitFor>>
vars == <<row, budgetVars, up, running, loopVars, wake, turnVars, cmdVars, bell, left>>

-----------------------------------------------------------------------------
LoopAt == {"off", "orphans", "failing", "listed", "sweep", "fixing", "claim",
           "emitting", "launch", "abandon", "abandoned", "ending", "wait"}
TurnAt == {"none", "start", "thinking", "body", "command", "escaped",
           "reporting", "idle", "closing"}
\* The one open runtime command: filed (queued), then claimed and executed up
\* to the await named, "none" once it is completed or deleted.
CmdAt  == {"none", "pauseFiled", "stopLoop", "stopTurns", "resumeFiled",
           "resetFiled", "resetWait"}

BudgetTypeOK == lanes \subseteq Claims \cup SystemCalls /\ dead \subseteq lanes

LoopTypeOK ==
  /\ up \in BOOLEAN /\ running \in BOOLEAN /\ loop \in LoopAt
  /\ cand \in Claims \cup {NoClaim} /\ candBlocked \in BOOLEAN
  /\ pending \subseteq Claims \X BOOLEAN
  /\ wake \in BOOLEAN /\ notices \subseteq Agents /\ painted \subseteq Agents

TurnTypeOK ==
  /\ active \in [Agents -> Claims \cup {NoClaim}]
  /\ turnLane \in [Agents -> Claims \cup {NoClaim}]
  /\ turn \in [Claims -> TurnAt]
  /\ cancelled \subseteq Claims /\ heartbeats \subseteq Claims /\ mem \subseteq Claims
  /\ ran \in [Triggers -> Nat] /\ unrecorded \subseteq Claims

CmdTypeOK ==
  /\ paused \in BOOLEAN /\ cmd \in CmdAt /\ target \in Agents
  /\ waitFor \subseteq Claims /\ bell \in BOOLEAN
  /\ left \in Nat

TypeOK == QueueTypeOK /\ BudgetTypeOK /\ LoopTypeOK /\ TurnTypeOK /\ CmdTypeOK

AgentsOf(ts) == {AgentOf[t] : t \in ts}
Upset(what) == UpsetCost[what] <= left /\ left' = left - UpsetCost[what]

-----------------------------------------------------------------------------
(* Pieces the actions share.                                               *)

WorkerYields == up /\ loop \notin {"listed", "claim", "launch"}
LoopGoesOn   == up /\ cmd # "stopLoop"

\* Seeded fault: every lane of the worker goes back at once.
ReleaseEverything(a) ==
  /\ lanes' = lanes \ Claims /\ dead' = dead \ Claims
  /\ turnLane' = [turnLane EXCEPT ![a] = NoClaim]

\* _release_turn_reservations: whatever lane is recorded for the agent.
ReleaseReservations(a) ==
  /\ IF turnLane[a] = NoClaim THEN UNCHANGED budgetVars ELSE Budget!release(turnLane[a])
  /\ turnLane' = [turnLane EXCEPT ![a] = NoClaim]

\* Seeded faults: one retry too many; the claim is not checked.
RetryOnceMore(c) ==
  IF row[c[1]].retries <= RetryLimit THEN retry_agent_trigger(c, TRUE)
                                     ELSE fail_agent_trigger(c)
RetryAnyway(c) == row' = [row EXCEPT ![c[1]] = Moved(@, "queued")]

\* The retry-or-exhaust end of _supervise_failed_turn.
RetryOrExhaust(c) ==
  IF row[c[1]].retries < RetryLimit THEN retry_agent_trigger(c, TRUE)
                                    ELSE fail_agent_trigger(c)

\* start(), by a booting worker or a resume; a running dispatcher is left alone.
Start ==
  IF running THEN UNCHANGED <<row, running, loop, pending>>
  ELSE /\ requeue_all_claimed_triggers
       /\ pending' = claimed_retry_blocked_triggers \X {TRUE}
       /\ running' = TRUE
       /\ loop' = "orphans"

-----------------------------------------------------------------------------
(* The dispatcher loop.                                                    *)

\* One row of _fail_blocked_orphans or _recover_live_orphans: skipped when the
\* sweep finds its agent's turn alive, else its agent's lane is released and
\* the loop suspends in _record_dispatcher_exception.
ResolveNext(p) ==
  /\ LoopGoesOn /\ loop \in {"orphans", "listed", "sweep"} /\ p \in pending
  /\ pending' = pending \ {p}
  /\ LET a == AgentOf[p[1][1]] IN
     IF loop # "orphans" /\ active[a] # NoClaim
     THEN loop' = "listed" /\ UNCHANGED <<budgetVars, turnLane, cand, candBlocked>>
     ELSE /\ ReleaseReservations(a)
          /\ cand' = p[1] /\ candBlocked' = p[2]
          /\ loop' = IF loop = "orphans" THEN "failing" ELSE "fixing"
  /\ UNCHANGED <<row, up, running, wake, notices, painted, active, turn,
                 cancelled, heartbeats, mem, ran, unrecorded, cmdVars, bell, left>>

\* Seeded fault: the claim is given up without a write.
StrandedClaimLeft == UNCHANGED <<row, left>>

\* The database part of _resolve_stranded_claim.  A fault: its agent is gone
\* (the row fails) or the recovery raises (the row stays claimed).
StrandedClaimEnds ==
  \/ /\ IF candBlocked THEN fail_agent_trigger(cand) ELSE RetryOrExhaust(cand)
     /\ UNCHANGED left
  \/ Upset("fault") /\ (fail_agent_trigger(cand) \/ UNCHANGED row)

ResolveCand ==
  /\ LoopGoesOn /\ loop \in {"failing", "fixing", "abandon"}
  /\ StrandedClaimEnds
  /\ loop' = CASE loop = "failing" -> "orphans"
               [] loop = "fixing"  -> "sweep"
               [] loop = "abandon" -> "abandoned"
  /\ cand' = NoClaim /\ candBlocked' = FALSE
  /\ UNCHANGED <<budgetVars, up, running, pending, notices, painted, wake,
                 turnVars, cmdVars, bell>>

\* Claims whose lease may be older than ORPHAN_CLAIM_AFTER: nobody refreshes it,
\* or the refresh is late.  How old it is, is left to chance.
MayBeOld == {c \in Claims :
  Held(c) /\ (LateHeartbeats \/ (c \notin heartbeats /\ turn[c] # "start"))}

\* A drain pass starts: after the boot orphans, on the event, or after 30 s.
BeginDrain ==
  /\ LoopGoesOn
  /\ loop = "wait" \/ (loop = "orphans" /\ pending = {})
  /\ loop' = "listed"
  /\ \E cs \in SUBSET MayBeOld : pending' = {<<c, row[c[1]].blocked>> : c \in cs}
  /\ UNCHANGED <<row, budgetVars, up, running, cand, candBlocked, notices,
                 painted, wake, turnVars, cmdVars, bell, left>>

\* Seeded fault: the agent may be in a turn.
EligibleThoughActive == {t \in Triggers : Queued(t) /\ row[t].gen < MaxGen}

Eligible == {t \in Triggers : /\ Queued(t) /\ row[t].gen < MaxGen
                              /\ active[AgentOf[t]] = NoClaim}

\* Seeded fault: nobody is held back in a channel.
NeverDrafting(t) == FALSE

\* channel_peer_snapshot_is_drafting: one channel, one live speak.
Drafting(t) == /\ ChannelOf[t] # NoChannel
               /\ \E u \in Triggers : Claimed(u) /\ ChannelOf[u] = ChannelOf[t]
HeldBack == {t \in Eligible : Drafting(t)}
Runnable == Eligible \ HeldBack
Next1st(t) == t \in Runnable /\ \A u \in Runnable : Rank[t] <= Rank[u]
KnobFull == Cardinality({a \in Agents : active[a] # NoClaim}) >= Limit
LaneFor(t) == <<t, row[t].gen + 1>>

\* _emit_queue_notices with current notices ns, given which agents hold a lane:
\* what stays painted, and whether there is a broadcast to await.
Carried(ns, holders) == painted \cap (ns \cup holders)
Broadcasts(ns, holders) == ns # {} \/ painted \ (ns \cup holders) # {}
LaneHolders == {a \in Agents : active[a] # NoClaim \/ turnLane[a] # NoClaim}

\* _announce_connection_health has a pause or a resume to broadcast.
AnnounceHealth ==
  /\ LoopGoesOn /\ loop = "listed" /\ pending = {}
  /\ loop' = "sweep"
  /\ UNCHANGED <<row, budgetVars, up, running, cand, candBlocked, pending, notices,
                 painted, wake, turnVars, cmdVars, bell, left>>

ClaimPass ==
  LoopGoesOn /\ (loop = "claim" \/ (loop \in {"listed", "sweep"} /\ pending = {}))

\* Nothing can be claimed: runtime Pause paints nothing, everything else paints
\* the waiters.  The wake event is cleared once the broadcasts are done.
ClaimNothing ==
  /\ ClaimPass
  /\ \/ paused /\ UNCHANGED <<notices, painted, budgetVars>> /\ loop' = "wait"
     \/ /\ ~paused
        /\ \/ KnobFull /\ notices' = AgentsOf(Eligible) /\ UNCHANGED budgetVars
           \/ ~KnobFull /\ Runnable = {} /\ notices' = AgentsOf(HeldBack) /\ UNCHANGED budgetVars
           \/ \E t \in Triggers :
                /\ ~KnobFull /\ Next1st(t) /\ ~Budget!CanAcquire(LaneFor(t))
                /\ notices' = AgentsOf(Eligible)
                /\ Budget!try_acquire(LaneFor(t))
        /\ IF Broadcasts(notices', LaneHolders)
           THEN loop' = "ending" /\ UNCHANGED painted
           ELSE loop' = "wait" /\ painted' = Carried(notices', LaneHolders)
  /\ wake' = (wake /\ loop' = "ending")
  /\ UNCHANGED <<row, up, running, cand, candBlocked, pending, turnVars,
                 cmdVars, bell, left>>

\* A lane is taken before the trigger is claimed.
ClaimNext(t) ==
  /\ ClaimPass /\ ~paused /\ ~KnobFull /\ Next1st(t)
  /\ Budget!CanAcquire(LaneFor(t)) /\ Budget!try_acquire(LaneFor(t))
  /\ claim_trigger(t)
  /\ turnLane' = [turnLane EXCEPT ![AgentOf[t]] = LaneFor(t)]
  /\ cand' = LaneFor(t) /\ candBlocked' = row[t].blocked
  /\ notices' = AgentsOf(HeldBack)
  /\ LET holders == LaneHolders \cup {AgentOf[t]} IN
     IF Broadcasts(notices', holders)
     THEN loop' = "emitting" /\ UNCHANGED painted
     ELSE loop' = "launch" /\ painted' = Carried(notices', holders)
  /\ UNCHANGED <<up, running, pending, wake, active, turn, cancelled,
                 heartbeats, mem, ran, unrecorded, cmdVars, bell, left>>

\* The queue notices are out; the claimed trigger is launched next.
Emitted ==
  /\ LoopGoesOn /\ loop = "emitting"
  /\ painted' = Carried(notices, LaneHolders) \cup notices
  /\ notices' = {}
  /\ loop' = "launch"
  /\ UNCHANGED <<row, budgetVars, up, running, cand, candBlocked, pending, wake,
                 turnVars, cmdVars, bell, left>>

\* The last broadcast of a pass is out, its notices or the report of a claim it
\* gave up: clear the event and wait on it.
PassEnds ==
  /\ LoopGoesOn
  /\ \/ loop = "ending" /\ painted' = Carried(notices, LaneHolders) \cup notices
     \/ loop = "abandoned" /\ UNCHANGED painted
  /\ notices' = {} /\ wake' = FALSE
  /\ loop' = "wait"
  /\ UNCHANGED <<row, budgetVars, up, running, cand, candBlocked, pending,
                 turnVars, cmdVars, bell, left>>

LaunchStarts ==
  /\ LoopGoesOn /\ loop = "launch"
  /\ turn' = [turn EXCEPT ![cand] = "start"]
  /\ active' = [active EXCEPT ![AgentOf[cand[1]]] = cand]
  /\ loop' = "claim" /\ cand' = NoClaim /\ candBlocked' = FALSE
  /\ UNCHANGED <<row, budgetVars, up, running, pending, notices, painted, wake,
                 turnLane, cancelled, heartbeats, mem, ran, unrecorded, cmdVars, bell, left>>

\* Seeded fault: a refused launch keeps the lane.
LaunchRefusesWithLane ==
  /\ LoopGoesOn /\ loop = "launch"
  /\ complete_agent_trigger(cand) \/ fail_agent_trigger(cand)
  /\ loop' = "claim" /\ cand' = NoClaim /\ candBlocked' = FALSE
  /\ UNCHANGED <<budgetVars, up, running, pending, notices, painted, wake, turnVars,
                 cmdVars, bell, left>>

\* Archived thread, illegal task wake, no live work (completed); agent gone, on
\* vacation, no state, no work activity (failed): the lane is released.
LaunchRefuses ==
  /\ LoopGoesOn /\ loop = "launch"
  /\ complete_agent_trigger(cand) \/ fail_agent_trigger(cand)
  /\ ReleaseReservations(AgentOf[cand[1]])
  /\ loop' = "claim" /\ cand' = NoClaim /\ candBlocked' = FALSE
  /\ UNCHANGED <<up, running, pending, notices, painted, wake, active, turn,
                 cancelled, heartbeats, mem, ran, unrecorded, cmdVars, bell, left>>

\* _abandon_claim: the launch, or the broadcast before it, raised.
LaunchRaises ==
  /\ LoopGoesOn /\ loop \in {"emitting", "launch"} /\ Upset("fault")
  /\ ReleaseReservations(AgentOf[cand[1]])
  /\ loop' = "abandon" /\ notices' = {}
  /\ UNCHANGED <<row, up, running, cand, candBlocked, pending, painted, wake,
                 active, turn, cancelled, heartbeats, mem, ran, unrecorded, cmdVars, bell>>

LoopNext ==
  \/ \E p \in pending : ResolveNext(p)
  \/ ResolveCand \/ BeginDrain \/ AnnounceHealth
  \/ ClaimNothing \/ \E t \in Triggers : ClaimNext(t)
  \/ Emitted \/ PassEnds \/ LaunchStarts \/ LaunchRefuses \/ LaunchRaises

-----------------------------------------------------------------------------
(* One turn: _run_trigger for claim c.                                     *)

AtTurn(c, pc) == WorkerYields /\ turn[c] = pc /\ c \notin cancelled
GoTo(c, pc)   == turn' = [turn EXCEPT ![c] = pc]
TurnFrame     == UNCHANGED <<up, running, loop, cand, candBlocked, pending, notices, cmdVars>>

\* The task first runs: heartbeat task, then the "thinking" broadcast.
TurnBegins(c) ==
  /\ AtTurn(c, "start")
  /\ heartbeats' = heartbeats \cup {c}
  /\ GoTo(c, IF turnLane[AgentOf[c[1]]] = NoClaim THEN "body" ELSE "thinking")
  /\ UNCHANGED <<row, budgetVars, wake, painted, active, turnLane, cancelled,
                 mem, ran, unrecorded, bell, left>>
  /\ TurnFrame

ModelCall(c) ==
  /\ AtTurn(c, "thinking")
  /\ GoTo(c, "body")
  /\ UNCHANGED <<row, budgetVars, wake, painted, active, turnLane, cancelled,
                 heartbeats, mem, ran, unrecorded, bell, left>>
  /\ TurnFrame

\* A no-retry command reaches its handler; the turn awaits the handler and the
\* broadcasts of what it printed.
CommandRuns(c) ==
  /\ AtTurn(c, "body") /\ c[1] \in NoRepeat /\ c \notin mem
  /\ ran' = [ran EXCEPT ![c[1]] = @ + 1]
  /\ GoTo(c, "command")
  /\ UNCHANGED <<row, budgetVars, wake, painted, active, turnLane, cancelled,
                 heartbeats, mem, unrecorded, bell, left>>
  /\ TurnFrame

\* Seeded fault: the turn itself does not remember the block.
CommandForgotten(c) ==
  /\ AtTurn(c, "command")
  /\ mark_trigger_retry_blocked(c[1])
  /\ GoTo(c, "body")
  /\ UNCHANGED <<budgetVars, wake, painted, active, turnLane, cancelled,
                 heartbeats, mem, ran, unrecorded, bell, left>>
  /\ TurnFrame

\* record_retry_block, after those awaits; LookupError without a row.
CommandRecorded(c) ==
  /\ AtTurn(c, "command")
  /\ IF row[c[1]].status \in {"absent", "deleted"}
     THEN GoTo(c, "escaped") /\ UNCHANGED <<row, mem>>
     ELSE /\ mark_trigger_retry_blocked(c[1])
          /\ mem' = mem \cup {c}
          /\ GoTo(c, "body")
  /\ UNCHANGED <<budgetVars, wake, painted, active, turnLane, cancelled,
                 heartbeats, ran, unrecorded, bell, left>>
  /\ TurnFrame

\* Completed or skipped; the follow-ups filed afterwards may raise.
TurnCompletes(c) ==
  /\ AtTurn(c, "body")
  /\ complete_agent_trigger(c)
  /\ \/ GoTo(c, "idle") /\ UNCHANGED left
     \/ GoTo(c, "escaped") /\ Upset("fault")
  /\ UNCHANGED <<budgetVars, wake, painted, active, turnLane, cancelled,
                 heartbeats, mem, ran, unrecorded, bell>>
  /\ TurnFrame

\* _supervise_failed_turn: parked on a paused connection, retried, or given up;
\* a broadcast reports the last two.
Supervised(c, replaySafe) ==
  \/ replaySafe /\ Upset("park") /\ retry_agent_trigger(c, FALSE) /\ GoTo(c, "idle")
  \/ /\ (replaySafe /\ RetryOrExhaust(c)) \/ fail_agent_trigger(c)
     /\ GoTo(c, IF Held(c) THEN "reporting" ELSE "idle")
     /\ UNCHANGED left

\* A failed outcome; a turn that ran a no-retry command is not repeated.
TurnFails(c) ==
  /\ AtTurn(c, "body")
  /\ Supervised(c, c \notin mem)
  /\ UNCHANGED <<budgetVars, wake, painted, active, turnLane, cancelled,
                 heartbeats, mem, ran, unrecorded, bell>>
  /\ TurnFrame

\* An exception escapes run_turn; its diagnostic is recorded first.
TurnRaises(c) ==
  /\ AtTurn(c, "body") \/ AtTurn(c, "command")
  /\ Upset("fault")
  /\ GoTo(c, "escaped")
  /\ UNCHANGED <<row, budgetVars, wake, painted, active, turnLane, cancelled,
                 heartbeats, mem, ran, unrecorded, bell>>
  /\ TurnFrame

\* ... then it is supervised by what the row says (_retry_blocked).  A timed-out
\* decision completes instead; a clean-up that raises leaves the row claimed.
EscapeSupervised(c) ==
  /\ AtTurn(c, "escaped")
  /\ \/ Supervised(c, ~row[c[1]].blocked)
     \/ complete_agent_trigger(c) /\ GoTo(c, "idle") /\ UNCHANGED left
     \/ UNCHANGED row /\ GoTo(c, "idle") /\ Upset("fault")
  /\ UNCHANGED <<budgetVars, wake, painted, active, turnLane, cancelled,
                 heartbeats, mem, ran, unrecorded, bell>>
  /\ TurnFrame

Reported(c) ==
  /\ AtTurn(c, "reporting")
  /\ GoTo(c, "idle")
  /\ UNCHANGED <<row, budgetVars, wake, painted, active, turnLane, cancelled,
                 heartbeats, mem, ran, unrecorded, bell, left>>
  /\ TurnFrame

\* The "idle" broadcast of the finally block is out: reservations go back.
ReservationsReturned(c) ==
  /\ AtTurn(c, "idle")
  /\ ReleaseReservations(AgentOf[c[1]])
  /\ painted' = painted \ {AgentOf[c[1]]}
  /\ GoTo(c, "closing")
  /\ UNCHANGED <<row, wake, active, cancelled, heartbeats, mem, ran, unrecorded, bell, left>>
  /\ TurnFrame

\* Seeded fault: the agent stays active after its turn.
TurnRemembered(c) ==
  /\ WorkerYields /\ turn[c] = "closing"
  /\ heartbeats' = heartbeats \ {c} /\ cancelled' = cancelled \ {c} /\ mem' = mem \ {c}
  /\ wake' = TRUE
  /\ GoTo(c, "none")
  /\ UNCHANGED <<row, budgetVars, painted, active, turnLane, ran, unrecorded, bell, left>>
  /\ TurnFrame

\* Provider sessions closed and heartbeat cancelled: the agent is free.  A
\* cancel that arrives while the heartbeat is awaited is swallowed there.  The
\* notify that follows is part of the step.
TurnForgotten(c) ==
  /\ WorkerYields /\ turn[c] = "closing"
  /\ heartbeats' = heartbeats \ {c}
  /\ active' = [active EXCEPT ![AgentOf[c[1]]] = NoClaim]
  /\ unrecorded' = unrecorded \cup ({active[AgentOf[c[1]]]} \ {c, NoClaim})
  /\ cancelled' = cancelled \ {c}
  /\ mem' = mem \ {c}
  /\ wake' = TRUE
  /\ GoTo(c, "none")
  /\ UNCHANGED <<row, budgetVars, painted, turnLane, ran, bell, left>>
  /\ TurnFrame

\* The CancelledError is delivered at the await the turn is suspended in.
\* Before the try block nothing is cleaned up; inside it the finally block
\* runs; inside the finally block what is left of it is skipped.
CancelDelivered(c) ==
  /\ WorkerYields /\ c \in cancelled
  /\ cancelled' = cancelled \ {c}
  /\ \/ turn[c] \in {"start", "thinking"} /\ GoTo(c, "none")
     \/ turn[c] \in {"body", "command", "escaped", "reporting"} /\ GoTo(c, "idle")
     \/ turn[c] \in {"idle", "closing"} /\ GoTo(c, "none")
  /\ mem' = IF turn'[c] = "none" THEN mem \ {c} ELSE mem
  /\ UNCHANGED <<row, budgetVars, wake, painted, active, turnLane, heartbeats,
                 ran, unrecorded, bell, left>>
  /\ TurnFrame

\* _heartbeat_claim_lease ends by itself once the claim is no longer held.
HeartbeatEnds(c) ==
  /\ WorkerYields /\ c \in heartbeats /\ ~Held(c)
  /\ heartbeats' = heartbeats \ {c}
  /\ UNCHANGED <<row, budgetVars, wake, painted, active, turnLane, turn,
                 cancelled, mem, ran, unrecorded, bell, left>>
  /\ TurnFrame

TurnEnds(c) == TurnCompletes(c) \/ TurnFails(c) \/ TurnRaises(c)
TurnMoves(c) ==
  \/ TurnBegins(c) \/ ModelCall(c) \/ CommandRecorded(c) \/ EscapeSupervised(c)
  \/ Reported(c) \/ ReservationsReturned(c) \/ TurnForgotten(c)
  \/ CancelDelivered(c)
TurnNext == \E c \in Claims : CommandRuns(c) \/ TurnEnds(c) \/ TurnMoves(c) \/ HeartbeatEnds(c)

-----------------------------------------------------------------------------
(* Runtime commands: the app files them, the worker's command loop executes  *)
(* one at a time.                                                            *)

CmdFrame == UNCHANGED <<cand, candBlocked, notices, painted, turnLane, turn,
                        heartbeats, mem, ran, unrecorded>>

AppPauses ==
  /\ cmd = "none" /\ ~paused /\ Upset("pause")
  /\ paused' = TRUE
  /\ cmd' = IF up THEN "pauseFiled" ELSE "none"
  /\ UNCHANGED <<row, budgetVars, up, running, loop, pending, wake, active, cancelled,
                 target, waitFor, bell>>
  /\ CmdFrame

AppResumes ==
  /\ cmd = "none" /\ paused /\ up
  /\ paused' = FALSE
  /\ cmd' = "resumeFiled"
  /\ UNCHANGED <<row, budgetVars, up, running, loop, pending, wake, active, cancelled,
                 target, waitFor, bell, left>>
  /\ CmdFrame

\* The caller goes on with rows of its own afterwards: see AgentWakes.
AppResets(a) ==
  /\ cmd = "none" /\ up /\ Upset("reset")
  /\ cmd' = "resetFiled" /\ target' = a
  /\ UNCHANGED <<row, budgetVars, up, running, loop, pending, wake, active, cancelled,
                 paused, waitFor, bell>>
  /\ CmdFrame

\* stop(), until its first await: the loop is cancelled.
StopBegins ==
  /\ WorkerYields /\ cmd = "pauseFiled"
  /\ running' = FALSE /\ wake' = TRUE
  /\ cmd' = "stopLoop"
  /\ UNCHANGED <<row, budgetVars, up, loop, pending, active, cancelled, paused,
                 target, waitFor, bell, left>>
  /\ CmdFrame

\* The CancelledError reaches the loop at the await it is suspended in, and
\* leaves it from there; a trigger claimed for a launch stays claimed.
LoopCancelled ==
  /\ up /\ cmd = "stopLoop" /\ loop # "off"
  /\ loop' = "off" /\ cand' = NoClaim /\ candBlocked' = FALSE
  /\ pending' = {} /\ notices' = {}
  /\ UNCHANGED <<row, budgetVars, up, running, painted, wake, turnVars, cmdVars,
                 bell, left>>

\* Seeded fault: nothing is cancelled or awaited.
TurnsRunOn(cs) == cancelled' = cancelled /\ waitFor' = {}

CancelTurns(cs) == cancelled' = cancelled \cup cs /\ waitFor' = cs

\* stop() goes on: every recorded turn is cancelled, forgotten and awaited.
StopCancelsTurns ==
  /\ up /\ cmd = "stopLoop" /\ loop = "off"
  /\ CancelTurns({active[a] : a \in {b \in Agents : active[b] # NoClaim}})
  /\ active' = [a \in Agents |-> NoClaim]
  /\ cmd' = "stopTurns"
  /\ UNCHANGED <<row, budgetVars, up, running, loop, pending, wake, paused, target,
                 bell, left>>
  /\ CmdFrame

\* Seeded fault: the cancelled turns are not awaited.
AwaitSkipped == TRUE

AwaitOver == \A c \in waitFor : turn[c] = "none"

StopDone ==
  /\ WorkerYields /\ cmd = "stopTurns" /\ AwaitOver
  /\ cmd' = "none" /\ waitFor' = {}
  /\ UNCHANGED <<row, budgetVars, up, running, loop, pending, wake, active, cancelled,
                 paused, target, bell, left>>
  /\ CmdFrame

ResumeRuns ==
  /\ WorkerYields /\ cmd = "resumeFiled"
  /\ Start
  /\ cmd' = "none"
  /\ UNCHANGED <<budgetVars, up, wake, active, cancelled, paused, target, waitFor,
                 bell, left>>
  /\ CmdFrame

\* reset_agent, until its await: the agent is forgotten before its turn ends.
ResetBegins ==
  /\ WorkerYields /\ cmd = "resetFiled"
  /\ CancelTurns({active[target]} \ {NoClaim})
  /\ active' = [active EXCEPT ![target] = NoClaim]
  /\ cmd' = "resetWait"
  /\ UNCHANGED <<row, budgetVars, up, running, loop, pending, wake, paused, target,
                 bell, left>>
  /\ CmdFrame

ResetDone ==
  /\ WorkerYields /\ cmd = "resetWait" /\ AwaitOver
  /\ wake' = TRUE /\ waitFor' = {}
  /\ cmd' = "none"
  /\ UNCHANGED <<row, budgetVars, up, running, loop, pending, active, cancelled,
                 paused, target, bell, left>>
  /\ CmdFrame

\* An open wake_dispatcher command, behind whatever the worker executes.
WakeRuns ==
  /\ WorkerYields /\ bell /\ cmd \notin {"stopLoop", "stopTurns", "resetWait"}
  /\ bell' = FALSE /\ wake' = TRUE
  /\ UNCHANGED <<row, budgetVars, up, running, loop, pending, active, cancelled,
                 cmdVars, left>>
  /\ CmdFrame

CommandNext ==
  \/ StopBegins \/ LoopCancelled \/ StopCancelsTurns \/ StopDone \/ ResumeRuns
  \/ ResetBegins \/ ResetDone \/ WakeRuns

-----------------------------------------------------------------------------
(* The app process and the environment.                                    *)

AppFrame == UNCHANGED <<up, running, loopVars, wake, turnVars, cmdVars, left>>

\* RuntimeServices.enqueue_trigger: a human_chat first deletes what it
\* preempts; a task wake with no equal one queued is inserted.  One that finds
\* an equal row is merged into it and inserts nothing.
Enqueue(t) ==
  /\ up
  /\ IF t \in Human
     THEN EnqueuePreempting(t, {u \in Preempted : AgentOf[u] = AgentOf[t]})
     ELSE SameWake(t) = {} /\ create_agent_trigger(t)
  /\ bell' = TRUE
  /\ UNCHANGED budgetVars
  /\ AppFrame

\* delete_queued_triggers_for_*: a cancelled task, an ended meeting, a closed
\* round, an archived channel or a floor move.  Each row is deleted by a
\* statement of its own, and only if it is still queued then.
DeleteQueued(t) ==
  /\ Upset("fault") /\ Queued(t)
  /\ delete_queued_triggers({t})
  /\ UNCHANGED <<budgetVars, bell, up, running, loopVars, wake, turnVars, cmdVars>>

\* A System AI route takes a lane, or goes without.
SystemAcquires(s) ==
  /\ s \notin lanes
  /\ Budget!try_acquire(s)
  /\ UNCHANGED <<row, bell>>
  /\ AppFrame

\* A waiter of the app itself is woken, or else the dispatcher.
SystemReleases(s) ==
  /\ s \in lanes
  /\ Budget!release(s)
  /\ bell' \in {bell, bell \/ up}
  /\ UNCHANGED row
  /\ AppFrame

\* The worker process dies; the database, and time, are what remains.
Crash ==
  /\ up /\ Upset("crash")
  /\ up' = FALSE /\ running' = FALSE /\ wake' = FALSE /\ bell' = FALSE
  /\ Budget!ProcessDies(Claims)
  /\ loop' = "off" /\ cand' = NoClaim /\ candBlocked' = FALSE /\ pending' = {}
  /\ notices' = {} /\ painted' = {}
  /\ active' = [a \in Agents |-> NoClaim]
  /\ turnLane' = [a \in Agents |-> NoClaim]
  /\ turn' = [c \in Claims |-> "none"]
  /\ cancelled' = {} /\ heartbeats' = {} /\ mem' = {}
  /\ cmd' = "none" /\ waitFor' = {}
  /\ UNCHANGED <<row, ran, unrecorded, paused, target>>

\* A new worker process: the services start unless the runtime is paused.
Boot ==
  /\ ~up
  /\ up' = TRUE
  /\ IF paused THEN UNCHANGED <<row, running, loop, pending>> ELSE Start
  /\ UNCHANGED <<budgetVars, cand, candBlocked, notices, painted, wake,
                 turnVars, cmdVars, bell, left>>

AppNext ==
  \/ \E t \in Triggers : Enqueue(t) \/ DeleteQueued(t)
  \/ \E s \in SystemCalls : SystemAcquires(s) \/ SystemReleases(s)
  \/ AppPauses \/ AppResumes
  \/ \E a \in Agents : AppResets(a)
  \/ Crash \/ Boot

-----------------------------------------------------------------------------
Init ==
  /\ QueueInit
  /\ lanes = {} /\ dead = {}
  /\ up = FALSE /\ running = FALSE /\ wake = FALSE /\ bell = FALSE
  /\ loop = "off" /\ cand = NoClaim /\ candBlocked = FALSE /\ pending = {}
  /\ notices = {} /\ painted = {}
  /\ active = [a \in Agents |-> NoClaim]
  /\ turnLane = [a \in Agents |-> NoClaim]
  /\ turn = [c \in Claims |-> "none"]
  /\ cancelled = {} /\ heartbeats = {} /\ mem = {}
  /\ ran = [t \in Triggers |-> 0] /\ unrecorded = {}
  /\ paused = FALSE /\ cmd = "none" /\ target = CHOOSE a \in Agents : TRUE
  /\ waitFor = {}
  /\ left = MaxUpsets

Next == LoopNext \/ TurnNext \/ CommandNext \/ AppNext

Spec == Init /\ [][Next]_vars
-----------------------------------------------------------------------------
(* Correctness.                                                            *)

LiveTurn(c) == turn[c] # "none"
Working(c)  == turn[c] \in {"body", "command"}

\* "One agent still holds at most one turn" (_claim_available_trigger): no two
\* _run_trigger tasks of one agent are unfinished at the same time.
OneTurnPerAgent ==
  \A c, d \in Claims :
    LiveTurn(c) /\ LiveTurn(d) /\ AgentOf[c[1]] = AgentOf[d[1]] => c = d

\* A turn that still works, and was not told to stop, works on a row that is
\* claimed under its own generation: nothing requeued, reclaimed, ended or
\* deleted the wake it is answering.  Turns that OneTurnPerAgent's counterexample
\* took the record of are excepted.
WorkingTurnHoldsItsRow ==
  \A c \in Claims \ unrecorded : Working(c) /\ c \notin cancelled => Held(c)

\* "A channel holds at most one live speak": two peers of one channel never
\* write at the same time.
OneLiveSpeak ==
  \A c, d \in Claims :
    /\ Working(c) /\ Working(d)
    /\ ChannelOf[c[1]] # NoChannel /\ ChannelOf[c[1]] = ChannelOf[d[1]]
    => c = d

\* Once a pause command has finished, no turn of any agent is left running, but
\* one whose record was taken.
PausedIsQuiet == up /\ ~running /\ cmd \in {"none", "resumeFiled"} =>
                   \A c \in Claims \ unrecorded : ~LiveTurn(c)

\* Whatever failed, and however often claims were lost to crashes, pauses and
\* cancels, a trigger's counted retries stay within turn_failure_retry_limit.
RetriesWithinLimit == \A t \in Triggers : row[t].retries <= RetryLimit

\* A lane of the live worker belongs to the claim being launched or to a turn
\* that has not ended: "one release means no release site can miss either"
\* (_release_turn_reservations).
LanesFollowTurns ==
  \A c \in (lanes \ dead) \cap Claims : c = cand \/ turn[c] # "none"

\* A turn is gone and its heartbeat still refreshes the lease of its claim.
Outlived(c) == c \in heartbeats /\ Held(c) /\ ~LiveTurn(c)

\* "Keep claimed_at fresh for the duration of a long LLM/shell turn"
\* (_heartbeat_claim_lease): once the turn is gone nothing refreshes the lease,
\* so that the orphan sweep finds the claim.
HeartbeatsServeTurns == \A c \in Claims : ~Outlived(c)

\* A command marked no-retry runs at most once for a trigger.
NoRepeatRunsOnce == \A t \in Triggers : ran[t] <= 1

\* The lane table moves only as the budget allows: one lane at a time is given
\* out under the knob or back, and only a dead process's lanes are swept.
BudgetSpec == Budget!BudgetSpec

-----------------------------------------------------------------------------
(* Liveness.  The loop wakes at least every 30 s, model calls and commands   *)
(* time out, and broadcasts return.  A dead worker is started by the next    *)
(* start(), of an enqueue, a reset or a resume: one is taken to come.        *)
(* asyncio runs its ready tasks in turn, so a task that is ready again and   *)
(* again while another one holds the loop does run: strong fairness.         *)

TurnProgress(t) == \E g \in 1..MaxGen : TurnMoves(<<t, g>>) \/ TurnEnds(<<t, g>>)
SweepLists(t)   == BeginDrain /\ \E p \in pending' : p[1][1] = t

Fairness ==
  /\ WF_vars(LoopNext) /\ WF_vars(LaunchStarts \/ LaunchRefuses) /\ WF_vars(Boot)
  /\ SF_vars(CommandNext)
  /\ \A t \in Triggers : SF_vars(TurnProgress(t)) /\ SF_vars(SweepLists(t))
  /\ \A s \in SystemCalls : WF_vars(SystemReleases(s))

FairSpec == Spec /\ Fairness

\* A claim always ends in a turn's end, a requeue or a failure (_drain_queue):
\* no row stays claimed for ever.
ClaimsEnd == \A t \in Triggers : Claimed(t) ~> ~Claimed(t)

\* Every queued wake is answered, given up, or deleted in the end.
WakesAreServed ==
  \A t \in Triggers : Queued(t) ~> row[t].status \in {"completed", "failed", "deleted"}
=============================================================================
