# TLA+ models of BossMod AI

BossMod AI runs a company of LLM agents on one machine. Two processes share one
SQLite database: the **app** (HTTP API, UI, runtime services) and the **runtime
worker** (one asyncio loop that runs the agents' turns). What has to be right,
and is hard to test, is the machinery between them: the durable queue of wakes,
the dispatcher that turns wakes into turns, the lanes that bound concurrent model
calls, the pause of a failing AI connection, the tasks that wait on one another,
the clock of recurring work, the rounds in which a thread's members answer, what
one agent has in hand, the direct chat whose messages wake it and may be taken
back, and the commands with which the operator stops, resumes and resets all that
at any moment.

These modules model that core. Every module is translated from the source named
in `PROJECT.json` under `map`; TLC checks small instances and TLAPS proves the
theorems for all values of the constants.

## Inventory

| Component | State | Operations | Interaction | Hard behaviour | Module |
|---|---|---|---|---|---|
| Trigger queue (`db/agent_triggers.py`) | rows `queued/claimed/completed/failed`, generation, retries, `retry_blocked` | create (merge), claim, complete, fail, retry, requeue all, take, delete, prune | both processes write it; each statement is one SQLite transaction | statements of two processes interleave; a late turn meets a row that was reclaimed | `TriggerQueue` |
| Turn dispatcher (`core/agent_loop/dispatcher.py`) | loop, wake event, `_active_turns`, `_turn_lanes`, painted notices, running turns | start, stop, drain, sweep, claim, launch, run, supervise, reset | reads the queue, takes lanes, obeys worker commands | cancellation at any await, crashes, failing clean-up, orphaned claims | `Dispatcher` |
| Model-call budget (`core/llm/call_budget.py`) | rows of `model_call_lanes`, waiters | try_acquire, acquire, release | shared by both processes | lanes of dead processes, the reserve of System AI | `CallBudget`, `ModelCall` |
| AI connection health (`core/llm/connection_health.py`) | one row per failing connection | admit, record_success, record_failure, end_undecided_test, retry_now | every model call of both processes | check then act, stragglers, leases, dead callers | `ConnectionHealth`, `ModelCall` |
| Model calls (`core/llm/client.py`, `system_completion.py`, `core/extensions/model_provider.py`) | none of their own | take a lane, be admitted, call, report, give back | budget and health, in an order that differs by path | a wait between two of these steps | `ModelCall` |
| Runtime control (`core/runtime/services.py`, `worker.py`, `db/runtime_control.py`) | runtime state, filed commands, worker process | pause, resume, reset, wake, reload, boot | app files commands, worker executes one at a time | time-outs, crash of the worker in a command | `Dispatcher`, `Schedules`, `AgentWakes` |
| Turn claims (`core/agent_loop/turn_claims.py`) | none of its own | cancel a turn and discard its claim | app to worker and queue | the claim may be another turn's by then | `AgentWakes` |
| One turn (`decision_turn.py`, `turn_helpers.py`) | retry block | commands that must not repeat | writes the trigger row | cancel between a command and its record | `Dispatcher` |
| Tasks and dependencies (`core/tasking`) | task status, parents, dependency edges | create, transition, hold, release, cancel, complete, settle dependents | turns, API, dispatcher, watchdog | check then write by two processes, cascades that fail half-way | `TaskBoard` |
| Schedules (`core/scheduling`) | rows, timetable, last outcome, reload request | occurrence, run now, edit, reload, start, stop | worker loop and its threads, app | double fire, crash after fire, a thread that outlives its loop | `Schedules` |
| Channel rounds (`channel_rounds.py`, `response_rounds.py`, `thread_supersede.py`, `channel_host.py`) | rounds, candidates, wakes bound to them | create, reserve, promote, observe, finish, advance, re-route, supersede, close orphans | turns of several agents, app handlers, reset | read then write across awaits, stale snapshots, newer messages | `Rounds` |
| Activities, liveness watchdog, CLI approvals, end of a meeting (`activity_runtime.py`, `activity_scheduler.py`, `decision_runtime.py`, `watchdog.py`, `approvals.py`, ...) | active and paused activities, task status, pings, a pending gate | decide, work, suspend, end, resume, ping, escalate, approve | turns, app, watchdog | work that is live and has no next wake | `LiveWork` |
| Direct chat, chat rewind, floor moves, runtime reset (`chat_rewind.py`, `messaging.py`, `turn_claims.py`) | messages, queue, wakes a coroutine holds | send, rewind, cancel and discard, reset, clear | app coroutines over the command lock and the queue | takes of claimed rows after an await, requests that overlap, wakes held in memory | `AgentWakes` |
| Meetings: invitations, rounds of speech | sessions, rounds | invite, start, speak | turns of several agents | as for rounds | - |
| Extensions, wake service | registry, watermarks | load, wake | enqueue | a wake delivered twice or not at all | - |
| Work snapshots, command line, API, UI, desktop, Telegram, prompts, agent packs, world, settings | - | - | - | I/O, formatting and presentation | - |

What makes each of the modelled ones correct, in a sentence:

- *queue*: a wake is answered by one claim at a time, finished rows stay finished,
  and a claim can only be ended by its own generation;
- *dispatcher*: one turn per agent, one speaker per channel, claims end, retries
  are bounded, what must not repeat is not repeated, pause means quiet;
- *budget*: live lanes stay within the knob and dead ones refuse nobody;
- *health*: a paused connection is tested by one call at a time, spaced by its
  wait, only on demand when it was rejected, and is never forgotten;
- *tasks*: nothing starts before its prerequisites, no dependent is forgotten,
  every status moves on the allow-map;
- *schedules*: an occurrence makes at most one task, nothing is replayed after a
  pause, no edit is missed, every enabled schedule stays in the timetable;
- *rounds*: one seat speaks at a time and once, and a round that is not settled
  has a wake;
- *model calls*: whoever calls a provider holds a lane, and every lane and test
  call that was taken is given back or runs out;
- *chat*: a message that is kept has a wake, and one only;
- *live work*: one activity at a time, live work has its next wake, and a task in
  flight is never left alone for good.

## Modules

| Module | Models | Extends / instantiates |
|---|---|---|
| `TriggerQueue` | the statements on `agent_triggers`; `QueueSpec` is the abstract specification of what its users may do | - |
| `CallBudget` | the lane table and its waiters | - |
| `Dispatcher` | the dispatcher, its turns, the worker's commands, the app beside it | extends `TriggerQueue`, instantiates `CallBudget` as `Budget` |
| `ConnectionHealth` | the pause of one connection and the calls of its callers | - |
| `ModelCall` | a model call from its lane to its end | extends `CallBudget` and `ConnectionHealth` |
| `AgentWakes` | one agent's direct chat, its wakes and the requests that cancel turns | extends `TriggerQueue` |
| `TaskStatus` | the statuses of tasks and the map of the moves between them | - |
| `TaskBoard` | tasks and their dependents, under two processes | extends `TaskStatus` |
| `Schedules` | the schedule clock, its threads and its rows | - |
| `Rounds` | the response rounds of one thread | - |
| `LiveWork` | activities, tasks and wakes of one agent | extends `TaskStatus` |
| `*MC` | small instances for TLC | the module they name |
| `TriggerQueueProofs`, `DispatcherProofs`, `ModelCallProofs`, `TaskProofs`, `SchedulesProofs`, `AgentWakesProofs`, `RoundsProofs` | theorems and proofs | the module they name and `TLAPS` (`DispatcherProofs` and `AgentWakesProofs` also `TriggerQueueProofs`; `TaskProofs` extends `TaskBoard` and `LiveWork`) |
| `RoundsDrivenProofs` | that the rounds are driven on, from the step lemmas of the module below it | extends `RoundsProofs` |

**TriggerQueue.** `row[t]` is the row of trigger `t`; `absent` is no row yet and
`deleted` a row that is gone, ids being UUIDs. Each operation carries the name of
its Python function and is one statement or one transaction. Payloads are left
out; the dispatch order (type priority, then age) is the constant `Rank` of
`Dispatcher`. Claims are numbered up to `MaxGen`, a bound on the model only.

**CallBudget.** `lanes` are the rows, `dead` those whose pid is gone.
`try_acquire` deletes the dead before it counts, as the code does in one
transaction. Turns and System AI routes do without when refused; other calls
wait. What wakes a waiter (a local release or the 0.25 s poll) is not told apart.

**Dispatcher.** The worker is one asyncio loop, so a step goes from one await to
the next. `loop`, `cmd` and `turn[c]` name the await at which the loop task, the
command task and the `_run_trigger` task of claim `c` are suspended. The points
`listed`, `claim` and `launch` are not awaits: the loop goes on from them in the
same stretch, and `WorkerYields` keeps every other task of the worker from
running there. The app's steps may come at any point. `cancelled` holds turns
with a `CancelledError` on its way; `CancelDelivered` says what each await does
with it. `mem` is the turn's own `retry_blocked` flag and `row[t].blocked` the
column. `ran` (times a no-repeat command ran) is history only. `ResolveNext`,
`BeginDrain`, `ClaimNext`, `LaunchStarts` and `PassEnds` are the loop's pass in
the order of `_loop` and `_drain_queue`; `TurnBegins` to `TurnForgotten` are
`_run_trigger` from its first line to its last; `StopBegins` to `StopDone` are
`stop`, `ResetBegins` and `ResetDone` `reset_agent`. What the environment may do
is bounded by one budget, `MaxUpsets`, with a price for each kind of upset
(`UpsetCost`), so that an instance may mix them. `unrecorded` (turns whose record
in `_active_turns` an older turn's end took) is history.

**ConnectionHealth.** Time is discrete and counts down: `retryIn` is what is left
until `retry_at`. A lease is named by the call that wrote it, which is what the
compare-and-set on the time stamp compares. `admit` is two steps, for its first
read is outside the transaction. A provider call ends before its timeout does,
which is what `lease_seconds` is computed from. `over` marks a test call whose
lease no longer keeps others away: it waited for its lane after it was admitted, or
a straggler's verdict or a Retry now wrote another time over it. `asked` and
`quiet` are history.

**ModelCall** composes the two: `CallBudget`'s callers are `ConnectionHealth`'s.
A turn has its lane from its claim (`TakesLane`), a route tries once, a plain call
waits for one; each of them is admitted with the lane in hand (`AsksFirst`,
`AsksAgain`). A call to an extension's provider is admitted first and waits then
(`ExtensionAcquires`). The end of the call, its verdict and the return of the
lane are one step (`EndsCall`). The worker dies with its turns, the app with all.

**AgentWakes.** The app's requests are coroutines: `req[r].at` is the await that
request `r` is suspended in, and `AppRuns` keeps other coroutines of the app from
running where there is none ("cut" and "take" follow the end of the reset without
an await). `RewindFreezes`, `Cut` and `Requeues` are the transactions of
`rewind_human_chat`; `CancelBegins` and `Takes` are `cancel_turn_and_discard_claim`
(floor moves and send-home), `CancelBegins` and `Deletes` the reset route.
`ResetAsks`, `ResetDone` and `GivesUp` are the command filed and awaited under the
lock. A command that its request gave up on stays open, so resets overlap. The
worker is the dispatcher without passes, lanes and leases: a claim is made and
launched later, so that a reset may miss it, and ends, or is cancelled by a
command, which leaves its row claimed. `givenUp` is history: the messages whose
wake was dropped on purpose (discard, reset) or lost with the app.

**TaskBoard.** Each process runs one handler at a time (`op[p]`), statement by
statement: `Check` is the allow-map check of `transition_task`, `update_task` its
second read, `Put` the UPDATE with what follows it, `ListHeldDependents` to
`SettleApplies` the settling of dependents one after the other. Who starts a
handler is `create_task`, `AgentActs`, `TurnGivenUp` (the stall of a wake that is
given up) and `OperatorActs` (hold, release, cancel, complete, re-present, the
block of a reset). `parked` and `dropped` are history: tasks that the operator
holds, and dependents whose settling a fault or a crash cut off.

**Schedules.** `watch` is the loop of `ScheduleWatch`, `table` its timetable,
`thread["watch"]` the run it waits for, `thread["orphan"]` a run whose loop was
cancelled, `thread["hand"]` Run now in the app. `Wakes` pops what is due and loads
what a reload asks for, `HandlesNext` judges one entry and starts its thread, and
`Reads`, `_fire` and `record_outcome` are the thread. Recurrence is the constant
`next_occurrence`. `command` is the one open reload row and `asking` the edit that
has not filed it yet. `runs`, `begun` and `loose` are history.

**Rounds.** `round`, `seat` and `wakes` are the tables; `act[p]` is where each
process (the thread's one running turn, the handler of a human message, the reset
of an agent) waits. A turn goes `Claim`, `Answers` (or observes, or passes),
`reserve_slot`, `begin_channel_response`, `_persist_reply`, and then `Finishes`:
`finalize_channel_response`, `advance_channel_round`, `_redecide_remaining`,
`create_round`, `_install_round_queue`, `Files`. The same operators serve
handlers and reset, whose next await differs (`TurnNext`, `PosterNext`). Whom the
router chooses is any choice. `said` and `halted` are history.

**LiveWork.** `board` holds the agent's rows: task status, work activity per
task, the assignment or talk beside them, queued wakes, watchdog marks. A turn is
claimed (`Claims`, with `prepare_trigger_context`), does one thing (a decision of
`apply_decision`, or a lifecycle action of an execution turn), and ends
(`Finishes`: backlog rebuilt, wake completed, follow-ups filed, continuation
ensured). `Pings` and `Escalates` are the watchdog's scan of one task. Helpers
carry the names of the functions they model. The statuses are those of `TaskStatus`,
coarser: `closed` is any terminal one, `blocked` is blocked or stalled, `unborn` is
no row.

Operators under the comment "Seeded fault" are wrong variants of the definition
below them. No specification uses them; they show which mistake each property
would notice.

## Runs

Bounds are constants of the modules and are set in the `.cfg` files; TLC explores
every instance completely.

| Run | Instance | Shows |
|---|---|---|
| `DispatcherPause` | 2 agents with a wake each and 1 System AI route, knob 1; 2 pauses, crashes, faults or parks in any mix, or 1 reset; late heartbeats, 2 claims per wake | `WorkingTurnHoldsItsRow`, `PausedIsQuiet`, `RetriesWithinLimit`, and that the dispatcher implements `QueueSpec` |
| `DispatcherQueue` | 3 wakes of 2 agents: a human chat, a wake it preempts, a channel shared by both agents, a no-repeat command; knob 2 | `OneTurnPerAgent`, `OneLiveSpeak`, `LanesFollowTurns`, `NoRepeatRunsOnce`, and that the lanes are used as `CallBudget` says (`BudgetSpec`) |
| `DispatcherLive` | 2 wakes in one channel, knob 1, 2 faults or 1 crash or 1 park, 3 claims per wake | `ClaimsEnd`, `WakesAreServed` |
| `ModelCall` | 1 turn, 2 routes, a plain call, an extension's call; knob 2, waits of 2 and 3 ticks, lease 3, a pause after 2 failures; both processes die at will | `TypeOK` (health), `LanesWithinKnob`, `CallsHoldLanes`, `WaitsOnlyForLiveLanes`, `OneTestAtATime`, `RetryNowStaysDue`, `RejectedWaitsForOperator`, `TestsAreSpaced`, `TransientPauseComesDue` |
| `AgentWakes` | 2 messages, 2 requests (a rewind, beside a discard or a reset), 6 trigger ids, 3 claims per wake, retry limit 1, 1 crash, fault, failed turn, other wake or cleared chat | `KeptIsWoken`, `OneWakePerMessage`, `MessagesAreAnswered` |
| `TaskBoard` | 3 tasks, the last under the first and after the other two; the operator, agents that complete or decline, settling that raises, processes that die | `NothingReleasedWaits`, `NoForgottenDependent`, `MovesOnTheMap`, `EveryDependentSettles` |
| `Schedules` | 1 schedule, 2 rules with one instant each, 1 edit, 1 Run now, pauses, crashes and refused statements at will | `AtMostOncePerOccurrence`, `NothingReplayed`, `AsleepInStep`, `OnlyKnownGapsStack`, `EntryReturns` |
| `Rounds` | 2 members, 2 human messages, 2 rounds, cap 1, one click, reset, crash or turn without a decision | `TypeOK`, `OnlyKnownStops`, `OneResponder`, `SpeaksOnce`, `RoundsSettle` |
| `LiveWork` | 1 agent, 2 tasks, one message, edit or end by the operator, one failure, crash or lost wake; meetings, approvals and assignments at will | `OneActivity` (with `WorkTypeOK`), `LiveWorkIsDriven`, `InFlightIsAttended` |

Where the types are proved for all constants, no run checks them again.

Why the bounds are enough. Two wakes of one agent, or two agents, or two speakers
of one channel are all a conflict needs; a third wake adds the bystander of both
kinds. A second claim per wake is what a late turn can collide with, and the
third lets a wake be lost, fail and still be answered. Pauses, resets, crashes
and faults may come at every point of a behaviour, and the code keeps nothing
that counts them, except retries: there the limit is 1 and two failures fit.
The budget is at its limit with five callers for two lanes, and the waits are the
shortest ones that can be doubled and capped. The lease is longer than the first
wait, as it is with the defaults (60 s against more than 30 minutes): only then can
the wait that a straggler's failure sets end before the test call does. In
`AgentWakes` a rewind overlaps with each of the two other kinds; six ids let every
wake be filed again (a shortage would show as a message that is never answered),
and what is proved there is for any number of both. A plan of three tasks has a
dependent with two prerequisites, which is where two settlers meet; an edge more is
another of the same. Schedules share nothing but the loop's pass, and the theorems
below hold for any number of them. Two rounds of two seats hold a newer message, a
re-route and a queue of one behind a speaker; a follow-up round is asked for and
refused by the cap of 1. With cap 2, where follow-ups are opened, the same instance
was explored once (835 080 states, `RoundsSettle` included, no error), and the safety
properties of `Rounds` are proved for any bounds. Of `LiveWork`, the safety part was
explored with two clicks as well (3.9 million states).

### Runs that end in a counterexample

Each states what the code's own text promises; TLC finds a behaviour of the code
that breaks it. `PROJECT.json`, `findings`, quotes the lines.

| Run | Property | Behaviour |
|---|---|---|
| `TwoTurnsOneAgent` | `OneTurnPerAgent` | `reset_agent` forgets the agent's turn, then awaits its end; a drain in that await launches the agent's next wake beside it |
| `OutlivedHeartbeat` | `HeartbeatsServeTurns` | a turn starts its heartbeat, then broadcasts "thinking" before its `try`; a reset that cancels it there leaves the heartbeat refreshing the lease, so the sweep never finds the claim |
| `EndedMeeting` | `EndedMeetingGivesATurn` | an agent accepts a meeting, which puts the task in its hands back to pending; the meeting is ended; the work is live again, and the check that should give it a turn looks for accepted and active tasks only |

### Observations without a run

While modelling, these were seen in the code. The models contain them unless it is
said that they do not, and the properties are stated so that they hold beside them.

*Queue and dispatcher.* A pause cancels a turn before its `try`, in the idle
broadcast of its `finally`, or the loop between claim and launch: the lane stays
recorded until the worker ends or the agent runs again. A pause that cancels a
turn between its no-repeat command and `record_retry_block` lets the command run
again after resume. That is why `OneTurnPerAgent`, `LanesFollowTurns` and
`NoRepeatRunsOnce` are checked where nothing is cancelled from outside. The other
process may claim the queued row between the SELECT and the UPDATE of
`create_agent_trigger`: nothing is written, the merge is reported and the wake is
lost (payloads are not modelled, and the merge is only a wake that is not
inserted). `_loop` clears the wake event after a drain whose last await came after
its decision, so a wake-up set there waits for the 30 s poll. The orphan sweep
decides by the `retry_blocked` it read before it recovered earlier orphans. A
worker that died is not started again before the next `start()`: an enqueue, a
reset or a resume.

*Model calls.* A call admitted before the pause that fails during the test
call overwrites its lease with the wait. The default wait (60 s) is far shorter than
a lease (over 30 minutes), so a second test may begin beside the first; so it may
after a Retry now. When the caller of a rejected connection's test dies, its lease
runs out and the connection is tested again unasked. client.py:625 admits a call to an extension's provider with
a lease of the call's own timeout, and model_provider.py:362 waits for a lane
only then: the wait is not part of the lease, which may run out before the test
call is over, and a second test begins. connection_health.py:12 says "Only one
caller can take a test call (its lease on ``retry_at`` covers the whole call)".
`OneTestAtATime` excepts the test calls overruled or late in these ways by `over`,
and holds for any wait and lease.

*Chat and requests.* Whether a rewind must stop a turn is read in its first
transaction, and whatever turn the agent has when the command runs is cancelled:
if the chat turn ended meanwhile this is another one, of a task or a thread,
though chat_rewind.py says that non-chat turns "are never cancelled"; its row
stays claimed for the sweep. A chat turn that fails in between requeues its wake,
and the next turn starts on it, though "no turn can start on a message about to be
removed". A message that `route_human_dm` has committed and is broadcasting may be
cut before its wake is filed: the agent is then woken for a message that is gone.
So it is when a cut is refused, or overlaps with another rewind. The wakes a
rewind holds are in memory: a crash of the app loses them, and one that cannot be
filed again takes the rest with it (`givenUp`). `reset_agent` misses a claim that
is being launched: the request then deletes the row of a turn that goes on to run.

*Tasks.* `update_task` reads the status and writes without naming it, so a move of
the other process in between is lost; the constant `LostUpdates` turns that on,
and runs and theorems are about `FALSE`. `_resolve_stuck_task` does not exclude
held tasks, whose stall is then an illegal move and raises. A task blocked by a
failed prerequisite may be marked stalled, though dependencies.py says held or
blocked. A settling that read a dependent as held may release it after it was
released and held again in between. The operator's hold may overtake a defer.

*Schedules.* An edited rule's old entry may still fire until the reload. Run now
and an occurrence may stack (`loose`). A task that was fired, and whose loop was
cancelled before `_deliver`, is not announced to its agent.

*Rounds.* A turn that gives up completes its trigger without
`release_channel_seat`. Two handlers, or a handler and a superseding turn, may
open two rounds for one message. Observing on a stale message leaves pending
seats. A pause between the route check and the creation opens a round in a paused
thread, and deletes the wake of a promoted seat. A turn that meets a newer message
deletes the wakes of its old round and observes its pending and queued seats; a seat
that was promoted just before, and whose turn has not begun, is neither: it stays
responding with no wake (this takes fan-out, or three members). After a crash the retried turn
finds its seat already responding, or posts its line twice. `close_orphaned`
leaves young rounds alone. `halted` marks rounds stopped by these.

*Live work.* A failed turn runs no continuation check: giving up a chat that came
in over a meeting leaves resumed work without a wake until the watchdog comes. A
ping needs live work, so the ping of a waiting task, or of one whose work is
suspended, fails at its claim and is never seen by the agent. A boss message
deletes a queued ping while its mark stays. Declining a task whose work activity
is open leaves that activity behind; deferring the live one leaves it active with
a pending task. Escalation and giving up a task's wake cancel all activities of
the agent, not only those of that task. After cancel by decision, after the block
for steps without progress, and after operator actions, the next work is not
picked up. A crash of the app between an approval and its wake loses the wake.

## Fairness

`Dispatcher!Fairness`: the loop runs when it can (asyncio schedules it, and
`wait_for` wakes it after 30 s at the latest); a command that was filed is
executed; the turn of a wake makes progress as often as it can again and again
(asyncio runs ready tasks in turn, model calls and commands time out); a System AI
route gives its lane back; a dead worker is booted again (the assumption is that
something will file a wake or a command, which is what boots it). The sweep is fair to
each trigger, because a lease that nobody refreshes does grow old. Launching is
fair by itself, so that the environment's faults cannot be the only outcome for
ever. New wakes, faults, crashes and commands are under no fairness.
`ModelCall!Spec`: provider calls end, since they time out; a waiter polls, and
takes a lane that stays free; time passes, although again and again something
must be done before it does (strong fairness, for there is always another step).
`AgentWakes!FairSpec`: one condition over all steps of worker and app together,
that some step is taken while one can be, so it promises no single action
anything; that a request's wait ends is its 10 s limit. `TaskBoard!Spec`: a handler
that began goes on, unless its process dies. `Schedules!Spec`: the loop's sleep is
capped, its thread ends, and a command that was filed is claimed and executed; the
worker need never boot nor resume. `Rounds!Fairness`: turns, handlers and resets go
on, and a queued wake is claimed in the end, which `WakesAreServed` is about.
`LiveWork!WorkSpec`: some step of a turn, the loop or the watchdog is taken whenever
one of them can be; it is one condition over all of them, so it promises no single
action anything. Nothing makes an operator click, an agent decide well, or a
process fail.

## Proofs

`TriggerQueueProofs` shows that every statement keeps the rows well formed and
that no statement moves a finished or deleted row back, for any number of
triggers, agents and claims: `QueueTypeInvariant` and `FinishedRowsStayFinished`.
Both follow from one lemma on a single row (`RowStep`).

`ModelCallProofs` begins with `KnobIsKept`, about the budget alone: live lanes never
exceed the knob nor System AI its reserve. The inductive invariant adds that lanes
are taken only for known callers, which makes them a finite set; the argument is on
cardinalities: one attempt adds one lane to the live ones, and only below the limit.
The other side of it is `WaitersWaitForTheLiving`: whoever is made to wait finds as
many live lanes as the knob allows. An attempt deletes the dead before it counts, so
what refused it are live lanes, and of those there are never more than the knob.
`CallsKeepTheKnob` and `CallsWaitForTheLiving` carry both to the composition (each of
its steps is a step of the budget), and `CallsAreBudgeted` proves that a caller at its provider holds a lane:
one on its way to a verdict with `AdmitDecides` holds one already, unless it is an
extension's, and `LiveLanesStay` says that no step but the holder's own, or the death
of its process, takes a live lane away.

The connection's health is proved in the same module, first for a health step
(`StepIsHealthStep` says that every step of a call is one, or leaves health alone).
`HealthInv` says of the row that a transient pause has a wait, that a Retry now
nothing used up is due, that the time left and the time gone by make a whole wait
together, and that a rejected row has a time only from the operator or from a lease;
and of the calls that a test call within its lease still has that lease in the row
(`LeasesStand`). From it follow `HealthTypes`, `TestsRunAlone`, `RetryNowIsKept`,
`TestsKeepTheirDistance` and `RejectedIsNotRetried`. `LeasesStand` failed where a
straggler's verdict replaced the lease, which is how the exception `over` came to
name those calls.

`DispatcherProofs` proves, for any constants that satisfy the assumptions:

- `TypeInvariant`: `Spec => []TypeOK`;
- `DispatcherUsesQueue`: `Spec => QueueSpec`, the dispatcher implements the queue;
- `DispatcherKeepsFinished`: hence a finished wake is never run again;
- `RetriesAreBounded`: `row[t].retries <= RetryLimit` always.

The inductive invariant `IInv` is `TypeOK` with two facts it does not imply:
claims are numbered from 1 (else the claim the loop holds would not be one), and
the loop holds a claim wherever it works on one. The step lemmas go action by action; `RowMoves` reduces
each of them to one statement of the queue, so that everything about rows is
proved once, in `TriggerQueueProofs`. `RetriesAreBounded` needs the queue's
statements with `RetryLimit` for their bound, which is how `QueueChange` is
parameterised.

The same module proves what holds of turns, lanes and commands:

- `WorkingTurnsHoldTheirRows`, `PauseLeavesNoTurn` and `ChannelsHoldOneClaim`, with
  pauses, resets, crashes, parks and faults at will;
- `DispatcherUsesBudget`: `Spec => BudgetSpec`, the dispatcher with the System AI
  routes beside it implements the lane budget;
- `OneTurnWithoutResets` and `OneSpeakWithoutResets`, if no reset happens;
- `LanesFollowUncancelledTurns`, if nobody pauses or resets;
- `NoRetryCommandsRunOnce`, if moreover no process dies and no statement fails.

`TurnInv` is what the first three need: a turn is known to the loop or to the command
that awaits it, what `_active_turns` records is a live turn of that agent not told to
stop, the agent of the claim about to be launched is free, no turn, cancel or lane
bears a claim that is still to be issued, and a turn that answers its wake holds it.
Every step of a turn is reduced to one of three kinds (it goes on, is told to stop, is
over), every step of a command or of the loop has a lemma of its own. The later
theorems add `ResetFree` (no record was taken away, so that a command never waits for
two turns of one agent), `Undisturbed` with `LanesAreRecorded` (each live lane is
recorded for its agent) and `CommandsAreCounted` (a command that ran, ran in the turn
that still holds the row, or the row is finished).

The assumption `Never(kind)` says that such an upset costs more than the environment
has to spend, so it is one on the constants. It cannot be dropped: the code breaks
`OneTurnPerAgent` by a reset, which `TwoTurnsOneAgent` shows, and the other two in the
ways told under *Queue and dispatcher*. The instance of `DispatcherQueue` has only
resets to spare and no budget for them.

`TaskProofs` proves of `TaskBoard` the theorems `TypeInvariant`, `ReleasedNeverWaits`,
`NoDependentForgotten` and `StatusesMoveOnTheMap` for any tasks, parents and
edges, the last three under `Steady`: no write comes between `update_task`'s read and
its own. Without it they fail (a hold there is overwritten by an agent's decline: held to
declined is off the map), and `OnlyStaleMovesLeaveTheMap` says how far: a status leaves
the map only by an UPDATE that was allowed when the handler read the row, over a status
that another step wrote since.
`IInv` is `Core`, `DeadIsSettled` and `CompleteIsSettled`. `Core` says that a
pending UPDATE is still allowed where the status has got to, that two processes
are never about to write the same task, and, per handler, what its list of
dependents holds. The two others split `NoForgottenDependent` by what closed the
prerequisite: a dead one must have the dependent in its list from the start,
while of several complete ones only the last has to. Three lemmas say what a step
does to statuses and edges, and the rest argues from them, not from the actions.

Of `LiveWork` the same module proves `WorkTypes`, `OneThingAtATime`,
`LiveWorkHasItsTurn` and `WorkKeepsToTheMap`, for any tasks, incidents and clicks.
The inductive invariant `WorkInv` has three parts beside the types. `OneAtATime` says
of the activities what `OneActivity` says by counting. `Attended` is stronger than
`LiveWorkIsDriven`, which only wants some wake: live work in flight has a wake that
names it or names no task at all. Some wake is not inductive, since the only one may
belong to another task and go with it when the operator closes that one. `Attended` is
kept where no turn runs, no approval is pending and nothing has failed. The third part
is that between turns nothing is left of the last one.

Each helper that takes a board to a board (`pause_active_work`,
`activate_work_activity`, `Leaves`, `requeue_commitment` ...) has a lemma that its
result is `Onward`: sound again, and no closed task is open nor a made one gone.
`Onward` steps add up (`OnwardOn`), so a handler that calls several of them is a chain
of citations, and an action needs one argument more: that the turn goes on, or that
the wakes it leaves serve the live work (`Served`). A turn's end has it from
`ensure_live_work_continuation` (`ContinuedIsAttended`), the end of a meeting too, a
message and a resolved approval from their own wake, and the app's handlers because
what they take away belongs to their own task (`AttendedOn`). `WorkKeepsToTheMap` ties
the two modules together: what `Onward` allows of a status is, read back, on the map of
`TaskStatus`, the one that `TaskBoard` checks and `transition_task` enforces.

`SchedulesProofs` proves `TypeInvariant`, `AtMostOnce`, `NoReplay`, `NoReloadLost`
and `RunsDoNotStack` for any schedules, rules and bounds. `IInv` adds to the types that
entries lie ahead of what has run (`Ordered`), that a run in a thread has not made
its task yet (`Once`), that what a loop pops is no older than its start (`Fresh`),
and that a sleeping loop and the rows differ only if a reload is on its way
(`Known`). `RunsDoNotStack` needs `GapsInv` beside it: of a schedule that is not
`loose` one run at a time is being made, nothing is open before it, then its task,
and in the end what `last_task_id` names, so that the next run is refused.

`AgentWakesProofs` proves, for any messages, requests, triggers and bounds,
`AgentWakesTypes`, `AgentWakesUseQueue` (again `Spec => QueueSpec`),
`MessagesWakeOnce` and `KeptMessagesAreWoken`. Neither of the last two is
inductive: `IInv` adds that a trigger is held by one request, and no longer has a
row then (`HeldOnce`), and that a message not filed yet has no wake
(`UnfiledHaveNone`). Every step is one of two kinds: it files no wake (`Quiet`: no
trigger comes alive, and the wakes that die are those of messages that go or are
given up), or it files a fresh one for a message that has none alive after the
step (`NewWake`). Two lemmas show that each kind keeps the invariant, the others
that each action is of a kind.

`RoundsProofs` proves `Types` and `OneSeatResponds`, for any members, handlers,
messages, rounds and cap. `Formed` is `TypeOK` with `Shape`: rounds are opened in
their order and only then referred to, what a turn, a reset and a handler hold at each
of their steps, and that a round whose seats are still to be filled is in one
process's hands. For each action there is a lemma that says what it does to the rows,
and these lemmas serve every later argument. One seat responds because the two
statements that promote ask first.

`RoundsDrivenProofs` proves `SeatSpeaksOnce` and `NoRoundIsForgotten`, that is
`SpeaksOnce` and `OnlyKnownStops`. The invariant `Driven(r)`, for every round that was
not stopped, follows the wake of each open seat:

- a seat has one wake or one turn at a time, and none once it has responded (`Unique`,
  `Spent`), and a turn that is about to post has closed its seat (`Unsaid`);
- in fan-out everybody has been waked, and a queued seat waits behind one that
  responds (`Fanout`);
- in rounds one wake or one process has the round, and with it the only seat that may
  be queued or respond (`Turns`: `OneHolder` and who waits for what);
- a round is active no longer than a seat is open, or its seats are being filled.

Each action has a lemma for the round it works on, while for every other round it is
enough that the process is seen alike from there (`Rests`, `DrivenKept`). Cancelling
older rounds, a pause and a superseding turn only take wakes away and close seats
(`Shrinks`). The seat that a superseding turn leaves responding without a wake was
found by the attempt to prove this: `OnlyKnownStops` was false with three members, and
the rounds in which it happens are now marked in `halted` (`Stranded`).

Only model-checked: all liveness, `ENABLED` and fairness being out of the prover's
reach (`ClaimsEnd`, `WakesAreServed`, `TransientPauseComesDue`, `MessagesAreAnswered`,
`EveryDependentSettles`, `EntryReturns`, `RoundsSettle`, `InFlightIsAttended`). Every
invariant, action property and refinement that a passing run checks is a theorem too,
under the assumptions on constants named above.

## Not modelled

In the queue: payloads, so the rewriting of a merged row, and ordering columns.
In `Dispatcher`: agents in transit (they wait), holds and probe slots of
paused connections (a park is a bounded choice), social timers, follow-up wakes
filed by turns, the 10 s wait of the app on a command and overlapping commands
(in `AgentWakes`), a crash of the app (in `AgentWakes` and `ModelCall`), the awaits
between a turn's removal from `_active_turns` and its notify and between a reset's
await and its notify, an exception that escapes a drain pass, changes of the knob
at run time, deletion of a connection, and two time stamps that coincide.
In `ModelCall`: attempts within a call and their back-off, and a System AI route
through an extension, which is a route like any other.
In `AgentWakes`: pause, resume and shutdown, which take the same lock; other agents;
wakes that a chat does not preempt; attachments, notes, notices and activities;
the wakes with which a discarded channel turn's round goes on (in `Rounds`).

In `TaskBoard`: titles, contracts, checklists, references, binding to existing
tasks; the events, wakes, notices and activities that a move leaves behind.
In `Schedules`: the recurrence rules' arithmetic, notification text, vacations
(a run may be skipped at any time), a second open reload, more than one orphan
thread; a failing sync leaves everything as it is.
In `Rounds`: the order of queued wakes, the router's mode, demotion, stay and work
binds, mentions, idle-check rounds, rounds opened by agents' shares, archived
threads and floors, meetings, several threads; bursts of messages are single
messages, and where the bound on rounds is reached no further one is opened.
In `LiveWork`: other agents, breaks and walks, session, channel, follow-up and
update wakes, delegation, held and unreleased tasks, vacations, detached turns of
extensions, clocks. Wakes are a set, so two alike are one. One talk lies over the
work at a time, and a meeting is attended only when nothing else does. A stretch
of code without an await is one step, and the app's handlers and the watchdog's
mark with its ping are one step each. `stalled` counts as `blocked`. A ping is sent
whenever the queue is empty: how long it was quiet is left open.

Other components: see the inventory and `PROJECT.json`. Command line, prompting,
providers, UI, API, world, packs and integrations are I/O and text; the state they
change is that of the components above. The map covers little of the repository by
lines, for the larger part of it is such code; the files that hold the machinery
named at the top are covered function by function.

## Plan

1. `RuntimeControl`: pause, resume, shutdown and the extension commands over the
   lock and the wait of `AgentWakes`; an abstract runtime (running, pausing, paused)
   that the dispatcher with its commands implements.
2. `WakeService`: the watermark of extension wakes.
3. Meetings: invitations and the rounds of speech, after the pattern of `Rounds`.
