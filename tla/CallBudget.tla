------------------------------ MODULE CallBudget ------------------------------
(***************************************************************************)
(* The model-call budget of core/llm/call_budget.py: table                  *)
(* model_call_lanes, shared by the app process and the runtime worker.      *)
(*                                                                          *)
(* Every model call holds a lane and gives it back afterwards.  Agent turns *)
(* and System AI routes do without when none is free; any other call waits  *)
(* for one.  A lane of a process that died stays in the table until the     *)
(* next attempt of anybody finds its pid gone and deletes it.               *)
(***************************************************************************)
EXTENDS Naturals, FiniteSets

CONSTANTS
  TurnLanes,    \* lanes of kind "turn", taken by the worker's dispatcher
  SystemCalls,  \* lanes of kind "system", taken for System AI routes
  OtherCalls,   \* lanes of kind "call": model calls of the app outside a turn
  Limit         \* max_concurrent_model_calls, the operator's knob

ASSUME BudgetAssumption ==
  /\ Limit \in Nat \ {0}
  /\ IsFiniteSet(TurnLanes) /\ IsFiniteSet(SystemCalls) /\ IsFiniteSet(OtherCalls)
  /\ TurnLanes \cap SystemCalls = {}
  /\ (TurnLanes \cup SystemCalls) \cap OtherCalls = {}

VARIABLES
  lanes,    \* rows of model_call_lanes
  dead,     \* the lanes whose process is gone
  waiting   \* the other calls that wait inside acquire

budgetVars == <<lanes, dead, waiting>>

-----------------------------------------------------------------------------
SYSTEM_LANE_RESERVE == 1

Reaped == lanes \ dead

\* Seeded faults: one lane too many; lanes of dead processes count.
OneLaneTooMany(lane) ==
  /\ Cardinality(Reaped) <= Limit
  /\ lane \in SystemCalls => Cardinality(Reaped \cap SystemCalls) < SYSTEM_LANE_RESERVE
DeadLanesCount(lane) ==
  /\ Cardinality(lanes) < Limit
  /\ lane \in SystemCalls => Cardinality(lanes \cap SystemCalls) < SYSTEM_LANE_RESERVE

\* What try_acquire decides, after it deleted the lanes of dead processes.
CanAcquire(lane) ==
  /\ Cardinality(Reaped) < Limit
  /\ lane \in SystemCalls => Cardinality(Reaped \cap SystemCalls) < SYSTEM_LANE_RESERVE

try_acquire(lane) ==
  /\ lanes' = IF CanAcquire(lane) THEN Reaped \cup {lane} ELSE Reaped
  /\ dead' = {}

release(lane) ==
  /\ lanes' = lanes \ {lane}
  /\ dead' = dead \ {lane}

\* The process that took these lanes died; the table is not touched.
ProcessDies(held) ==
  /\ dead' = dead \cup (lanes \cap held)
  /\ UNCHANGED lanes

-----------------------------------------------------------------------------
BudgetInit == lanes = {} /\ dead = {} /\ waiting = {}

\* acquire: one attempt; a refused call waits and tries again, when a release
\* wakes it or when its 0.25 s poll ends.
Acquire(k) ==
  /\ k \notin Reaped
  /\ try_acquire(k)
  /\ waiting' = IF CanAcquire(k) THEN waiting \ {k} ELSE waiting \cup {k}

\* A caller that is cancelled while it waits takes its event off the list.
StopsWaiting(k) == k \in waiting /\ waiting' = waiting \ {k} /\ UNCHANGED <<lanes, dead>>

\* A refused turn stays queued, and a refused System AI route does without.
AcquireOrSkip(lane) == lane \notin Reaped /\ try_acquire(lane) /\ UNCHANGED waiting

Release(lane) == lane \in Reaped /\ release(lane) /\ UNCHANGED waiting

\* The worker dies with its turns' lanes; the app dies with every lane it holds
\* (the worker follows it, see the parent watchdog of core/runtime/worker.py).
WorkerDies == ProcessDies(TurnLanes) /\ UNCHANGED waiting
AppDies    == ProcessDies(TurnLanes \cup SystemCalls \cup OtherCalls) /\ waiting' = {}

BudgetNext ==
  \/ \E k \in OtherCalls : Acquire(k) \/ StopsWaiting(k)
  \/ \E lane \in TurnLanes \cup SystemCalls : AcquireOrSkip(lane)
  \/ \E lane \in lanes : Release(lane)
  \/ WorkerDies
  \/ AppDies

BudgetSpec == BudgetInit /\ [][BudgetNext]_budgetVars

-----------------------------------------------------------------------------
\* Live lanes never exceed the knob, and System AI routes hold at most the one
\* lane reserved for them: however processes die and lanes are reaped.
LanesWithinKnob ==
  /\ Cardinality(Reaped) <= Limit
  /\ Cardinality(Reaped \cap SystemCalls) <= SYSTEM_LANE_RESERVE

\* A model call is only made to wait by live callers: lanes left behind by a
\* dead process never refuse one.
WaitsOnlyForLiveLanes ==
  [][\A k \in OtherCalls : k \in waiting' \ waiting =>
       Cardinality(lanes \ dead) = Limit]_budgetVars
=============================================================================
