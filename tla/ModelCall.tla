------------------------------- MODULE ModelCall -------------------------------
(***************************************************************************)
(* One model call of the app or the worker: the lane of the model-call      *)
(* budget and the admission by the AI connection's health, in the order in  *)
(* which the callers take them.                                             *)
(*                                                                          *)
(* A turn holds its lane from its claim to its end and makes calls within   *)
(* it.  A System AI route (core/llm/system_completion.py) and a plain call  *)
(* (core/llm/client.py) take a lane, are admitted, call and give the lane   *)
(* back.  A call to an extension's provider is admitted first and only then *)
(* waits for its lane (core/extensions/model_provider.py).                  *)
(*                                                                          *)
(* Giving the lane back is one step with the call's end: nobody but the     *)
(* budget reads it, and a caller refused in between tries again.            *)
(***************************************************************************)
EXTENDS CallBudget, ConnectionHealth

ASSUME CallAssumption ==
  /\ Callers = TurnLanes \cup SystemCalls \cup OtherCalls
  /\ ExtensionCalls \subseteq OtherCalls

vars == <<lanes, dead, waiting, row, call, asked, quiet>>

-----------------------------------------------------------------------------
Holds(k) == k \in Reaped

\* What a caller does with its lane when its call is over.
LeavesLane(k) ==
  IF Holds(k) /\ k \notin TurnLanes THEN Release(k) ELSE UNCHANGED budgetVars

\* The dispatcher's and a route's attempt: they go without when none is free.
TakesLane(k) ==
  /\ k \in TurnLanes \cup SystemCalls
  /\ AcquireOrSkip(k)
  /\ UNCHANGED healthVars

\* A plain call waits for its lane before it asks to be admitted.
PlainCallAcquires(k) ==
  /\ k \in OtherCalls \ ExtensionCalls
  /\ Acquire(k)
  /\ UNCHANGED healthVars

\* Seeded fault: a plain call is admitted before its lane is there, too.
MayAskUnheld(k) == k \in OtherCalls \/ Holds(k)

MayAsk(k) == IF k \in ExtensionCalls THEN TRUE ELSE Holds(k)

AsksFirst(k) == MayAsk(k) /\ AdmitReads(k) /\ UNCHANGED budgetVars

\* A denied caller gives its lane back with its refusal.
AsksAgain(k) ==
  /\ AdmitDecides(k)
  /\ IF call'[k].at = "idle" THEN LeavesLane(k) ELSE UNCHANGED budgetVars

\* complete(): the provider is called with the lane, however long that took.
ExtensionAcquires(k) ==
  /\ k \in ExtensionCalls /\ call[k].at = "admitted"
  /\ Acquire(k)
  /\ IF CanAcquire(k) THEN ProviderCallBegins(k) ELSE UNCHANGED healthVars

EndsCall(k) == Calling(k) /\ CallEnds(k) /\ LeavesLane(k)

\* A caller that is cancelled while it waits for its lane.
GivesUpWaiting(k) ==
  /\ k \in OtherCalls /\ StopsWaiting(k)
  /\ IF call[k].at = "admitted" THEN end_undecided_test(k) ELSE UNCHANGED healthVars

\* A turn ends, or a caller with its lane is denied or cancelled before it asks.
GivesLaneBack(k) == call[k].at = "idle" /\ Release(k) /\ UNCHANGED healthVars

WorkerProcessDies == WorkerDies /\ CallersDie(TurnLanes)
AppProcessDies    == AppDies /\ CallersDie(Callers)

ConnectionStep == (retry_now \/ ConnectionEdited) /\ UNCHANGED budgetVars

\* The first attempt for a lane is made at once, and a waiter finds a free lane
\* within its poll of 0.25 s: no tick is spent on either.
TimePasses ==
  /\ \A k \in Callers : call[k].at = "admitted" => k \in waiting
  /\ waiting # {} => Cardinality(Reaped) = Limit
  /\ Tick
  /\ UNCHANGED budgetVars

Init == BudgetInit /\ HealthInit

Next ==
  \/ \E k \in Callers :
       \/ TakesLane(k) \/ PlainCallAcquires(k) \/ AsksFirst(k) \/ AsksAgain(k)
       \/ ExtensionAcquires(k) \/ EndsCall(k) \/ GivesUpWaiting(k) \/ GivesLaneBack(k)
  \/ WorkerProcessDies \/ AppProcessDies \/ ConnectionStep \/ TimePasses

\* Calls time out, waiters poll, and time passes however often it was held up.
Spec ==
  /\ Init /\ [][Next]_vars
  /\ SF_vars(TimePasses)
  /\ \A k \in Callers :
       WF_vars(EndsCall(k)) /\ WF_vars(PlainCallAcquires(k) \/ ExtensionAcquires(k))

-----------------------------------------------------------------------------
\* No provider is called without a lane of the budget: however lanes of dead
\* processes are reaped, and on each of the three paths to a call.
CallsHoldLanes == \A k \in Callers : Calling(k) => Holds(k)
=============================================================================
