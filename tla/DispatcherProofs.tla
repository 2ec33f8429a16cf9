--------------------------- MODULE DispatcherProofs ---------------------------
(***************************************************************************)
(* Proofs about the dispatcher over the durable queue, for every number of  *)
(* agents, triggers, lanes, crashes, pauses and resets: what the queue sees  *)
(* of it, which row a turn works on, what a pause leaves behind, how the     *)
(* lane table moves, and what holds of a worker that is never told to reset  *)
(* an agent.                                                                 *)
(***************************************************************************)
EXTENDS Dispatcher, TriggerQueueProofs

-----------------------------------------------------------------------------
(* The inductive invariant.  TypeOK alone is not inductive: a step resolves  *)
(* cand, so cand must be a claim wherever the loop is about to do that, and   *)
(* the orphans of a start must be claims that were issued.                   *)

CandIsClaim ==
  loop \in {"failing", "fixing", "abandon", "emitting", "launch"} => cand \in Claims

IInv == TypeOK /\ ClaimsAreNumbered /\ CandIsClaim

\* What one step of the program does to the queue.
RowMoves == \/ \E t \in Triggers : QueueArrival(t)
            \/ QueueChange(RetryLimit)
            \/ UNCHANGED row

-----------------------------------------------------------------------------
(* Every step of the dispatcher is a step of the queue.                     *)

\* Ending, failing or retrying a claim is a statement of the queue.
LEMMA EndsAreChanges ==
  ASSUME NEW c \in Claims,
         complete_agent_trigger(c) \/ fail_agent_trigger(c)
           \/ retry_agent_trigger(c, FALSE) \/ RetryOrExhaust(c)
  PROVE  QueueChange(RetryLimit)
BY DEF QueueChange, RetryOrExhaust

\* The boot requeue is one, or start() leaves a running dispatcher alone.
LEMMA StartIsChange == ASSUME Start PROVE QueueChange(RetryLimit) \/ UNCHANGED row
BY DEF Start, QueueChange

\* What the dispatcher loop does to the rows.
LEMMA LoopMoves == ASSUME IInv, LoopNext PROVE RowMoves
<1>1. ASSUME NEW p \in pending, ResolveNext(p) PROVE RowMoves
  BY <1>1 DEF ResolveNext, RowMoves
<1>2. CASE ResolveCand
  <2>1. cand \in Claims
    BY <1>2 DEF ResolveCand, IInv, CandIsClaim
  <2> QED
    BY <1>2, <2>1, EndsAreChanges DEF ResolveCand, StrandedClaimEnds, RowMoves
<1>3. CASE BeginDrain
  BY <1>3 DEF BeginDrain, RowMoves
<1>4. CASE AnnounceHealth
  BY <1>4 DEF AnnounceHealth, RowMoves
<1>5. CASE ClaimNothing
  BY <1>5 DEF ClaimNothing, RowMoves
<1>6. ASSUME NEW t \in Triggers, ClaimNext(t) PROVE RowMoves
  BY <1>6 DEF ClaimNext, RowMoves, QueueChange
<1>7. CASE Emitted
  BY <1>7 DEF Emitted, RowMoves
<1>8. CASE PassEnds
  BY <1>8 DEF PassEnds, RowMoves
<1>9. CASE LaunchStarts
  BY <1>9 DEF LaunchStarts, RowMoves
<1>10. CASE LaunchRefuses
  <2>1. cand \in Claims
    BY <1>10 DEF LaunchRefuses, IInv, CandIsClaim
  <2> QED
    BY <1>10, <2>1, EndsAreChanges DEF LaunchRefuses, RowMoves
<1>11. CASE LaunchRaises
  BY <1>11 DEF LaunchRaises, RowMoves
<1> QED
  BY <1>1, <1>2, <1>3, <1>4, <1>5, <1>6, <1>7, <1>8, <1>9, <1>10, <1>11 DEF LoopNext

\* What the turns do to the rows.
LEMMA TurnRowMoves == ASSUME IInv, TurnNext PROVE RowMoves
<1> SUFFICES ASSUME NEW c \in Claims,
                    CommandRuns(c) \/ TurnEnds(c) \/ TurnMoves(c) \/ HeartbeatEnds(c)
             PROVE  RowMoves
  BY DEF TurnNext
<1>1. CASE CommandRuns(c)
  BY <1>1 DEF CommandRuns, RowMoves
<1>2. CASE TurnCompletes(c)
  BY <1>2, EndsAreChanges DEF TurnCompletes, RowMoves
<1>3. CASE TurnFails(c)
  BY <1>3, EndsAreChanges DEF TurnFails, Supervised, RowMoves
<1>4. CASE TurnRaises(c)
  BY <1>4 DEF TurnRaises, RowMoves
<1>5. CASE CommandRecorded(c)
  <2>1. c[1] \in Triggers
    BY DEF Claims
  <2> QED
    BY <1>5, <2>1 DEF CommandRecorded, RowMoves, QueueChange
<1>6. CASE EscapeSupervised(c)
  BY <1>6, EndsAreChanges DEF EscapeSupervised, Supervised, RowMoves
<1>7. CASE TurnBegins(c) \/ ModelCall(c) \/ Reported(c)
  BY <1>7 DEF TurnBegins, ModelCall, Reported, RowMoves
<1>8. CASE ReservationsReturned(c) \/ TurnForgotten(c) \/ CancelDelivered(c) \/ HeartbeatEnds(c)
  BY <1>8 DEF ReservationsReturned, TurnForgotten, CancelDelivered, HeartbeatEnds, RowMoves
<1> QED
  BY <1>1, <1>2, <1>3, <1>4, <1>5, <1>6, <1>7, <1>8 DEF TurnEnds, TurnMoves

\* What the runtime commands do to the rows.
LEMMA CommandRowMoves == ASSUME IInv, CommandNext PROVE RowMoves
<1>1. CASE StopBegins \/ LoopCancelled \/ StopCancelsTurns \/ StopDone
  BY <1>1 DEF StopBegins, LoopCancelled, StopCancelsTurns, StopDone, RowMoves
<1>2. CASE ResumeRuns
  BY <1>2, StartIsChange DEF ResumeRuns, RowMoves
<1>3. CASE ResetBegins \/ ResetDone \/ WakeRuns
  BY <1>3 DEF ResetBegins, ResetDone, WakeRuns, RowMoves
<1> QED
  BY <1>1, <1>2, <1>3 DEF CommandNext

\* What the app process, a crash and a boot do to the rows.
LEMMA AppRowMoves == ASSUME IInv, AppNext PROVE RowMoves
<1>1. ASSUME NEW t \in Triggers, Enqueue(t) PROVE RowMoves
  <2>1. {u \in Preempted : AgentOf[u] = AgentOf[t]} \in SUBSET Triggers
    BY DispatcherAssumption
  <2> QED
    BY <1>1, <2>1 DEF Enqueue, RowMoves, QueueArrival
<1>2. ASSUME NEW t \in Triggers, DeleteQueued(t) PROVE RowMoves
  BY <1>2 DEF DeleteQueued, RowMoves, QueueChange
<1>3. ASSUME NEW s \in SystemCalls, SystemAcquires(s) \/ SystemReleases(s) PROVE RowMoves
  BY <1>3 DEF SystemAcquires, SystemReleases, RowMoves
<1>4. CASE AppPauses \/ AppResumes \/ Crash
  BY <1>4 DEF AppPauses, AppResumes, Crash, RowMoves
<1>5. ASSUME NEW a \in Agents, AppResets(a) PROVE RowMoves
  BY <1>5 DEF AppResets, RowMoves
<1>6. CASE Boot
  BY <1>6, StartIsChange DEF Boot, RowMoves
<1> QED
  BY <1>1, <1>2, <1>3, <1>4, <1>5, <1>6 DEF AppNext

\* Hence what any step does to them.
LEMMA NextRowMoves == ASSUME IInv, [Next]_vars PROVE RowMoves
BY LoopMoves, TurnRowMoves, CommandRowMoves, AppRowMoves DEF Next, vars, RowMoves

\* In a step the queue stays typed and its claims numbered.
LEMMA QueueStays ==
  ASSUME IInv, [Next]_vars
  PROVE  /\ [QueueNext]_row
         /\ QueueTypeOK' /\ ClaimsAreNumbered'
<1>1. [QueueNext]_row
  <2>1. QueueChange(RetryLimit) => QueueChange(MaxRetries)
    <3>1. \A c \in Claims : row[c[1]].retries < RetryLimit => row[c[1]].retries < MaxRetries
      BY DispatcherAssumption, QueueAssumption DEF IInv, TypeOK, QueueTypeOK, RowType, Claims
    <3> QED
      BY <3>1 DEF QueueChange
  <2> QED
    BY <2>1, NextRowMoves DEF RowMoves, QueueNext
<1> QED
  BY <1>1, QueueInvStep DEF QueueInv, IInv, TypeOK

-----------------------------------------------------------------------------
(* The type invariant, part by part.                                        *)

\* Lanes are taken for claims and System AI routes only, and dead ones are lanes.
LEMMA BudgetTypes == ASSUME IInv, [Next]_vars PROVE BudgetTypeOK'
<1> USE DEF BudgetTypeOK
<1>0. BudgetTypeOK /\ turnLane \in [Agents -> Claims \cup {NoClaim}]
  BY DEF IInv, TypeOK, TurnTypeOK
<1>1. ASSUME NEW lane, Budget!release(lane) PROVE BudgetTypeOK'
  BY <1>0, <1>1 DEF Budget!release
<1>2. ASSUME NEW lane \in Claims \cup SystemCalls, Budget!try_acquire(lane) PROVE BudgetTypeOK'
  BY <1>0, <1>2 DEF Budget!try_acquire, Budget!Reaped
<1>3. ASSUME UNCHANGED budgetVars PROVE BudgetTypeOK'
  BY <1>0, <1>3 DEF budgetVars
<1>4. ASSUME NEW a \in Agents, ReleaseReservations(a) PROVE BudgetTypeOK'
  BY <1>1, <1>3, <1>4 DEF ReleaseReservations
<1>5. CASE LoopNext
  <2>1. ASSUME NEW t \in Triggers, row[t].gen < MaxGen PROVE LaneFor(t) \in Claims
    BY <2>1, QueueAssumption DEF IInv, TypeOK, QueueTypeOK, RowType, LaneFor, Claims
  <2>2. ASSUME NEW t \in Triggers, Next1st(t) PROVE row[t].gen < MaxGen
    BY <2>2 DEF Next1st, Runnable, Eligible
  <2>3. CASE ClaimNothing
    BY <1>2, <1>3, <2>1, <2>2, <2>3 DEF ClaimNothing
  <2>4. ASSUME NEW t \in Triggers, ClaimNext(t) PROVE BudgetTypeOK'
    BY <1>2, <2>1, <2>2, <2>4 DEF ClaimNext
  <2>5. ASSUME NEW p \in pending, ResolveNext(p) PROVE BudgetTypeOK'
    <3>1. AgentOf[p[1][1]] \in Agents
      BY QueueAssumption DEF IInv, TypeOK, LoopTypeOK, Claims
    <3> QED
      BY <1>3, <1>4, <2>5, <3>1 DEF ResolveNext
  <2>6. CASE LaunchRefuses \/ LaunchRaises
    <3>1. AgentOf[cand[1]] \in Agents
      BY <2>6, QueueAssumption DEF LaunchRefuses, LaunchRaises, IInv, CandIsClaim, Claims
    <3> QED
      BY <1>4, <2>6, <3>1 DEF LaunchRefuses, LaunchRaises
  <2>7. CASE ResolveCand \/ BeginDrain \/ AnnounceHealth \/ Emitted \/ PassEnds \/ LaunchStarts
    BY <1>3, <2>7 DEF ResolveCand, BeginDrain, AnnounceHealth, Emitted, PassEnds, LaunchStarts
  <2> QED
    BY <1>5, <2>3, <2>4, <2>5, <2>6, <2>7 DEF LoopNext
<1>6. CASE TurnNext
  <2> SUFFICES ASSUME NEW c \in Claims,
                      CommandRuns(c) \/ TurnEnds(c) \/ TurnMoves(c) \/ HeartbeatEnds(c)
               PROVE  BudgetTypeOK'
    BY <1>6 DEF TurnNext
  <2>1. CASE ReservationsReturned(c)
    BY <1>4, <2>1, QueueAssumption DEF ReservationsReturned, Claims
  <2>2. CASE ~ReservationsReturned(c)
    BY <1>3, <2>2 DEF CommandRuns, TurnEnds, TurnMoves, HeartbeatEnds, TurnCompletes, TurnFails, Supervised,
      TurnRaises, TurnBegins, ModelCall, CommandRecorded, EscapeSupervised, Reported,
      TurnForgotten, CancelDelivered
  <2> QED
    BY <2>1, <2>2
<1>7. CASE CommandNext
  BY <1>3, <1>7 DEF CommandNext, StopBegins, LoopCancelled, StopCancelsTurns, StopDone,
    ResumeRuns, ResetBegins, ResetDone, WakeRuns
<1>8. CASE AppNext
  <2>1. ASSUME NEW s \in SystemCalls, SystemAcquires(s) \/ SystemReleases(s) PROVE BudgetTypeOK'
    BY <1>1, <1>2, <2>1 DEF SystemAcquires, SystemReleases
  <2>2. CASE Crash
    BY <1>0, <2>2 DEF Crash, Budget!ProcessDies
  <2>3. ASSUME NEW t \in Triggers, Enqueue(t) \/ DeleteQueued(t) PROVE BudgetTypeOK'
    BY <1>3, <2>3 DEF Enqueue, DeleteQueued
  <2>4. CASE AppPauses \/ AppResumes \/ Boot
    BY <1>3, <2>4 DEF AppPauses, AppResumes, Boot
  <2>5. ASSUME NEW a \in Agents, AppResets(a) PROVE BudgetTypeOK'
    BY <1>3, <2>5 DEF AppResets
  <2> QED
    BY <1>8, <2>1, <2>2, <2>3, <2>4, <2>5 DEF AppNext
<1> QED
  BY <1>3, <1>5, <1>6, <1>7, <1>8 DEF Next, vars

\* Agents of the rows the loop works on.
LEMMA AgentOfClaim == \A c \in Claims : c[1] \in Triggers /\ AgentOf[c[1]] \in Agents
BY QueueAssumption DEF Claims

\* The state of the loop; the claim it launches or resolves is a claim.
LEMMA LoopTypes == ASSUME IInv, [Next]_vars PROVE LoopTypeOK' /\ CandIsClaim'
<1> DEFINE Ok == LoopTypeOK /\ CandIsClaim
<1> USE DEF LoopTypeOK, CandIsClaim, LoopAt
<1>0. Ok /\ QueueTypeOK /\ ClaimsAreNumbered
  BY DEF IInv, TypeOK
<1>1. ASSUME Start, up' \in {up, TRUE},
             UNCHANGED <<cand, candBlocked, wake, notices, painted>>
      PROVE  Ok'
  <2>1. claimed_retry_blocked_triggers \subseteq Claims
    BY <1>0, QueueAssumption DEF claimed_retry_blocked_triggers, ClaimOn, Claims, QueueTypeOK,
      RowType, ClaimsAreNumbered, Claimed
  <2>2. pending' \subseteq Claims \X BOOLEAN
    <3>1. claimed_retry_blocked_triggers \X {TRUE} \subseteq Claims \X BOOLEAN
      BY <2>1
    <3> QED
      BY <1>0, <1>1, <3>1 DEF Start
  <2>3. running' \in BOOLEAN /\ (loop' = loop \/ loop' = "orphans")
    BY <1>0, <1>1 DEF Start
  <2> QED
    BY <1>0, <1>1, <2>2, <2>3
<1>2. ASSUME UNCHANGED <<up, running, loop, cand, candBlocked, pending, notices>>,
             wake' \in BOOLEAN, painted' \subseteq painted
      PROVE  Ok'
  BY <1>0, <1>2
<1>3. ASSUME NEW ts \in SUBSET Triggers PROVE AgentsOf(ts) \subseteq Agents
  BY QueueAssumption DEF AgentsOf
<1>4. Eligible \in SUBSET Triggers /\ HeldBack \in SUBSET Triggers
  BY DEF Eligible, HeldBack
<1>5. CASE LoopNext
  <2>1. ASSUME NEW p \in pending, ResolveNext(p) PROVE Ok'
    <3>1. p \in Claims \X BOOLEAN
      BY <1>0
    <3> QED
      BY <1>0, <2>1, <3>1 DEF ResolveNext
  <2>2. CASE ResolveCand
    BY <1>0, <2>2 DEF ResolveCand
  <2>3. CASE BeginDrain
    <3>1. \A c \in MayBeOld : <<c, row[c[1]].blocked>> \in Claims \X BOOLEAN
      BY <1>0, AgentOfClaim DEF MayBeOld, QueueTypeOK, RowType
    <3> QED
      BY <1>0, <2>3, <3>1 DEF BeginDrain
  <2>4. CASE AnnounceHealth
    BY <1>0, <2>4 DEF AnnounceHealth
  <2>5. CASE ClaimNothing
    <3>1. notices \subseteq Agents /\ notices' \subseteq Agents
      BY <1>0, <1>3, <1>4, <2>5 DEF ClaimNothing
    <3>2. painted' \subseteq Agents /\ loop' \in {"wait", "ending"} /\ wake' \in BOOLEAN
      BY <1>0, <2>5 DEF ClaimNothing, Carried
    <3> QED
      BY <1>0, <2>5, <3>1, <3>2 DEF ClaimNothing
  <2>6. ASSUME NEW t \in Triggers, ClaimNext(t) PROVE Ok'
    <3>1. LaneFor(t) \in Claims
      BY <1>0, <2>6, QueueAssumption
      DEF ClaimNext, claim_trigger, QueueTypeOK, RowType, LaneFor, Claims
    <3>2. row[t].blocked \in BOOLEAN
      BY <1>0 DEF QueueTypeOK, RowType
    <3> QED
      BY <1>0, <1>3, <1>4, <2>6, <3>1, <3>2 DEF ClaimNext, Carried
  <2>7. CASE Emitted
    BY <1>0, <2>7 DEF Emitted, Carried
  <2>8. CASE PassEnds
    BY <1>0, <2>8 DEF PassEnds, Carried
  <2>9. CASE LaunchStarts \/ LaunchRefuses \/ LaunchRaises
    BY <1>0, <2>9 DEF LaunchStarts, LaunchRefuses, LaunchRaises
  <2> QED
    BY <1>5, <2>1, <2>2, <2>3, <2>4, <2>5, <2>6, <2>7, <2>8, <2>9 DEF LoopNext
<1>6. CASE TurnNext
  <2> SUFFICES ASSUME NEW c \in Claims,
                      CommandRuns(c) \/ TurnEnds(c) \/ TurnMoves(c) \/ HeartbeatEnds(c)
               PROVE  Ok'
    BY <1>6 DEF TurnNext
  <2>1. /\ UNCHANGED <<up, running, loop, cand, candBlocked, pending, notices>>
        /\ wake' \in {wake, TRUE} /\ painted' \in {painted, painted \ {AgentOf[c[1]]}}
    BY DEF CommandRuns, TurnEnds, TurnMoves, HeartbeatEnds, TurnCompletes, TurnFails, Supervised,
      TurnRaises, TurnBegins, ModelCall, CommandRecorded, EscapeSupervised, Reported,
      ReservationsReturned, TurnForgotten, CancelDelivered, TurnFrame
  <2> QED
    BY <1>0, <1>2, <2>1
<1>7. CASE CommandNext
  <2>1. CASE ResumeRuns
    BY <1>1, <2>1 DEF ResumeRuns, CmdFrame
  <2>2. CASE StopBegins \/ LoopCancelled
    BY <1>0, <2>2 DEF StopBegins, LoopCancelled, CmdFrame
  <2>3. CASE StopCancelsTurns \/ StopDone \/ ResetBegins \/ ResetDone \/ WakeRuns
    BY <1>0, <1>2, <2>3
    DEF StopCancelsTurns, StopDone, ResetBegins, ResetDone, WakeRuns, CmdFrame
  <2> QED
    BY <1>7, <2>1, <2>2, <2>3 DEF CommandNext
<1>8. CASE AppNext
  <2>1. CASE Crash
    BY <1>0, <2>1 DEF Crash
  <2>2. CASE Boot
    BY <1>0, <1>1, <2>2 DEF Boot
  <2>3. CASE AppPauses \/ AppResumes
    BY <1>0, <1>2, <2>3 DEF AppPauses, AppResumes, CmdFrame, loopVars
  <2>4. ASSUME NEW t \in Triggers, Enqueue(t) \/ DeleteQueued(t) PROVE  Ok'
    BY <1>0, <1>2, <2>4 DEF Enqueue, DeleteQueued, AppFrame, loopVars
  <2>5. ASSUME NEW s \in SystemCalls, SystemAcquires(s) \/ SystemReleases(s) PROVE Ok'
    BY <1>0, <1>2, <2>5 DEF SystemAcquires, SystemReleases, AppFrame, loopVars
  <2>6. ASSUME NEW a \in Agents, AppResets(a) PROVE Ok'
    BY <1>0, <1>2, <2>6 DEF AppResets, CmdFrame
  <2> QED
    BY <1>8, <2>1, <2>2, <2>3, <2>4, <2>5, <2>6 DEF AppNext
<1>9. CASE UNCHANGED vars
  BY <1>0, <1>9 DEF vars, loopVars
<1> QED
  BY <1>5, <1>6, <1>7, <1>8, <1>9 DEF Next

\* The turns, the agents' turns and lanes, and the history of commands.
LEMMA TurnTypes == ASSUME IInv, [Next]_vars PROVE TurnTypeOK'
<1> USE DEF TurnTypeOK
<1>0. TurnTypeOK
  BY DEF IInv, TypeOK
<1>1. ASSUME UNCHANGED <<active, turn, cancelled, heartbeats, mem, ran, unrecorded>>,
             NEW a, ReleaseReservations(a) \/ UNCHANGED turnLane
      PROVE  TurnTypeOK'
  BY <1>0, <1>1 DEF ReleaseReservations
<1>2. ASSUME UNCHANGED turnVars PROVE TurnTypeOK'
  BY <1>0, <1>2 DEF turnVars
<1>3. CASE LoopNext
  <2>1. ASSUME NEW p \in pending, ResolveNext(p) PROVE TurnTypeOK'
    BY <1>1, <2>1 DEF ResolveNext
  <2>2. CASE LaunchRefuses \/ LaunchRaises
    BY <1>1, <2>2 DEF LaunchRefuses, LaunchRaises
  <2>3. ASSUME NEW t \in Triggers, ClaimNext(t) PROVE TurnTypeOK'
    <3>1. LaneFor(t) \in Claims
      BY <2>3, QueueAssumption
      DEF ClaimNext, claim_trigger, IInv, TypeOK, QueueTypeOK, RowType, LaneFor, Claims
    <3> QED
      BY <1>0, <2>3, <3>1 DEF ClaimNext
  <2>4. CASE LaunchStarts
    <3>1. cand \in Claims
      BY <2>4 DEF LaunchStarts, IInv, CandIsClaim
    <3> QED
      BY <1>0, <2>4, <3>1 DEF LaunchStarts, TurnAt
  <2>5. CASE ResolveCand \/ BeginDrain \/ AnnounceHealth \/ ClaimNothing \/ Emitted \/ PassEnds
    BY <1>2, <2>5 DEF ResolveCand, BeginDrain, AnnounceHealth, ClaimNothing, Emitted, PassEnds
  <2> QED
    BY <1>3, <2>1, <2>2, <2>3, <2>4, <2>5 DEF LoopNext
<1>4. CASE TurnNext
  <2> SUFFICES ASSUME NEW c \in Claims,
                      CommandRuns(c) \/ TurnEnds(c) \/ TurnMoves(c) \/ HeartbeatEnds(c)
               PROVE  TurnTypeOK'
    BY <1>4 DEF TurnNext
  <2>1. ASSUME NEW at \in TurnAt, GoTo(c, at) PROVE turn' \in [Claims -> TurnAt]
    BY <1>0, <2>1 DEF GoTo
  <2>2. {"none", "thinking", "body", "command", "escaped", "reporting", "idle", "closing"}
          \subseteq TurnAt
    BY DEF TurnAt
  <2>3. turn' \in [Claims -> TurnAt]
    BY <1>0, <2>1, <2>2
    DEF CommandRuns, TurnEnds, TurnMoves, HeartbeatEnds, TurnCompletes, TurnFails, Supervised,
      TurnRaises, TurnBegins, ModelCall, CommandRecorded, EscapeSupervised, Reported,
      ReservationsReturned, TurnForgotten, CancelDelivered
  <2>4. active' \in [Agents -> Claims \cup {NoClaim}]
    BY <1>0
    DEF CommandRuns, TurnEnds, TurnMoves, HeartbeatEnds, TurnCompletes, TurnFails, Supervised,
      TurnRaises, TurnBegins, ModelCall, CommandRecorded, EscapeSupervised, Reported,
      ReservationsReturned, TurnForgotten, CancelDelivered
  <2>5. turnLane' \in [Agents -> Claims \cup {NoClaim}]
    BY <1>0
    DEF CommandRuns, TurnEnds, TurnMoves, HeartbeatEnds, TurnCompletes, TurnFails, Supervised,
      TurnRaises, TurnBegins, ModelCall, CommandRecorded, EscapeSupervised, Reported,
      ReservationsReturned, ReleaseReservations, TurnForgotten, CancelDelivered
  <2>6. ran' \in [Triggers -> Nat]
    <3>1. ran' = ran \/ ran' = [ran EXCEPT ![c[1]] = @ + 1]
      BY DEF CommandRuns, TurnEnds, TurnMoves, HeartbeatEnds, TurnCompletes, TurnFails, Supervised,
        TurnRaises, TurnBegins, ModelCall, CommandRecorded, EscapeSupervised, Reported,
        ReservationsReturned, TurnForgotten, CancelDelivered
    <3> QED
      BY <1>0, <3>1
  <2>7. cancelled' \subseteq Claims /\ heartbeats' \subseteq Claims /\ mem' \subseteq Claims
    BY <1>0
    DEF CommandRuns, TurnEnds, TurnMoves, HeartbeatEnds, TurnCompletes, TurnFails, Supervised,
      TurnRaises, TurnBegins, ModelCall, CommandRecorded, EscapeSupervised, Reported,
      ReservationsReturned, TurnForgotten, CancelDelivered
  <2>8. unrecorded' \subseteq Claims
    BY <1>0, QueueAssumption, ZenonT(40)
    DEF CommandRuns, TurnEnds, TurnMoves, HeartbeatEnds, TurnCompletes, TurnFails, Supervised,
      TurnRaises, TurnBegins, ModelCall, CommandRecorded, EscapeSupervised, Reported,
      ReservationsReturned, TurnForgotten, CancelDelivered, Claims
  <2> QED
    BY <2>3, <2>4, <2>5, <2>6, <2>7, <2>8
<1>5. CASE CommandNext
  <2>1. CASE StopCancelsTurns
    <3>1. {active[a] : a \in {b \in Agents : active[b] # NoClaim}} \subseteq Claims
      BY <1>0
    <3> QED
      BY <1>0, <2>1, <3>1 DEF StopCancelsTurns, CancelTurns, CmdFrame
  <2>2. CASE ResetBegins
    <3>1. target \in Agents /\ {active[target]} \ {NoClaim} \subseteq Claims
      BY <1>0 DEF IInv, TypeOK, CmdTypeOK
    <3> QED
      BY <1>0, <2>2, <3>1 DEF ResetBegins, CancelTurns, CmdFrame
  <2>3. CASE StopBegins \/ LoopCancelled \/ StopDone \/ ResumeRuns \/ ResetDone \/ WakeRuns
    BY <1>2, <2>3
    DEF StopBegins, LoopCancelled, StopDone, ResumeRuns, ResetDone, WakeRuns,
      CmdFrame, turnVars
  <2> QED
    BY <1>5, <2>1, <2>2, <2>3 DEF CommandNext
<1>6. CASE AppNext
  <2>1. CASE Crash
    <3>1. /\ active' = [a \in Agents |-> NoClaim] /\ turnLane' = [a \in Agents |-> NoClaim]
          /\ turn' = [c \in Claims |-> "none"] /\ "none" \in TurnAt
          /\ cancelled' = {} /\ heartbeats' = {} /\ mem' = {} /\ ran' = ran
          /\ unrecorded' = unrecorded
      BY <2>1 DEF Crash, TurnAt
    <3> QED
      BY <1>0, <3>1
  <2>2. CASE Boot \/ AppPauses \/ AppResumes
    BY <1>2, <2>2 DEF Boot, AppPauses, AppResumes, CmdFrame, turnVars
  <2>3. ASSUME NEW t \in Triggers, Enqueue(t) \/ DeleteQueued(t) PROVE  TurnTypeOK'
    BY <1>2, <2>3 DEF Enqueue, DeleteQueued, AppFrame
  <2>4. ASSUME NEW s \in SystemCalls, SystemAcquires(s) \/ SystemReleases(s) PROVE TurnTypeOK'
    BY <1>2, <2>4 DEF SystemAcquires, SystemReleases, AppFrame
  <2>5. ASSUME NEW a \in Agents, AppResets(a) PROVE TurnTypeOK'
    BY <1>2, <2>5 DEF AppResets, CmdFrame, turnVars
  <2> QED
    BY <1>6, <2>1, <2>2, <2>3, <2>4, <2>5 DEF AppNext
<1> QED
  BY <1>2, <1>3, <1>4, <1>5, <1>6 DEF Next, vars

\* The runtime command and the bound.
LEMMA CmdTypes == ASSUME IInv, [Next]_vars PROVE CmdTypeOK'
<1> USE DEF CmdTypeOK
<1>0. CmdTypeOK
  BY DEF IInv, TypeOK
<1>1. ASSUME NEW what \in UpsetKinds, Upset(what) PROVE left' \in Nat
  <2>1. UpsetCost[what] \in Nat
    BY DispatcherAssumption
  <2> QED
    BY <1>0, <1>1, <2>1 DEF Upset
<1>2. {"pause", "reset", "crash", "park", "fault"} = UpsetKinds
  BY DEF UpsetKinds
<1>3. ASSUME UNCHANGED <<cmdVars, bell>>, left' = left \/ left' \in Nat
      PROVE  CmdTypeOK'
  BY <1>0, <1>3 DEF cmdVars
<1>4. CASE LoopNext
  BY <1>1, <1>2, <1>3, <1>4
  DEF LoopNext, ResolveNext, ResolveCand, StrandedClaimEnds, BeginDrain, AnnounceHealth,
    ClaimNothing, ClaimNext, Emitted, PassEnds, LaunchStarts, LaunchRefuses, LaunchRaises
<1>5. CASE TurnNext
  <2> SUFFICES ASSUME NEW c \in Claims,
                      CommandRuns(c) \/ TurnEnds(c) \/ TurnMoves(c) \/ HeartbeatEnds(c)
               PROVE  CmdTypeOK'
    BY <1>5 DEF TurnNext
  <2>1. UNCHANGED <<cmdVars, bell>> /\ (left' = left \/ Upset("park") \/ Upset("fault"))
    BY DEF CommandRuns, TurnEnds, TurnMoves, HeartbeatEnds, TurnCompletes, TurnFails, Supervised,
      TurnRaises, TurnBegins, ModelCall, CommandRecorded, EscapeSupervised, Reported,
      ReservationsReturned, TurnForgotten, CancelDelivered, TurnFrame
  <2> QED
    BY <1>1, <1>2, <1>3, <2>1
<1>6. CASE CommandNext
  <2>1. CASE StopCancelsTurns \/ ResetBegins
    <3>1. /\ {active[a] : a \in {b \in Agents : active[b] # NoClaim}} \subseteq Claims
          /\ {active[target]} \ {NoClaim} \subseteq Claims
      BY <1>0 DEF IInv, TypeOK, TurnTypeOK
    <3>2. waitFor' \subseteq Claims
      BY <2>1, <3>1 DEF StopCancelsTurns, ResetBegins, CancelTurns
    <3> QED
      BY <1>0, <2>1, <3>2 DEF StopCancelsTurns, ResetBegins, CmdAt
  <2>2. CASE StopBegins \/ LoopCancelled \/ StopDone \/ ResumeRuns \/ ResetDone \/ WakeRuns
    BY <1>0, <2>2
    DEF StopBegins, LoopCancelled, StopDone, ResumeRuns, ResetDone, WakeRuns,
      CmdAt, cmdVars
  <2> QED
    BY <1>6, <2>1, <2>2 DEF CommandNext
<1>7. CASE AppNext
  <2>1. CASE Crash \/ AppPauses \/ AppResumes
    BY <1>0, <1>1, <1>2, <2>1 DEF Crash, AppPauses, AppResumes, CmdAt
  <2>2. ASSUME NEW a \in Agents, AppResets(a) PROVE CmdTypeOK'
    BY <1>0, <1>1, <1>2, <2>2 DEF AppResets, CmdAt
  <2>3. CASE Boot
    <3>1. UNCHANGED <<cmdVars, bell, left>>
      BY <2>3 DEF Boot
    <3> QED
      BY <1>0, <3>1 DEF cmdVars
  <2>4. ASSUME NEW t \in Triggers, Enqueue(t) \/ DeleteQueued(t) PROVE CmdTypeOK'
    <3>1. CASE Enqueue(t)
      BY <1>0, <3>1 DEF Enqueue, AppFrame, cmdVars
    <3>2. CASE DeleteQueued(t)
      BY <1>1, <1>2, <1>3, <3>2 DEF DeleteQueued
    <3> QED
      BY <2>4, <3>1, <3>2
  <2>5. ASSUME NEW s \in SystemCalls, SystemAcquires(s) \/ SystemReleases(s) PROVE CmdTypeOK'
    BY <1>0, <2>5
    DEF SystemAcquires, SystemReleases, AppFrame, cmdVars, LoopTypeOK, IInv, TypeOK
  <2> QED
    BY <1>7, <2>1, <2>2, <2>3, <2>4, <2>5 DEF AppNext
<1> QED
  BY <1>3, <1>4, <1>5, <1>6, <1>7 DEF Next, vars

-----------------------------------------------------------------------------
\* The inductive invariant holds when the database is created.
LEMMA InitHolds == Init => IInv /\ \A t \in Triggers : row[t].retries = 0
<1> SUFFICES ASSUME Init PROVE IInv /\ \A t \in Triggers : row[t].retries = 0
  OBVIOUS
<1> USE DispatcherAssumption DEF Init
<1>1. QueueTypeOK /\ ClaimsAreNumbered /\ \A t \in Triggers : row[t].retries = 0
  BY RowFields DEF QueueInit, QueueTypeOK, ClaimsAreNumbered, Claimed, AbsentRow
<1>2. BudgetTypeOK
  BY DEF BudgetTypeOK
<1>3. LoopTypeOK /\ CandIsClaim
  BY DEF LoopTypeOK, LoopAt, CandIsClaim
<1>4. TurnTypeOK
  BY DEF TurnTypeOK, TurnAt
<1>5. CmdTypeOK
  <2>1. target \in Agents
    BY DEF DispatcherAssumption
  <2> QED
    BY <2>1 DEF CmdTypeOK, CmdAt
<1> QED
  BY <1>1, <1>2, <1>3, <1>4, <1>5 DEF IInv, TypeOK

\* The inductive invariant holds in every reachable state.
LEMMA Inductive == Spec => []IInv
<1>1. Init => IInv
  BY InitHolds
<1>2. IInv /\ [Next]_vars => IInv'
  BY QueueStays, BudgetTypes, LoopTypes, TurnTypes, CmdTypes DEF IInv, TypeOK
<1> QED
  BY <1>1, <1>2, PTL DEF Spec

\* The type invariant of the dispatcher and the queue under it.
THEOREM TypeInvariant == Spec => []TypeOK
<1>1. IInv => TypeOK
  BY DEF IInv
<1> QED
  BY <1>1, Inductive, PTL

\* The dispatcher, its commands, crashes and the app process use the queue only
\* as it allows: every step of theirs is one statement of db/agent_triggers.py,
\* issued where the row permits it, or leaves the queue alone.
THEOREM DispatcherUsesQueue == Spec => QueueSpec
<1>1. Init => QueueInit
  BY DEF Init
<1>2. IInv /\ [Next]_vars => [QueueNext]_row
  BY QueueStays
<1> QED
  BY <1>1, <1>2, Inductive, PTL DEF Spec, QueueSpec

\* Whatever crashes, pauses, resets, orphan sweeps and late turns do, a wake
\* that was completed, failed or deleted is never run again.
THEOREM DispatcherKeepsFinished == Spec => FinishedIsFinal
BY DispatcherUsesQueue, FinishedRowsStayFinished

\* No trigger is counted more retries than turn_failure_retry_limit, whichever
\* of the turn, the exception path and the orphan sweep counts them.
THEOREM RetriesAreBounded == Spec => []RetriesWithinLimit
<1>1. Init => RetriesWithinLimit
  BY InitHolds, DispatcherAssumption DEF RetriesWithinLimit
<1>2. IInv /\ RetriesWithinLimit /\ [Next]_vars => RetriesWithinLimit'
  <2> SUFFICES ASSUME IInv, RetriesWithinLimit, [Next]_vars, NEW t \in Triggers
               PROVE  row'[t].retries <= RetryLimit
    BY DEF RetriesWithinLimit
  <2>1. row[t].retries <= RetryLimit /\ row[t].retries \in Nat /\ QueueTypeOK
    BY QueueAssumption DEF RetriesWithinLimit, IInv, TypeOK, QueueTypeOK, RowType
  <2>2. CASE QueueChange(RetryLimit)
    BY <2>1, <2>2, QueueChangeRows, DispatcherAssumption DEF RowStep
  <2>3. ASSUME NEW u \in Triggers, QueueArrival(u) PROVE row'[t].retries <= RetryLimit
    BY <2>1, <2>3, QueueArrivalRows, DispatcherAssumption
  <2> QED
    BY <2>1, <2>2, <2>3, NextRowMoves DEF RowMoves
<1> QED
  BY <1>1, <1>2, Inductive, PTL DEF Spec

-----------------------------------------------------------------------------
(* What the steps do to the rows that turns stand on.                       *)

\* A row that is gone stays gone, and a generation only grows while it is there.
RowsGoOn ==
  \A t \in Triggers :
    /\ row[t].status = "deleted" => row'[t].status = "deleted"
    /\ row'[t].status = "deleted" \/ row[t].gen <= row'[t].gen

\* Nothing is claimed by the step.
NoNewClaims == \A t \in Triggers : Claimed(t)' => Claimed(t) /\ row'[t].gen = row[t].gen

\* Every claim that is held stays held, or every one but c.
ClaimsStay     == \A d \in Claims : Held(d) => Held(d)'
ClaimsStayBut(c) == \A d \in Claims : d # c /\ Held(d) => Held(d)'

\* A claim is its trigger and its generation.
LEMMA ClaimParts ==
  \A c, d \in Claims : c[1] = d[1] /\ c[2] = d[2] => c = d
BY DEF Claims

\* The end of a claim, or its return to the queue, leaves every other claim alone.
LEMMA EndsRows ==
  ASSUME QueueTypeOK, NEW c \in Claims,
         complete_agent_trigger(c) \/ fail_agent_trigger(c)
           \/ retry_agent_trigger(c, FALSE) \/ retry_agent_trigger(c, TRUE)
  PROVE  RowsGoOn /\ NoNewClaims /\ ClaimsStayBut(c)
<1>1. ASSUME NEW t \in Triggers
      PROVE  \/ row'[t] = row[t]
             \/ /\ t = c[1] /\ Held(c) /\ row'[t].gen = row[t].gen
                /\ row'[t].status \in {"completed", "failed", "queued"}
  <2>1. ASSUME NEW s \in {"completed", "failed"}, End(c, s)
        PROVE  row'[t] = row[t] \/ (t = c[1] /\ Held(c) /\ row'[t] = Moved(row[t], s))
    BY <2>1 DEF QueueTypeOK, End
  <2>2. ASSUME NEW b \in BOOLEAN, retry_agent_trigger(c, b)
        PROVE  \/ row'[t] = row[t]
               \/ /\ t = c[1] /\ Held(c)
                  /\ row'[t] \in {Moved(row[t], "queued"), Retried(row[t], "queued")}
    BY <2>2 DEF QueueTypeOK, retry_agent_trigger
  <2>3. \A s \in {"completed", "failed", "queued"} :
          Moved(row[t], s).gen = row[t].gen /\ Moved(row[t], s).status = s
    BY DEF QueueTypeOK, RowType, Moved
  <2>4. Retried(row[t], "queued").gen = row[t].gen /\ Retried(row[t], "queued").status = "queued"
    BY DEF QueueTypeOK, RowType, Retried
  <2>5. CASE complete_agent_trigger(c) \/ fail_agent_trigger(c)
    BY <2>1, <2>3, <2>5 DEF complete_agent_trigger, fail_agent_trigger
  <2>6. CASE retry_agent_trigger(c, FALSE) \/ retry_agent_trigger(c, TRUE)
    BY <2>2, <2>3, <2>4, <2>6
  <2> QED
    BY <2>5, <2>6
<1>2. \A t \in Triggers : row[t].gen <= row[t].gen
  BY QueueAssumption DEF QueueTypeOK, RowType
<1>3. RowsGoOn /\ NoNewClaims
  BY <1>1, <1>2 DEF RowsGoOn, NoNewClaims, Held, Claimed
<1>4. ASSUME NEW d \in Claims, d # c, Held(d) PROVE Held(d)'
  BY <1>1, <1>4, ClaimParts, AgentOfClaim DEF Held, Claimed
<1> QED
  BY <1>3, <1>4 DEF ClaimsStayBut

\* The block that a no-retry command leaves on its row.
LEMMA MarkRows ==
  ASSUME QueueTypeOK, NEW t \in Triggers, mark_trigger_retry_blocked(t)
  PROVE  RowsGoOn /\ NoNewClaims /\ ClaimsStay
<1>1. \A u \in Triggers : row'[u].status = row[u].status /\ row'[u].gen = row[u].gen
  BY DEF QueueTypeOK, RowType, mark_trigger_retry_blocked
<1>2. \A u \in Triggers : row[u].gen <= row[u].gen
  BY QueueAssumption DEF QueueTypeOK, RowType
<1> QED
  BY <1>1, <1>2, AgentOfClaim DEF RowsGoOn, NoNewClaims, ClaimsStay, Held, Claimed

\* A queue that is left alone.
LEMMA SameRows ==
  ASSUME QueueTypeOK, UNCHANGED row
  PROVE  RowsGoOn /\ NoNewClaims /\ ClaimsStay
<1>1. \A u \in Triggers : row[u].gen <= row[u].gen
  BY QueueAssumption DEF QueueTypeOK, RowType
<1> QED
  BY <1>1 DEF RowsGoOn, NoNewClaims, ClaimsStay, Held, Claimed

\* The requeue of a start.
LEMMA StartRows ==
  ASSUME QueueTypeOK, Start
  PROVE  RowsGoOn /\ NoNewClaims
<1>1. CASE UNCHANGED row
  BY <1>1, SameRows
<1>2. CASE requeue_all_claimed_triggers
  <2>1. \A t \in Triggers : \/ row'[t] = row[t]
                            \/ /\ Claimed(t) /\ row'[t].gen = row[t].gen
                               /\ row'[t].status = "queued"
    BY <1>2 DEF QueueTypeOK, RowType, requeue_all_claimed_triggers, Moved
  <2>2. \A t \in Triggers : row[t].gen <= row[t].gen
    BY QueueAssumption DEF QueueTypeOK, RowType
  <2> QED
    BY <2>1, <2>2 DEF RowsGoOn, NoNewClaims, Claimed
<1> QED
  BY <1>1, <1>2 DEF Start

\* A wake that arrives, with what it preempts, or a queued one that is deleted.
LEMMA ArrivalRows ==
  ASSUME QueueTypeOK, NEW t \in Triggers, Enqueue(t) \/ DeleteQueued(t)
  PROVE  RowsGoOn /\ NoNewClaims /\ ClaimsStay
<1>1. ASSUME NEW u \in Triggers
      PROVE  \/ row'[u] = row[u]
             \/ /\ row[u].status = "absent" /\ row'[u].gen = row[u].gen
                /\ row'[u].status = "queued"
             \/ row[u].status = "queued" /\ row'[u].status = "deleted"
  BY DEF QueueTypeOK, RowType, Enqueue, DeleteQueued, EnqueuePreempting, create_agent_trigger,
    delete_queued_triggers, Queued, Moved, Gone, AbsentRow
<1>2. \A u \in Triggers : row[u].gen <= row[u].gen
  BY QueueAssumption DEF QueueTypeOK, RowType
<1> QED
  BY <1>1, <1>2, AgentOfClaim DEF RowsGoOn, NoNewClaims, ClaimsStay, Held, Claimed

\* The claim of a queued row: its new claim is held, the others stay.
LEMMA ClaimRows ==
  ASSUME QueueTypeOK, NEW t \in Triggers, claim_trigger(t)
  PROVE  /\ RowsGoOn /\ ClaimsStay
         /\ LaneFor(t) \in Claims
         /\ \A c \in Claims : c = LaneFor(t) => Held(c)'
         /\ \A u \in Triggers : u # t => row'[u] = row[u]
<1>1. row[t].gen \in Nat /\ row[t].gen + 1 \in 1..MaxGen /\ Queued(t)
  BY QueueAssumption DEF QueueTypeOK, RowType, claim_trigger
<1>2. row'[t].status = "claimed" /\ row'[t].gen = row[t].gen + 1
  BY DEF QueueTypeOK, RowType, claim_trigger
<1>3. \A u \in Triggers : u # t => row'[u] = row[u]
  BY DEF QueueTypeOK, claim_trigger
<1>4. LaneFor(t) \in Claims /\ LaneFor(t)[1] = t /\ LaneFor(t)[2] = row[t].gen + 1
  BY <1>1 DEF LaneFor, Claims
<1>5. \A c \in Claims : c = LaneFor(t) => Held(c)'
  BY <1>2, <1>4 DEF Held, Claimed
<1>6. \A u \in Triggers : row[u].gen <= row[u].gen
  BY QueueAssumption DEF QueueTypeOK, RowType
<1>7. RowsGoOn
  BY <1>1, <1>2, <1>3, <1>6 DEF RowsGoOn, Queued
<1>8. ClaimsStay
  BY <1>1, <1>3, AgentOfClaim DEF ClaimsStay, Held, Claimed, Queued
<1> QED
  BY <1>3, <1>4, <1>5, <1>7, <1>8

-----------------------------------------------------------------------------
(* The inductive invariant of the turns.                                    *)

\* Where a turn answers its wake; where the loop works on cand.
Answering == {"start", "thinking", "body", "command"}
Early     == Answering \cup {"escaped", "reporting"}
Launching == {"failing", "fixing", "abandon", "emitting", "launch"}

NobodyActive == \A a \in Agents : active[a] = NoClaim

\* Without a worker there is no loop, command or turn.
OffIsOff ==
  ~up => /\ ~running /\ loop = "off" /\ cmd = "none" /\ NobodyActive
         /\ \A c \in Claims : ~LiveTurn(c)

\* The loop against the commands: no turn is recorded while it is off or fails
\* the orphans of a start, but for what the command that cancelled it collects.
LoopPhases ==
  /\ loop = "off" => ~running
  /\ ~running => loop = "off" \/ cmd = "stopLoop"
  /\ cmd = "stopLoop" => ~running
  /\ cmd = "stopTurns" => loop = "off"
  /\ loop \in {"orphans", "failing"} \/ (loop = "off" /\ cmd # "stopLoop") => NobodyActive
  /\ waitFor # {} => cmd \in {"stopTurns", "resetWait"}

\* What is recorded for an agent is a live turn of its own, not told to stop.
ActiveIsLive ==
  \A a \in Agents : active[a] # NoClaim =>
    AgentOf[active[a][1]] = a /\ LiveTurn(active[a]) /\ active[a] \notin cancelled

\* A live turn is recorded or awaited; an awaited one was told to stop.
TurnsAreKnown ==
  \A c \in Claims :
    /\ LiveTurn(c) /\ c \notin unrecorded => active[AgentOf[c[1]]] = c \/ c \in waitFor
    /\ c \in waitFor /\ turn[c] \in Early => c \in cancelled

\* The agent of the claim the loop works on has no turn.
CandIsFree == loop \in Launching => active[AgentOf[cand[1]]] = NoClaim

\* A claim about to be launched is held and no turn ever ran under it.
CandIsFresh ==
  loop \in {"emitting", "launch"} =>
    Held(cand) /\ ~LiveTurn(cand) /\ cand \notin cancelled \cup waitFor

\* No turn, cancel or lane is named by a claim that is still to be issued.
Given(c) == c[2] <= row[c[1]].gen \/ row[c[1]].status = "deleted"
Issued ==
  \A c \in Claims : LiveTurn(c) \/ c \in cancelled \cup waitFor => Given(c)
LanesAreIssued == \A c \in Claims \cap lanes : Given(c)

\* A turn that answers its wake, and was not told to stop, holds it.
AnswersHold ==
  \A c \in Claims \ (unrecorded \cup cancelled) : turn[c] \in Answering => Held(c)

\* Only lanes of turns are left behind, and none of those is recorded.
LanesAreOwn ==
  dead \subseteq Claims /\ \A a \in Agents : turnLane[a] \notin dead

\* A channel holds at most one claim (channel_peer_snapshot_is_drafting).
OneClaimPerChannel ==
  \A t, u \in Triggers :
    /\ Claimed(t) /\ Claimed(u)
    /\ ChannelOf[t] # NoChannel /\ ChannelOf[t] = ChannelOf[u]
    => t = u

TurnInv ==
  /\ IInv
  /\ OffIsOff /\ LoopPhases /\ ActiveIsLive /\ TurnsAreKnown
  /\ CandIsFree /\ CandIsFresh /\ Issued /\ AnswersHold
  /\ LanesAreIssued /\ LanesAreOwn /\ OneClaimPerChannel

\* What was issued stays so.
LEMMA GivenStays ==
  ASSUME IInv, IInv', RowsGoOn, NEW c \in Claims, Given(c)
  PROVE  Given(c)'
<1>1. c[1] \in Triggers /\ c[2] \in Nat
  BY AgentOfClaim DEF Claims
<1>2. row[c[1]].gen \in Nat /\ row'[c[1]].gen \in Nat
  BY <1>1, QueueAssumption DEF IInv, TypeOK, QueueTypeOK, RowType
<1> QED
  BY <1>1, <1>2 DEF RowsGoOn, Given

-----------------------------------------------------------------------------
(* One step of a turn task, whichever it is.                                *)

WorkerFrame == UNCHANGED <<up, running, loop, cand, paused, cmd, waitFor>>

\* The turn goes from one await to the next; while it still answers its wake
\* afterwards, its row was at most marked.
TurnGoesOn(c) ==
  /\ LiveTurn(c) /\ c \notin cancelled
  /\ \E pc \in TurnAt \ {"none", "start"} :
       /\ GoTo(c, pc)
       /\ pc \in Early => turn[c] \in Early
       /\ pc \in Answering => turn[c] \in Answering /\ ClaimsStay
  /\ ClaimsStayBut(c)
  /\ UNCHANGED <<active, cancelled, unrecorded>>

\* Its cancel is delivered.
TurnStops(c) ==
  /\ c \in cancelled /\ LiveTurn(c)
  /\ \E pc \in {"none", "idle"} : GoTo(c, pc)
  /\ cancelled' = cancelled \ {c}
  /\ UNCHANGED <<row, active, unrecorded>>

\* It ends, and the record of its agent's turn with it.
TurnIsOver(c) ==
  /\ turn[c] = "closing" /\ GoTo(c, "none")
  /\ cancelled' = cancelled \ {c}
  /\ active' = [active EXCEPT ![AgentOf[c[1]]] = NoClaim]
  /\ unrecorded' = unrecorded \cup ({active[AgentOf[c[1]]]} \ {c, NoClaim})
  /\ UNCHANGED row

TurnStep(c) ==
  /\ up /\ WorkerFrame /\ RowsGoOn /\ NoNewClaims
  /\ \/ TurnGoesOn(c) \/ TurnStops(c) \/ TurnIsOver(c)
     \/ UNCHANGED <<row, turn, active, cancelled, unrecorded>>

\* Every step of a turn is one of those.
LEMMA TurnSteps ==
  ASSUME IInv, NEW c \in Claims,
         CommandRuns(c) \/ TurnEnds(c) \/ TurnMoves(c) \/ HeartbeatEnds(c)
  PROVE  TurnStep(c)
<1>0. QueueTypeOK /\ c[1] \in Triggers
  BY AgentOfClaim DEF IInv, TypeOK
<1>1. up /\ WorkerFrame
  BY DEF CommandRuns, TurnEnds, TurnMoves, HeartbeatEnds, TurnCompletes, TurnFails,
    TurnRaises, TurnBegins, ModelCall, CommandRecorded, EscapeSupervised, Reported,
    ReservationsReturned, TurnForgotten, CancelDelivered, TurnFrame, AtTurn, WorkerYields,
    WorkerFrame, cmdVars
<1>2. ASSUME UNCHANGED row PROVE RowsGoOn /\ NoNewClaims /\ ClaimsStay /\ ClaimsStayBut(c)
  BY <1>0, <1>2, SameRows DEF ClaimsStay, ClaimsStayBut
<1>3. CASE CommandRuns(c) \/ TurnBegins(c) \/ ModelCall(c) \/ TurnRaises(c) \/ Reported(c)
             \/ ReservationsReturned(c)
  <2>1. UNCHANGED row
    BY <1>3 DEF CommandRuns, TurnBegins, ModelCall, TurnRaises, Reported, ReservationsReturned
  <2>2. TurnGoesOn(c)
    BY <1>2, <1>3, <2>1 DEF CommandRuns, TurnBegins, ModelCall, TurnRaises, Reported,
      ReservationsReturned, AtTurn, LiveTurn, TurnAt, Answering, Early, TurnGoesOn
  <2> QED
    BY <1>1, <1>2, <2>1, <2>2 DEF TurnStep
<1>4. CASE CommandRecorded(c)
  <2>1. RowsGoOn /\ NoNewClaims /\ ClaimsStay /\ ClaimsStayBut(c)
    <3>1. UNCHANGED row \/ mark_trigger_retry_blocked(c[1])
      BY <1>4 DEF CommandRecorded
    <3> QED
      BY <1>0, <1>2, <3>1, MarkRows DEF ClaimsStay, ClaimsStayBut
  <2>2. TurnGoesOn(c)
    BY <1>4, <2>1 DEF CommandRecorded, AtTurn, LiveTurn, TurnAt, Answering, Early, TurnGoesOn
  <2> QED
    BY <1>1, <2>1, <2>2 DEF TurnStep
<1>5. CASE TurnCompletes(c) \/ TurnFails(c) \/ EscapeSupervised(c)
  <2>1. RowsGoOn /\ NoNewClaims /\ ClaimsStayBut(c)
    <3>1. \/ UNCHANGED row \/ complete_agent_trigger(c) \/ fail_agent_trigger(c)
          \/ retry_agent_trigger(c, FALSE) \/ retry_agent_trigger(c, TRUE)
      BY <1>5 DEF TurnCompletes, TurnFails, EscapeSupervised, Supervised, RetryOrExhaust
    <3> QED
      BY <1>0, <1>2, <3>1, EndsRows
  <2>2. /\ turn[c] \in {"body", "escaped"} /\ c \notin cancelled
        /\ UNCHANGED <<active, cancelled, unrecorded>>
    BY <1>5 DEF TurnCompletes, TurnFails, EscapeSupervised, AtTurn
  <2>3. GoTo(c, "idle") \/ GoTo(c, "escaped") \/ GoTo(c, "reporting")
    BY <1>5 DEF TurnCompletes, TurnFails, EscapeSupervised, Supervised
  <2>4. TurnGoesOn(c)
    BY <2>1, <2>2, <2>3 DEF LiveTurn, TurnAt, Answering, Early, TurnGoesOn
  <2> QED
    BY <1>1, <2>1, <2>4 DEF TurnStep
<1>6. CASE TurnForgotten(c)
  <2>1. TurnIsOver(c)
    BY <1>6 DEF TurnForgotten, TurnIsOver
  <2> QED
    BY <1>1, <1>2, <1>6, <2>1 DEF TurnForgotten, TurnStep
<1>7. CASE CancelDelivered(c)
  <2>1. TurnStops(c)
    BY <1>7 DEF CancelDelivered, TurnStops, LiveTurn
  <2> QED
    BY <1>1, <1>2, <1>7, <2>1 DEF CancelDelivered, TurnStep
<1>8. CASE HeartbeatEnds(c)
  BY <1>1, <1>2, <1>8 DEF HeartbeatEnds, TurnStep
<1> QED
  BY <1>3, <1>4, <1>5, <1>6, <1>7, <1>8 DEF TurnEnds, TurnMoves

\* A step of a turn keeps the invariant.
LEMMA TurnKeeps ==
  ASSUME TurnInv, IInv', NEW c \in Claims, TurnStep(c)
  PROVE  /\ (OffIsOff /\ LoopPhases /\ ActiveIsLive /\ TurnsAreKnown)'
         /\ (CandIsFree /\ CandIsFresh /\ Issued /\ AnswersHold)'
<1>0. TurnTypeOK /\ AgentOf[c[1]] \in Agents /\ NoClaim \notin Claims
  BY AgentOfClaim, DispatcherAssumption DEF TurnInv, IInv, TypeOK
<1>1. up /\ UNCHANGED <<up, running, loop, cand, paused, cmd, waitFor>>
  BY DEF TurnStep, WorkerFrame
<1>2. /\ turn' = [turn EXCEPT ![c] = turn'[c]] \/ turn' = turn
      /\ \A d \in Claims : d # c => turn'[d] = turn[d]
      /\ turn'[c] # "none" => turn[c] # "none"
      /\ turn'[c] \in Early => turn[c] \in Early
      /\ turn'[c] \in Answering /\ c \notin cancelled \ cancelled' => turn[c] \in Answering
      /\ ~LiveTurn(c) => turn'[c] = "none"
  BY <1>0 DEF TurnStep, TurnGoesOn, TurnStops, TurnIsOver, GoTo, TurnTypeOK, LiveTurn, Early, Answering
<1>3. /\ cancelled \ {c} \subseteq cancelled' /\ cancelled' \subseteq cancelled
      /\ c \in cancelled => c \in cancelled' \/ turn'[c] \notin Early
      /\ unrecorded \subseteq unrecorded'
  BY <1>0 DEF TurnStep, TurnGoesOn, TurnStops, TurnIsOver, GoTo, TurnTypeOK, Early, Answering
<1>4. \/ active' = active /\ unrecorded' = unrecorded
      \/ /\ turn'[c] = "none"
         /\ active' = [active EXCEPT ![AgentOf[c[1]]] = NoClaim]
         /\ active[AgentOf[c[1]]] \in unrecorded' \cup {c, NoClaim}
  BY <1>0 DEF TurnStep, TurnGoesOn, TurnStops, TurnIsOver, GoTo, TurnTypeOK
<1>5. \A a \in Agents : active'[a] # NoClaim => active'[a] = active[a]
  BY <1>0, <1>4 DEF TurnTypeOK
<1>6. OffIsOff' /\ LoopPhases'
  BY <1>1, <1>5 DEF TurnInv, OffIsOff, LoopPhases, NobodyActive
<1>7. ActiveIsLive'
  <2> SUFFICES ASSUME NEW a \in Agents, active'[a] # NoClaim
               PROVE  /\ AgentOf[active'[a][1]] = a
                      /\ LiveTurn(active[a])' /\ active'[a] \notin cancelled'
    BY <1>5 DEF ActiveIsLive, LiveTurn
  <2>1. /\ active'[a] = active[a] /\ active[a] \in Claims /\ AgentOf[active[a][1]] = a
        /\ LiveTurn(active[a]) /\ active[a] \notin cancelled
    BY <1>0, <1>5 DEF TurnInv, ActiveIsLive, TurnTypeOK
  <2>2. turn'[active[a]] # "none"
    <3>1. CASE active[a] # c
      BY <1>2, <2>1, <3>1 DEF LiveTurn
    <3>2. CASE active[a] = c
      <4>1. c \notin cancelled /\ LiveTurn(c) /\ ~TurnIsOver(c)
        BY <1>0, <2>1, <3>2 DEF TurnIsOver, TurnTypeOK
      <4> QED
        BY <1>0, <3>2, <4>1 DEF TurnStep, TurnGoesOn, TurnStops, GoTo, TurnTypeOK, LiveTurn, TurnAt
    <3> QED
      BY <3>1, <3>2
  <2> QED
    BY <1>3, <2>1, <2>2 DEF LiveTurn
<1>8. TurnsAreKnown'
  <2> SUFFICES ASSUME NEW d \in Claims
               PROVE  /\ turn'[d] # "none" /\ d \notin unrecorded' =>
                           active'[AgentOf[d[1]]] = d \/ d \in waitFor'
                      /\ d \in waitFor' /\ turn'[d] \in Early => d \in cancelled'
    BY DEF TurnsAreKnown, LiveTurn
  <2>1. /\ LiveTurn(d) /\ d \notin unrecorded => active[AgentOf[d[1]]] = d \/ d \in waitFor
        /\ d \in waitFor /\ turn[d] \in Early => d \in cancelled
        /\ AgentOf[d[1]] \in Agents
    BY AgentOfClaim DEF TurnInv, TurnsAreKnown
  <2>2. d \in waitFor' /\ turn'[d] \in Early => d \in cancelled'
    BY <1>1, <1>2, <1>3, <2>1
  <2>3. ASSUME turn'[d] # "none", d \notin unrecorded'
        PROVE  active'[AgentOf[d[1]]] = d \/ d \in waitFor'
    <3>1. LiveTurn(d) /\ d \notin unrecorded
      BY <1>2, <1>3, <2>3 DEF LiveTurn
    <3>2. active[AgentOf[d[1]]] = d => active'[AgentOf[d[1]]] = d
      BY <1>0, <1>4, <2>1, <2>3 DEF TurnTypeOK
    <3> QED
      BY <1>1, <2>1, <3>1, <3>2
  <2> QED
    BY <2>2, <2>3
<1>9. CandIsFree'
  <2>1. ASSUME loop \in Launching PROVE active'[AgentOf[cand[1]]] = NoClaim
    <3>1. cand \in Claims /\ AgentOf[cand[1]] \in Agents
      BY <2>1, AgentOfClaim DEF TurnInv, IInv, CandIsClaim, Launching
    <3> QED
      BY <1>5, <2>1, <3>1 DEF TurnInv, CandIsFree
  <2> QED
    BY <1>1, <2>1 DEF CandIsFree
<1>10. CandIsFresh'
  <2> SUFFICES ASSUME loop \in {"emitting", "launch"}
               PROVE  Held(cand)' /\ turn'[cand] = "none" /\ cand' \notin cancelled' \cup waitFor'
    BY <1>1 DEF CandIsFresh, LiveTurn
  <2>1. /\ cand \in Claims /\ Held(cand) /\ ~LiveTurn(cand)
        /\ cand \notin cancelled \cup waitFor
    BY DEF TurnInv, IInv, CandIsClaim, CandIsFresh
  <2>2. turn'[cand] = "none"
    BY <1>2, <2>1 DEF LiveTurn
  <2>3. \A d \in Claims : d = cand /\ (UNCHANGED row \/ TurnGoesOn(c)) => Held(d)'
    BY <1>1, <2>1, AgentOfClaim DEF TurnGoesOn, ClaimsStayBut, Held, Claimed, LiveTurn
  <2>4. UNCHANGED row \/ TurnGoesOn(c)
    BY DEF TurnStep, TurnStops, TurnIsOver
  <2>5. Held(cand)'
    BY <1>1, <2>1, <2>3, <2>4 DEF Held, Claimed
  <2> QED
    BY <1>1, <1>3, <2>1, <2>2, <2>5
<1>11. Issued'
  <2> SUFFICES ASSUME NEW d \in Claims, turn'[d] # "none" \/ d \in cancelled' \cup waitFor'
               PROVE  Given(d)'
    BY DEF Issued, LiveTurn
  <2>1. LiveTurn(d) \/ d \in cancelled \cup waitFor
    BY <1>1, <1>2, <1>3 DEF LiveTurn
  <2>2. Given(d)
    BY <2>1 DEF TurnInv, Issued
  <2> QED
    BY <2>2, GivenStays DEF TurnStep, TurnInv, IInv
<1>12. AnswersHold'
  <2> SUFFICES ASSUME NEW d \in Claims, d \notin unrecorded' \cup cancelled',
                      turn'[d] \in Answering
               PROVE  Held(d)'
    BY DEF AnswersHold
  <2>1. d \notin unrecorded /\ d \notin cancelled /\ turn[d] \in Answering
    <3>1. d \notin unrecorded
      BY <1>3
    <3>2. d = c => d \notin cancelled
      BY <1>3 DEF Early
    <3> QED
      BY <1>2, <1>3, <3>1, <3>2
  <2>2. Held(d)
    BY <2>1 DEF TurnInv, AnswersHold
  <2>3. UNCHANGED row \/ ClaimsStay \/ (d # c /\ ClaimsStayBut(c))
    <3>1. CASE TurnGoesOn(c)
      <4>1. PICK pc \in TurnAt : /\ GoTo(c, pc) /\ ClaimsStayBut(c)
                                 /\ pc \in Answering => turn[c] \in Answering /\ ClaimsStay
        BY <3>1 DEF TurnGoesOn
      <4>2. d = c => pc \in Answering
        BY <1>0, <4>1 DEF GoTo, TurnTypeOK
      <4> QED
        BY <4>1, <4>2
    <3>2. CASE ~TurnGoesOn(c)
      BY <3>2 DEF TurnStep, TurnStops, TurnIsOver
    <3> QED
      BY <3>1, <3>2
  <2> QED
    BY <2>2, <2>3 DEF ClaimsStay, ClaimsStayBut, Held, Claimed
<1> QED
  BY <1>6, <1>7, <1>8, <1>9, <1>10, <1>11, <1>12

-----------------------------------------------------------------------------
(* One step of the dispatcher loop.                                         *)

\* A turn that answers its wake, not told to stop, is recorded for its agent.
LEMMA AnsweringIsActive ==
  ASSUME TurnInv, NEW d \in Claims, d \notin unrecorded \cup cancelled, turn[d] \in Answering
  PROVE  active[AgentOf[d[1]]] = d
BY DEF TurnInv, TurnsAreKnown, LiveTurn, Answering, Early

\* A step of the loop that starts no turn: what is left to see is its candidate,
\* and that no turn loses the row it answers.
LEMMA LoopGoesRound ==
  ASSUME TurnInv, IInv', RowsGoOn, LoopGoesOn, loop # "off", loop' # "off",
         loop' \in {"orphans", "failing"} => loop \in {"orphans", "failing"},
         UNCHANGED <<up, running, cmd, waitFor, active, turn, cancelled, unrecorded>>,
         ClaimsStay \/ (loop \in Launching /\ ClaimsStayBut(cand))
  PROVE  /\ (OffIsOff /\ LoopPhases /\ ActiveIsLive /\ TurnsAreKnown)'
         /\ (Issued /\ AnswersHold)'
<1>1. (OffIsOff /\ LoopPhases /\ ActiveIsLive /\ TurnsAreKnown)'
  BY DEF TurnInv, OffIsOff, LoopPhases, ActiveIsLive, TurnsAreKnown, NobodyActive, LiveTurn,
    LoopGoesOn
<1>2. Issued'
  <2> SUFFICES ASSUME NEW d \in Claims, LiveTurn(d) \/ d \in cancelled \cup waitFor
               PROVE  Given(d)'
    BY DEF Issued, LiveTurn
  <2>1. Given(d)
    BY DEF TurnInv, Issued
  <2> QED
    BY <2>1, GivenStays DEF TurnInv
<1>3. AnswersHold'
  <2> SUFFICES ASSUME NEW d \in Claims, d \notin unrecorded \cup cancelled,
                      turn[d] \in Answering
               PROVE  Held(d)'
    BY DEF AnswersHold
  <2>1. Held(d)
    BY DEF TurnInv, AnswersHold
  <2>2. loop \in Launching => d # cand
    <3>1. active[AgentOf[d[1]]] = d /\ d # NoClaim
      BY AnsweringIsActive, DispatcherAssumption
    <3> QED
      BY <3>1 DEF TurnInv, CandIsFree
  <2> QED
    BY <2>1, <2>2 DEF ClaimsStay, ClaimsStayBut
<1> QED
  BY <1>1, <1>2, <1>3

\* A step of the dispatcher loop keeps the invariant.
LEMMA LoopKeeps ==
  ASSUME TurnInv, IInv', LoopNext
  PROVE  /\ (OffIsOff /\ LoopPhases /\ ActiveIsLive /\ TurnsAreKnown)'
         /\ (CandIsFree /\ CandIsFresh /\ Issued /\ AnswersHold)'
<1> DEFINE Kept == /\ (OffIsOff /\ LoopPhases /\ ActiveIsLive /\ TurnsAreKnown)'
                   /\ (CandIsFree /\ CandIsFresh /\ Issued /\ AnswersHold)'
<1>0. /\ QueueTypeOK /\ LoopTypeOK /\ TurnTypeOK /\ IInv
      /\ CandIsFree /\ CandIsFresh
  BY DEF TurnInv, IInv, TypeOK
<1>1. ASSUME UNCHANGED row PROVE RowsGoOn /\ ClaimsStay
  BY <1>0, <1>1, SameRows
<1>2. ASSUME NEW p \in pending, ResolveNext(p) PROVE Kept
  <2>1. p[1] \in Claims /\ AgentOf[p[1][1]] \in Agents
    BY <1>0, AgentOfClaim DEF LoopTypeOK
  <2>2. CandIsFree' /\ CandIsFresh'
    BY <1>0, <1>2, <2>1 DEF ResolveNext, CandIsFree, CandIsFresh, Launching, TurnInv, LoopPhases,
      NobodyActive
  <2>3. /\ UNCHANGED <<row, up, running, cmd, waitFor, active, turn, cancelled, unrecorded>>
        /\ loop \in {"orphans", "listed", "sweep"} /\ LoopGoesOn
        /\ loop' \in {"listed", "failing", "fixing"} /\ (loop' = "failing" => loop = "orphans")
    BY <1>2 DEF ResolveNext, cmdVars
  <2> QED
    BY <1>1, <2>2, <2>3, LoopGoesRound
<1>3. CASE ResolveCand
  <2>1. /\ UNCHANGED <<up, running, cmd, waitFor, active, turn, cancelled, unrecorded>>
        /\ loop \in {"failing", "fixing", "abandon"} /\ LoopGoesOn
        /\ loop' \in {"orphans", "sweep", "abandoned"} /\ (loop' = "orphans" => loop = "failing")
    BY <1>3 DEF ResolveCand, cmdVars, turnVars
  <2>2. cand \in Claims
    BY <1>0, <2>1 DEF IInv, CandIsClaim
  <2>3. \/ UNCHANGED row \/ complete_agent_trigger(cand) \/ fail_agent_trigger(cand)
        \/ retry_agent_trigger(cand, FALSE) \/ retry_agent_trigger(cand, TRUE)
    BY <1>3 DEF ResolveCand, StrandedClaimEnds, RetryOrExhaust
  <2>4. RowsGoOn /\ ClaimsStayBut(cand)
    BY <1>0, <1>1, <2>2, <2>3, EndsRows DEF ClaimsStay, ClaimsStayBut
  <2>5. CandIsFree' /\ CandIsFresh'
    BY <2>1 DEF CandIsFree, CandIsFresh, Launching
  <2> QED
    BY <2>1, <2>4, <2>5, LoopGoesRound DEF Launching
<1>4. CASE BeginDrain \/ AnnounceHealth \/ ClaimNothing \/ PassEnds
  <2>1. /\ UNCHANGED <<row, up, running, cmd, waitFor, active, turn, cancelled, unrecorded>>
        /\ loop \in {"wait", "orphans", "listed", "sweep", "claim", "ending", "abandoned"}
        /\ loop' \in {"listed", "sweep", "wait", "ending"} /\ LoopGoesOn
    BY <1>4 DEF BeginDrain, AnnounceHealth, ClaimNothing, ClaimPass, PassEnds, cmdVars, turnVars
  <2>2. CandIsFree' /\ CandIsFresh'
    BY <2>1 DEF CandIsFree, CandIsFresh, Launching
  <2> QED
    BY <1>1, <2>1, <2>2, LoopGoesRound
<1>5. ASSUME NEW t \in Triggers, ClaimNext(t) PROVE Kept
  <2>1. /\ UNCHANGED <<up, running, cmd, waitFor, active, turn, cancelled, unrecorded>>
        /\ loop \in {"listed", "sweep", "claim"} /\ LoopGoesOn
        /\ loop' \in {"emitting", "launch"} /\ cand' = LaneFor(t)
        /\ Queued(t) /\ active[AgentOf[t]] = NoClaim /\ claim_trigger(t)
    BY <1>5 DEF ClaimNext, ClaimPass, Next1st, Runnable, Eligible, cmdVars
  <2>2. RowsGoOn /\ ClaimsStay /\ LaneFor(t) \in Claims
        /\ \A c \in Claims : c = LaneFor(t) => Held(c)'
    BY <1>0, <2>1, ClaimRows
  <2>3. LaneFor(t)[1] = t /\ LaneFor(t)[2] = row[t].gen + 1 /\ row[t].gen \in Nat
    BY <1>0, QueueAssumption DEF LaneFor, QueueTypeOK, RowType
  <2>4. ~Given(LaneFor(t))
    BY <2>1, <2>3 DEF Given, Queued
  <2>5. ~LiveTurn(LaneFor(t)) /\ LaneFor(t) \notin cancelled \cup waitFor
    BY <2>2, <2>4 DEF TurnInv, Issued
  <2>6. CandIsFree'
    BY <2>1, <2>3 DEF CandIsFree
  <2>7. CandIsFresh'
    BY <2>1, <2>2, <2>5 DEF CandIsFresh, LiveTurn, Held, Claimed
  <2> QED
    BY <2>1, <2>2, <2>6, <2>7, LoopGoesRound
<1>6. CASE Emitted \/ LaunchRaises
  <2>1. /\ UNCHANGED <<row, up, running, cmd, waitFor, active, turn, cancelled, unrecorded, cand>>
        /\ loop \in {"emitting", "launch"} /\ LoopGoesOn
        /\ loop' \in {"launch", "abandon"}
    BY <1>6 DEF Emitted, LaunchRaises, cmdVars, turnVars
  <2>2. CandIsFree' /\ CandIsFresh'
    BY <1>0, <2>1 DEF CandIsFree, CandIsFresh, Launching, LiveTurn, Held, Claimed
  <2> QED
    BY <1>1, <2>1, <2>2, LoopGoesRound
<1>7. CASE LaunchRefuses
  <2>1. /\ UNCHANGED <<up, running, cmd, waitFor, active, turn, cancelled, unrecorded>>
        /\ loop = "launch" /\ LoopGoesOn /\ loop' = "claim"
        /\ complete_agent_trigger(cand) \/ fail_agent_trigger(cand)
    BY <1>7 DEF LaunchRefuses, cmdVars
  <2>2. cand \in Claims
    BY <1>0, <2>1 DEF IInv, CandIsClaim
  <2>3. RowsGoOn /\ ClaimsStayBut(cand)
    BY <1>0, <2>1, <2>2, EndsRows
  <2>4. CandIsFree' /\ CandIsFresh'
    BY <2>1 DEF CandIsFree, CandIsFresh, Launching
  <2> QED
    BY <2>1, <2>3, <2>4, LoopGoesRound DEF Launching
<1>8. CASE LaunchStarts
  <2>1. /\ UNCHANGED <<row, up, running, cmd, waitFor, cancelled, unrecorded>>
        /\ loop = "launch" /\ loop' = "claim" /\ LoopGoesOn
        /\ turn' = [turn EXCEPT ![cand] = "start"]
        /\ active' = [active EXCEPT ![AgentOf[cand[1]]] = cand]
    BY <1>8 DEF LaunchStarts, cmdVars
  <2>2. /\ cand \in Claims /\ AgentOf[cand[1]] \in Agents /\ cand # NoClaim
        /\ Held(cand) /\ ~LiveTurn(cand) /\ cand \notin cancelled \cup waitFor
        /\ active[AgentOf[cand[1]]] = NoClaim
    <3>1. cand \in Claims
      BY <1>0, <2>1 DEF IInv, CandIsClaim
    <3> QED
      BY <1>0, <2>1, <3>1, AgentOfClaim, DispatcherAssumption DEF CandIsFresh, CandIsFree, Launching
  <2>3. running /\ up
    BY <2>1 DEF TurnInv, LoopPhases, LoopGoesOn
  <2>4. OffIsOff' /\ LoopPhases' /\ CandIsFree' /\ CandIsFresh'
    BY <2>1, <2>3 DEF TurnInv, OffIsOff, LoopPhases, CandIsFree, CandIsFresh, Launching
  <2>5. ActiveIsLive'
    BY <1>0, <2>1, <2>2 DEF TurnInv, ActiveIsLive, LiveTurn, TurnTypeOK
  <2>6. TurnsAreKnown'
    <3> SUFFICES ASSUME NEW d \in Claims
                 PROVE  /\ turn'[d] # "none" /\ d \notin unrecorded =>
                             active'[AgentOf[d[1]]] = d \/ d \in waitFor
                        /\ d \in waitFor /\ turn'[d] \in Early => d \in cancelled
      BY <2>1 DEF TurnsAreKnown, LiveTurn
    <3>1. CASE d = cand
      BY <1>0, <2>1, <2>2, <3>1 DEF TurnTypeOK
    <3>2. CASE d # cand
      <4>1. turn'[d] = turn[d] /\ AgentOf[d[1]] \in Agents
        BY <1>0, <2>1, <3>2, AgentOfClaim DEF TurnTypeOK
      <4>2. active[AgentOf[d[1]]] = d => active'[AgentOf[d[1]]] = d
        BY <1>0, <2>1, <2>2, <4>1, DispatcherAssumption DEF TurnTypeOK
      <4> QED
        BY <4>1, <4>2 DEF TurnInv, TurnsAreKnown, LiveTurn
    <3> QED
      BY <3>1, <3>2
  <2>7. Issued'
    <3> SUFFICES ASSUME NEW d \in Claims, turn'[d] # "none" \/ d \in cancelled \cup waitFor
                 PROVE  Given(d)
      BY <2>1 DEF Issued, LiveTurn, Given
    <3>1. CASE d = cand
      BY <1>0, <2>2, <3>1, QueueAssumption DEF Given, Held, QueueTypeOK, RowType, Claims
    <3>2. CASE d # cand
      BY <1>0, <2>1, <3>2 DEF TurnInv, Issued, LiveTurn, TurnTypeOK
    <3> QED
      BY <3>1, <3>2
  <2>8. AnswersHold'
    <3> SUFFICES ASSUME NEW d \in Claims, d \notin unrecorded \cup cancelled,
                        turn'[d] \in Answering
                 PROVE  Held(d)
      BY <2>1 DEF AnswersHold, Held, Claimed
    <3> QED
      BY <1>0, <2>1, <2>2 DEF TurnInv, AnswersHold, TurnTypeOK
  <2> QED
    BY <2>4, <2>5, <2>6, <2>7, <2>8
<1> QED
  BY <1>2, <1>3, <1>4, <1>5, <1>6, <1>7, <1>8 DEF LoopNext

-----------------------------------------------------------------------------
(* One step of a runtime command, of the app process or of the environment.  *)

\* A step that leaves the turns alone and no turn without its row.
LEMMA TurnsStay ==
  ASSUME TurnInv, IInv', RowsGoOn, ClaimsStay,
         UNCHANGED <<turn, active, unrecorded, cancelled, cand>>,
         loop' \in {loop, "off"}, waitFor' \subseteq waitFor,
         (OffIsOff /\ LoopPhases /\ TurnsAreKnown)'
  PROVE  (ActiveIsLive /\ CandIsFree /\ CandIsFresh /\ Issued /\ AnswersHold)'
<1>1. ActiveIsLive' /\ CandIsFree'
  BY DEF TurnInv, ActiveIsLive, CandIsFree, LiveTurn, Launching
<1>2. CandIsFresh'
  <2> SUFFICES ASSUME loop' \in {"emitting", "launch"}
               PROVE  Held(cand)' /\ ~LiveTurn(cand) /\ cand \notin cancelled \cup waitFor'
    BY DEF CandIsFresh, LiveTurn
  <2>1. cand \in Claims /\ Held(cand) /\ ~LiveTurn(cand) /\ cand \notin cancelled \cup waitFor
    BY DEF TurnInv, IInv, CandIsClaim, CandIsFresh
  <2>2. \A d \in Claims : d = cand => Held(d)'
    BY <2>1 DEF ClaimsStay
  <2> QED
    BY <2>1, <2>2 DEF Held, Claimed
<1>3. Issued'
  <2> SUFFICES ASSUME NEW d \in Claims, LiveTurn(d) \/ d \in cancelled \cup waitFor
               PROVE  Given(d)'
    BY DEF Issued, LiveTurn
  <2> QED
    BY GivenStays DEF TurnInv, Issued
<1>4. AnswersHold'
  BY DEF TurnInv, AnswersHold, ClaimsStay
<1> QED
  BY <1>1, <1>2, <1>3, <1>4

\* A step that cancels the turns of agents as, forgets them and waits for them.
LEMMA TurnsAreCancelled ==
  ASSUME TurnInv, IInv', UNCHANGED <<row, up, running, loop, turn, unrecorded, cand>>,
         NEW as \in SUBSET Agents,
         waitFor = {}, up,
         CancelTurns({active[a] : a \in {b \in as : active[b] # NoClaim}}),
         active' = [a \in Agents |-> IF a \in as THEN NoClaim ELSE active[a]],
         LoopPhases'
  PROVE  /\ (OffIsOff /\ ActiveIsLive /\ TurnsAreKnown)'
         /\ (CandIsFree /\ CandIsFresh /\ Issued /\ AnswersHold)'
<1> DEFINE cs == {active[a] : a \in {b \in as : active[b] # NoClaim}}
<1>0. TurnTypeOK /\ cancelled' = cancelled \cup cs /\ waitFor' = cs
  BY DEF CancelTurns, TurnInv, IInv, TypeOK
<1>1. \A c \in cs : c \in Claims /\ LiveTurn(c) /\ AgentOf[c[1]] \in as /\ active[AgentOf[c[1]]] = c
  BY <1>0, ZenonT(40) DEF TurnInv, ActiveIsLive, TurnTypeOK
<1> HIDE DEF cs
<1>2. OffIsOff'
  BY DEF OffIsOff
<1>3. ActiveIsLive'
  <2> SUFFICES ASSUME NEW a \in Agents, active'[a] # NoClaim
               PROVE  /\ AgentOf[active'[a][1]] = a /\ turn[active'[a]] # "none"
                      /\ active'[a] \notin cancelled'
    BY DEF ActiveIsLive, LiveTurn
  <2>1. a \notin as /\ active'[a] = active[a]
    OBVIOUS
  <2>2. AgentOf[active[a][1]] = a /\ LiveTurn(active[a]) /\ active[a] \notin cancelled
    BY <2>1 DEF TurnInv, ActiveIsLive
  <2> QED
    BY <1>0, <1>1, <2>1, <2>2 DEF LiveTurn
<1>4. TurnsAreKnown'
  <2> SUFFICES ASSUME NEW d \in Claims
               PROVE  /\ LiveTurn(d) /\ d \notin unrecorded =>
                           active'[AgentOf[d[1]]] = d \/ d \in cs
                      /\ d \in cs => d \in cancelled'
    BY <1>0 DEF TurnsAreKnown, LiveTurn
  <2>1. d \in cs => d \in cancelled'
    BY <1>0
  <2>2. ASSUME LiveTurn(d), d \notin unrecorded PROVE active'[AgentOf[d[1]]] = d \/ d \in cs
    <3>1. active[AgentOf[d[1]]] = d /\ AgentOf[d[1]] \in Agents /\ d # NoClaim
      BY <2>2, AgentOfClaim, DispatcherAssumption DEF TurnInv, TurnsAreKnown
    <3> QED
      BY <3>1 DEF cs
  <2> QED
    BY <2>1, <2>2
<1>5. CandIsFree'
  <2>1. loop \in Launching => AgentOf[cand[1]] \in Agents
    BY AgentOfClaim DEF TurnInv, IInv, CandIsClaim, Launching
  <2> QED
    BY <2>1 DEF TurnInv, CandIsFree
<1>6. CandIsFresh'
  BY <1>0, <1>1 DEF TurnInv, CandIsFresh, Held, Claimed, LiveTurn
<1>7. Issued'
  BY <1>0, <1>1 DEF TurnInv, Issued, Given, LiveTurn
<1>8. AnswersHold'
  BY <1>0 DEF TurnInv, AnswersHold, Held, Claimed
<1> QED
  BY <1>2, <1>3, <1>4, <1>5, <1>6, <1>7, <1>8

\* start() while nobody is active: no turn is left that the requeue could strand.
LEMMA StartKeeps ==
  ASSUME TurnInv, IInv', Start, ~running => NobodyActive /\ waitFor = {},
         up' = TRUE, cmd' = "none", waitFor' = waitFor, cmd \in {"none", "resumeFiled"},
         UNCHANGED <<turn, active, unrecorded, cancelled, cand>>
  PROVE  /\ (OffIsOff /\ LoopPhases /\ ActiveIsLive /\ TurnsAreKnown)'
         /\ (CandIsFree /\ CandIsFresh /\ Issued /\ AnswersHold)'
<1>0. QueueTypeOK /\ waitFor = {}
  BY DEF TurnInv, IInv, TypeOK, LoopPhases
<1>1. RowsGoOn
  BY <1>0, StartRows
<1>2. (OffIsOff /\ LoopPhases /\ ActiveIsLive /\ TurnsAreKnown)'
  BY <1>0 DEF Start, TurnInv, OffIsOff, LoopPhases, ActiveIsLive, TurnsAreKnown, LiveTurn, NobodyActive
<1>3. CASE running
  <2>1. UNCHANGED row /\ UNCHANGED loop
    BY <1>3 DEF Start
  <2> QED
    BY <1>0, <1>2, <2>1, SameRows, TurnsStay
<1>4. CASE ~running
  <2>1. CandIsFree' /\ CandIsFresh'
    BY <1>4 DEF Start, CandIsFree, CandIsFresh, Launching
  <2>2. Issued'
    <3> SUFFICES ASSUME NEW d \in Claims, LiveTurn(d) \/ d \in cancelled \cup waitFor
                 PROVE  Given(d)'
      BY DEF Issued, LiveTurn
    <3> QED
      BY <1>1, GivenStays DEF TurnInv, Issued
  <2>3. AnswersHold'
    <3> SUFFICES ASSUME NEW d \in Claims, d \notin unrecorded \cup cancelled,
                        turn[d] \in Answering
                 PROVE  FALSE
      BY DEF AnswersHold
    <3>1. active[AgentOf[d[1]]] = d /\ d # NoClaim /\ AgentOf[d[1]] \in Agents
      BY AnsweringIsActive, AgentOfClaim, DispatcherAssumption
    <3> QED
      BY <1>4, <3>1 DEF NobodyActive
  <2> QED
    BY <1>2, <2>1, <2>2, <2>3
<1> QED
  BY <1>3, <1>4

\* A step of a runtime command keeps the invariant.
LEMMA CommandKeeps ==
  ASSUME TurnInv, IInv', CommandNext
  PROVE  /\ (OffIsOff /\ LoopPhases /\ ActiveIsLive /\ TurnsAreKnown)'
         /\ (CandIsFree /\ CandIsFresh /\ Issued /\ AnswersHold)'
<1>0. QueueTypeOK /\ TurnTypeOK /\ CmdTypeOK
  BY DEF TurnInv, IInv, TypeOK
<1>1. CASE StopBegins
  <2>1. /\ UNCHANGED <<row, turn, active, unrecorded, cancelled, cand, loop, waitFor, up>> /\ up
        /\ running' = FALSE /\ cmd' = "stopLoop" /\ cmd = "pauseFiled"
    BY <1>1 DEF StopBegins, CmdFrame, WorkerYields
  <2>2. (OffIsOff /\ LoopPhases /\ TurnsAreKnown)'
    BY <2>1 DEF TurnInv, OffIsOff, LoopPhases, TurnsAreKnown, LiveTurn, NobodyActive
  <2> QED
    BY <1>0, <2>1, <2>2, SameRows, TurnsStay
<1>2. CASE LoopCancelled
  <2>1. /\ UNCHANGED <<row, turn, active, unrecorded, cancelled, waitFor, up, running, cmd>> /\ up
        /\ cmd = "stopLoop" /\ loop' = "off"
    BY <1>2 DEF LoopCancelled, turnVars, cmdVars
  <2>2. (OffIsOff /\ LoopPhases /\ ActiveIsLive /\ TurnsAreKnown)'
    BY <2>1 DEF TurnInv, OffIsOff, LoopPhases, ActiveIsLive, TurnsAreKnown, LiveTurn, NobodyActive
  <2>3. (CandIsFree /\ CandIsFresh /\ Issued /\ AnswersHold)'
    BY <2>1 DEF TurnInv, CandIsFree, CandIsFresh, Launching, Issued, Given, AnswersHold,
      LiveTurn, Held, Claimed
  <2> QED
    BY <2>2, <2>3
<1>3. CASE StopCancelsTurns
  <2>1. /\ UNCHANGED <<row, up, running, loop, turn, unrecorded, cand>> /\ up
        /\ cmd = "stopLoop" /\ loop = "off" /\ cmd' = "stopTurns"
        /\ CancelTurns({active[a] : a \in {b \in Agents : active[b] # NoClaim}})
        /\ active' = [a \in Agents |-> NoClaim]
    BY <1>3 DEF StopCancelsTurns, CmdFrame
  <2>2. waitFor = {} /\ LoopPhases'
    BY <2>1 DEF TurnInv, LoopPhases, NobodyActive
  <2>3. active' = [a \in Agents |-> IF a \in Agents THEN NoClaim ELSE active[a]]
    BY <2>1
  <2> QED
    BY <2>1, <2>2, <2>3, TurnsAreCancelled
<1>4. CASE StopDone \/ ResetDone
  <2>1. /\ UNCHANGED <<row, turn, active, unrecorded, cancelled, cand, loop, up, running>> /\ up
        /\ cmd \in {"stopTurns", "resetWait"} /\ cmd' = "none" /\ waitFor' = {} /\ AwaitOver
    BY <1>4 DEF StopDone, ResetDone, CmdFrame, WorkerYields
  <2>2. (OffIsOff /\ LoopPhases /\ TurnsAreKnown)'
    BY <2>1 DEF TurnInv, OffIsOff, LoopPhases, TurnsAreKnown, LiveTurn, NobodyActive, AwaitOver
  <2> QED
    BY <1>0, <2>1, <2>2, SameRows, TurnsStay
<1>5. CASE ResumeRuns
  <2>1. /\ UNCHANGED <<turn, active, unrecorded, cancelled, cand, waitFor, up>> /\ up
        /\ cmd = "resumeFiled" /\ cmd' = "none" /\ Start
    BY <1>5 DEF ResumeRuns, CmdFrame, WorkerYields
  <2>2. ~running => NobodyActive /\ waitFor = {}
    BY <2>1 DEF TurnInv, LoopPhases
  <2> QED
    BY <2>1, <2>2, StartKeeps
<1>6. CASE ResetBegins
  <2>1. /\ UNCHANGED <<row, up, running, loop, turn, unrecorded, cand>> /\ up
        /\ cmd = "resetFiled" /\ cmd' = "resetWait"
        /\ CancelTurns({active[target]} \ {NoClaim})
        /\ active' = [active EXCEPT ![target] = NoClaim]
    BY <1>6 DEF ResetBegins, CmdFrame, WorkerYields
  <2>2. waitFor = {} /\ LoopPhases'
    <3>1. NobodyActive => NobodyActive'
      BY <1>0, <2>1 DEF NobodyActive, TurnTypeOK
    <3> QED
      BY <2>1, <3>1 DEF TurnInv, LoopPhases
  <2>3. /\ active' = [a \in Agents |-> IF a \in {target} THEN NoClaim ELSE active[a]]
        /\ {active[target]} \ {NoClaim} = {active[a] : a \in {b \in {target} : active[b] # NoClaim}}
        /\ {target} \in SUBSET Agents
    BY <1>0, <2>1 DEF CmdTypeOK, TurnTypeOK
  <2> QED
    BY <2>1, <2>2, <2>3, TurnsAreCancelled
<1>7. CASE WakeRuns
  <2>1. /\ UNCHANGED <<row, turn, active, unrecorded, cancelled, cand, loop, up, running, cmd,
                       waitFor>>
    BY <1>7 DEF WakeRuns, CmdFrame, cmdVars
  <2>2. (OffIsOff /\ LoopPhases /\ TurnsAreKnown)'
    BY <2>1 DEF TurnInv, OffIsOff, LoopPhases, TurnsAreKnown, LiveTurn, NobodyActive
  <2> QED
    BY <1>0, <2>1, <2>2, SameRows, TurnsStay
<1> QED
  BY <1>1, <1>2, <1>3, <1>4, <1>5, <1>6, <1>7 DEF CommandNext

\* A step of the app process, a crash or a boot keeps the invariant.
LEMMA AppKeeps ==
  ASSUME TurnInv, IInv', AppNext
  PROVE  /\ (OffIsOff /\ LoopPhases /\ ActiveIsLive /\ TurnsAreKnown)'
         /\ (CandIsFree /\ CandIsFresh /\ Issued /\ AnswersHold)'
<1>0. QueueTypeOK /\ TurnTypeOK
  BY DEF TurnInv, IInv, TypeOK
<1>1. ASSUME UNCHANGED <<turn, active, unrecorded, cancelled, cand, loop, up, running, waitFor>>,
             RowsGoOn, ClaimsStay,
             \/ cmd' = cmd \/ cmd' = "none"
             \/ cmd = "none" /\ up /\ cmd' \in {"pauseFiled", "resumeFiled", "resetFiled"},
             cmd' # cmd => cmd = "none"
      PROVE  /\ (OffIsOff /\ LoopPhases /\ ActiveIsLive /\ TurnsAreKnown)'
             /\ (CandIsFree /\ CandIsFresh /\ Issued /\ AnswersHold)'
  <2>1. (OffIsOff /\ LoopPhases /\ TurnsAreKnown)'
    BY <1>1 DEF TurnInv, OffIsOff, LoopPhases, TurnsAreKnown, LiveTurn, NobodyActive
  <2> QED
    BY <1>1, <2>1, TurnsStay
<1>2. ASSUME NEW t \in Triggers, Enqueue(t) \/ DeleteQueued(t)
      PROVE  /\ (OffIsOff /\ LoopPhases /\ ActiveIsLive /\ TurnsAreKnown)'
             /\ (CandIsFree /\ CandIsFresh /\ Issued /\ AnswersHold)'
  <2>1. UNCHANGED <<turn, active, unrecorded, cancelled, cand, loop, up, running, waitFor, cmd>>
    BY <1>2 DEF Enqueue, DeleteQueued, AppFrame, turnVars, loopVars, cmdVars
  <2> QED
    BY <1>0, <1>1, <1>2, <2>1, ArrivalRows
<1>3. ASSUME NEW s \in SystemCalls, SystemAcquires(s) \/ SystemReleases(s)
      PROVE  /\ (OffIsOff /\ LoopPhases /\ ActiveIsLive /\ TurnsAreKnown)'
             /\ (CandIsFree /\ CandIsFresh /\ Issued /\ AnswersHold)'
  <2>1. UNCHANGED <<row, turn, active, unrecorded, cancelled, cand, loop, up, running, waitFor, cmd>>
    BY <1>3 DEF SystemAcquires, SystemReleases, AppFrame, turnVars, loopVars, cmdVars
  <2> QED
    BY <1>0, <1>1, <2>1, SameRows
<1>4. ASSUME AppPauses \/ AppResumes \/ \E a \in Agents : AppResets(a)
      PROVE  /\ (OffIsOff /\ LoopPhases /\ ActiveIsLive /\ TurnsAreKnown)'
             /\ (CandIsFree /\ CandIsFresh /\ Issued /\ AnswersHold)'
  <2>1. /\ UNCHANGED <<row, turn, active, unrecorded, cancelled, cand, loop, up, running, waitFor>>
        /\ cmd = "none"
        /\ cmd' = "none" \/ (up /\ cmd' \in {"pauseFiled", "resumeFiled", "resetFiled"})
    BY <1>4 DEF AppPauses, AppResumes, AppResets, CmdFrame
  <2> QED
    BY <1>0, <1>1, <2>1, SameRows
<1>5. CASE Crash
  <2>1. /\ up' = FALSE /\ running' = FALSE /\ loop' = "off" /\ cmd' = "none" /\ waitFor' = {}
        /\ active' = [a \in Agents |-> NoClaim] /\ turn' = [c \in Claims |-> "none"]
        /\ cancelled' = {}
    BY <1>5 DEF Crash
  <2>2. (OffIsOff /\ LoopPhases /\ ActiveIsLive /\ TurnsAreKnown)'
    BY <2>1 DEF OffIsOff, LoopPhases, ActiveIsLive, TurnsAreKnown, LiveTurn, NobodyActive, Early,
      Answering
  <2>3. (CandIsFree /\ CandIsFresh /\ Issued /\ AnswersHold)'
    BY <2>1 DEF CandIsFree, CandIsFresh, Launching, Issued, AnswersHold, Answering, LiveTurn
  <2> QED
    BY <2>2, <2>3
<1>6. CASE Boot
  <2>1. /\ UNCHANGED <<turn, active, unrecorded, cancelled, cand, waitFor, cmd>>
        /\ ~up /\ up' = TRUE
        /\ Start \/ UNCHANGED <<row, running, loop>>
    BY <1>6 DEF Boot, turnVars, cmdVars
  <2>2. ~running /\ loop = "off" /\ cmd = "none" /\ NobodyActive /\ waitFor = {}
    BY <2>1 DEF TurnInv, OffIsOff, LoopPhases
  <2>3. CASE Start
    BY <2>1, <2>2, <2>3, StartKeeps
  <2>4. CASE UNCHANGED <<row, running, loop>>
    <3>1. (OffIsOff /\ LoopPhases /\ TurnsAreKnown)'
      BY <2>1, <2>2, <2>4 DEF TurnInv, OffIsOff, LoopPhases, TurnsAreKnown, LiveTurn, NobodyActive
    <3> QED
      BY <1>0, <2>1, <2>4, <3>1, SameRows, TurnsStay
  <2> QED
    BY <2>1, <2>3, <2>4
<1> QED
  BY <1>2, <1>3, <1>4, <1>5, <1>6 DEF AppNext

-----------------------------------------------------------------------------
(* The lane table.                                                          *)

\* What one step does to the lanes, and to the record of them.
LaneStep ==
  \/ UNCHANGED <<lanes, dead, turnLane>>
  \/ \E a \in Agents : ReleaseReservations(a)
  \/ \E t \in Triggers :
       /\ Queued(t) /\ LaneFor(t) \in Claims /\ Budget!try_acquire(LaneFor(t))
       /\ \/ /\ claim_trigger(t) /\ Budget!CanAcquire(LaneFor(t))
             /\ turnLane' = [turnLane EXCEPT ![AgentOf[t]] = LaneFor(t)]
          \/ ~Budget!CanAcquire(LaneFor(t)) /\ UNCHANGED <<row, turnLane>>
  \/ \E s \in SystemCalls :
       /\ UNCHANGED turnLane
       /\ \/ s \notin lanes /\ Budget!try_acquire(s)
          \/ s \in lanes /\ Budget!release(s)
  \/ Budget!ProcessDies(Claims) /\ turnLane' = [a \in Agents |-> NoClaim]

\* Every step of the program is one of those.
LEMMA NextLanes == ASSUME IInv, [Next]_vars PROVE LaneStep
<1>1. ASSUME NEW t \in Triggers, Next1st(t) PROVE Queued(t) /\ LaneFor(t) \in Claims
  <2>1. Queued(t) /\ row[t].gen < MaxGen
    BY <1>1 DEF Next1st, Runnable, Eligible
  <2> QED
    BY <2>1, QueueAssumption DEF IInv, TypeOK, QueueTypeOK, RowType, LaneFor, Claims
<1>2. CASE LoopNext
  <2>1. ASSUME NEW p \in pending, ResolveNext(p) PROVE LaneStep
    <3>1. AgentOf[p[1][1]] \in Agents
      BY AgentOfClaim DEF IInv, TypeOK, LoopTypeOK
    <3> QED
      BY <2>1, <3>1 DEF ResolveNext, LaneStep, budgetVars
  <2>2. ASSUME NEW t \in Triggers, ClaimNext(t) PROVE LaneStep
    BY <1>1, <2>2 DEF ClaimNext, LaneStep
  <2>3. CASE ClaimNothing
    <3>1. CASE UNCHANGED budgetVars
      BY <2>3, <3>1 DEF ClaimNothing, turnVars, budgetVars, LaneStep
    <3>2. CASE ~UNCHANGED budgetVars
      <4>1. PICK t \in Triggers : /\ Next1st(t) /\ ~Budget!CanAcquire(LaneFor(t))
                                  /\ Budget!try_acquire(LaneFor(t))
        BY <2>3, <3>2 DEF ClaimNothing
      <4>2. UNCHANGED <<row, turnLane>>
        BY <2>3 DEF ClaimNothing, turnVars
      <4> QED
        BY <1>1, <4>1, <4>2 DEF LaneStep
    <3> QED
      BY <3>1, <3>2
  <2>4. CASE LaunchRefuses \/ LaunchRaises
    <3>1. AgentOf[cand[1]] \in Agents
      BY <2>4, AgentOfClaim DEF LaunchRefuses, LaunchRaises, IInv, CandIsClaim
    <3> QED
      BY <2>4, <3>1 DEF LaunchRefuses, LaunchRaises, LaneStep
  <2>5. CASE ResolveCand \/ BeginDrain \/ AnnounceHealth \/ Emitted \/ PassEnds \/ LaunchStarts
    BY <2>5 DEF ResolveCand, BeginDrain, AnnounceHealth, Emitted, PassEnds, LaunchStarts,
      turnVars, budgetVars, LaneStep
  <2> QED
    BY <1>2, <2>1, <2>2, <2>3, <2>4, <2>5 DEF LoopNext
<1>3. CASE TurnNext
  <2> SUFFICES ASSUME NEW c \in Claims,
                      CommandRuns(c) \/ TurnEnds(c) \/ TurnMoves(c) \/ HeartbeatEnds(c)
               PROVE  LaneStep
    BY <1>3 DEF TurnNext
  <2>1. CASE ReservationsReturned(c)
    BY <2>1, AgentOfClaim DEF ReservationsReturned, LaneStep
  <2>2. CASE ~ReservationsReturned(c)
    BY <2>2 DEF CommandRuns, TurnEnds, TurnMoves, HeartbeatEnds, TurnCompletes, TurnFails,
      TurnRaises, TurnBegins, ModelCall, CommandRecorded, EscapeSupervised, Reported,
      TurnForgotten, CancelDelivered, budgetVars, LaneStep
  <2> QED
    BY <2>1, <2>2
<1>4. CASE CommandNext
  BY <1>4 DEF CommandNext, StopBegins, LoopCancelled, StopCancelsTurns, StopDone,
    ResumeRuns, ResetBegins, ResetDone, WakeRuns, CmdFrame, turnVars, budgetVars, LaneStep
<1>5. CASE AppNext
  <2>1. ASSUME NEW s \in SystemCalls, SystemAcquires(s) \/ SystemReleases(s) PROVE LaneStep
    BY <2>1 DEF SystemAcquires, SystemReleases, AppFrame, turnVars, LaneStep
  <2>2. CASE Crash
    BY <2>2 DEF Crash, LaneStep
  <2>3. ASSUME NEW t \in Triggers, Enqueue(t) \/ DeleteQueued(t) PROVE LaneStep
    BY <2>3 DEF Enqueue, DeleteQueued, AppFrame, turnVars, budgetVars, LaneStep
  <2>4. CASE AppPauses \/ AppResumes \/ Boot \/ \E a \in Agents : AppResets(a)
    BY <2>4 DEF AppPauses, AppResumes, AppResets, Boot, CmdFrame, turnVars, budgetVars, LaneStep
  <2> QED
    BY <1>5, <2>1, <2>2, <2>3, <2>4 DEF AppNext
<1>6. CASE UNCHANGED vars
  BY <1>6 DEF vars, turnVars, budgetVars, LaneStep
<1> QED
  BY <1>2, <1>3, <1>4, <1>5, <1>6 DEF Next

\* The lane that a queued trigger would be claimed under was never taken.
LEMMA NextLaneIsNew ==
  ASSUME TurnInv, NEW t \in Triggers, Queued(t), LaneFor(t) \in Claims
  PROVE  LaneFor(t) \notin lanes
<1>1. row[t].gen \in Nat /\ LaneFor(t)[1] = t /\ LaneFor(t)[2] = row[t].gen + 1
  BY QueueAssumption DEF TurnInv, IInv, TypeOK, QueueTypeOK, RowType, LaneFor
<1>2. ~Given(LaneFor(t))
  BY <1>1 DEF Given, Queued
<1> QED
  BY <1>2 DEF TurnInv, LanesAreIssued

\* Every step of the program is a step of the budget, or leaves it alone.
LEMMA LanesMoveByBudget ==
  ASSUME TurnInv, [Next]_vars
  PROVE  [Budget!BudgetNext]_(Budget!budgetVars)
<1> DEFINE Ok == Budget!BudgetNext \/ UNCHANGED <<lanes, dead>>
<1>0. /\ LaneStep /\ dead \subseteq Claims /\ dead \subseteq lanes
      /\ lanes \subseteq Claims \cup SystemCalls
      /\ \A a \in Agents : turnLane[a] \notin dead
  BY NextLanes DEF TurnInv, IInv, TypeOK, BudgetTypeOK, LanesAreOwn
<1>1. ASSUME NEW a \in Agents, ReleaseReservations(a) PROVE Ok
  <2>1. CASE turnLane[a] = NoClaim
    BY <1>1, <2>1 DEF ReleaseReservations, budgetVars
  <2>2. CASE turnLane[a] # NoClaim /\ turnLane[a] \in lanes
    <3>1. Budget!Release(turnLane[a])
      BY <1>0, <1>1, <2>2 DEF ReleaseReservations, Budget!Release, Budget!Reaped
    <3> QED
      BY <2>2, <3>1 DEF Budget!BudgetNext
  <2>3. CASE turnLane[a] # NoClaim /\ turnLane[a] \notin lanes
    BY <1>0, <1>1, <2>3 DEF ReleaseReservations, Budget!release
  <2> QED
    BY <2>1, <2>2, <2>3
<1>2. ASSUME NEW lane \in Claims \cup SystemCalls, lane \notin lanes, Budget!try_acquire(lane)
      PROVE  Ok
  <2>1. Budget!AcquireOrSkip(lane)
    BY <1>2 DEF Budget!AcquireOrSkip, Budget!Reaped
  <2> QED
    BY <2>1 DEF Budget!BudgetNext
<1>3. ASSUME NEW s \in SystemCalls, s \in lanes, Budget!release(s) PROVE Ok
  <2>1. Budget!Release(s)
    BY <1>0, <1>3, DispatcherAssumption DEF Budget!Release, Budget!Reaped
  <2> QED
    BY <1>3, <2>1 DEF Budget!BudgetNext
<1>4. ASSUME Budget!ProcessDies(Claims) PROVE Ok
  BY <1>4 DEF Budget!BudgetNext, Budget!WorkerDies
<1>5. Ok
  BY <1>0, <1>1, <1>2, <1>3, <1>4, NextLaneIsNew DEF LaneStep
<1> QED
  BY <1>5 DEF Budget!budgetVars

\* What a step does to all rows: they go on, and it claims one or none.
LEMMA NextRows ==
  ASSUME IInv, [Next]_vars
  PROVE  RowsGoOn /\ (NoNewClaims \/ \E t \in Triggers : ClaimNext(t))
<1>0. QueueTypeOK
  BY DEF IInv, TypeOK
<1>1. CASE LoopNext
  <2>1. CASE ResolveCand \/ LaunchRefuses
    <3>1. cand \in Claims
      BY <2>1 DEF ResolveCand, LaunchRefuses, IInv, CandIsClaim
    <3>2. \/ UNCHANGED row \/ complete_agent_trigger(cand) \/ fail_agent_trigger(cand)
          \/ retry_agent_trigger(cand, FALSE) \/ retry_agent_trigger(cand, TRUE)
      BY <2>1 DEF ResolveCand, StrandedClaimEnds, RetryOrExhaust, LaunchRefuses
    <3> QED
      BY <1>0, <3>1, <3>2, EndsRows, SameRows
  <2>2. ASSUME NEW t \in Triggers, ClaimNext(t) PROVE RowsGoOn
    BY <1>0, <2>2, ClaimRows DEF ClaimNext
  <2>3. CASE (\E p \in pending : ResolveNext(p)) \/ BeginDrain \/ AnnounceHealth \/ ClaimNothing
               \/ Emitted \/ PassEnds \/ LaunchStarts \/ LaunchRaises
    BY <1>0, <2>3, SameRows DEF ResolveNext, BeginDrain, AnnounceHealth, ClaimNothing, Emitted,
      PassEnds, LaunchStarts, LaunchRaises
  <2> QED
    BY <1>1, <2>1, <2>2, <2>3 DEF LoopNext
<1>2. CASE TurnNext
  BY <1>2, TurnSteps DEF TurnNext, TurnStep
<1>3. CASE CommandNext
  <2>1. UNCHANGED row \/ Start
    BY <1>3 DEF CommandNext, StopBegins, LoopCancelled, StopCancelsTurns, StopDone, ResumeRuns,
      ResetBegins, ResetDone, WakeRuns
  <2> QED
    BY <1>0, <2>1, SameRows, StartRows
<1>4. CASE AppNext
  <2>1. \/ UNCHANGED row \/ Start
        \/ \E t \in Triggers : Enqueue(t) \/ DeleteQueued(t)
    BY <1>4 DEF AppNext, SystemAcquires, SystemReleases, AppPauses, AppResumes, AppResets, Crash,
      Boot
  <2> QED
    BY <1>0, <2>1, SameRows, StartRows, ArrivalRows
<1>5. CASE UNCHANGED vars
  BY <1>0, <1>5, SameRows DEF vars
<1> QED
  BY <1>1, <1>2, <1>3, <1>4, <1>5 DEF Next

\* The lanes stay issued claims and the worker's own.
LEMMA LanesKeep ==
  ASSUME TurnInv, IInv', [Next]_vars
  PROVE  LanesAreIssued' /\ LanesAreOwn'
<1>0. /\ LaneStep /\ dead \subseteq Claims /\ turnLane \in [Agents -> Claims \cup {NoClaim}]
      /\ \A a \in Agents : turnLane[a] \notin dead
      /\ RowsGoOn /\ NoClaim \notin Claims /\ SystemCalls \cap Claims = {}
  BY NextLanes, NextRows, DispatcherAssumption
  DEF TurnInv, IInv, TypeOK, TurnTypeOK, LanesAreOwn
<1>1. LanesAreOwn'
  BY <1>0 DEF LaneStep, LanesAreOwn, ReleaseReservations, budgetVars, Budget!release,
    Budget!try_acquire, Budget!ProcessDies
<1>2. LanesAreIssued'
  <2> SUFFICES ASSUME NEW c \in Claims, c \in lanes' PROVE Given(c)'
    BY DEF LanesAreIssued
  <2>1. CASE c \in lanes
    BY <1>0, <2>1, GivenStays DEF TurnInv, LanesAreIssued
  <2>2. CASE c \notin lanes
    <3>1. PICK t \in Triggers : c = LaneFor(t) /\ claim_trigger(t)
      BY <1>0, <2>2 DEF LaneStep, ReleaseReservations, budgetVars, Budget!release,
        Budget!try_acquire, Budget!Reaped, Budget!ProcessDies
    <3>2. Held(c)'
      BY <3>1, ClaimRows DEF TurnInv, IInv, TypeOK
    <3> QED
      BY <3>2 DEF Held, Given, Claims
  <2> QED
    BY <2>1, <2>2
<1> QED
  BY <1>1, <1>2

\* A channel gets no second claim.
LEMMA ChannelsKeep ==
  ASSUME TurnInv, [Next]_vars
  PROVE  OneClaimPerChannel'
<1>1. CASE NoNewClaims
  BY <1>1 DEF TurnInv, OneClaimPerChannel, NoNewClaims
<1>2. ASSUME NEW t \in Triggers, ClaimNext(t) PROVE OneClaimPerChannel'
  <2>1. ChannelOf[t] # NoChannel =>
          \A u \in Triggers : Claimed(u) => ChannelOf[u] # ChannelOf[t]
    BY <1>2 DEF ClaimNext, Next1st, Runnable, HeldBack, Drafting
  <2>2. \A u \in Triggers : u # t => row'[u] = row[u]
    BY <1>2, ClaimRows DEF ClaimNext, TurnInv, IInv, TypeOK
  <2> QED
    BY <2>1, <2>2 DEF TurnInv, OneClaimPerChannel, Claimed
<1> QED
  BY <1>1, <1>2, NextRows DEF TurnInv

-----------------------------------------------------------------------------
\* The invariant holds when the database is created.
LEMMA TurnInvInit == Init => TurnInv
<1> SUFFICES ASSUME Init PROVE TurnInv
  OBVIOUS
<1>1. IInv
  BY InitHolds
<1>2. /\ loop = "off" /\ ~up /\ ~running /\ cmd = "none" /\ lanes = {} /\ dead = {}
      /\ cancelled = {} /\ waitFor = {}
      /\ active = [a \in Agents |-> NoClaim] /\ turnLane = [a \in Agents |-> NoClaim]
      /\ turn = [c \in Claims |-> "none"]
      /\ \A t \in Triggers : ~Claimed(t)
  BY DEF Init, QueueInit, Claimed, AbsentRow
<1>3. OffIsOff /\ LoopPhases /\ ActiveIsLive /\ TurnsAreKnown
  BY <1>2 DEF OffIsOff, LoopPhases, ActiveIsLive, TurnsAreKnown, NobodyActive, LiveTurn
<1>4. CandIsFree /\ CandIsFresh /\ Issued /\ AnswersHold
  BY <1>2 DEF CandIsFree, CandIsFresh, Launching, Issued, AnswersHold, Answering, LiveTurn
<1>5. LanesAreIssued /\ LanesAreOwn /\ OneClaimPerChannel
  BY <1>2 DEF LanesAreIssued, LanesAreOwn, OneClaimPerChannel
<1> QED
  BY <1>1, <1>3, <1>4, <1>5 DEF TurnInv

\* A step keeps it.
LEMMA TurnInvStep == TurnInv /\ IInv' /\ [Next]_vars => TurnInv'
<1> SUFFICES ASSUME TurnInv, IInv', [Next]_vars PROVE TurnInv'
  OBVIOUS
<1>1. IInv /\ QueueTypeOK
  BY DEF TurnInv, IInv, TypeOK
<1>2. /\ (OffIsOff /\ LoopPhases /\ ActiveIsLive /\ TurnsAreKnown)'
      /\ (CandIsFree /\ CandIsFresh /\ Issued /\ AnswersHold)'
  <2>1. CASE LoopNext
    BY <2>1, LoopKeeps
  <2>2. CASE TurnNext
    BY <1>1, <2>2, TurnSteps, TurnKeeps DEF TurnNext
  <2>3. CASE CommandNext
    BY <2>3, CommandKeeps
  <2>4. CASE AppNext
    BY <2>4, AppKeeps
  <2>5. CASE UNCHANGED vars
    <3>1. UNCHANGED <<row, up, running, loop, cand, turn, active, cancelled, unrecorded, cmd,
                      waitFor>>
      BY <2>5 DEF vars, loopVars, turnVars, cmdVars
    <3>2. (OffIsOff /\ LoopPhases /\ TurnsAreKnown)'
      BY <3>1 DEF TurnInv, OffIsOff, LoopPhases, TurnsAreKnown, NobodyActive, LiveTurn
    <3> QED
      BY <1>1, <3>1, <3>2, SameRows, TurnsStay
  <2> QED
    BY <2>1, <2>2, <2>3, <2>4, <2>5 DEF Next
<1> QED
  BY <1>2, LanesKeep, ChannelsKeep DEF TurnInv

\* It holds in every reachable state.
LEMMA TurnInductive == Spec => []TurnInv
BY TurnInvInit, TurnInvStep, Inductive, PTL DEF Spec

\* A turn that still works, and was not told to stop, works on a row that is
\* claimed under its own generation: whatever crashes, pauses, resets, orphan
\* sweeps, late heartbeats, deletions and other turns do meanwhile.
THEOREM WorkingTurnsHoldTheirRows == Spec => []WorkingTurnHoldsItsRow
<1>1. TurnInv => WorkingTurnHoldsItsRow
  BY DEF TurnInv, AnswersHold, WorkingTurnHoldsItsRow, Working, Answering
<1> QED
  BY <1>1, TurnInductive, PTL

\* Once a pause command has finished, no turn is left running: none is in flight
\* between the loop, the record of active turns and the turns the stop awaits.
THEOREM PauseLeavesNoTurn == Spec => []PausedIsQuiet
<1>1. TurnInv => PausedIsQuiet
  <2> SUFFICES ASSUME TurnInv, up, ~running, cmd \in {"none", "resumeFiled"},
                      NEW c \in Claims \ unrecorded
               PROVE  ~LiveTurn(c)
    BY DEF PausedIsQuiet
  <2>1. loop = "off" /\ NobodyActive /\ waitFor = {}
    BY DEF TurnInv, LoopPhases
  <2>2. AgentOf[c[1]] \in Agents /\ c # NoClaim
    BY AgentOfClaim, DispatcherAssumption
  <2> QED
    BY <2>1, <2>2 DEF TurnInv, TurnsAreKnown, NobodyActive
<1> QED
  BY <1>1, TurnInductive, PTL

\* The dispatcher, its crashes and the System AI routes move the lane table only
\* as the budget allows: a lane is given out once, under the knob, given back by
\* a process that lives, and swept only after its process died.
THEOREM DispatcherUsesBudget == Spec => BudgetSpec
<1>1. Init => Budget!BudgetInit
  BY DEF Init, Budget!BudgetInit
<1>2. TurnInv /\ [Next]_vars => [Budget!BudgetNext]_(Budget!budgetVars)
  BY LanesMoveByBudget
<1> QED
  BY <1>1, <1>2, TurnInductive, PTL DEF Spec, BudgetSpec, Budget!BudgetSpec

\* Peers of one channel are never both claimed: the channel's live speak is one.
THEOREM ChannelsHoldOneClaim == Spec => []OneClaimPerChannel
<1>1. TurnInv => OneClaimPerChannel
  BY DEF TurnInv
<1> QED
  BY <1>1, TurnInductive, PTL

-----------------------------------------------------------------------------
(* A worker that is never told to reset an agent: an upset whose cost is more *)
(* than MaxUpsets never happens.  With resets, two turns of one agent do      *)
(* overlap.                                                                  *)

Never(what) == UpsetCost[what] > MaxUpsets

\* Two turns that a command awaits are not of one agent.
WaitersApart == \A c, d \in waitFor : AgentOf[c[1]] = AgentOf[d[1]] => c = d

\* No record is taken, and every turn that answers its wake holds it, the ones
\* told to stop included.
ResetFree ==
  /\ left <= MaxUpsets
  /\ cmd \notin {"resetFiled", "resetWait"}
  /\ unrecorded = {} /\ WaitersApart
  /\ \A c \in Claims : turn[c] \in Answering => Held(c)

\* A step upsets at most as left allows.
LEMMA NextUpsets ==
  ASSUME IInv, [Next]_vars
  PROVE  left' <= left
<1>0. left \in Nat /\ left <= left
  BY DEF IInv, TypeOK, CmdTypeOK
<1>1. ASSUME NEW what \in UpsetKinds, Upset(what) PROVE left' <= left
  <2>1. UpsetCost[what] \in Nat
    BY DispatcherAssumption
  <2> QED
    BY <1>0, <1>1, <2>1 DEF Upset
<1>2. {"pause", "reset", "crash", "park", "fault"} = UpsetKinds
  BY DEF UpsetKinds
<1>3. left' = left \/ \E what \in {"pause", "reset", "crash", "park", "fault"} : Upset(what)
  <2>1. CASE LoopNext
    BY <2>1 DEF LoopNext, ResolveNext, ResolveCand, StrandedClaimEnds, BeginDrain, AnnounceHealth,
      ClaimNothing, ClaimNext, Emitted, PassEnds, LaunchStarts, LaunchRefuses, LaunchRaises
  <2>2. CASE TurnNext
    BY <2>2 DEF TurnNext, CommandRuns, TurnEnds, TurnMoves, HeartbeatEnds, TurnCompletes,
      TurnFails, Supervised, TurnRaises, TurnBegins, ModelCall, CommandRecorded, EscapeSupervised,
      Reported, ReservationsReturned, TurnForgotten, CancelDelivered
  <2>3. CASE CommandNext
    BY <2>3 DEF CommandNext, StopBegins, LoopCancelled, StopCancelsTurns, StopDone, ResumeRuns,
      ResetBegins, ResetDone, WakeRuns
  <2>4. CASE AppNext
    BY <2>4 DEF AppNext, Enqueue, DeleteQueued, SystemAcquires, SystemReleases, AppFrame,
      AppPauses, AppResumes, AppResets, Crash, Boot
  <2> QED
    BY <2>1, <2>2, <2>3, <2>4 DEF Next, vars
<1> QED
  BY <1>0, <1>1, <1>2, <1>3

\* What costs more than was ever there is not done.
LEMMA NeverUpset ==
  ASSUME IInv, left <= MaxUpsets, NEW what \in UpsetKinds, Never(what)
  PROVE  ~Upset(what)
<1>1. UpsetCost[what] \in Nat /\ left \in Nat /\ MaxUpsets \in Nat
  BY DispatcherAssumption DEF IInv, TypeOK, CmdTypeOK
<1> QED
  BY <1>1 DEF Never, Upset

\* Without resets an agent has one turn.
LEMMA OneTurn ==
  ASSUME TurnInv, ResetFree
  PROVE  OneTurnPerAgent
<1> SUFFICES ASSUME NEW c \in Claims, NEW d \in Claims, LiveTurn(c), LiveTurn(d),
                    AgentOf[c[1]] = AgentOf[d[1]]
             PROVE  c = d
  BY DEF OneTurnPerAgent
<1>1. waitFor # {} => NobodyActive
  BY DEF TurnInv, LoopPhases, ResetFree
<1>2. /\ active[AgentOf[c[1]]] = c \/ c \in waitFor
      /\ active[AgentOf[d[1]]] = d \/ d \in waitFor
  BY DEF TurnInv, TurnsAreKnown, ResetFree
<1>3. c # NoClaim /\ d # NoClaim /\ AgentOf[c[1]] \in Agents
  BY AgentOfClaim, DispatcherAssumption
<1> QED
  BY <1>1, <1>2, <1>3 DEF ResetFree, WaitersApart, NobodyActive

\* What the loop does to the claims that turns stand on.
LEMMA LoopRows ==
  ASSUME TurnInv, LoopNext
  PROVE  /\ ClaimsStay \/ (loop \in Launching /\ cand \in Claims /\ ClaimsStayBut(cand))
         /\ turn' = turn \/ (LaunchStarts /\ UNCHANGED row)
         /\ UNCHANGED <<cmd, waitFor, unrecorded, cancelled>> /\ loop # "off"
<1>0. QueueTypeOK
  BY DEF TurnInv, IInv, TypeOK
<1>1. CASE ResolveCand \/ LaunchRefuses
  <2>1. /\ loop \in Launching /\ UNCHANGED <<turn, cmd, waitFor, unrecorded, cancelled>>
        /\ loop # "off"
    BY <1>1 DEF ResolveCand, LaunchRefuses, Launching, turnVars, cmdVars
  <2>2. cand \in Claims
    BY <2>1 DEF TurnInv, IInv, CandIsClaim, Launching
  <2>3. \/ UNCHANGED row \/ complete_agent_trigger(cand) \/ fail_agent_trigger(cand)
        \/ retry_agent_trigger(cand, FALSE) \/ retry_agent_trigger(cand, TRUE)
    BY <1>1 DEF ResolveCand, StrandedClaimEnds, RetryOrExhaust, LaunchRefuses
  <2> QED
    BY <1>0, <2>1, <2>2, <2>3, EndsRows, SameRows
<1>2. ASSUME NEW t \in Triggers, ClaimNext(t)
      PROVE  ClaimsStay /\ UNCHANGED <<turn, cmd, waitFor, unrecorded, cancelled>> /\ loop # "off"
  BY <1>0, <1>2, ClaimRows DEF ClaimNext, ClaimPass, cmdVars
<1>3. CASE (\E p \in pending : ResolveNext(p)) \/ BeginDrain \/ AnnounceHealth \/ ClaimNothing
             \/ Emitted \/ PassEnds \/ LaunchRaises
  <2>1. UNCHANGED <<row, turn, cmd, waitFor, unrecorded, cancelled>> /\ loop # "off"
    BY <1>3 DEF ResolveNext, BeginDrain, AnnounceHealth, ClaimNothing, ClaimPass, Emitted,
      PassEnds, LaunchRaises, turnVars, cmdVars
  <2> QED
    BY <1>0, <2>1, SameRows
<1>4. CASE LaunchStarts
  <2>1. UNCHANGED <<row, cmd, waitFor, unrecorded, cancelled>> /\ loop # "off"
    BY <1>4 DEF LaunchStarts, cmdVars
  <2> QED
    BY <1>0, <1>4, <2>1, SameRows
<1> QED
  BY <1>1, <1>2, <1>3, <1>4 DEF LoopNext

\* Without resets, a step keeps the rest of the invariant.
LEMMA ResetFreeStep ==
  ASSUME Never("reset"), TurnInv, IInv', ResetFree, [Next]_vars
  PROVE  ResetFree'
<1>0. TurnTypeOK /\ IInv /\ QueueTypeOK
  BY DEF TurnInv, IInv, TypeOK
<1>1. left' <= MaxUpsets
  <2>1. left' <= left /\ left \in Nat /\ left' \in Nat /\ MaxUpsets \in Nat
    BY <1>0, NextUpsets, DispatcherAssumption DEF IInv, TypeOK, CmdTypeOK
  <2> QED
    BY <2>1 DEF ResetFree
<1>2. ~Upset("reset")
  BY <1>0, NeverUpset DEF ResetFree, UpsetKinds
<1> DEFINE Rest == /\ cmd' \notin {"resetFiled", "resetWait"}
                   /\ unrecorded' = {} /\ WaitersApart'
                   /\ \A c \in Claims : turn'[c] \in Answering => Held(c)'
<1>3. ASSUME cmd' \in {cmd, "none", "pauseFiled", "resumeFiled", "stopLoop", "stopTurns"},
             waitFor' \subseteq waitFor, UNCHANGED <<unrecorded, turn>>, ClaimsStay
      PROVE  Rest
  BY <1>3 DEF ResetFree, WaitersApart, ClaimsStay
<1>4. CASE LoopNext
  <2>1. /\ UNCHANGED <<cmd, waitFor, unrecorded>> /\ loop # "off"
        /\ turn' = turn \/ (LaunchStarts /\ UNCHANGED row)
        /\ ClaimsStay \/ (loop \in Launching /\ cand \in Claims /\ ClaimsStayBut(cand))
    BY <1>4, LoopRows
  <2>2. ASSUME NEW c \in Claims, turn'[c] \in Answering PROVE Held(c)'
    <3>1. CASE turn' = turn
      <4>1. Held(c) /\ LiveTurn(c)
        BY <2>2, <3>1 DEF ResetFree, LiveTurn, Answering
      <4>2. loop \in Launching => c # cand
        <5>1. loop # "off" /\ cmd # "resetWait" => waitFor = {}
          BY DEF TurnInv, LoopPhases
        <5>2. active[AgentOf[c[1]]] = c
          BY <2>1, <4>1, <5>1 DEF ResetFree, TurnInv, TurnsAreKnown
        <5> QED
          BY <5>2, DispatcherAssumption DEF TurnInv, CandIsFree
      <4> QED
        BY <2>1, <4>1, <4>2 DEF ClaimsStay, ClaimsStayBut
    <3>2. CASE LaunchStarts /\ UNCHANGED row
      <4>1. Held(cand)
        BY <3>2 DEF LaunchStarts, TurnInv, CandIsFresh
      <4>2. c # cand => turn'[c] = turn[c]
        BY <1>0, <3>2 DEF LaunchStarts, TurnTypeOK
      <4> QED
        BY <2>2, <3>2, <4>1, <4>2 DEF ResetFree, Held, Claimed
    <3> QED
      BY <2>1, <3>1, <3>2
  <2> QED
    BY <1>1, <2>1, <2>2 DEF ResetFree, WaitersApart
<1>5. CASE TurnNext
  <2> SUFFICES ASSUME NEW c \in Claims, TurnStep(c)
               PROVE  Rest
    BY <1>0, <1>1, <1>5, TurnSteps DEF TurnNext, ResetFree
  <2>1. UNCHANGED <<cmd, waitFor>>
    BY DEF TurnStep, WorkerFrame
  <2>2. CASE TurnGoesOn(c)
    <3>1. PICK pc \in TurnAt : /\ GoTo(c, pc) /\ ClaimsStayBut(c)
                               /\ pc \in Answering => turn[c] \in Answering /\ ClaimsStay
      BY <2>2 DEF TurnGoesOn
    <3>2. ASSUME NEW d \in Claims, turn'[d] \in Answering PROVE Held(d)'
      BY <1>0, <3>1, <3>2 DEF GoTo, TurnTypeOK, ResetFree, ClaimsStay, ClaimsStayBut
    <3>3. unrecorded' = unrecorded
      BY <2>2 DEF TurnGoesOn
    <3> QED
      BY <2>1, <3>2, <3>3 DEF ResetFree, WaitersApart
  <2>3. CASE TurnStops(c)
    <3>1. ASSUME NEW d \in Claims, turn'[d] \in Answering PROVE Held(d)'
      BY <1>0, <2>3, <3>1 DEF TurnStops, GoTo, TurnTypeOK, ResetFree, Held, Claimed, Answering
    <3>2. unrecorded' = unrecorded
      BY <2>3 DEF TurnStops
    <3> QED
      BY <2>1, <3>1, <3>2 DEF ResetFree, WaitersApart
  <2>4. CASE TurnIsOver(c)
    <3>1. ASSUME NEW d \in Claims, turn'[d] \in Answering PROVE Held(d)'
      BY <1>0, <2>4, <3>1 DEF TurnIsOver, GoTo, TurnTypeOK, ResetFree, Held, Claimed, Answering
    <3>2. active[AgentOf[c[1]]] \in {c, NoClaim}
      <4> SUFFICES ASSUME active[AgentOf[c[1]]] # NoClaim PROVE active[AgentOf[c[1]]] = c
        OBVIOUS
      <4>1. AgentOf[c[1]] \in Agents /\ active[AgentOf[c[1]]] \in Claims
        BY <1>0, AgentOfClaim DEF TurnTypeOK
      <4>2. LiveTurn(active[AgentOf[c[1]]]) /\ AgentOf[active[AgentOf[c[1]]][1]] = AgentOf[c[1]]
        BY <4>1 DEF TurnInv, ActiveIsLive
      <4>3. LiveTurn(c)
        BY <2>4 DEF TurnIsOver, LiveTurn
      <4> QED
        BY <4>1, <4>2, <4>3, OneTurn DEF OneTurnPerAgent
    <3>3. unrecorded' = {}
      BY <2>4, <3>2 DEF TurnIsOver, ResetFree
    <3> QED
      BY <2>1, <3>1, <3>3 DEF ResetFree, WaitersApart
  <2>5. CASE UNCHANGED <<row, turn, active, cancelled, unrecorded>>
    BY <1>0, <1>3, <2>1, <2>5, SameRows
  <2> QED
    BY <2>2, <2>3, <2>4, <2>5 DEF TurnStep
<1>6. CASE CommandNext
  <2>1. CASE StopBegins \/ LoopCancelled \/ StopDone \/ WakeRuns
    <3>1. /\ UNCHANGED <<row, turn, unrecorded>> /\ waitFor' \in {waitFor, {}}
          /\ cmd' \in {cmd, "stopLoop", "none"}
      BY <2>1 DEF StopBegins, LoopCancelled, StopDone, WakeRuns, CmdFrame, turnVars, cmdVars
    <3> QED
      BY <1>0, <1>1, <1>3, <3>1, SameRows DEF ResetFree
  <2>2. CASE StopCancelsTurns
    <3>1. /\ UNCHANGED <<row, turn, unrecorded>> /\ cmd' = "stopTurns"
          /\ waitFor' = {active[a] : a \in {b \in Agents : active[b] # NoClaim}}
      BY <2>2 DEF StopCancelsTurns, CmdFrame, CancelTurns
    <3>2. WaitersApart'
      BY <3>1 DEF WaitersApart, TurnInv, ActiveIsLive
    <3> QED
      BY <1>1, <3>1, <3>2 DEF ResetFree, Held, Claimed
  <2>3. CASE ResumeRuns
    <3>1. /\ cmd = "resumeFiled" /\ cmd' = "none" /\ Start
          /\ UNCHANGED <<turn, unrecorded, waitFor>>
      BY <2>3 DEF ResumeRuns, CmdFrame
    <3>2. CASE running
      BY <1>0, <1>1, <1>3, <3>1, <3>2, SameRows DEF Start, ResetFree
    <3>3. CASE ~running
      <4>1. NobodyActive /\ waitFor = {}
        BY <3>1, <3>3 DEF TurnInv, LoopPhases
      <4>2. \A c \in Claims : ~LiveTurn(c)
        BY <4>1, AgentOfClaim, DispatcherAssumption DEF TurnInv, TurnsAreKnown, NobodyActive, ResetFree
      <4> QED
        BY <1>1, <3>1, <4>2 DEF ResetFree, WaitersApart, LiveTurn, Answering
    <3> QED
      BY <3>2, <3>3
  <2>4. ~ResetBegins /\ ~ResetDone
    BY DEF ResetFree, ResetBegins, ResetDone
  <2> QED
    BY <1>6, <2>1, <2>2, <2>3, <2>4 DEF CommandNext
<1>7. CASE AppNext
  <2>1. ASSUME NEW t \in Triggers, Enqueue(t) \/ DeleteQueued(t) PROVE ResetFree'
    <3>1. UNCHANGED <<turn, unrecorded, waitFor, cmd>>
      BY <2>1 DEF Enqueue, DeleteQueued, AppFrame, turnVars, cmdVars
    <3> QED
      BY <1>0, <1>1, <1>3, <2>1, <3>1, ArrivalRows DEF ResetFree
  <2>2. ASSUME \/ \E s \in SystemCalls : SystemAcquires(s) \/ SystemReleases(s)
               \/ AppPauses \/ AppResumes
        PROVE  ResetFree'
    <3>1. UNCHANGED <<row, turn, unrecorded, waitFor>> /\ cmd' \in {cmd, "none", "pauseFiled", "resumeFiled"}
      BY <2>2 DEF SystemAcquires, SystemReleases, AppFrame, AppPauses, AppResumes, CmdFrame,
        turnVars, cmdVars
    <3> QED
      BY <1>0, <1>1, <1>3, <3>1, SameRows DEF ResetFree
  <2>3. ASSUME NEW a \in Agents, AppResets(a) PROVE ResetFree'
    BY <1>2, <2>3 DEF AppResets
  <2>4. CASE Crash
    <3>1. turn' = [c \in Claims |-> "none"] /\ waitFor' = {} /\ cmd' = "none"
          /\ unrecorded' = unrecorded
      BY <2>4 DEF Crash
    <3> QED
      BY <1>1, <3>1 DEF ResetFree, WaitersApart, Answering
  <2>5. CASE Boot
    <3>1. UNCHANGED <<turn, unrecorded, waitFor, cmd>> /\ ~up
      BY <2>5 DEF Boot, turnVars, cmdVars
    <3>2. \A c \in Claims : ~LiveTurn(c)
      BY <3>1 DEF TurnInv, OffIsOff
    <3> QED
      BY <1>1, <3>1, <3>2 DEF ResetFree, WaitersApart, LiveTurn, Answering
  <2> QED
    BY <1>7, <2>1, <2>2, <2>3, <2>4, <2>5 DEF AppNext
<1>8. CASE UNCHANGED vars
  <2>1. UNCHANGED <<row, turn, unrecorded, waitFor, cmd>>
    BY <1>8 DEF vars, turnVars, cmdVars
  <2> QED
    BY <1>0, <1>1, <1>3, <2>1, SameRows DEF ResetFree
<1> QED
  BY <1>4, <1>5, <1>6, <1>7, <1>8 DEF Next

\* Without resets the whole invariant holds in every reachable state.
LEMMA ResetFreeInductive == ASSUME Never("reset") PROVE Spec => [](TurnInv /\ ResetFree)
<1>1. Init => ResetFree
  <2> SUFFICES ASSUME Init PROVE ResetFree
    OBVIOUS
  <2>1. /\ left = MaxUpsets /\ cmd = "none" /\ unrecorded = {} /\ waitFor = {}
        /\ turn = [c \in Claims |-> "none"]
    BY DEF Init
  <2>2. left <= MaxUpsets
    BY <2>1, DispatcherAssumption
  <2> QED
    BY <2>1, <2>2 DEF ResetFree, WaitersApart, Answering
<1>2. TurnInv /\ IInv' /\ ResetFree /\ [Next]_vars => ResetFree'
  BY ResetFreeStep
<1> QED
  BY <1>1, <1>2, Inductive, TurnInductive, PTL DEF Spec

\* Unless the operator resets an agent, two turns of one agent never overlap,
\* through crashes, pauses that cancel turns, orphan sweeps of claims that look
\* old, and launches and clean-ups that raise.
THEOREM OneTurnWithoutResets == ASSUME Never("reset") PROVE Spec => []OneTurnPerAgent
<1>1. TurnInv /\ ResetFree => OneTurnPerAgent
  BY OneTurn
<1> QED
  BY <1>1, ResetFreeInductive, PTL

\* Nor do two peers of one channel ever write at the same time.
THEOREM OneSpeakWithoutResets == ASSUME Never("reset") PROVE Spec => []OneLiveSpeak
<1>1. TurnInv /\ ResetFree => OneLiveSpeak
  <2> SUFFICES ASSUME TurnInv, ResetFree, NEW c \in Claims, NEW d \in Claims,
                      Working(c), Working(d), ChannelOf[c[1]] # NoChannel,
                      ChannelOf[c[1]] = ChannelOf[d[1]]
               PROVE  c = d
    BY DEF OneLiveSpeak
  <2>1. Held(c) /\ Held(d)
    BY DEF ResetFree, Working, Answering
  <2>2. c[1] = d[1]
    BY <2>1, AgentOfClaim DEF TurnInv, OneClaimPerChannel, Held
  <2> QED
    BY <2>1, <2>2, ClaimParts DEF Held
<1> QED
  BY <1>1, ResetFreeInductive, PTL

-----------------------------------------------------------------------------
(* A worker whose turns nobody cancels: neither a pause nor a reset.         *)

\* No command was ever filed, so that every live turn is recorded.
Undisturbed == ~paused /\ cmd = "none" /\ cancelled = {} /\ waitFor = {} /\ unrecorded = {}

\* A lane of the live worker is recorded for its agent, and has a claim about to
\* be launched or a turn that has its lane still to return.
LanesAreRecorded ==
  \A c \in (lanes \ dead) \cap Claims :
    /\ turnLane[AgentOf[c[1]]] = c
    /\ (loop \in {"emitting", "launch"} /\ c = cand) \/ turn[c] \notin {"none", "closing"}

\* Without pauses and resets no command is ever filed.
LEMMA UndisturbedStep ==
  ASSUME Never("pause"), Never("reset"), TurnInv, ResetFree, Undisturbed, [Next]_vars
  PROVE  Undisturbed'
<1>0. IInv /\ TurnTypeOK
  BY DEF TurnInv, IInv, TypeOK
<1>1. ~Upset("pause") /\ ~Upset("reset")
  BY <1>0, NeverUpset DEF ResetFree, UpsetKinds
<1>2. CASE LoopNext
  <2>1. UNCHANGED paused
    BY <1>2 DEF LoopNext, ResolveNext, ResolveCand, BeginDrain, AnnounceHealth, ClaimNothing,
      ClaimNext, Emitted, PassEnds, LaunchStarts, LaunchRefuses, LaunchRaises, cmdVars
  <2> QED
    BY <1>2, <2>1, LoopRows DEF Undisturbed
<1>3. CASE TurnNext
  <2>1. PICK c \in Claims : TurnStep(c)
    BY <1>0, <1>3, TurnSteps DEF TurnNext
  <2>2. cancelled' = {} /\ UNCHANGED <<paused, cmd, waitFor>>
    BY <2>1 DEF Undisturbed, TurnStep, WorkerFrame, TurnGoesOn, TurnStops, TurnIsOver
  <2>3. unrecorded' = {}
    <3>1. TurnIsOver(c) => active[AgentOf[c[1]]] \in {c, NoClaim}
      BY DEF Undisturbed, TurnInv, TurnsAreKnown, TurnIsOver, LiveTurn
    <3> QED
      BY <2>1, <3>1 DEF Undisturbed, TurnStep, TurnGoesOn, TurnStops, TurnIsOver
  <2> QED
    BY <2>2, <2>3 DEF Undisturbed
<1>4. CASE CommandNext
  BY <1>4 DEF CommandNext, Undisturbed, StopBegins, LoopCancelled, StopCancelsTurns, StopDone,
    ResumeRuns, ResetBegins, ResetDone, WakeRuns, CmdFrame, cmdVars
<1>5. CASE AppNext
  <2>1. ~AppPauses /\ ~AppResumes /\ \A a \in Agents : ~AppResets(a)
    BY <1>1 DEF Undisturbed, AppPauses, AppResumes, AppResets
  <2>2. ASSUME NEW t \in Triggers, Enqueue(t) \/ DeleteQueued(t) PROVE Undisturbed'
    BY <2>2 DEF Enqueue, DeleteQueued, AppFrame, turnVars, cmdVars, Undisturbed
  <2>3. ASSUME NEW s \in SystemCalls, SystemAcquires(s) \/ SystemReleases(s) PROVE Undisturbed'
    BY <2>3 DEF SystemAcquires, SystemReleases, AppFrame, turnVars, cmdVars, Undisturbed
  <2>4. CASE Crash \/ Boot
    BY <2>4 DEF Crash, Boot, turnVars, cmdVars, Undisturbed
  <2> QED
    BY <1>5, <2>1, <2>2, <2>3, <2>4 DEF AppNext
<1>6. CASE UNCHANGED vars
  BY <1>6 DEF vars, turnVars, cmdVars, Undisturbed
<1> QED
  BY <1>2, <1>3, <1>4, <1>5, <1>6 DEF Next

\* What a turn task does to the lanes: it returns its agent's, or its turn still
\* has one to return, or had none.
LEMMA TurnLanes ==
  ASSUME Undisturbed, TurnTypeOK, NEW c \in Claims,
         CommandRuns(c) \/ TurnEnds(c) \/ TurnMoves(c) \/ HeartbeatEnds(c)
  PROVE  /\ \/ ReleaseReservations(AgentOf[c[1]])
            \/ /\ UNCHANGED <<budgetVars, turnLane>>
               /\ turn'[c] \in {"none", "closing"} => turn[c] \in {"none", "closing"}
         /\ \A d \in Claims : d # c => turn'[d] = turn[d]
<1>1. CASE ReservationsReturned(c)
  BY <1>1 DEF ReservationsReturned, GoTo, TurnTypeOK
<1>2. CASE TurnFails(c) \/ TurnCompletes(c) \/ EscapeSupervised(c)
  <2>1. \E pc \in {"idle", "escaped", "reporting"} : GoTo(c, pc)
    BY <1>2 DEF TurnFails, TurnCompletes, EscapeSupervised, Supervised
  <2>2. UNCHANGED <<budgetVars, turnLane>>
    BY <1>2 DEF TurnFails, TurnCompletes, EscapeSupervised
  <2> QED
    BY <2>1, <2>2 DEF GoTo, TurnTypeOK
<1>3. CASE TurnRaises(c) \/ CommandRuns(c) \/ TurnBegins(c) \/ ModelCall(c) \/ CommandRecorded(c)
             \/ Reported(c)
  <2>1. \E pc \in {"idle", "escaped", "body", "command", "thinking"} : GoTo(c, pc)
    BY <1>3 DEF TurnRaises, CommandRuns, TurnBegins, ModelCall, CommandRecorded, Reported
  <2>2. UNCHANGED <<budgetVars, turnLane>>
    BY <1>3 DEF TurnRaises, CommandRuns, TurnBegins, ModelCall, CommandRecorded, Reported
  <2> QED
    BY <2>1, <2>2 DEF GoTo, TurnTypeOK
<1>4. CASE TurnForgotten(c)
  BY <1>4 DEF TurnForgotten, GoTo, TurnTypeOK
<1>5. CASE HeartbeatEnds(c)
  BY <1>5 DEF HeartbeatEnds
<1>6. ~CancelDelivered(c)
  BY DEF CancelDelivered, Undisturbed
<1> QED
  BY <1>1, <1>2, <1>3, <1>4, <1>5, <1>6 DEF TurnEnds, TurnMoves

\* A lane goes back: nothing of its agent is left.
LEMMA LanesReturned ==
  ASSUME LanesAreRecorded, TurnTypeOK, NEW a \in Agents, ReleaseReservations(a),
         \A c \in Claims : AgentOf[c[1]] # a /\ c \in lanes \ dead =>
           turn'[c] \notin {"none", "closing"}
  PROVE  LanesAreRecorded'
<1> SUFFICES ASSUME NEW c \in Claims, c \in lanes', c \notin dead'
             PROVE  turnLane'[AgentOf[c[1]]] = c /\ turn'[c] \notin {"none", "closing"}
  BY DEF LanesAreRecorded
<1>1. NoClaim \notin Claims /\ AgentOf[c[1]] \in Agents
  BY DispatcherAssumption, AgentOfClaim
<1>2. c \in lanes \ dead /\ (turnLane[a] # NoClaim => c # turnLane[a])
  BY <1>1 DEF ReleaseReservations, budgetVars, Budget!release
<1>3. turnLane[AgentOf[c[1]]] = c
  BY <1>2 DEF LanesAreRecorded
<1>4. AgentOf[c[1]] # a
  BY <1>1, <1>2, <1>3
<1>5. turnLane'[AgentOf[c[1]]] = turnLane[AgentOf[c[1]]]
  BY <1>1, <1>4 DEF ReleaseReservations, TurnTypeOK
<1> QED
  BY <1>2, <1>3, <1>4, <1>5

\* A step that moves no lane and no turn's share in one.
LEMMA LanesStay ==
  ASSUME LanesAreRecorded, UNCHANGED turnLane,
         (lanes' \ dead') \cap Claims \subseteq lanes \ dead,
         loop \in {"emitting", "launch"} => loop' \in {"emitting", "launch"} /\ UNCHANGED cand,
         \A c \in Claims : turn'[c] \in {"none", "closing"} => turn[c] \in {"none", "closing"}
  PROVE  LanesAreRecorded'
BY DEF LanesAreRecorded

\* Without pauses and resets, a step keeps the lanes recorded.
LEMMA LanesRecordedStep ==
  ASSUME TurnInv, Undisturbed, LanesAreRecorded, [Next]_vars
  PROVE  LanesAreRecorded'
<1>0. IInv /\ TurnTypeOK /\ LoopTypeOK /\ SystemCalls \cap Claims = {} /\ NoClaim \notin Claims
  BY DispatcherAssumption DEF TurnInv, IInv, TypeOK
<1>1. \A c \in Claims : LiveTurn(c) => active[AgentOf[c[1]]] = c
  BY DEF TurnInv, TurnsAreKnown, Undisturbed
<1>2. CASE LoopNext
  <2>1. ASSUME NEW p \in pending, ResolveNext(p) PROVE LanesAreRecorded'
    <3>1. AgentOf[p[1][1]] \in Agents
      BY <1>0, AgentOfClaim DEF LoopTypeOK
    <3>2. loop \notin {"emitting", "launch"} /\ UNCHANGED turn
      BY <2>1 DEF ResolveNext
    <3>3. \/ ReleaseReservations(AgentOf[p[1][1]])
          \/ UNCHANGED <<lanes, dead, turnLane>>
      BY <2>1 DEF ResolveNext, budgetVars
    <3>4. CASE ReleaseReservations(AgentOf[p[1][1]])
      BY <1>0, <3>1, <3>2, <3>4, LanesReturned DEF LanesAreRecorded
    <3> QED
      BY <3>2, <3>3, <3>4, LanesStay
  <2>2. CASE LaunchRefuses \/ LaunchRaises
    <3>1. cand \in Claims /\ ReleaseReservations(AgentOf[cand[1]]) /\ UNCHANGED turn
      BY <2>2 DEF LaunchRefuses, LaunchRaises, IInv, CandIsClaim, TurnInv
    <3> QED
      BY <1>0, <3>1, LanesReturned, AgentOfClaim DEF LanesAreRecorded
  <2>3. ASSUME NEW t \in Triggers, ClaimNext(t) PROVE LanesAreRecorded'
    <3> SUFFICES ASSUME NEW c \in Claims, c \in lanes', c \notin dead'
                 PROVE  /\ turnLane'[AgentOf[c[1]]] = c
                        /\ \/ loop' \in {"emitting", "launch"} /\ c = cand'
                           \/ turn'[c] \notin {"none", "closing"}
      BY DEF LanesAreRecorded
    <3>1. /\ loop \notin {"emitting", "launch"} /\ loop' \in {"emitting", "launch"}
          /\ UNCHANGED turn /\ cand' = LaneFor(t) /\ active[AgentOf[t]] = NoClaim
          /\ turnLane' = [turnLane EXCEPT ![AgentOf[t]] = LaneFor(t)]
          /\ LaneFor(t)[1] = t /\ AgentOf[t] \in Agents
          /\ lanes' = (lanes \ dead) \cup {LaneFor(t)}
      BY <2>3, QueueAssumption DEF ClaimNext, ClaimPass, Next1st, Runnable, Eligible, LaneFor,
        Budget!try_acquire, Budget!Reaped
    <3>2. CASE c = LaneFor(t)
      BY <1>0, <3>1, <3>2 DEF TurnTypeOK
    <3>3. CASE c # LaneFor(t)
      <4>1. c \in (lanes \ dead) \cap Claims /\ AgentOf[c[1]] \in Agents
        BY <3>1, <3>3, AgentOfClaim
      <4>2. turnLane[AgentOf[c[1]]] = c /\ turn[c] \notin {"none", "closing"}
        BY <3>1, <4>1 DEF LanesAreRecorded
      <4>3. AgentOf[c[1]] # AgentOf[t]
        BY <1>0, <1>1, <3>1, <4>2 DEF LiveTurn
      <4> QED
        BY <1>0, <3>1, <4>1, <4>2, <4>3 DEF TurnTypeOK
    <3> QED
      BY <3>2, <3>3
  <2>4. CASE LaunchStarts
    <3>1. /\ UNCHANGED <<lanes, dead, turnLane>> /\ cand \in Claims
          /\ turn' = [turn EXCEPT ![cand] = "start"]
      BY <2>4 DEF LaunchStarts, budgetVars, TurnInv, IInv, CandIsClaim
    <3> QED
      BY <1>0, <3>1 DEF LanesAreRecorded, TurnTypeOK
  <2>5. CASE ClaimNothing
    <3>1. UNCHANGED turnVars /\ loop \notin {"emitting", "launch"}
      BY <2>5 DEF ClaimNothing, ClaimPass
    <3>2. (lanes' \ dead') \cap Claims \subseteq lanes \ dead
      BY <2>5 DEF ClaimNothing, budgetVars, Budget!try_acquire, Budget!Reaped
    <3> QED
      BY <3>1, <3>2, LanesStay DEF turnVars
  <2>6. CASE ResolveCand \/ BeginDrain \/ AnnounceHealth \/ Emitted \/ PassEnds
    <3>1. /\ UNCHANGED <<lanes, dead, turnLane, turn>>
          /\ loop \in {"emitting", "launch"} => loop' \in {"emitting", "launch"} /\ UNCHANGED cand
      BY <2>6 DEF ResolveCand, BeginDrain, AnnounceHealth, Emitted, PassEnds, turnVars, budgetVars
    <3> QED
      BY <3>1, LanesStay
  <2> QED
    BY <1>2, <2>1, <2>2, <2>3, <2>4, <2>5, <2>6 DEF LoopNext
<1>3. CASE TurnNext
  <2>1. PICK c \in Claims : CommandRuns(c) \/ TurnEnds(c) \/ TurnMoves(c) \/ HeartbeatEnds(c)
    BY <1>3 DEF TurnNext
  <2>2. UNCHANGED <<loop, cand>>
    BY <1>0, <2>1, TurnSteps DEF TurnStep, WorkerFrame
  <2>3. /\ \/ ReleaseReservations(AgentOf[c[1]])
           \/ /\ UNCHANGED <<budgetVars, turnLane>>
              /\ turn'[c] \in {"none", "closing"} => turn[c] \in {"none", "closing"}
        /\ \A d \in Claims : d # c => turn'[d] = turn[d]
    BY <1>0, <2>1, TurnLanes
  <2>4. CASE ReleaseReservations(AgentOf[c[1]])
    <3> SUFFICES ASSUME NEW d \in Claims, d \in lanes', d \notin dead'
                 PROVE  /\ turnLane'[AgentOf[d[1]]] = d
                        /\ \/ loop \in {"emitting", "launch"} /\ d = cand
                           \/ turn'[d] \notin {"none", "closing"}
      BY <2>2 DEF LanesAreRecorded
    <3>1. AgentOf[c[1]] \in Agents /\ AgentOf[d[1]] \in Agents
      BY AgentOfClaim
    <3>2. d \in lanes \ dead /\ (turnLane[AgentOf[c[1]]] # NoClaim => d # turnLane[AgentOf[c[1]]])
      BY <2>4 DEF ReleaseReservations, budgetVars, Budget!release
    <3>3. turnLane[AgentOf[d[1]]] = d /\ ((loop \in {"emitting", "launch"} /\ d = cand)
                                            \/ turn[d] \notin {"none", "closing"})
      BY <3>2 DEF LanesAreRecorded
    <3>4. AgentOf[d[1]] # AgentOf[c[1]]
      BY <1>0, <3>2, <3>3
    <3> QED
      BY <1>0, <2>3, <2>4, <3>1, <3>3, <3>4 DEF ReleaseReservations, TurnTypeOK
  <2>5. CASE UNCHANGED <<budgetVars, turnLane>> /\ (turn'[c] \in {"none", "closing"} => turn[c] \in {"none", "closing"})
    <3>1. UNCHANGED <<lanes, dead, turnLane>>
      BY <2>5 DEF budgetVars
    <3>2. \A d \in Claims : turn'[d] \in {"none", "closing"} => turn[d] \in {"none", "closing"}
      BY <2>3, <2>5
    <3> QED
      BY <2>2, <3>1, <3>2, LanesStay
  <2> QED
    BY <2>3, <2>4, <2>5
<1>4. CASE CommandNext
  <2>1. WakeRuns
    BY <1>4 DEF CommandNext, Undisturbed, StopBegins, LoopCancelled, StopCancelsTurns, StopDone,
      ResumeRuns, ResetBegins, ResetDone
  <2> QED
    BY <2>1, LanesStay DEF WakeRuns, CmdFrame, budgetVars
<1>5. CASE AppNext
  <2>1. CASE Crash
    BY <2>1 DEF Crash, Budget!ProcessDies, LanesAreRecorded
  <2>2. CASE Boot
    <3>1. UNCHANGED <<lanes, dead, turnLane, turn>> /\ loop = "off"
      BY <2>2 DEF Boot, turnVars, budgetVars, TurnInv, OffIsOff
    <3> QED
      BY <3>1, LanesStay
  <2>3. ASSUME NEW s \in SystemCalls, SystemAcquires(s) \/ SystemReleases(s) PROVE LanesAreRecorded'
    <3>1. UNCHANGED <<loop, cand, turn, turnLane>>
      BY <2>3 DEF SystemAcquires, SystemReleases, AppFrame, turnVars, loopVars
    <3>2. (lanes' \ dead') \cap Claims \subseteq lanes \ dead
      BY <1>0, <2>3 DEF SystemAcquires, SystemReleases, Budget!try_acquire, Budget!release, Budget!Reaped
    <3> QED
      BY <3>1, <3>2, LanesStay
  <2>4. CASE \/ \E t \in Triggers : Enqueue(t) \/ DeleteQueued(t)
             \/ AppPauses \/ AppResumes \/ \E a \in Agents : AppResets(a)
    <3>1. UNCHANGED <<lanes, dead, loop, cand, turn, turnLane>>
      BY <2>4 DEF Enqueue, DeleteQueued, AppFrame, AppPauses, AppResumes, AppResets, CmdFrame,
        turnVars, loopVars, budgetVars
    <3> QED
      BY <3>1, LanesStay
  <2> QED
    BY <1>5, <2>1, <2>2, <2>3, <2>4 DEF AppNext
<1>6. CASE UNCHANGED vars
  <2>1. UNCHANGED <<lanes, dead, loop, cand, turn, turnLane>>
    BY <1>6 DEF vars, turnVars, loopVars, budgetVars
  <2> QED
    BY <2>1, LanesStay
<1> QED
  BY <1>2, <1>3, <1>4, <1>5, <1>6 DEF Next

\* Without pauses and resets every lane is recorded in every reachable state.
LEMMA UndisturbedInductive ==
  ASSUME Never("pause"), Never("reset")
  PROVE  Spec => [](TurnInv /\ ResetFree /\ Undisturbed)
<1>1. Init => Undisturbed
  BY DEF Init, Undisturbed
<1>2. TurnInv /\ ResetFree /\ Undisturbed /\ [Next]_vars => Undisturbed'
  BY UndisturbedStep
<1> QED
  BY <1>1, <1>2, ResetFreeInductive, PTL DEF Spec

\* Unless turns are cancelled by a pause or a reset, a lane of the live worker
\* belongs to the claim being launched or to a turn that has not ended: crashes,
\* launches and turns that raise, and refused launches leak none.
THEOREM LanesFollowUncancelledTurns ==
  ASSUME Never("pause"), Never("reset") PROVE Spec => []LanesFollowTurns
<1>1. Init => LanesAreRecorded
  BY DEF Init, LanesAreRecorded
<1>2. TurnInv /\ Undisturbed /\ LanesAreRecorded /\ [Next]_vars => LanesAreRecorded'
  BY LanesRecordedStep
<1>3. LanesAreRecorded => LanesFollowTurns
  BY DEF LanesAreRecorded, LanesFollowTurns
<1> QED
  BY <1>1, <1>2, <1>3, UndisturbedInductive, PTL DEF Spec

-----------------------------------------------------------------------------
(* A worker whose turns nothing interrupts: no pause, reset, crash or fault.  *)
(* Each of these may come between a no-retry command and its record.         *)

\* The turn of claim c has run its no-retry command and remembers it.
Spent(c) == turn[c] = "command" \/ (turn[c] = "body" /\ c \in mem)

\* A command that ran, ran in the turn that holds the row, or the row is done.
CommandsAreCounted ==
  \A t \in Triggers :
    \/ ran[t] = 0
    \/ /\ ran[t] = 1
       /\ \/ row[t].status \in {"completed", "failed", "deleted"}
          \/ Claimed(t) /\ Spent(ClaimOn(t))

\* A claimed row names its claim.
LEMMA HeldClaim ==
  \A c \in Claims : Held(c) => ClaimOn(c[1]) = c
BY DEF Claims, Held, ClaimOn

\* A step that ends no claim of a turn that has run its command, and makes no
\* turn forget.
LEMMA CountsStay ==
  ASSUME CommandsAreCounted, IInv, UNCHANGED ran,
         \A t \in Triggers :
           /\ row[t].status \in {"completed", "failed", "deleted"} =>
                row'[t].status \in {"completed", "failed", "deleted"}
           /\ Claimed(t) /\ Spent(ClaimOn(t)) =>
                \/ row'[t].status \in {"completed", "failed", "deleted"}
                \/ Claimed(t)' /\ row'[t].gen = row[t].gen,
         \A c \in Claims : Spent(c) /\ Held(c)' => Spent(c)'
  PROVE  CommandsAreCounted'
<1> SUFFICES ASSUME NEW t \in Triggers, ran[t] = 1
             PROVE  \/ row'[t].status \in {"completed", "failed", "deleted"}
                    \/ Claimed(t)' /\ Spent(ClaimOn(t))'
  BY DEF CommandsAreCounted
<1>1. CASE row[t].status \in {"completed", "failed", "deleted"}
  BY <1>1
<1>2. CASE Claimed(t) /\ Spent(ClaimOn(t))
  <2>1. ClaimOn(t) \in Claims /\ ClaimOn(t)[1] = t /\ ClaimOn(t)[2] = row[t].gen
    BY <1>2, QueueAssumption DEF IInv, TypeOK, QueueTypeOK, RowType, ClaimsAreNumbered, ClaimOn,
      Claims
  <2>2. ASSUME Claimed(t)', row'[t].gen = row[t].gen PROVE Spent(ClaimOn(t))'
    <3>1. Held(ClaimOn(t))' /\ ClaimOn(t)' = ClaimOn(t)
      BY <2>1, <2>2 DEF Held, Claimed, ClaimOn
    <3>2. \A c \in Claims : c = ClaimOn(t) => Spent(c)'
      BY <1>2, <2>1, <2>2 DEF Held, Claimed
    <3> QED
      BY <2>1, <3>1, <3>2 DEF Spent
  <2> QED
    BY <1>2, <2>2
<1> QED
  BY <1>1, <1>2 DEF CommandsAreCounted

\* A claim that ends or is requeued: no other row is touched.
LEMMA EndsCount ==
  ASSUME IInv, NEW c \in Claims, NEW t \in Triggers,
         complete_agent_trigger(c) \/ fail_agent_trigger(c)
           \/ retry_agent_trigger(c, FALSE) \/ retry_agent_trigger(c, TRUE)
  PROVE  /\ row[t].status \in {"completed", "failed", "deleted"} =>
              row'[t].status \in {"completed", "failed", "deleted"}
         /\ Claimed(t) /\ ClaimOn(t) # c => Claimed(t)' /\ row'[t].gen = row[t].gen
<1>1. ASSUME t = c[1] => ~Held(c) PROVE row'[t] = row[t]
  BY <1>1 DEF complete_agent_trigger, fail_agent_trigger, End, retry_agent_trigger, IInv, TypeOK,
    QueueTypeOK
<1>2. t = c[1] /\ Held(c) => Claimed(t) /\ ClaimOn(t) = c
  BY HeldClaim DEF Held
<1> QED
  BY <1>1, <1>2 DEF Claimed

\* Without interruptions a step keeps the count.
LEMMA CountedStep ==
  ASSUME Never("crash"), Never("fault"), TurnInv, ResetFree, Undisturbed,
         CommandsAreCounted, [Next]_vars
  PROVE  CommandsAreCounted'
<1>0. IInv /\ QueueTypeOK /\ TurnTypeOK
  BY DEF TurnInv, IInv, TypeOK
<1>1. ~Upset("crash") /\ ~Upset("fault")
  BY <1>0, NeverUpset DEF ResetFree, UpsetKinds
<1>2. ASSUME UNCHANGED <<row, ran>>, \A c \in Claims : Spent(c) => Spent(c)'
      PROVE  CommandsAreCounted'
  BY <1>0, <1>2, CountsStay DEF Claimed
<1>3. ASSUME UNCHANGED <<ran, turn, mem>>, NEW c \in Claims, ~LiveTurn(c) \/ active[AgentOf[c[1]]] # c,
             \/ complete_agent_trigger(c) \/ fail_agent_trigger(c)
             \/ retry_agent_trigger(c, FALSE) \/ retry_agent_trigger(c, TRUE)
      PROVE  CommandsAreCounted'
  <2>1. ~Spent(c)
    BY <1>3 DEF Spent, LiveTurn, TurnInv, TurnsAreKnown, Undisturbed
  <2> QED
    BY <1>0, <1>3, <2>1, CountsStay, EndsCount DEF Spent
<1>4. CASE LoopNext
  <2>1. ASSUME NEW t \in Triggers, ClaimNext(t) PROVE CommandsAreCounted'
    <3>1. UNCHANGED <<ran, turn, mem>> /\ Queued(t) /\ \A u \in Triggers : u # t => row'[u] = row[u]
      BY <1>0, <2>1, ClaimRows DEF ClaimNext, claim_trigger
    <3> QED
      BY <1>0, <3>1, CountsStay DEF Queued, Claimed, Spent
  <2>2. CASE ResolveCand \/ LaunchRefuses
    <3>1. UNCHANGED <<ran, turn, mem>>
      BY <2>2 DEF ResolveCand, LaunchRefuses, turnVars
    <3>2. cand \in Claims /\ cand # NoClaim /\ active[AgentOf[cand[1]]] = NoClaim
      BY <2>2, DispatcherAssumption DEF ResolveCand, LaunchRefuses, TurnInv, IInv, CandIsClaim,
        CandIsFree, Launching
    <3>3. \/ UNCHANGED row \/ complete_agent_trigger(cand) \/ fail_agent_trigger(cand)
          \/ retry_agent_trigger(cand, FALSE) \/ retry_agent_trigger(cand, TRUE)
      BY <2>2 DEF ResolveCand, StrandedClaimEnds, RetryOrExhaust, LaunchRefuses
    <3> QED
      BY <1>2, <1>3, <3>1, <3>2, <3>3 DEF Spent
  <2>3. CASE LaunchStarts
    <3>1. UNCHANGED <<row, ran, mem>> /\ ~LiveTurn(cand) /\ turn' = [turn EXCEPT ![cand] = "start"]
      BY <2>3 DEF LaunchStarts, TurnInv, CandIsFresh
    <3> QED
      BY <1>0, <1>2, <3>1 DEF Spent, LiveTurn, TurnTypeOK
  <2>4. CASE (\E p \in pending : ResolveNext(p)) \/ BeginDrain \/ AnnounceHealth \/ ClaimNothing
               \/ Emitted \/ PassEnds \/ LaunchRaises
    <3>1. UNCHANGED <<row, ran, turn, mem>>
      BY <2>4 DEF ResolveNext, BeginDrain, AnnounceHealth, ClaimNothing, Emitted, PassEnds,
        LaunchRaises, turnVars
    <3> QED
      BY <1>2, <3>1 DEF Spent
  <2> QED
    BY <1>4, <2>1, <2>2, <2>3, <2>4 DEF LoopNext
<1>5. CASE TurnNext
  <2>1. PICK c \in Claims : CommandRuns(c) \/ TurnEnds(c) \/ TurnMoves(c) \/ HeartbeatEnds(c)
    BY <1>5 DEF TurnNext
  <2>2. c[1] \in Triggers /\ (turn[c] \in Answering => Held(c) /\ ClaimOn(c[1]) = c)
    BY AgentOfClaim, HeldClaim DEF ResetFree
  <2>3. ASSUME UNCHANGED <<row, ran>>, turn[c] \notin {"body", "command"},
               mem' \in {mem, mem \ {c}}, \E pc \in TurnAt : GoTo(c, pc)
        PROVE  CommandsAreCounted'
    BY <1>0, <1>2, <2>3 DEF Spent, GoTo, TurnTypeOK
  <2>4. CASE CommandRuns(c)
    <3>1. /\ turn[c] = "body" /\ c \notin mem /\ UNCHANGED <<row, mem>>
          /\ ran' = [ran EXCEPT ![c[1]] = @ + 1] /\ turn' = [turn EXCEPT ![c] = "command"]
      BY <2>4 DEF CommandRuns, AtTurn, GoTo
    <3>2. Claimed(c[1]) /\ ClaimOn(c[1]) = c /\ ran[c[1]] = 0
      BY <2>2, <3>1 DEF Answering, Held, CommandsAreCounted, Spent, Claimed
    <3>3. ran'[c[1]] = 1 /\ Claimed(c[1])' /\ Spent(ClaimOn(c[1]))'
      <4>1. ran'[c[1]] = 1
        BY <1>0, <2>2, <3>1, <3>2 DEF TurnTypeOK
      <4>2. turn'[c] = "command" /\ ClaimOn(c[1])' = c
        BY <1>0, <3>1, <3>2 DEF TurnTypeOK, ClaimOn
      <4> QED
        BY <3>1, <3>2, <4>1, <4>2 DEF Claimed, Spent
    <3>4. ASSUME NEW t \in Triggers, t # c[1]
          PROVE  \/ ran'[t] = 0
                 \/ /\ ran'[t] = 1
                    /\ \/ row'[t].status \in {"completed", "failed", "deleted"}
                       \/ Claimed(t)' /\ Spent(ClaimOn(t))'
      <4>1. ran'[t] = ran[t] /\ ClaimOn(t) # c /\ ClaimOn(t)' = ClaimOn(t) /\ Claimed(t)' = Claimed(t)
        BY <1>0, <3>1, <3>4 DEF TurnTypeOK, ClaimOn, Claimed
      <4>2. Spent(ClaimOn(t)) => Spent(ClaimOn(t))'
        BY <1>0, <3>1, <4>1 DEF Spent, TurnTypeOK
      <4> QED
        BY <3>1, <4>1, <4>2 DEF CommandsAreCounted
    <3> QED
      BY <3>3, <3>4 DEF CommandsAreCounted
  <2>5. CASE CommandRecorded(c)
    <3>1. turn[c] = "command" /\ Claimed(c[1]) /\ UNCHANGED ran
      BY <2>2, <2>5 DEF CommandRecorded, AtTurn, Answering, Held
    <3>2. /\ mark_trigger_retry_blocked(c[1]) /\ mem' = mem \cup {c}
          /\ turn' = [turn EXCEPT ![c] = "body"]
      BY <2>5, <3>1 DEF CommandRecorded, GoTo, Claimed
    <3>3. \A t \in Triggers : row'[t].status = row[t].status /\ row'[t].gen = row[t].gen
      BY <1>0, <3>2 DEF mark_trigger_retry_blocked, QueueTypeOK, RowType
    <3>4. \A d \in Claims : Spent(d) => Spent(d)'
      BY <1>0, <3>2 DEF Spent, TurnTypeOK
    <3> QED
      BY <1>0, <3>1, <3>3, <3>4, CountsStay DEF Claimed
  <2>6. CASE TurnCompletes(c) \/ TurnFails(c)
    <3>1. /\ turn[c] = "body" /\ UNCHANGED <<ran, mem>>
          /\ \E pc \in {"idle", "reporting"} : turn' = [turn EXCEPT ![c] = pc]
      BY <1>1, <2>6 DEF TurnCompletes, TurnFails, Supervised, AtTurn, GoTo
    <3>2. Held(c) /\ ClaimOn(c[1]) = c
      BY <2>2, <3>1 DEF Answering
    <3>3. \/ complete_agent_trigger(c) \/ fail_agent_trigger(c)
          \/ ~Spent(c) /\ (retry_agent_trigger(c, FALSE) \/ retry_agent_trigger(c, TRUE))
      BY <2>6, <3>1 DEF TurnCompletes, TurnFails, Supervised, RetryOrExhaust, Spent
    <3>4. complete_agent_trigger(c) \/ fail_agent_trigger(c) =>
            row'[c[1]].status \in {"completed", "failed"}
      BY <1>0, <2>2, <3>2 DEF complete_agent_trigger, fail_agent_trigger, End, Moved, QueueTypeOK, RowType
    <3>5. ~Held(c)'
      <4>1. row'[c[1]].status # "claimed"
        <5>1. CASE complete_agent_trigger(c) \/ fail_agent_trigger(c)
          BY <3>4, <5>1
        <5>2. CASE retry_agent_trigger(c, FALSE)
          BY <1>0, <2>2, <3>2, <5>2 DEF retry_agent_trigger, Moved, QueueTypeOK, RowType
        <5>3. CASE retry_agent_trigger(c, TRUE)
          BY <1>0, <2>2, <3>2, <5>3 DEF retry_agent_trigger, Retried, QueueTypeOK, RowType
        <5> QED
          BY <3>3, <5>1, <5>2, <5>3
      <4> QED
        BY <4>1 DEF Held, Claimed
    <3>6. \A d \in Claims : Spent(d) /\ Held(d)' => Spent(d)'
      BY <1>0, <3>1, <3>5 DEF Spent, TurnTypeOK
    <3>7. ASSUME NEW t \in Triggers, Claimed(t), Spent(ClaimOn(t))
          PROVE  \/ row'[t].status \in {"completed", "failed", "deleted"}
                 \/ Claimed(t)' /\ row'[t].gen = row[t].gen
      <4>1. CASE ClaimOn(t) = c
        BY <3>3, <3>4, <3>7, <4>1 DEF ClaimOn
      <4>2. CASE ClaimOn(t) # c
        BY <1>0, <3>3, <3>7, <4>2, EndsCount
      <4> QED
        BY <4>1, <4>2
    <3>8. \A t \in Triggers : row[t].status \in {"completed", "failed", "deleted"} =>
                                row'[t].status \in {"completed", "failed", "deleted"}
      BY <1>0, <3>3, EndsCount
    <3> QED
      BY <1>0, <3>1, <3>6, <3>7, <3>8, CountsStay
  <2>7. CASE EscapeSupervised(c)
    <3>1. /\ turn[c] = "escaped" /\ UNCHANGED <<ran, mem>>
          /\ \E pc \in {"idle", "reporting"} : turn' = [turn EXCEPT ![c] = pc]
      BY <2>7 DEF EscapeSupervised, Supervised, AtTurn, GoTo
    <3>2. \/ UNCHANGED row \/ complete_agent_trigger(c) \/ fail_agent_trigger(c)
          \/ retry_agent_trigger(c, FALSE) \/ retry_agent_trigger(c, TRUE)
      BY <2>7 DEF EscapeSupervised, Supervised, RetryOrExhaust
    <3>3. ~Spent(c) /\ \A d \in Claims : Spent(d) => Spent(d)'
      BY <1>0, <3>1 DEF Spent, TurnTypeOK
    <3> QED
      BY <1>0, <1>2, <3>1, <3>2, <3>3, CountsStay, EndsCount
  <2>8. CASE TurnRaises(c)
    BY <1>1, <2>8 DEF TurnRaises
  <2>9. CASE TurnBegins(c) \/ ModelCall(c) \/ Reported(c) \/ ReservationsReturned(c) \/ TurnForgotten(c)
    <3>1. /\ UNCHANGED <<row, ran>> /\ turn[c] \notin {"body", "command"}
          /\ mem' \in {mem, mem \ {c}}
      BY <2>9 DEF TurnBegins, ModelCall, Reported, ReservationsReturned, TurnForgotten, AtTurn
    <3>2. \E pc \in TurnAt : GoTo(c, pc)
      BY <2>9 DEF TurnBegins, ModelCall, Reported, ReservationsReturned, TurnForgotten, TurnAt
    <3> QED
      BY <2>3, <3>1, <3>2
  <2>10. CASE HeartbeatEnds(c)
    BY <1>2, <2>10 DEF HeartbeatEnds, Spent
  <2>11. ~CancelDelivered(c)
    BY DEF CancelDelivered, Undisturbed
  <2> QED
    BY <2>1, <2>4, <2>5, <2>6, <2>7, <2>8, <2>9, <2>10, <2>11 DEF TurnEnds, TurnMoves
<1>6. CASE CommandNext
  <2>1. WakeRuns
    BY <1>6 DEF CommandNext, Undisturbed, StopBegins, LoopCancelled, StopCancelsTurns, StopDone,
      ResumeRuns, ResetBegins, ResetDone
  <2> QED
    BY <1>2, <2>1 DEF WakeRuns, CmdFrame, Spent
<1>7. CASE AppNext
  <2>1. ASSUME NEW t \in Triggers, Enqueue(t) \/ DeleteQueued(t) PROVE CommandsAreCounted'
    <3>1. UNCHANGED <<ran, turn, mem>>
      BY <2>1 DEF Enqueue, DeleteQueued, AppFrame, turnVars
    <3>2. ASSUME NEW u \in Triggers, row[u].status \notin {"absent", "queued"} PROVE row'[u] = row[u]
      BY <1>0, <2>1, <3>2 DEF QueueTypeOK, Enqueue, DeleteQueued, EnqueuePreempting,
        create_agent_trigger, delete_queued_triggers, Queued
    <3> QED
      BY <1>0, <3>1, <3>2, CountsStay DEF Claimed, Spent
  <2>2. CASE \/ \E s \in SystemCalls : SystemAcquires(s) \/ SystemReleases(s)
             \/ AppPauses \/ AppResumes \/ \E a \in Agents : AppResets(a)
    <3>1. UNCHANGED <<row, ran, turn, mem>>
      BY <2>2 DEF SystemAcquires, SystemReleases, AppFrame, AppPauses, AppResumes, AppResets,
        CmdFrame, turnVars
    <3> QED
      BY <1>2, <3>1 DEF Spent
  <2>3. ~Crash
    BY <1>1 DEF Crash
  <2>4. CASE Boot
    <3>1. UNCHANGED <<ran, turn, mem>> /\ ~up /\ (UNCHANGED row \/ requeue_all_claimed_triggers)
      BY <2>4 DEF Boot, Start, turnVars
    <3>2. \A c \in Claims : ~Spent(c)
      BY <3>1 DEF TurnInv, OffIsOff, LiveTurn, Spent
    <3>3. ASSUME NEW t \in Triggers, ~Claimed(t) PROVE row'[t] = row[t]
      BY <1>0, <3>1, <3>3 DEF requeue_all_claimed_triggers
    <3>4. \A t \in Triggers : Claimed(t) => ClaimOn(t) \in Claims
      BY <1>0, QueueAssumption DEF IInv, QueueTypeOK, RowType, ClaimsAreNumbered, ClaimOn, Claims
    <3> QED
      BY <1>0, <3>1, <3>2, <3>3, <3>4, CountsStay DEF Claimed
  <2> QED
    BY <1>7, <2>1, <2>2, <2>3, <2>4 DEF AppNext
<1>8. CASE UNCHANGED vars
  BY <1>2, <1>8 DEF vars, turnVars, Spent
<1> QED
  BY <1>4, <1>5, <1>6, <1>7, <1>8 DEF Next

\* Unless a pause, a reset, a crash or a fault interrupts its turn, a command
\* marked no-retry runs at most once for a trigger, however often its model
\* calls are parked, its claims look old or its turns fail and are retried.
THEOREM NoRetryCommandsRunOnce ==
  ASSUME Never("pause"), Never("reset"), Never("crash"), Never("fault")
  PROVE  Spec => []NoRepeatRunsOnce
<1>1. Init => CommandsAreCounted
  BY DEF Init, CommandsAreCounted
<1>2. /\ TurnInv /\ ResetFree /\ Undisturbed /\ CommandsAreCounted /\ [Next]_vars
      => CommandsAreCounted'
  BY CountedStep
<1>3. CommandsAreCounted => NoRepeatRunsOnce
  BY DEF CommandsAreCounted, NoRepeatRunsOnce
<1> QED
  BY <1>1, <1>2, <1>3, UndisturbedInductive, PTL DEF Spec
=============================================================================
