--------------------------- MODULE ModelCallProofs ---------------------------
(***************************************************************************)
(* Proofs about the model-call budget and about its composition with the    *)
(* connection health, for every knob, any callers and any settings of the   *)
(* health.                                                                  *)
(***************************************************************************)
EXTENDS ModelCall, FiniteSetTheorems, TLAPS

-----------------------------------------------------------------------------
(* The knob is about the lanes of live processes.  That their number stays   *)
(* bounded needs the table to be finite, so that adding one lane adds one.   *)

Lanes == TurnLanes \cup SystemCalls \cup OtherCalls

BudgetInv == lanes \subseteq Lanes /\ LanesWithinKnob

\* Fewer live lanes stay within the knob.
LEMMA FewerLanes ==
  ASSUME BudgetInv, lanes' \ dead' \subseteq lanes \ dead, lanes' \subseteq lanes
  PROVE  BudgetInv'
<1>1. IsFiniteSet(Lanes)
  BY BudgetAssumption, FS_Union DEF Lanes
<1>2. IsFiniteSet(Reaped) /\ IsFiniteSet(Reaped \cap SystemCalls)
  BY <1>1, FS_Subset DEF BudgetInv, Reaped
<1>3. /\ Cardinality(Reaped') <= Cardinality(Reaped)
      /\ Cardinality((Reaped \cap SystemCalls)') <= Cardinality(Reaped \cap SystemCalls)
  <2>1. Reaped' \subseteq Reaped /\ Reaped' \cap SystemCalls \subseteq Reaped \cap SystemCalls
    BY DEF Reaped
  <2> QED
    BY <1>2, <2>1, FS_Subset
<1>4. /\ Cardinality(Reaped) \in Nat /\ Cardinality(Reaped \cap SystemCalls) \in Nat
      /\ Cardinality(Reaped') \in Nat /\ Cardinality((Reaped \cap SystemCalls)') \in Nat
  <2>1. IsFiniteSet(Reaped') /\ IsFiniteSet(Reaped' \cap SystemCalls)
    BY <1>1, FS_Subset DEF BudgetInv, Reaped
  <2> QED
    BY <1>2, <2>1, FS_CardinalityType
<1> QED
  BY <1>3, <1>4, BudgetAssumption DEF BudgetInv, LanesWithinKnob, SYSTEM_LANE_RESERVE

\* One attempt to take a lane, by a turn, a route or another call.
LEMMA AttemptKeepsKnob ==
  ASSUME BudgetInv, NEW lane \in Lanes, try_acquire(lane)
  PROVE  BudgetInv'
<1>1. IsFiniteSet(Lanes)
  BY BudgetAssumption, FS_Union DEF Lanes
<1>2. IsFiniteSet(Reaped) /\ IsFiniteSet(Reaped \cap SystemCalls)
  BY <1>1, FS_Subset DEF BudgetInv, Reaped
<1>3. Cardinality(Reaped) \in Nat /\ Cardinality(Reaped \cap SystemCalls) \in Nat
  BY <1>2, FS_CardinalityType
<1>4. CASE ~CanAcquire(lane)
  <2>1. lanes' \ dead' \subseteq lanes \ dead /\ lanes' \subseteq lanes
    BY <1>4 DEF try_acquire, Reaped
  <2> QED
    BY <2>1, FewerLanes
<1>5. CASE CanAcquire(lane)
  <2>1. lanes' = Reaped \cup {lane} /\ Reaped' = Reaped \cup {lane}
    BY <1>5 DEF try_acquire, Reaped
  <2>2. Cardinality(Reaped \cup {lane}) <= Limit
    <3>1. Cardinality(Reaped) < Limit
      BY <1>5 DEF CanAcquire
    <3>2. Cardinality(Reaped \cup {lane}) \in {Cardinality(Reaped), Cardinality(Reaped) + 1}
      BY <1>2, FS_AddElement
    <3> QED
      BY <1>3, <3>1, <3>2, BudgetAssumption
  <2>3. Cardinality((Reaped \cup {lane}) \cap SystemCalls) <= SYSTEM_LANE_RESERVE
    <3>1. CASE lane \notin SystemCalls
      <4>1. (Reaped \cup {lane}) \cap SystemCalls = Reaped \cap SystemCalls
        BY <3>1
      <4> QED
        BY <4>1 DEF BudgetInv, LanesWithinKnob
    <3>2. CASE lane \in SystemCalls
      <4>1. Cardinality(Reaped \cap SystemCalls) < SYSTEM_LANE_RESERVE
        BY <1>5, <3>2 DEF CanAcquire
      <4>2. (Reaped \cup {lane}) \cap SystemCalls = (Reaped \cap SystemCalls) \cup {lane}
        BY <3>2
      <4>3. Cardinality((Reaped \cap SystemCalls) \cup {lane})
              \in {Cardinality(Reaped \cap SystemCalls), Cardinality(Reaped \cap SystemCalls) + 1}
        BY <1>2, FS_AddElement
      <4>4. Cardinality((Reaped \cap SystemCalls) \cup {lane}) <= SYSTEM_LANE_RESERVE
        BY <1>3, <4>1, <4>3 DEF SYSTEM_LANE_RESERVE
      <4> QED
        BY <4>2, <4>4, Zenon
    <3> QED
      BY <3>1, <3>2
  <2>4. lanes' \subseteq Lanes
    BY <2>1 DEF BudgetInv, Reaped
  <2> QED
    BY <2>1, <2>2, <2>3, <2>4 DEF BudgetInv, LanesWithinKnob
<1> QED
  BY <1>4, <1>5

\* Every step of the budget keeps the invariant.
LEMMA BudgetStep == ASSUME BudgetInv, [BudgetNext]_budgetVars PROVE BudgetInv'
<1>1. ASSUME NEW k \in OtherCalls, Acquire(k) PROVE BudgetInv'
  BY <1>1, AttemptKeepsKnob DEF Acquire, Lanes
<1>6. ASSUME NEW k \in OtherCalls, StopsWaiting(k) PROVE BudgetInv'
  BY <1>6, FewerLanes DEF StopsWaiting
<1>2. ASSUME NEW lane \in TurnLanes \cup SystemCalls, AcquireOrSkip(lane) PROVE BudgetInv'
  BY <1>2, AttemptKeepsKnob DEF AcquireOrSkip, Lanes
<1>3. ASSUME NEW lane \in lanes, Release(lane) PROVE BudgetInv'
  BY <1>3, FewerLanes DEF Release, release
<1>4. CASE WorkerDies \/ AppDies
  BY <1>4, FewerLanes DEF WorkerDies, AppDies, ProcessDies
<1>5. CASE UNCHANGED budgetVars
  BY <1>5, FewerLanes DEF budgetVars
<1> QED
  BY <1>1, <1>2, <1>3, <1>4, <1>5, <1>6 DEF BudgetNext

\* An empty table keeps within every knob.
LEMMA NoLanesAtFirst == ASSUME BudgetInit PROVE BudgetInv
<1>1. Reaped = {} /\ Reaped \cap SystemCalls = {} /\ lanes = {}
  BY DEF BudgetInit, Reaped
<1> QED
  BY <1>1, FS_EmptySet, BudgetAssumption DEF BudgetInv, LanesWithinKnob, SYSTEM_LANE_RESERVE

\* Whatever dies and whatever is reaped, the lanes of live processes never
\* exceed max_concurrent_model_calls, and System AI holds at most its reserve.
THEOREM KnobIsKept == BudgetSpec => []LanesWithinKnob
<1>1. BudgetInit => BudgetInv
  BY NoLanesAtFirst
<1>2. BudgetInv /\ [BudgetNext]_budgetVars => BudgetInv'
  BY BudgetStep
<1>3. BudgetInv => LanesWithinKnob
  BY DEF BudgetInv
<1> QED
  BY <1>1, <1>2, <1>3, PTL DEF BudgetSpec

\* Only a refusal makes a call wait, and a plain call is refused by the knob alone.
LEMMA OnlyFullMakesWait ==
  ASSUME BudgetInv, [BudgetNext]_budgetVars, NEW k \in OtherCalls, k \in waiting' \ waiting
  PROVE  Cardinality(lanes \ dead) = Limit
<1>1. Acquire(k) /\ ~CanAcquire(k)
  <2>1. ASSUME NEW j \in OtherCalls, Acquire(j) PROVE j = k /\ ~CanAcquire(j)
    BY <2>1 DEF Acquire
  <2> QED
    BY <2>1 DEF BudgetNext, budgetVars, StopsWaiting, AcquireOrSkip, Release, WorkerDies, AppDies
<1>2. k \notin SystemCalls
  BY BudgetAssumption
<1>3. ~(Cardinality(Reaped) < Limit) /\ Cardinality(Reaped) <= Limit
  BY <1>1, <1>2 DEF CanAcquire, BudgetInv, LanesWithinKnob
<1>4. Cardinality(Reaped) \in Nat
  <2>1. IsFiniteSet(Lanes)
    BY BudgetAssumption, FS_Union DEF Lanes
  <2>2. IsFiniteSet(Reaped)
    BY <2>1, FS_Subset DEF BudgetInv, Reaped
  <2> QED
    BY <2>2, FS_CardinalityType
<1> QED
  BY <1>3, <1>4, BudgetAssumption DEF Reaped

\* Lanes that a dead process left behind never make a call wait: whoever begins to
\* wait in acquire does so behind as many live callers as the knob allows.
THEOREM WaitersWaitForTheLiving == BudgetSpec => WaitsOnlyForLiveLanes
<1>1. BudgetInit => BudgetInv
  BY NoLanesAtFirst
<1>2. BudgetInv /\ [BudgetNext]_budgetVars => BudgetInv'
  BY BudgetStep
<1>3. BudgetInv /\ [BudgetNext]_budgetVars =>
        [\A k \in OtherCalls : k \in waiting' \ waiting =>
           Cardinality(lanes \ dead) = Limit]_budgetVars
  BY OnlyFullMakesWait
<1> QED
  BY <1>1, <1>2, <1>3, PTL DEF BudgetSpec, WaitsOnlyForLiveLanes

-----------------------------------------------------------------------------
(* The calls use the budget only as its own specification allows.            *)

LEMMA StepIsBudgetStep ==
  ASSUME [Next]_vars
  PROVE  [BudgetNext]_budgetVars
<1>1. CASE UNCHANGED vars
  BY <1>1 DEF vars, budgetVars
<1>2. CASE WorkerProcessDies \/ AppProcessDies
  BY <1>2 DEF WorkerProcessDies, AppProcessDies, BudgetNext
<1>3. CASE ConnectionStep \/ TimePasses
  BY <1>3 DEF ConnectionStep, TimePasses
<1>4. ASSUME NEW k \in Callers,
             \/ TakesLane(k) \/ PlainCallAcquires(k) \/ AsksFirst(k) \/ AsksAgain(k)
             \/ ExtensionAcquires(k) \/ EndsCall(k) \/ GivesUpWaiting(k) \/ GivesLaneBack(k)
      PROVE  [BudgetNext]_budgetVars
  <2>1. ASSUME Release(k) PROVE BudgetNext
    BY <2>1 DEF BudgetNext, Release, Reaped
  <2>2. ASSUME LeavesLane(k) PROVE [BudgetNext]_budgetVars
    BY <2>1, <2>2 DEF LeavesLane
  <2>3. CASE TakesLane(k)
    BY <2>3 DEF TakesLane, BudgetNext
  <2>4. CASE PlainCallAcquires(k)
    BY <2>4 DEF PlainCallAcquires, BudgetNext
  <2>5. CASE AsksFirst(k)
    BY <2>5 DEF AsksFirst
  <2>6. CASE AsksAgain(k)
    BY <2>2, <2>6 DEF AsksAgain
  <2>7. CASE ExtensionAcquires(k)
    BY <2>7, CallAssumption DEF ExtensionAcquires, BudgetNext
  <2>8. CASE EndsCall(k)
    BY <2>2, <2>8 DEF EndsCall
  <2>9. CASE GivesUpWaiting(k)
    BY <2>9 DEF GivesUpWaiting, BudgetNext
  <2>10. CASE GivesLaneBack(k)
    BY <2>1, <2>10 DEF GivesLaneBack
  <2> QED
    BY <1>4, <2>3, <2>4, <2>5, <2>6, <2>7, <2>8, <2>9, <2>10
<1> QED
  BY <1>1, <1>2, <1>3, <1>4 DEF Next

\* However callers wait, are denied, give up or die with their process, the
\* composition uses the budget as its specification allows: the knob is kept.
THEOREM CallsKeepTheKnob == Spec => []LanesWithinKnob
<1>1. Init => BudgetInit
  BY DEF Init
<1>2. [Next]_vars => [BudgetNext]_budgetVars
  BY StepIsBudgetStep
<1> QED
  BY <1>1, <1>2, KnobIsKept, PTL DEF Spec, BudgetSpec

\* The same of the composition, where a caller may be admitted before it waits for
\* its lane, and gives lanes back on every path out of a call.
THEOREM CallsWaitForTheLiving == Spec => WaitsOnlyForLiveLanes
<1>1. Init => BudgetInit
  BY DEF Init
<1>2. [Next]_vars => [BudgetNext]_budgetVars
  BY StepIsBudgetStep
<1> QED
  BY <1>1, <1>2, WaitersWaitForTheLiving, PTL DEF Spec, BudgetSpec

-----------------------------------------------------------------------------
(* No call without its lane.  The step before the call, between the two      *)
(* reads of admit, has the lane already on every path but the extension's.   *)

CallInv ==
  /\ call = [k \in Callers |-> call[k]]
  /\ \A k \in Callers :
       /\ Calling(k) => Holds(k)
       /\ call[k].at = "due" /\ k \notin ExtensionCalls => Holds(k)
       /\ call[k].at = "admitted" => k \in ExtensionCalls

\* A step of one caller keeps the invariant when it takes no lane from another
\* and leaves that caller as the invariant wants it.
LEMMA OneCallerMoves ==
  ASSUME CallInv, NEW k \in Callers, NEW c, call' = [call EXCEPT ![k] = c],
         Reaped \ {k} \subseteq Reaped',
         c.at = "calling" => k \in Reaped',
         c.at = "due" /\ k \notin ExtensionCalls => k \in Reaped',
         c.at = "admitted" => k \in ExtensionCalls
  PROVE  CallInv'
<1>1. call' = [j \in Callers |-> call'[j]]
  BY DEF CallInv
<1>2. ASSUME NEW j \in Callers
      PROVE  /\ call'[j].at = "calling" => j \in Reaped'
             /\ call'[j].at = "due" /\ j \notin ExtensionCalls => j \in Reaped'
             /\ call'[j].at = "admitted" => j \in ExtensionCalls
  <2>1. CASE j = k
    BY <2>1 DEF CallInv
  <2>2. CASE j # k
    <3>1. call'[j] = call[j]
      BY <2>2 DEF CallInv
    <3>2. j \in Reaped => j \in Reaped'
      BY <2>2
    <3> QED
      BY <3>1, <3>2 DEF CallInv, Calling, Holds
  <2> QED
    BY <2>1, <2>2
<1> QED
  BY <1>1, <1>2 DEF CallInv, Calling, Holds

\* Overruling the leases of the test calls moves no call.
LEMMA OverruledMovesNone ==
  ASSUME NEW calls, call' = Overruled(calls)
  PROVE  call' = [j \in Callers |-> call'[j]] /\ \A j \in Callers : call'[j].at = calls[j].at
<1>1. ASSUME NEW j \in Callers PROVE call'[j].at = calls[j].at
  <2> DEFINE b == calls[j].over \/ calls[j].probe
  <2>1. call'[j] = [calls[j] EXCEPT !.over = b]
    BY DEF Overruled
  <2>2. [calls[j] EXCEPT !.over = b].at = calls[j].at
    OBVIOUS
  <2> HIDE DEF b
  <2> QED
    BY <2>1, <2>2, Zenon
<1> QED
  BY <1>1 DEF Overruled

\* A call that ends, and overrules the leases of the test calls or not.
LEMMA OneCallerReturns ==
  ASSUME CallInv, NEW k \in Callers, Reaped \ {k} \subseteq Reaped',
         Returns(k) \/ call' = Overruled(Returned(k))
  PROVE  CallInv'
<1>1. \A j \in Callers : Returned(k)[j] = IF j = k THEN Idle ELSE call[j]
  BY DEF Returned, CallInv
<1>2. \A j \in Callers : call'[j].at = IF j = k THEN "idle" ELSE call[j].at
  BY <1>1, OverruledMovesNone DEF Returns, Idle
<1>3. call' = [j \in Callers |-> call'[j]]
  BY OverruledMovesNone DEF Returns, Returned, CallInv
<1> QED
  BY <1>2, <1>3 DEF CallInv, Calling, Holds

\* A step of the budget alone, or of the connection alone.
LEMMA CallsUntouched ==
  ASSUME CallInv, \A k \in Callers : call'[k].at = call[k].at,
         call' = [k \in Callers |-> call'[k]], Reaped \subseteq Reaped'
  PROVE  CallInv'
  BY DEF CallInv, Calling, Holds

\* What the operations of the budget leave of the live lanes.
LEMMA LiveLanesStay ==
  /\ \A k : try_acquire(k) => Reaped \subseteq Reaped' /\ (CanAcquire(k) => k \in Reaped')
  /\ \A k : release(k) => Reaped \ {k} \subseteq Reaped'
  /\ UNCHANGED budgetVars => Reaped' = Reaped
  /\ \A k : LeavesLane(k) => Reaped \ {k} \subseteq Reaped'
<1>1. ASSUME NEW k, try_acquire(k)
      PROVE  Reaped \subseteq Reaped' /\ (CanAcquire(k) => k \in Reaped')
  BY <1>1 DEF try_acquire, Reaped
<1>2. ASSUME NEW k, release(k) PROVE Reaped \ {k} \subseteq Reaped'
  BY <1>2 DEF release, Reaped
<1>3. UNCHANGED budgetVars => Reaped' = Reaped
  BY DEF budgetVars, Reaped
<1>4. ASSUME NEW k, LeavesLane(k) PROVE Reaped \ {k} \subseteq Reaped'
  BY <1>2, <1>3, <1>4 DEF LeavesLane, Release
<1> QED
  BY <1>1, <1>2, <1>3, <1>4

\* What a step of admit makes of the call.
AdmitMakes(k, c) ==
  /\ call' = [call EXCEPT ![k] = c]
  /\ c.at \in {"idle", "due", "admitted", "calling"}
  /\ c.at = "admitted" => k \in ExtensionCalls
  /\ c.at = "calling" => k \notin ExtensionCalls
  /\ c.at = "due" => AdmitReads(k)

LEMMA AdmitMoves ==
  ASSUME NEW k \in Callers, AdmitReads(k) \/ AdmitDecides(k)
  PROVE  \E c : AdmitMakes(k, c)
<1> DEFINE Adm(p) == [at |-> IF k \in ExtensionCalls THEN "admitted" ELSE "calling",
                      probe |-> p, left |-> Lease, over |-> FALSE]
<1>1. CASE \E p \in BOOLEAN : Admitted(k, p)
  <2>1. PICK p \in BOOLEAN : Admitted(k, p)
    BY <1>1
  <2>2. call' = [call EXCEPT ![k] = Adm(p)]
    BY <2>1 DEF Admitted
  <2>3. Adm(p).at = IF k \in ExtensionCalls THEN "admitted" ELSE "calling"
    OBVIOUS
  <2> HIDE DEF Adm
  <2> QED
    BY <2>2, <2>3 DEF AdmitMakes
<1>2. CASE Returns(k)
  <2>1. Idle.at = "idle"
    BY DEF Idle
  <2>2. AdmitMakes(k, Idle)
    BY <1>2, <2>1 DEF Returns, Returned, AdmitMakes
  <2> QED
    BY <2>2
<1>3. CASE AdmitReads(k) /\ call' = [call EXCEPT ![k].at = "due"]
  <2> DEFINE c == [call[k] EXCEPT !.at = "due"]
  <2>1. call' = [call EXCEPT ![k] = c]
    BY <1>3
  <2>2. c.at = "due" \/ c = call[k]
    OBVIOUS
  <2>3. call[k].at = "idle" /\ AdmitReads(k)
    BY <1>3 DEF AdmitReads
  <2> HIDE DEF c
  <2>4. AdmitMakes(k, c)
    BY <2>1, <2>2, <2>3 DEF AdmitMakes
  <2> QED
    BY <2>4
<1> QED
  BY <1>1, <1>2, <1>3 DEF AdmitReads, AdmitDecides, TakesTest

\* Every step keeps the lane of every call.
LEMMA CallStep == ASSUME CallInv, [Next]_vars PROVE CallInv'
<1>1. CASE UNCHANGED vars
  BY <1>1, CallsUntouched DEF vars, Reaped, CallInv
<1>2. CASE WorkerProcessDies \/ AppProcessDies
  <2>1. PICK ks \in {TurnLanes, Callers} :
          ks \subseteq Callers /\ CallersDie(ks) /\ Reaped \ ks \subseteq Reaped'
    <3>1. CASE WorkerProcessDies
      BY <3>1, CallAssumption DEF WorkerProcessDies, WorkerDies, ProcessDies, Reaped
    <3>2. CASE AppProcessDies
      BY <3>2, CallAssumption DEF AppProcessDies, AppDies, ProcessDies, Reaped
    <3> QED
      BY <1>2, <3>1, <3>2, Zenon
  <2> QED
    BY <2>1 DEF CallInv, CallersDie, Calling, Holds, Idle
<1>3. CASE ConnectionStep \/ TimePasses
  <2>1. Reaped' = Reaped
    BY <1>3, LiveLanesStay DEF ConnectionStep, TimePasses
  <2>2. call' = Overruled(call) \/ call' = [k \in Callers |-> [call[k] EXCEPT !.left = Larger(@, 1) - 1]]
    BY <1>3 DEF ConnectionStep, TimePasses, Tick, retry_now, ConnectionEdited
  <2>3. ASSUME NEW k \in Callers PROVE call'[k].at = call[k].at
    <3> DEFINE n == Larger(call[k].left, 1) - 1
    <3>1. call' = Overruled(call) \/ call'[k] = [call[k] EXCEPT !.left = n]
      BY <2>2
    <3>2. [call[k] EXCEPT !.left = n].at = call[k].at
      OBVIOUS
    <3> HIDE DEF n
    <3> QED
      BY <3>1, <3>2, OverruledMovesNone, Zenon
  <2>4. call' = [k \in Callers |-> call'[k]]
    BY <2>2, OverruledMovesNone DEF CallInv
  <2> QED
    BY <2>1, <2>3, <2>4, CallsUntouched
<1>4. ASSUME NEW k \in Callers, TakesLane(k) \/ PlainCallAcquires(k)
      PROVE  CallInv'
  <2>1. try_acquire(k) /\ call' = call
    BY <1>4 DEF TakesLane, PlainCallAcquires, Acquire, AcquireOrSkip, healthVars
  <2> QED
    BY <2>1, LiveLanesStay, CallsUntouched DEF CallInv
<1>5. ASSUME NEW k \in Callers, AsksFirst(k) \/ AsksAgain(k) PROVE CallInv'
  <2>0. AdmitReads(k) \/ AdmitDecides(k)
    BY <1>5 DEF AsksFirst, AsksAgain
  <2>1. PICK c : AdmitMakes(k, c)
    BY <2>0, AdmitMoves
  <2>2. call'[k] = c
    <3>1. k \in DOMAIN call
      BY DEF CallInv
    <3>2. [call EXCEPT ![k] = c][k] = c
      BY <3>1
    <3> QED
      BY <2>1, <3>2, Zenon DEF AdmitMakes
  <2>3. Reaped \ {k} \subseteq Reaped' /\ (c.at # "idle" => Reaped' = Reaped)
    BY <1>5, <2>2, LiveLanesStay DEF AsksFirst, AsksAgain
  <2>4. c.at # "idle" /\ k \notin ExtensionCalls => Holds(k)
    BY <1>5, <2>1 DEF AdmitMakes, AsksFirst, MayAsk, AsksAgain, AdmitDecides, CallInv
  <2>5. c.at \in {"due", "calling"} /\ k \notin ExtensionCalls => k \in Reaped'
    BY <2>3, <2>4 DEF Holds
  <2> QED
    BY <2>1, <2>3, <2>5, OneCallerMoves DEF AdmitMakes
<1>6. ASSUME NEW k \in Callers, ExtensionAcquires(k) PROVE CallInv'
  <2>1. try_acquire(k) /\ k \in ExtensionCalls
    BY <1>6 DEF ExtensionAcquires, Acquire
  <2>2. CASE ~CanAcquire(k)
    BY <1>6, <2>1, <2>2, LiveLanesStay, CallsUntouched DEF ExtensionAcquires, healthVars, CallInv
  <2>3. CASE CanAcquire(k)
    <3>1. PICK c : call' = [call EXCEPT ![k] = c]
      BY <1>6, <2>3 DEF ExtensionAcquires, ProviderCallBegins
    <3> QED
      BY <2>1, <2>3, <3>1, LiveLanesStay, OneCallerMoves
  <2> QED
    BY <2>2, <2>3
<1>7. ASSUME NEW k \in Callers, EndsCall(k) \/ GivesUpWaiting(k) PROVE CallInv'
  <2>1. CASE EndsCall(k)
    BY <2>1, LiveLanesStay, OneCallerReturns
    DEF EndsCall, CallEnds, record_success, record_failure, end_undecided_test
  <2>2. CASE GivesUpWaiting(k)
    <3>1. Reaped' = Reaped
      BY <2>2 DEF GivesUpWaiting, StopsWaiting, Reaped
    <3>2. CASE call[k].at = "admitted"
      BY <2>2, <3>1, <3>2, OneCallerReturns DEF GivesUpWaiting, end_undecided_test
    <3>3. CASE call[k].at # "admitted"
      BY <2>2, <3>1, <3>3, CallsUntouched DEF GivesUpWaiting, healthVars, CallInv
    <3> QED
      BY <3>2, <3>3
  <2> QED
    BY <1>7, <2>1, <2>2
<1>8. ASSUME NEW k \in Callers, GivesLaneBack(k) PROVE CallInv'
  <2>1. call' = [call EXCEPT ![k] = call[k]] /\ call[k].at = "idle" /\ Reaped \ {k} \subseteq Reaped'
    BY <1>8, LiveLanesStay DEF GivesLaneBack, Release, healthVars, CallInv
  <2> QED
    BY <2>1, OneCallerMoves
<1> QED
  BY <1>1, <1>2, <1>3, <1>4, <1>5, <1>6, <1>7, <1>8 DEF Next

\* A provider is only called by a caller that holds a lane of the budget, on
\* all three paths to a call and whatever process died or lane was reaped.
THEOREM CallsAreBudgeted == Spec => []CallsHoldLanes
<1>1. Init => CallInv
  BY DEF Init, HealthInit, CallInv, Calling, Idle
<1>2. CallInv /\ [Next]_vars => CallInv'
  BY CallStep
<1>3. CallInv => CallsHoldLanes
  BY DEF CallInv, CallsHoldLanes
<1> QED
  BY <1>1, <1>2, <1>3, PTL DEF Spec

-----------------------------------------------------------------------------
(* The pause of the connection.  The composition moves it only by the steps   *)
(* of ConnectionHealth, so its invariant is proved about those.              *)

LEMMA StepIsHealthStep ==
  ASSUME [Next]_vars
  PROVE  [HealthNext]_healthVars
<1>1. CASE UNCHANGED vars
  BY <1>1 DEF vars, healthVars
<1>2. CASE WorkerProcessDies \/ AppProcessDies
  BY <1>2, CallAssumption DEF WorkerProcessDies, AppProcessDies, HealthNext
<1>3. CASE ConnectionStep \/ TimePasses
  BY <1>3 DEF ConnectionStep, TimePasses, HealthNext
<1>4. ASSUME NEW k \in Callers,
             \/ TakesLane(k) \/ PlainCallAcquires(k) \/ AsksFirst(k) \/ AsksAgain(k)
             \/ ExtensionAcquires(k) \/ EndsCall(k) \/ GivesUpWaiting(k) \/ GivesLaneBack(k)
      PROVE  [HealthNext]_healthVars
  <2>1. CASE TakesLane(k) \/ PlainCallAcquires(k) \/ GivesLaneBack(k)
    BY <2>1 DEF TakesLane, PlainCallAcquires, GivesLaneBack
  <2>2. CASE AsksFirst(k) \/ AsksAgain(k) \/ EndsCall(k)
    BY <2>2 DEF AsksFirst, AsksAgain, EndsCall, HealthNext
  <2>3. CASE ExtensionAcquires(k)
    BY <2>3 DEF ExtensionAcquires, HealthNext
  <2>4. CASE GivesUpWaiting(k)
    BY <2>4 DEF GivesUpWaiting, HealthNext, CallEnds
  <2> QED
    BY <1>4, <2>1, <2>2, <2>3, <2>4
<1> QED
  BY <1>1, <1>2, <1>3, <1>4 DEF Next

HealthRow == [count : 0..Threshold, kind : Kinds, paused : BOOLEAN,
              retryIn : {Never} \cup 0..Larger(Lease, MaxWait),
              backoff : {Never} \cup 1..MaxWait,
              lease : Callers \cup {NoCaller}]
HealthCall == [at : {"idle", "due", "admitted", "calling"}, probe : BOOLEAN,
               left : 0..Lease, over : BOOLEAN]

\* A transient pause has a wait, no shorter than the shortest setting.
WaitsAreSet ==
  row.paused /\ row.kind = "transient" => row.backoff >= Lesser(FirstWait, LongestWait)

\* A Retry now that nothing used up is due, and it took the lease out.
AskedIsDue == asked => Due(row) /\ row.lease = NoCaller

\* What is left until the next test and what has gone by since the last one are
\* a whole wait together.
GapIsKept == row.paused /\ row.retryIn # Never => row.retryIn + quiet >= MinGap

\* A rejected connection has a time for its next test only from the operator,
\* or from a lease that the end of a test call will take back.
RejectedIsHeld ==
  row.paused /\ row.kind = "rejected" /\ row.retryIn # Never =>
    asked \/ row.lease # NoCaller

RowInv ==
  /\ row \in HealthRow /\ asked \in BOOLEAN /\ quiet \in 0..MinGap
  /\ WaitsAreSet /\ AskedIsDue /\ GapIsKept /\ RejectedIsHeld

\* A test call in the time of its own lease.
InLease(k) ==
  /\ call[k].probe /\ ~call[k].over
  /\ Calling(k) \/ (call[k].at = "admitted" /\ call[k].left = Lease)

\* The row still has that lease, and it ends no earlier than the call.
LeasesStand ==
  \A k \in Callers : InLease(k) =>
    /\ row.paused /\ row.lease = k
    /\ 1 <= call[k].left /\ call[k].left <= row.retryIn

TestsAreAdmitted == \A k \in Callers : call[k].at \in {"idle", "due"} => ~call[k].probe

HealthInv ==
  /\ RowInv
  /\ call \in [Callers -> HealthCall] /\ LeasesStand /\ TestsAreAdmitted

LEMMA HealthNumbers ==
  /\ Threshold \in Nat /\ FirstWait \in Nat /\ LongestWait \in Nat /\ Lease \in Nat
  /\ Threshold >= 1 /\ FirstWait >= 1 /\ LongestWait >= 1 /\ Lease > 1
  /\ MinGap \in Nat /\ MaxWait \in Nat /\ 1 <= MinGap /\ MinGap <= Lease
  /\ Lesser(FirstWait, LongestWait) \in Nat
  /\ MinGap <= Lesser(FirstWait, LongestWait) /\ 1 <= Lesser(FirstWait, LongestWait)
  /\ Lesser(FirstWait, LongestWait) <= FirstWait /\ Lesser(FirstWait, LongestWait) <= LongestWait
  /\ FirstWait <= MaxWait /\ LongestWait <= MaxWait
  /\ Larger(Lease, MaxWait) \in Nat
  /\ Lease <= Larger(Lease, MaxWait) /\ MaxWait <= Larger(Lease, MaxWait)
  BY HealthAssumption DEF MinGap, MaxWait, Lesser, Larger

LEMMA NextBackoff ==
  ASSUME RowInv, row.paused, NEW kind \in Kinds
  PROVE  /\ kind = "rejected" => _next_backoff(kind) = Never
         /\ kind = "transient" =>
              /\ _next_backoff(kind) \in 1..MaxWait
              /\ Lesser(FirstWait, LongestWait) <= _next_backoff(kind)
<1>1. row.kind \in Kinds /\ row.backoff \in {Never} \cup 1..MaxWait
  BY DEF RowInv, HealthRow
<1>2. CASE kind = "rejected"
  <2>1. _next_backoff(kind) = Never
    BY <1>2 DEF _next_backoff
  <2> QED
    BY <1>2, <2>1
<1>3. CASE kind = "transient" /\ row.kind = "rejected"
  BY <1>3, HealthNumbers DEF _next_backoff
<1>4. CASE kind = "transient" /\ row.kind = "transient"
  <2>1. _next_backoff(kind) = Lesser(row.backoff * 2, LongestWait)
    BY <1>4 DEF _next_backoff
  <2>2. row.backoff \in Nat /\ row.backoff >= Lesser(FirstWait, LongestWait)
    BY <1>1, <1>4, HealthNumbers DEF RowInv, WaitsAreSet, Never
  <2> QED
    BY <1>1, <1>4, <2>1, <2>2, HealthNumbers DEF Lesser
<1> QED
  BY <1>1, <1>2, <1>3, <1>4 DEF Kinds

LEMMA RowMoved ==
  ASSUME NEW r \in HealthRow, NEW n \in {Never} \cup 0..Larger(Lease, MaxWait),
         NEW l \in Callers \cup {NoCaller}
  PROVE  [r EXCEPT !.retryIn = n, !.lease = l] \in HealthRow
  BY DEF HealthRow

\* How a step moves the row.
TakenBy(k) ==
  /\ Due(row) /\ row' = [row EXCEPT !.retryIn = Lease, !.lease = k]
  /\ asked' = FALSE /\ quiet' = 0
ReArmed(k) ==
  /\ row.paused /\ row.lease = k
  /\ row' = [row EXCEPT !.lease = NoCaller,
               !.retryIn = IF row.kind = "transient" THEN row.backoff ELSE Never]
  /\ UNCHANGED <<asked, quiet>>

LEMMA TakenKeepsRow ==
  ASSUME RowInv, NEW k \in Callers, TakenBy(k)
  PROVE  RowInv'
<1>1. row \in HealthRow
  BY DEF RowInv
<1>2. /\ row'.retryIn = Lease /\ row'.lease = k /\ row'.paused
      /\ row'.kind = row.kind /\ row'.backoff = row.backoff
  BY <1>1 DEF TakenBy, HealthRow, Due
<1>3. row' \in HealthRow
  <2>1. Lease \in {Never} \cup 0..Larger(Lease, MaxWait)
    BY HealthNumbers
  <2> QED
    BY <1>1, <2>1, RowMoved DEF TakenBy
<1>4. WaitsAreSet' /\ AskedIsDue' /\ RejectedIsHeld'
  BY <1>1, <1>2, HealthAssumption DEF TakenBy, RowInv, WaitsAreSet, AskedIsDue, RejectedIsHeld, Due
<1>5. GapIsKept' /\ quiet' \in 0..MinGap
  BY <1>2, HealthNumbers DEF TakenBy, GapIsKept
<1> QED
  BY <1>3, <1>4, <1>5 DEF RowInv, TakenBy

LEMMA FailureKeepsRow ==
  ASSUME RowInv, NEW k \in Callers, NEW kind \in Kinds, record_failure(k, kind)
  PROVE  RowInv'
<1> DEFINE count  == Lesser(row.count + 1, Threshold)
           pauses == row.paused \/ count >= Threshold
           wait   == IF row.paused THEN _next_backoff(kind)
                     ELSE IF pauses /\ kind = "transient" THEN FirstWait ELSE Never
<1>1. /\ row' = [count |-> count, kind |-> kind, paused |-> pauses,
                 retryIn |-> wait, backoff |-> wait, lease |-> NoCaller]
      /\ asked' = FALSE /\ quiet' = quiet
  BY DEF record_failure
<1>2. count \in 0..Threshold /\ pauses \in BOOLEAN
  BY HealthNumbers DEF RowInv, HealthRow, Lesser
<1>3. /\ wait \in {Never} \cup 1..MaxWait
      /\ pauses /\ kind = "transient" =>
           wait \in 1..MaxWait /\ Lesser(FirstWait, LongestWait) <= wait
      /\ kind = "rejected" => wait = Never
      /\ ~pauses => wait = Never
  <2>1. CASE row.paused
    BY <2>1, NextBackoff DEF Kinds
  <2>2. CASE ~row.paused
    BY <2>2, HealthNumbers DEF Kinds
  <2> QED
    BY <2>1, <2>2
<1> HIDE DEF count, pauses, wait
<1>4. /\ row'.count = count /\ row'.kind = kind /\ row'.paused = pauses
      /\ row'.retryIn = wait /\ row'.backoff = wait /\ row'.lease = NoCaller
  BY <1>1
<1>5. row' \in HealthRow
  BY <1>1, <1>2, <1>3, HealthNumbers DEF HealthRow
<1>6. WaitsAreSet' /\ AskedIsDue' /\ RejectedIsHeld'
  BY <1>1, <1>3, <1>4 DEF WaitsAreSet, AskedIsDue, RejectedIsHeld
<1>7. GapIsKept' /\ quiet' \in 0..MinGap
  <2>1. quiet' \in 0..MinGap
    BY <1>1 DEF RowInv
  <2>2. row'.paused /\ row'.retryIn # Never => wait \in Nat /\ MinGap <= wait
    BY <1>3, <1>4, HealthNumbers DEF Kinds
  <2> QED
    BY <1>4, <2>1, <2>2, HealthNumbers DEF GapIsKept
<1> QED
  BY <1>1, <1>5, <1>6, <1>7 DEF RowInv

LEMMA ReArmedKeepsRow ==
  ASSUME RowInv, NEW k \in Callers, ReArmed(k)
  PROVE  RowInv'
<1> DEFINE wait == IF row.kind = "transient" THEN row.backoff ELSE Never
<1>1. row \in HealthRow /\ ~asked
  BY HealthAssumption DEF RowInv, AskedIsDue, ReArmed
<1>2. /\ row' = [row EXCEPT !.lease = NoCaller, !.retryIn = wait]
      /\ row.paused /\ UNCHANGED <<asked, quiet>>
  BY DEF ReArmed
<1>3. /\ wait \in {Never} \cup 1..MaxWait
      /\ row.kind = "rejected" => wait = Never
      /\ wait # Never => wait \in Nat /\ MinGap <= wait
  BY <1>1, <1>2, HealthNumbers DEF HealthRow, Kinds, RowInv, WaitsAreSet, Never
<1> HIDE DEF wait
<1>4. /\ row'.retryIn = wait /\ row'.kind = row.kind /\ row'.backoff = row.backoff
      /\ row'.paused = row.paused /\ row'.lease = NoCaller
  BY <1>1, <1>2 DEF HealthRow
<1>5. row' \in HealthRow
  <2>1. wait \in {Never} \cup 0..Larger(Lease, MaxWait)
    BY <1>3, HealthNumbers
  <2>2. row' = [row EXCEPT !.retryIn = wait, !.lease = NoCaller]
    BY <1>1, <1>2 DEF HealthRow
  <2> QED
    BY <1>1, <2>1, <2>2, RowMoved
<1>6. WaitsAreSet' /\ AskedIsDue' /\ RejectedIsHeld'
  BY <1>1, <1>2, <1>3, <1>4 DEF RowInv, WaitsAreSet, AskedIsDue, RejectedIsHeld
<1>7. GapIsKept'
  BY <1>2, <1>3, <1>4, HealthNumbers DEF RowInv, GapIsKept
<1> QED
  BY <1>2, <1>5, <1>6, <1>7 DEF RowInv

LEMMA RetryKeepsRow == ASSUME RowInv, retry_now PROVE RowInv'
<1>1. row \in HealthRow /\ row.paused
  BY DEF RowInv, retry_now
<1>2. /\ row'.retryIn = 0 /\ row'.kind = row.kind /\ row'.backoff = row.backoff
      /\ row'.paused = row.paused /\ row'.lease = NoCaller
  BY <1>1 DEF HealthRow, retry_now
<1>3. row' \in HealthRow
  <2>1. 0 \in {Never} \cup 0..Larger(Lease, MaxWait)
    BY HealthNumbers
  <2> QED
    BY <1>1, <2>1, RowMoved DEF retry_now
<1>4. WaitsAreSet' /\ AskedIsDue' /\ RejectedIsHeld'
  BY <1>1, <1>2 DEF retry_now, RowInv, WaitsAreSet, AskedIsDue, RejectedIsHeld, Due
<1>5. GapIsKept' /\ quiet' \in 0..MinGap
  BY <1>2, HealthNumbers DEF retry_now, GapIsKept
<1> QED
  BY <1>3, <1>4, <1>5 DEF RowInv, retry_now

LEMMA ResumedKeepsRow == ASSUME Resumed PROVE RowInv'
<1>1. NoRow \in HealthRow /\ ~NoRow.paused
  BY HealthNumbers DEF NoRow, HealthRow, Kinds
<1>2. quiet' \in 0..MinGap
  BY HealthNumbers DEF Resumed
<1> QED
  BY <1>1, <1>2 DEF Resumed, RowInv, WaitsAreSet, AskedIsDue, RejectedIsHeld, GapIsKept

LEMMA TickKeepsRow == ASSUME RowInv, Tick PROVE RowInv'
<1> DEFINE left == IF row.retryIn > 0 THEN row.retryIn - 1 ELSE row.retryIn
<1>1. row \in HealthRow /\ quiet \in 0..MinGap
  BY DEF RowInv
<1>2. row' = [row EXCEPT !.retryIn = left] /\ asked' = asked /\ quiet' = Lesser(quiet + 1, MinGap)
  BY DEF Tick
<1>3. /\ left \in {Never} \cup 0..Larger(Lease, MaxWait)
      /\ row.retryIn = 0 => left = 0
      /\ left = Never <=> row.retryIn = Never
      /\ left # Never => left \in Nat /\ row.retryIn \in Nat /\ left + 1 >= row.retryIn
  BY <1>1, HealthNumbers DEF HealthRow, Never
<1> HIDE DEF left
<1>4. /\ row'.retryIn = left /\ row'.kind = row.kind /\ row'.backoff = row.backoff
      /\ row'.paused = row.paused /\ row'.lease = row.lease
  BY <1>1, <1>2 DEF HealthRow
<1>5. row' \in HealthRow
  BY <1>1, <1>2, <1>3 DEF HealthRow
<1>6. WaitsAreSet' /\ AskedIsDue' /\ RejectedIsHeld'
  BY <1>2, <1>3, <1>4 DEF RowInv, WaitsAreSet, AskedIsDue, RejectedIsHeld, Due
<1>7. GapIsKept' /\ quiet' \in 0..MinGap
  BY <1>1, <1>2, <1>3, <1>4, HealthNumbers DEF RowInv, GapIsKept, Lesser
<1> QED
  BY <1>2, <1>5, <1>6, <1>7 DEF RowInv

CallsInv == call \in [Callers -> HealthCall] /\ LeasesStand /\ TestsAreAdmitted

\* A step that leaves the row alone and brings no call into a lease.
LEMMA CallsMove ==
  ASSUME CallsInv, UNCHANGED row, call' \in [Callers -> HealthCall],
         \A j \in Callers :
           /\ InLease(j)' => InLease(j) /\ call'[j].left = call[j].left
           /\ call'[j].at \in {"idle", "due"} => ~call'[j].probe
  PROVE  CallsInv'
  BY DEF CallsInv, LeasesStand, TestsAreAdmitted

\* The test call is taken when no other is in its lease.
LEMMA TestIsAlone ==
  ASSUME CallsInv, RowInv, NEW k \in Callers, TakenBy(k), Admitted(k, TRUE)
  PROVE  CallsInv'
<1> DEFINE c == [at |-> IF k \in ExtensionCalls THEN "admitted" ELSE "calling",
                 probe |-> TRUE, left |-> Lease, over |-> FALSE]
<1>1. call' = [call EXCEPT ![k] = c]
  BY DEF Admitted
<1>2. /\ c \in HealthCall /\ c.left = Lease /\ c.at \notin {"idle", "due"}
  BY HealthNumbers DEF HealthCall
<1> HIDE DEF c
<1>3. call' \in [Callers -> HealthCall] /\ \A j \in Callers : call'[j] = IF j = k THEN c ELSE call[j]
  BY <1>1, <1>2 DEF CallsInv
<1>4. TestsAreAdmitted'
  BY <1>2, <1>3 DEF CallsInv, TestsAreAdmitted
<1>5. ASSUME NEW j \in Callers PROVE ~InLease(j)
  <2>1. call[j].left \in 0..Lease
    BY DEF CallsInv, HealthCall
  <2> QED
    BY <2>1, HealthNumbers DEF CallsInv, LeasesStand, TakenBy, Due
<1>6. row'.paused /\ row'.lease = k /\ row'.retryIn = Lease
  BY DEF TakenBy, Due, RowInv, HealthRow
<1>7. LeasesStand'
  BY <1>2, <1>3, <1>5, <1>6, HealthNumbers DEF LeasesStand, InLease, Calling
<1> QED
  BY <1>3, <1>4, <1>7 DEF CallsInv

\* A step that overrules the leases leaves no test call in one.
LEMMA OverruledKeepsCalls ==
  ASSUME NEW calls \in [Callers -> HealthCall], call' = Overruled(calls),
         \A j \in Callers : calls[j].at \in {"idle", "due"} => ~calls[j].probe
  PROVE  CallsInv'
<1>1. ASSUME NEW j \in Callers
      PROVE  /\ call'[j] \in HealthCall /\ ~InLease(j)'
             /\ call'[j].at \in {"idle", "due"} => ~call'[j].probe
  <2> DEFINE b == calls[j].over \/ calls[j].probe
  <2>1. call'[j] = [calls[j] EXCEPT !.over = b]
    BY DEF Overruled
  <2>2. calls[j] \in HealthCall /\ b \in BOOLEAN
    BY DEF HealthCall
  <2>3. b = (calls[j].over \/ calls[j].probe)
    OBVIOUS
  <2> HIDE DEF b
  <2>4. /\ call'[j] \in HealthCall /\ call'[j].over = b
        /\ call'[j].at = calls[j].at /\ call'[j].probe = calls[j].probe
    BY <2>1, <2>2 DEF HealthCall
  <2> QED
    BY <2>3, <2>4 DEF InLease
<1>2. call' \in [Callers -> HealthCall]
  BY <1>1 DEF Overruled
<1> QED
  BY <1>1, <1>2 DEF CallsInv, LeasesStand, TestsAreAdmitted

LEMMA ReturnedCalls ==
  ASSUME CallsInv, NEW k \in Callers
  PROVE  /\ Returned(k) \in [Callers -> HealthCall]
         /\ Returned(k)[k] = Idle /\ ~Idle.probe
         /\ \A j \in Callers \ {k} : Returned(k)[j] = call[j]
         /\ \A j \in Callers : Returned(k)[j].at \in {"idle", "due"} => ~Returned(k)[j].probe
<1>1. Idle \in HealthCall /\ ~Idle.probe
  BY HealthNumbers DEF Idle, HealthCall
<1>2. /\ Returned(k) \in [Callers -> HealthCall]
      /\ \A j \in Callers : Returned(k)[j] = IF j = k THEN Idle ELSE call[j]
  BY <1>1 DEF Returned, CallsInv
<1> QED
  BY <1>1, <1>2 DEF CallsInv, TestsAreAdmitted

LEMMA ReturnKeepsCalls ==
  ASSUME CallsInv, NEW k \in Callers, Returns(k), row' = row \/ row.lease = k
  PROVE  CallsInv'
<1>1. /\ call' \in [Callers -> HealthCall]
      /\ \A j \in Callers : call'[j].at \in {"idle", "due"} => ~call'[j].probe
      /\ \A j \in Callers : InLease(j)' => j # k /\ InLease(j) /\ call'[j] = call[j]
  BY ReturnedCalls DEF Returns, InLease, Calling
<1>2. CASE row' = row
  BY <1>1, <1>2, CallsMove
<1>3. CASE row.lease = k
  BY <1>1, <1>3 DEF CallsInv, LeasesStand, TestsAreAdmitted
<1> QED
  BY <1>2, <1>3

LEMMA AdmitKeepsCalls ==
  ASSUME CallsInv, NEW k \in Callers, UNCHANGED row,
         \/ call[k].at = "idle" /\ call' = [call EXCEPT ![k].at = "due"]
         \/ Admitted(k, FALSE)
  PROVE  CallsInv'
<1>1. CASE call[k].at = "idle" /\ call' = [call EXCEPT ![k].at = "due"]
  <2>1. call[k] \in HealthCall /\ ~call[k].probe
    BY <1>1 DEF CallsInv, TestsAreAdmitted
  <2> DEFINE c == [call[k] EXCEPT !.at = "due"]
  <2>2. c \in HealthCall /\ ~c.probe
    BY <2>1 DEF HealthCall
  <2>3. call' = [call EXCEPT ![k] = c]
    BY <1>1
  <2> HIDE DEF c
  <2> QED
    BY <2>2, <2>3, CallsMove DEF CallsInv, InLease, Calling, TestsAreAdmitted
<1>2. CASE Admitted(k, FALSE)
  <2> DEFINE c == [at |-> IF k \in ExtensionCalls THEN "admitted" ELSE "calling",
                   probe |-> FALSE, left |-> Lease, over |-> FALSE]
  <2>1. c \in HealthCall /\ ~c.probe
    BY HealthNumbers DEF HealthCall
  <2>2. call' = [call EXCEPT ![k] = c]
    BY <1>2 DEF Admitted
  <2> HIDE DEF c
  <2> QED
    BY <2>1, <2>2, CallsMove DEF CallsInv, InLease, Calling, TestsAreAdmitted
<1> QED
  BY <1>1, <1>2

LEMMA CallBeginsKeepsCalls ==
  ASSUME CallsInv, NEW k \in Callers, ProviderCallBegins(k)
  PROVE  CallsInv'
<1>1. call[k] \in HealthCall /\ call[k].at = "admitted"
  BY DEF CallsInv, ProviderCallBegins
<1>2. PICK b : b \in BOOLEAN /\ b = (call[k].over \/ (call[k].probe /\ call[k].left < Lease))
  OBVIOUS
<1>3. PICK c : c = [call[k] EXCEPT !.at = "calling", !.left = Lease, !.over = b]
  OBVIOUS
<1>4. /\ c \in HealthCall /\ c.at = "calling" /\ c.left = Lease
      /\ c.over = b /\ c.probe = call[k].probe
  <2>1. c.at = "calling" /\ c.left = Lease /\ c.probe = call[k].probe
    BY <1>1, <1>3 DEF HealthCall
  <2>2. c.over = b
    BY <1>1, <1>3 DEF HealthCall
  <2>3. c = [at |-> "calling", probe |-> call[k].probe, left |-> Lease, over |-> b]
    BY <1>1, <1>3 DEF HealthCall
  <2>4. call[k].probe \in BOOLEAN
    BY <1>1 DEF HealthCall
  <2> QED
    BY <1>2, <2>1, <2>2, <2>3, <2>4, HealthNumbers DEF HealthCall
<1>5. /\ UNCHANGED row /\ call' \in [Callers -> HealthCall]
      /\ \A j \in Callers : call'[j] = IF j = k THEN c ELSE call[j]
  <2>1. call' = [call EXCEPT ![k] = c] /\ UNCHANGED row
    <3>1. call' = [call EXCEPT ![k] = [call[k] EXCEPT !.at = "calling", !.left = Lease,
             !.over = call[k].over \/ (call[k].probe /\ call[k].left < Lease)]]
      BY <1>1 DEF ProviderCallBegins, CallsInv
    <3> QED
      BY <1>2, <1>3, <3>1 DEF ProviderCallBegins
  <2> QED
    BY <1>4, <2>1 DEF CallsInv
<1>6. InLease(k)' => InLease(k) /\ call'[k].left = call[k].left
  <2>1. call[k].probe /\ ~b => call[k].left = Lease /\ ~call[k].over
    BY <1>1, <1>2, HealthNumbers DEF HealthCall
  <2> QED
    BY <1>1, <1>4, <1>5, <2>1 DEF InLease, Calling
<1> QED
  BY <1>4, <1>5, <1>6, CallsMove DEF CallsInv, InLease, Calling, TestsAreAdmitted

LEMMA DeathsKeepCalls ==
  ASSUME CallsInv, NEW ks \in SUBSET Callers, CallersDie(ks)
  PROVE  CallsInv'
<1>1. Idle \in HealthCall /\ ~Idle.probe
  BY HealthNumbers DEF Idle, HealthCall
<1>2. call' \in [Callers -> HealthCall] /\ \A j \in Callers : call'[j] = IF j \in ks THEN Idle ELSE call[j]
  BY <1>1 DEF CallersDie, CallsInv
<1> QED
  BY <1>1, <1>2, CallsMove DEF CallersDie, CallsInv, InLease, Calling, TestsAreAdmitted

\* A lease and the call in it run out together, the call no later.
LEMMA TickKeepsCalls == ASSUME CallsInv, RowInv, Tick PROVE CallsInv'
<1>1. ASSUME NEW j \in Callers
      PROVE  /\ call'[j] \in HealthCall /\ call'[j].left = Larger(call[j].left, 1) - 1
             /\ call'[j].at = call[j].at /\ call'[j].probe = call[j].probe
             /\ call'[j].over = call[j].over /\ call[j].left \in 0..Lease
  <2> DEFINE n == Larger(call[j].left, 1) - 1
  <2>1. call'[j] = [call[j] EXCEPT !.left = n]
    BY DEF Tick
  <2>2. call[j] \in HealthCall
    BY DEF CallsInv
  <2>3. n \in 0..Lease /\ call[j].left \in 0..Lease
    BY <2>2, HealthNumbers DEF HealthCall, Larger
  <2> HIDE DEF n
  <2>4. /\ call'[j] \in HealthCall /\ call'[j].left = n
        /\ call'[j].at = call[j].at /\ call'[j].probe = call[j].probe
        /\ call'[j].over = call[j].over
    BY <2>1, <2>2, <2>3 DEF HealthCall
  <2> QED
    BY <2>3, <2>4 DEF n
<1>2. call' \in [Callers -> HealthCall] /\ TestsAreAdmitted'
  BY <1>1 DEF Tick, CallsInv, TestsAreAdmitted
<1>3. ASSUME NEW j \in Callers, InLease(j)'
      PROVE  /\ row'.paused /\ row'.lease = j
             /\ 1 <= call'[j].left /\ call'[j].left <= row'.retryIn
  <2>1. CASE Calling(j)
    <3>1. InLease(j) /\ call[j].left > 1
      BY <1>1, <1>3, <2>1 DEF InLease, Calling, Tick
    <3>2. row.paused /\ row.lease = j /\ call[j].left <= row.retryIn
      BY <3>1 DEF CallsInv, LeasesStand
    <3>3. row.retryIn \in Int
      BY HealthNumbers DEF RowInv, HealthRow, Never
    <3>4. row'.retryIn = row.retryIn - 1 /\ row'.paused = row.paused /\ row'.lease = row.lease
      <4> DEFINE n == IF row.retryIn > 0 THEN row.retryIn - 1 ELSE row.retryIn
      <4>1. row' = [row EXCEPT !.retryIn = n] /\ row \in HealthRow
        BY DEF Tick, RowInv
      <4>2. n = row.retryIn - 1
        BY <1>1, <3>1, <3>2, <3>3
      <4> HIDE DEF n
      <4> QED
        BY <4>1, <4>2 DEF HealthRow
    <3> QED
      BY <1>1, <3>1, <3>2, <3>3, <3>4 DEF Larger
  <2>2. CASE ~Calling(j)
    <3>1. Larger(call[j].left, 1) - 1 = Lease
      BY <1>1, <1>3, <2>2 DEF InLease, Calling
    <3> QED
      BY <1>1, <3>1, HealthNumbers DEF Larger
  <2> QED
    BY <2>1, <2>2
<1> QED
  BY <1>2, <1>3 DEF CallsInv, LeasesStand

LEMMA HealthStepKeeps ==
  ASSUME HealthInv, [HealthNext]_healthVars
  PROVE  HealthInv'
<1>0. RowInv /\ CallsInv
  BY DEF HealthInv, CallsInv
<1> SUFFICES RowInv' /\ CallsInv'
  BY DEF HealthInv, CallsInv
<1>1. ASSUME UNCHANGED <<row, asked, quiet>> PROVE RowInv'
  BY <1>0, <1>1 DEF RowInv, WaitsAreSet, AskedIsDue, GapIsKept, RejectedIsHeld, Due
<1>2. ASSUME UNCHANGED healthVars PROVE RowInv' /\ CallsInv'
  BY <1>0, <1>1, <1>2 DEF healthVars, CallsInv, LeasesStand, InLease, Calling, TestsAreAdmitted
<1>3. ASSUME NEW k \in Callers, AdmitReads(k) PROVE RowInv' /\ CallsInv'
  BY <1>0, <1>1, <1>3, AdmitKeepsCalls DEF AdmitReads
<1>4. ASSUME NEW k \in Callers, AdmitDecides(k) PROVE RowInv' /\ CallsInv'
  <2>1. CASE Due(row) /\ TakesTest(k)
    <3>1. TakenBy(k) /\ Admitted(k, TRUE)
      BY <2>1 DEF TakesTest, TakenBy
    <3> QED
      BY <1>0, <3>1, TestIsAlone, TakenKeepsRow
  <2>2. CASE Admitted(k, FALSE) /\ UNCHANGED <<row, asked, quiet>>
    BY <1>0, <1>1, <2>2, AdmitKeepsCalls
  <2>3. CASE Returns(k) /\ UNCHANGED <<row, asked, quiet>>
    BY <1>0, <1>1, <2>3, ReturnKeepsCalls
  <2> QED
    BY <1>4, <2>1, <2>2, <2>3 DEF AdmitDecides
<1>5. ASSUME NEW k \in Callers, ProviderCallBegins(k) PROVE RowInv' /\ CallsInv'
  BY <1>0, <1>1, <1>5, CallBeginsKeepsCalls DEF ProviderCallBegins
<1>6. ASSUME NEW k \in Callers, CallEnds(k) PROVE RowInv' /\ CallsInv'
  <2>1. CASE record_success(k)
    BY <1>0, <2>1, ReturnedCalls, OverruledKeepsCalls, ResumedKeepsRow DEF record_success
  <2>2. CASE end_undecided_test(k)
    <3>1. CASE call[k].probe /\ row.paused /\ row.lease = k
      <4>1. ReArmed(k) /\ Returns(k)
        BY <2>2, <3>1 DEF end_undecided_test, ReArmed
      <4> QED
        BY <1>0, <3>1, <4>1, ReArmedKeepsRow, ReturnKeepsCalls
    <3>2. CASE ~(call[k].probe /\ row.paused /\ row.lease = k)
      BY <1>0, <1>1, <2>2, <3>2, ReturnKeepsCalls DEF end_undecided_test
    <3> QED
      BY <3>1, <3>2
  <2>3. ASSUME NEW kind \in Kinds, record_failure(k, kind) PROVE RowInv' /\ CallsInv'
    <3>1. call' = Overruled(Returned(k))
      BY <2>3 DEF record_failure
    <3> QED
      BY <1>0, <2>3, <3>1, ReturnedCalls, OverruledKeepsCalls, FailureKeepsRow
  <2> QED
    BY <1>6, <2>1, <2>2, <2>3 DEF CallEnds
<1>7. ASSUME NEW ks \in SUBSET Callers, CallersDie(ks) PROVE RowInv' /\ CallsInv'
  BY <1>0, <1>1, <1>7, DeathsKeepCalls DEF CallersDie
<1>8. CASE retry_now
  <2>1. call' = Overruled(call)
    BY <1>8 DEF retry_now
  <2> QED
    BY <1>0, <1>8, <2>1, OverruledKeepsCalls, RetryKeepsRow DEF CallsInv, TestsAreAdmitted
<1>9. CASE ConnectionEdited
  BY <1>0, <1>9, OverruledKeepsCalls, ResumedKeepsRow DEF ConnectionEdited, CallsInv, TestsAreAdmitted
<1>10. CASE Tick
  BY <1>0, <1>10, TickKeepsCalls, TickKeepsRow
<1> QED
  BY <1>2, <1>3, <1>4, <1>5, <1>6, <1>7, <1>8, <1>9, <1>10 DEF HealthNext

LEMMA HealthInvariant == Spec => []HealthInv
<1>1. Init => HealthInv
  <2> SUFFICES ASSUME Init PROVE HealthInv
    OBVIOUS
  <2>1. NoRow \in HealthRow /\ ~NoRow.paused /\ Idle \in HealthCall /\ ~Idle.probe
    BY HealthNumbers DEF NoRow, HealthRow, Kinds, Idle, HealthCall
  <2>2. MinGap \in 0..MinGap
    BY HealthNumbers
  <2> QED
    BY <2>1, <2>2 DEF Init, HealthInit, HealthInv, RowInv, WaitsAreSet, AskedIsDue, GapIsKept,
      RejectedIsHeld, LeasesStand, InLease, TestsAreAdmitted
<1>2. HealthInv /\ [Next]_vars => HealthInv'
  BY StepIsHealthStep, HealthStepKeeps
<1> QED
  BY <1>1, <1>2, PTL DEF Spec

\* The row and the calls are well typed, and however often a wait doubles it
\* stays within its setting.
THEOREM HealthTypes == Spec => []TypeOK
<1>1. HealthInv => TypeOK
  BY DEF HealthInv, RowInv, HealthRow, HealthCall, TypeOK
<1> QED
  BY <1>1, HealthInvariant, PTL

\* Whatever waits, leases and settings there are, and however the callers
\* interleave, die and wait for lanes: two callers never test a paused
\* connection at once, each in the time of its own lease.
THEOREM TestsRunAlone == Spec => []OneTestAtATime
<1>1. HealthInv => OneTestAtATime
  <2> SUFFICES ASSUME HealthInv, NEW j \in Callers, NEW k \in Callers,
                      Probing(j), Probing(k), ~call[j].over, ~call[k].over
               PROVE  j = k
    BY DEF OneTestAtATime
  <2>1. InLease(j) /\ InLease(k)
    BY DEF Probing, InLease
  <2> QED
    BY <2>1 DEF HealthInv, LeasesStand
<1> QED
  BY <1>1, HealthInvariant, PTL

\* A Retry now stays due until a test call takes it or a verdict overrules it.
THEOREM RetryNowIsKept == Spec => []RetryNowStaysDue
<1>1. HealthInv => RetryNowStaysDue
  BY DEF HealthInv, RowInv, AskedIsDue, RetryNowStaysDue
<1> QED
  BY <1>1, HealthInvariant, PTL

\* A step that takes the test finds it due.
LEMMA TakenWhenDue ==
  ASSUME HealthInv, [Next]_vars, TestTaken
  PROVE  Due(row)
<1>1. [HealthNext]_healthVars
  BY StepIsHealthStep
<1>2. PICK k \in Callers : call[k].at = "due" /\ ~call[k].probe /\ call'[k].probe
  BY DEF TestTaken, HealthInv, TestsAreAdmitted
<1>3. CallsInv /\ call[k] \in HealthCall
  BY DEF HealthInv, CallsInv
<1>4. ASSUME NEW j \in Callers, Returns(j) PROVE FALSE
  BY <1>2, <1>3, <1>4, ReturnedCalls DEF Returns
<1>5. ASSUME NEW j \in Callers, call' = Overruled(Returned(j)) PROVE FALSE
  <2>1. ~Returned(j)[k].probe /\ Returned(j)[k] \in HealthCall
    BY <1>2, <1>3, ReturnedCalls
  <2> QED
    BY <1>2, <1>5, <2>1 DEF Overruled, HealthCall
<1>6. call' # Overruled(call)
  BY <1>2, <1>3 DEF Overruled, HealthCall
<1>7. CASE UNCHANGED healthVars
  BY <1>2, <1>7 DEF healthVars
<1>8. ASSUME NEW j \in Callers, AdmitReads(j) PROVE FALSE
  <2>1. j # k
    BY <1>2, <1>8 DEF AdmitReads
  <2> QED
    BY <1>2, <1>3, <1>8, <2>1 DEF AdmitReads, Admitted, CallsInv
<1>9. ASSUME NEW j \in Callers, AdmitDecides(j) PROVE Due(row)
  <2>1. CASE Admitted(j, FALSE)
    BY <1>2, <1>3, <2>1 DEF Admitted, CallsInv
  <2> QED
    BY <1>4, <1>9, <2>1 DEF AdmitDecides
<1>10. ASSUME NEW j \in Callers, ProviderCallBegins(j) PROVE FALSE
  <2>1. j # k
    BY <1>2, <1>10 DEF ProviderCallBegins
  <2> QED
    BY <1>2, <1>3, <1>10, <2>1 DEF ProviderCallBegins, CallsInv
<1>11. ASSUME NEW j \in Callers, CallEnds(j) PROVE FALSE
  BY <1>4, <1>5, <1>11 DEF CallEnds, record_success, record_failure, end_undecided_test
<1>12. ASSUME NEW ks \in SUBSET Callers, CallersDie(ks) PROVE FALSE
  BY <1>2, <1>12 DEF CallersDie, Idle
<1>13. CASE retry_now \/ ConnectionEdited
  BY <1>6, <1>13 DEF retry_now, ConnectionEdited
<1>14. CASE Tick
  <2> DEFINE n == Larger(call[k].left, 1) - 1
  <2>1. call'[k] = [call[k] EXCEPT !.left = n]
    BY <1>14 DEF Tick
  <2> HIDE DEF n
  <2> QED
    BY <1>2, <1>3, <2>1 DEF HealthCall
<1> QED
  BY <1>1, <1>7, <1>8, <1>9, <1>10, <1>11, <1>12, <1>13, <1>14 DEF HealthNext

\* Between two test calls of a pause lies the shortest wait or a lease, whoever
\* fails, gives up, dies or takes over in between.
THEOREM TestsKeepTheirDistance == Spec => TestsAreSpaced
<1>1. HealthInv /\ [Next]_vars => [TestTaken => quiet >= MinGap]_healthVars
  <2> SUFFICES ASSUME HealthInv, [Next]_vars, TestTaken PROVE quiet >= MinGap
    OBVIOUS
  <2>1. row.paused /\ row.retryIn = 0
    BY TakenWhenDue DEF Due
  <2>2. quiet \in 0..MinGap
    BY DEF HealthInv, RowInv
  <2> QED
    BY <2>1, <2>2, HealthNumbers DEF HealthInv, RowInv, GapIsKept, Never
<1> QED
  BY <1>1, HealthInvariant, PTL DEF Spec, TestsAreSpaced

\* A rejected connection is tested when the operator asked for it, or in the
\* place of a test call whose lease ran out.
THEOREM RejectedIsNotRetried == Spec => RejectedWaitsForOperator
<1>1. HealthInv /\ [Next]_vars =>
        [TestTaken /\ row.kind = "rejected" => asked \/ row.lease # NoCaller]_healthVars
  <2> SUFFICES ASSUME HealthInv, [Next]_vars, TestTaken, row.kind = "rejected"
               PROVE  asked \/ row.lease # NoCaller
    OBVIOUS
  <2>1. row.paused /\ row.retryIn = 0
    BY TakenWhenDue DEF Due
  <2> QED
    BY <2>1 DEF HealthInv, RowInv, RejectedIsHeld, Never
<1> QED
  BY <1>1, HealthInvariant, PTL DEF Spec, RejectedWaitsForOperator
=============================================================================
