-------------------------- MODULE TriggerQueueProofs --------------------------
(***************************************************************************)
(* What the statements of db/agent_triggers.py preserve, whoever issues     *)
(* them and in whatever order, for every number of triggers and agents.     *)
(***************************************************************************)
EXTENDS TriggerQueue, TLAPS

-----------------------------------------------------------------------------
\* What the statements write into a row is well formed.
LEMMA RowFields ==
  /\ AbsentRow \in RowType /\ Gone \in RowType
  /\ \A r \in RowType, s \in Status : Moved(r, s) \in RowType
  /\ \A r \in RowType, s \in Status : r.retries < MaxRetries => Retried(r, s) \in RowType
<1> USE QueueAssumption DEF RowType, Moved, Retried
<1>1. AbsentRow \in RowType
  BY DEF AbsentRow, Status
<1>2. ASSUME NEW r \in RowType, NEW s \in Status PROVE Moved(r, s) \in RowType
  OBVIOUS
<1>3. ASSUME NEW r \in RowType, NEW s \in Status, r.retries < MaxRetries
      PROVE  Retried(r, s) \in RowType
  <2>1. r.retries + 1 \in 0..MaxRetries
    BY <1>3
  <2> QED
    BY <2>1
<1>4. Gone \in RowType
  BY <1>1 DEF Gone, Status
<1> QED
  BY <1>1, <1>2, <1>3, <1>4

\* Every statement leaves well-formed rows.
LEMMA QueueTypeStep ==
  ASSUME QueueTypeOK, QueueNext
  PROVE  QueueTypeOK'
<1> USE QueueAssumption DEF QueueTypeOK
<1>1. ASSUME NEW t \in Triggers, create_agent_trigger(t) PROVE QueueTypeOK'
  BY <1>1 DEF create_agent_trigger, RowType, Status, Moved
<1>2. ASSUME NEW t \in Triggers, claim_trigger(t) PROVE QueueTypeOK'
  BY <1>2 DEF claim_trigger, RowType, Status, Queued
<1>3. ASSUME NEW t \in Triggers, mark_trigger_retry_blocked(t) PROVE QueueTypeOK'
  BY <1>3 DEF mark_trigger_retry_blocked, RowType
<1>4. ASSUME NEW t \in Triggers, NEW ts \in SUBSET Triggers, EnqueuePreempting(t, ts)
      PROVE  QueueTypeOK'
  <2>1. ASSUME NEW u \in Triggers
        PROVE  row'[u] \in {row[u], Gone, Moved(row[u], "queued")}
    BY <1>4 DEF EnqueuePreempting
  <2>2. ASSUME NEW u \in Triggers PROVE row'[u] \in RowType
    <3>1. row[u] \in RowType /\ "queued" \in Status /\ Gone \in RowType
      BY RowFields DEF Status
    <3> QED
      BY <2>1, <3>1, RowFields
  <2> QED
    BY <1>4, <2>2 DEF EnqueuePreempting
<1>5. ASSUME NEW c \in Claims, complete_agent_trigger(c) \/ fail_agent_trigger(c)
      PROVE  QueueTypeOK'
  BY <1>5 DEF complete_agent_trigger, fail_agent_trigger, End, Claims, RowType, Status, Moved
<1>6. ASSUME NEW c \in Claims, NEW b \in BOOLEAN, retry_agent_trigger(c, b),
             b => row[c[1]].retries < MaxRetries
      PROVE  QueueTypeOK'
  <2>1. ASSUME NEW u \in Triggers PROVE row'[u] \in RowType
    <3>1. row[u] \in RowType /\ "queued" \in Status
      BY DEF Status
    <3>2. \/ row'[u] \in {row[u], Moved(row[u], "queued")}
          \/ row[u].retries < MaxRetries /\ row'[u] = Retried(row[u], "queued")
      BY <1>6 DEF retry_agent_trigger, Claims
    <3> QED
      BY <3>1, <3>2, RowFields
  <2> QED
    BY <1>6, <2>1 DEF retry_agent_trigger
<1>7. CASE requeue_all_claimed_triggers
  BY <1>7 DEF requeue_all_claimed_triggers, RowType, Status, Moved
<1>8. ASSUME NEW cs \in SUBSET Claims, take_claimed_trigger(cs) PROVE QueueTypeOK'
  BY <1>8, RowFields DEF take_claimed_trigger
<1>9. ASSUME NEW ts \in SUBSET Triggers, delete_queued_triggers(ts) PROVE QueueTypeOK'
  BY <1>9, RowFields DEF delete_queued_triggers
<1>10. ASSUME NEW ts \in SUBSET Triggers, prune_finished_triggers(ts) PROVE QueueTypeOK'
  BY <1>10, RowFields DEF prune_finished_triggers
<1>11. ASSUME NEW ts \in SUBSET Triggers, NEW ss, take_open_human_chat_triggers(ts, ss)
       PROVE  QueueTypeOK'
  BY <1>11, RowFields DEF take_open_human_chat_triggers
<1> QED
  BY <1>1, <1>2, <1>3, <1>4, <1>5, <1>6, <1>7, <1>8, <1>9, <1>10, <1>11, Zenon
  DEF QueueNext, QueueArrival, QueueChange

\* One row under one statement that enqueues nothing: an absent row stays absent,
\* a finished one stays finished, only a queued one is claimed, under a new
\* generation, and retries are counted up to the limit and no further.
RowStep(t, limit) ==
  /\ row[t].status = "absent" => row'[t].status = "absent"
  /\ row[t].status \in {"completed", "failed", "deleted"} =>
       row'[t].status \notin {"queued", "claimed"}
  /\ row'[t].status = "claimed" =>
       \/ row[t].status = "claimed" /\ row'[t].gen = row[t].gen
       \/ row[t].status = "queued" /\ row'[t].gen = row[t].gen + 1
  /\ \/ row'[t].retries \in {0, row[t].retries}
     \/ row[t].retries < limit /\ row'[t].retries = row[t].retries + 1

\* One row under any statement that enqueues nothing.
LEMMA QueueChangeRows ==
  ASSUME QueueTypeOK, NEW limit, QueueChange(limit), NEW u \in Triggers
  PROVE  RowStep(u, limit)
<1> USE DEF QueueTypeOK, RowType, Moved, Retried, Gone, AbsentRow, RowStep
<1>1. ASSUME NEW t \in Triggers, claim_trigger(t) PROVE RowStep(u, limit)
  BY <1>1 DEF claim_trigger, Queued
<1>2. ASSUME NEW t \in Triggers, row[t].status \notin {"absent", "deleted"},
             mark_trigger_retry_blocked(t)
      PROVE  RowStep(u, limit)
  BY <1>2 DEF mark_trigger_retry_blocked
<1>3. ASSUME NEW c \in Claims, complete_agent_trigger(c) \/ fail_agent_trigger(c)
      PROVE  RowStep(u, limit)
  BY <1>3 DEF complete_agent_trigger, fail_agent_trigger, End, Held, Claimed, Claims
<1>4. ASSUME NEW c \in Claims, NEW b \in BOOLEAN, retry_agent_trigger(c, b),
             b => row[c[1]].retries < limit
      PROVE  RowStep(u, limit)
  BY <1>4 DEF retry_agent_trigger, Held, Claimed, Claims
<1>5. CASE requeue_all_claimed_triggers
  BY <1>5 DEF requeue_all_claimed_triggers, Claimed
<1>6. ASSUME NEW cs \in SUBSET Claims, take_claimed_trigger(cs) PROVE RowStep(u, limit)
  BY <1>6 DEF take_claimed_trigger, Claimed
<1>7. ASSUME NEW ts \in SUBSET Triggers, delete_queued_triggers(ts) PROVE RowStep(u, limit)
  BY <1>7 DEF delete_queued_triggers, Queued
<1>8. ASSUME NEW ts \in SUBSET Triggers, prune_finished_triggers(ts) PROVE RowStep(u, limit)
  BY <1>8 DEF prune_finished_triggers, Finished
<1>9. ASSUME NEW ts \in SUBSET Triggers, NEW ss \in SUBSET {"queued", "claimed"},
             take_open_human_chat_triggers(ts, ss)
      PROVE  RowStep(u, limit)
  BY <1>9 DEF take_open_human_chat_triggers
<1> QED
  BY <1>1, <1>2, <1>3, <1>4, <1>5, <1>6, <1>7, <1>8, <1>9, Zenon DEF QueueChange

\* One row when a wake arrives: only the row of that wake appears.
LEMMA QueueArrivalRows ==
  ASSUME QueueTypeOK, NEW t \in Triggers, QueueArrival(t), NEW u \in Triggers
  PROVE  /\ u # t \/ row[u].status # "absent" => RowStep(u, MaxRetries)
         /\ row'[u].status = "claimed" => row'[u] = row[u]
         /\ row'[u].retries \in {0, row[u].retries}
  BY DEF QueueTypeOK, RowType, Moved, Gone, AbsentRow, RowStep, QueueArrival, create_agent_trigger,
         EnqueuePreempting, Queued

\* Every statement keeps the queue well formed and its claims numbered.
QueueInv == QueueTypeOK /\ ClaimsAreNumbered

\* A step of the queue keeps that invariant.
LEMMA QueueInvStep ==
  ASSUME QueueInv, [QueueNext]_row
  PROVE  QueueInv'
<1>1. CASE UNCHANGED row
  BY <1>1 DEF QueueInv, QueueTypeOK, ClaimsAreNumbered, Claimed
<1>2. CASE QueueNext
  <2>1. QueueTypeOK'
    BY <1>2, QueueTypeStep DEF QueueInv
  <2>2. ASSUME NEW u \in Triggers, row'[u].status = "claimed" PROVE row'[u].gen # 0
    <3>1. row[u].gen \in Nat /\ (row[u].status = "claimed" => row[u].gen # 0)
      BY QueueAssumption DEF QueueInv, QueueTypeOK, RowType, ClaimsAreNumbered, Claimed
    <3>2. CASE QueueChange(MaxRetries)
      <4>1. RowStep(u, MaxRetries)
        BY <3>2, QueueChangeRows DEF QueueInv
      <4> QED
        BY <4>1, <3>1, <2>2 DEF RowStep
    <3>3. ASSUME NEW t \in Triggers, QueueArrival(t) PROVE row'[u].gen # 0
      <4>1. row'[u] = row[u]
        BY <3>3, <2>2, QueueArrivalRows DEF QueueInv
      <4> QED
        BY <4>1, <3>1, <2>2
    <3> QED
      BY <1>2, <3>2, <3>3 DEF QueueNext
  <2> QED
    BY <2>1, <2>2 DEF QueueInv, ClaimsAreNumbered, Claimed
<1> QED
  BY <1>1, <1>2

-----------------------------------------------------------------------------
\* Rows stay well formed under every statement of db/agent_triggers.py.
THEOREM QueueTypeInvariant == QueueSpec => []QueueTypeOK
<1>1. QueueInit => QueueInv
  BY RowFields DEF QueueInit, QueueInv, QueueTypeOK, ClaimsAreNumbered, Claimed, AbsentRow
<1>2. QueueInv /\ [QueueNext]_row => QueueInv'
  BY QueueInvStep
<1>3. QueueInv => QueueTypeOK
  BY DEF QueueInv
<1> QED
  BY <1>1, <1>2, <1>3, PTL DEF QueueSpec

\* A row that is completed, failed or deleted never goes back to queued or
\* claimed: a wake that was answered, given up or withdrawn is not run again.
THEOREM FinishedRowsStayFinished == QueueSpec => FinishedIsFinal
<1>1. ASSUME QueueTypeOK, QueueNext, NEW u \in Triggers,
             row[u].status \in {"completed", "failed", "deleted"}
      PROVE  row'[u].status \notin {"queued", "claimed"}
  <2>1. CASE QueueChange(MaxRetries)
    BY <1>1, <2>1, QueueChangeRows DEF RowStep
  <2>2. ASSUME NEW t \in Triggers, QueueArrival(t)
        PROVE  row'[u].status \notin {"queued", "claimed"}
    BY <1>1, <2>2, QueueArrivalRows DEF RowStep
  <2> QED
    BY <1>1, <2>1, <2>2 DEF QueueNext
<1>2. QueueTypeOK /\ [QueueNext]_row =>
        [\A t \in Triggers : row[t].status \in {"completed", "failed", "deleted"} =>
           row'[t].status \notin {"queued", "claimed"}]_row
  BY <1>1
<1> QED
  BY <1>2, QueueTypeInvariant, PTL DEF QueueSpec, FinishedIsFinal
=============================================================================
