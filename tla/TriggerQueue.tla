----------------------------- MODULE TriggerQueue -----------------------------
(***************************************************************************)
(* The durable trigger queue: table agent_triggers and the statements of    *)
(* db/agent_triggers.py that change it.                                     *)
(*                                                                          *)
(* A trigger is one wake of one agent.  Its row moves queued -> claimed ->  *)
(* completed or failed; a claim is named by the pair (trigger, generation), *)
(* and every statement that ends a claim names the generation it ends, so   *)
(* the turn of an old claim cannot touch the row of a newer one.            *)
(*                                                                          *)
(* Every operation below is one SQL statement or one transaction; between   *)
(* two of them the other process may run its own.  "UPDATE ... WHERE" that  *)
(* matches no row changes nothing, so most are total changes of row, and    *)
(* QueueNext says when the program may issue them.                          *)
(***************************************************************************)
EXTENDS Naturals, FiniteSets

CONSTANTS
  Triggers,     \* ids a trigger row may get; an id is used at most once
  Agents,       \* the agents that triggers wake
  AgentOf,      \* the agent each trigger wakes
  MergeKey,     \* (agent, type, task) of a mergeable trigger, else NoKey
  NoKey,        \* the key of a trigger that never merges
  MaxGen,       \* bound: claims one trigger may be given
  MaxRetries    \* bound: retries one trigger may be counted

ASSUME QueueAssumption ==
  /\ AgentOf \in [Triggers -> Agents]
  /\ MaxGen \in Nat
  /\ MaxRetries \in Nat

VARIABLE row    \* trigger id -> its row of agent_triggers

-----------------------------------------------------------------------------
\* "absent": no row yet.  "deleted": the row was deleted; ids are never reused.
Status == {"absent", "queued", "claimed", "completed", "failed", "deleted"}

RowType == [status : Status, gen : 0..MaxGen, retries : 0..MaxRetries,
            blocked : BOOLEAN]

AbsentRow == [status |-> "absent", gen |-> 0, retries |-> 0, blocked |-> FALSE]
Gone      == [AbsentRow EXCEPT !.status = "deleted"]

\* Row r moved to status s, and with one retry more counted.
Moved(r, s)   == [r EXCEPT !.status = s]
Retried(r, s) == [r EXCEPT !.status = s, !.retries = @ + 1]

QueueTypeOK == row \in [Triggers -> RowType]

Claims == Triggers \X (1..MaxGen)

Queued(t)   == row[t].status = "queued"
Claimed(t)  == row[t].status = "claimed"
Finished(t) == row[t].status \in {"completed", "failed"}
Held(c)     == Claimed(c[1]) /\ row[c[1]].gen = c[2]
ClaimOn(t)  == <<t, row[t].gen>>

-----------------------------------------------------------------------------
\* Queued rows that create_agent_trigger folds a new wake t into: it then rewrites
\* the payload of one, which no state here shows, and inserts nothing.
SameWake(t) == {u \in Triggers : /\ Queued(u)
                                 /\ MergeKey[t] # NoKey
                                 /\ MergeKey[u] = MergeKey[t]}

\* The INSERT of create_agent_trigger.
create_agent_trigger(t) ==
  /\ row[t].status = "absent"
  /\ row' = [row EXCEPT ![t] = Moved(@, "queued")]

claim_trigger(t) ==
  /\ Queued(t)
  /\ row[t].gen < MaxGen
  /\ row' = [row EXCEPT ![t].status = "claimed", ![t].gen = @ + 1]

\* The row of claim c ends in status s, unless the claim is no longer held.
End(c, s) ==
  row' = [row EXCEPT ![c[1]] = IF Held(c) THEN Moved(@, s) ELSE @]

complete_agent_trigger(c) == End(c, "completed")
fail_agent_trigger(c)     == End(c, "failed")

retry_agent_trigger(c, countRetry) ==
  row' = [row EXCEPT ![c[1]] =
            IF ~Held(c) THEN @
            ELSE IF countRetry THEN Retried(@, "queued") ELSE Moved(@, "queued")]

\* Neither the status nor the generation of the row is looked at.
mark_trigger_retry_blocked(t) ==
  row' = [row EXCEPT ![t].blocked = TRUE]

requeue_all_claimed_triggers ==
  row' = [t \in Triggers |->
            IF Claimed(t) /\ ~row[t].blocked
            THEN Moved(row[t], "queued") ELSE row[t]]

claimed_retry_blocked_triggers ==
  {ClaimOn(t) : t \in {u \in Triggers : Claimed(u) /\ row[u].blocked}}

\* Seeded fault: the generation of the claim is not looked at.
TakeAnyGeneration(cs) ==
  row' = [t \in Triggers |->
            IF Claimed(t) /\ \E c \in cs : c[1] = t
            THEN Gone ELSE row[t]]

\* Every claim in cs whose generation still holds its row is deleted.
take_claimed_trigger(cs) ==
  row' = [t \in Triggers |->
            IF Claimed(t) /\ ClaimOn(t) \in cs
            THEN Gone ELSE row[t]]

\* The delete_queued_triggers family: by agent, type, task, round, session,
\* channel.  Each deletes some of the queued rows and never a claimed one.
delete_queued_triggers(ts) ==
  row' = [t \in Triggers |->
            IF t \in ts /\ Queued(t) THEN Gone
                                     ELSE row[t]]

\* The open rows of ts in one of the statuses ss, whatever their generation;
\* delete_open_triggers takes both statuses.
take_open_human_chat_triggers(ts, ss) ==
  row' = [t \in Triggers |->
            IF t \in ts /\ row[t].status \in ss THEN Gone
                                              ELSE row[t]]

delete_open_triggers(ts) == take_open_human_chat_triggers(ts, {"queued", "claimed"})

prune_finished_triggers(ts) ==
  row' = [t \in Triggers |->
            IF t \in ts /\ Finished(t) THEN Gone
                                       ELSE row[t]]

-----------------------------------------------------------------------------
QueueInit == row = [t \in Triggers |-> AbsentRow]

\* human_chat: the wakes ts it preempts are deleted in the statement before it.
EnqueuePreempting(t, ts) ==
  /\ row[t].status = "absent"
  /\ row' = [u \in Triggers |->
               IF u = t THEN Moved(row[u], "queued")
               ELSE IF u \in ts /\ Queued(u) THEN Gone
               ELSE row[u]]

\* The statements that enqueue nothing new; a trigger's retries are counted up
\* to limit.
QueueChange(limit) ==
  \/ \E t \in Triggers :
       \/ claim_trigger(t)
       \/ row[t].status \notin {"absent", "deleted"} /\ mark_trigger_retry_blocked(t)
  \/ \E c \in Claims :
       \/ complete_agent_trigger(c)
       \/ fail_agent_trigger(c)
       \/ retry_agent_trigger(c, FALSE)
       \/ row[c[1]].retries < limit /\ retry_agent_trigger(c, TRUE)
  \/ requeue_all_claimed_triggers
  \/ \E cs \in SUBSET Claims : take_claimed_trigger(cs)
  \/ \E ts \in SUBSET Triggers : delete_queued_triggers(ts) \/ prune_finished_triggers(ts)
  \/ \E ts \in SUBSET Triggers, ss \in SUBSET {"queued", "claimed"} :
       take_open_human_chat_triggers(ts, ss)

QueueArrival(t) ==
  create_agent_trigger(t) \/ \E ts \in SUBSET Triggers : EnqueuePreempting(t, ts)

QueueNext == (\E t \in Triggers : QueueArrival(t)) \/ QueueChange(MaxRetries)

\* What the queue promises its users: rows change only by these statements, and
\* each is issued only where the program may issue it.
QueueSpec == QueueInit /\ [][QueueNext]_row
-----------------------------------------------------------------------------
\* A row that is completed, failed or deleted is never run again.
FinishedIsFinal ==
  [][\A t \in Triggers : row[t].status \in {"completed", "failed", "deleted"} =>
       row'[t].status \notin {"queued", "claimed"}]_row

\* A claim that was issued is named by its generation: no claim has generation 0.
ClaimsAreNumbered == \A t \in Triggers : Claimed(t) => row[t].gen # 0
=============================================================================
