--------------------------- MODULE AgentWakesProofs ---------------------------
(***************************************************************************)
(* AgentWakes uses the trigger queue as the queue allows, and the wakes of  *)
(* the operator's messages are neither lost nor doubled, for every number   *)
(* of messages, requests, triggers and faults.                              *)
(***************************************************************************)
EXTENDS AgentWakes, TriggerQueueProofs

-----------------------------------------------------------------------------
\* A trigger that is held has no row, one request holds it, and that is a rewind
\* which has not finished.
HeldOnce ==
  /\ \A r \in Requests : \A t \in req[r].held : row[t].status = "deleted"
  /\ \A r, s \in Requests : r # s => req[r].held \cap req[s].held = {}
  /\ \A r \in Requests : req[r].held # {} =>
       req[r].kind = "rewind" /\ req[r].at \in {"asking", "waiting", "cut", "requeue"}

\* A message whose wake was not filed yet has none.
UnfiledHaveNone ==
  \A t \in Triggers : Chat(t) /\ Alive(t) => routed[source[t]] \in {"filed", "lost"}

Base == TypeOK /\ ClaimsAreNumbered
IInv == Base /\ HeldOnce /\ UnfiledHaveNone /\ OneWakePerMessage /\ KeptIsWoken

-----------------------------------------------------------------------------
(* The rows.                                                               *)

\* Retry or exhaust is one of the statements of the queue.
LEMMA RetryIsAQueueStep ==
  ASSUME TypeOK, NEW c \in Claims, RetryOrExhaust(c)
  PROVE  QueueNext
<1>1. row[c[1]].retries \in Nat
  BY QueueAssumption DEF TypeOK, QueueTypeOK, RowType, Claims
<1>2. CASE row[c[1]].retries < RetryLimit
  <2>1. row[c[1]].retries < MaxRetries
    BY <1>1, <1>2, AgentWakesAssumption, QueueAssumption
  <2>2. retry_agent_trigger(c, TRUE)
    BY <1>2, Zenon DEF RetryOrExhaust
  <2> QED
    BY <2>1, <2>2, Zenon DEF QueueNext, QueueChange
<1>3. CASE ~(row[c[1]].retries < RetryLimit)
  BY <1>3, Zenon DEF RetryOrExhaust, QueueNext, QueueChange
<1> QED
  BY <1>2, <1>3

\* Filing a wake is one too.
LEMMA FilingIsAQueueStep ==
  ASSUME NEW m, FilesWake(m)
  PROVE  QueueNext
BY DEF FilesWake, Oldest, Fresh, QueueNext, QueueArrival

\* Every step changes the rows by a statement of the queue, or leaves them alone.
LEMMA RowsMove == ASSUME Base, Next PROVE QueueNext \/ UNCHANGED row
<1>1. CASE WorkerNext
  <2>1. CASE ClaimsNext
    BY <2>1 DEF ClaimsNext, NextQueued, Oldest, QueueNext, QueueChange
  <2>2. CASE TurnEnds
    <3>1. turn \in Claims
      BY <2>2 DEF TurnEnds, Base, TypeOK
    <3> QED
      BY <2>2, <3>1, RetryIsAQueueStep DEF TurnEnds, Base, QueueNext, QueueChange
  <2>3. ASSUME NEW t \in Triggers, Sweeps(t) PROVE QueueNext
    <3>1. ClaimOn(t) \in Claims
      BY <2>3, QueueAssumption
      DEF Sweeps, Base, TypeOK, QueueTypeOK, RowType, ClaimsAreNumbered, ClaimOn, Claims
    <3> QED
      BY <2>3, <3>1, RetryIsAQueueStep DEF Sweeps, Base
  <2>4. CASE Boot
    BY <2>4 DEF Boot, QueueNext, QueueChange
  <2>5. CASE Launches \/ \E r \in Requests : CommandRuns(r) \/ CommandDone(r)
    BY <2>5 DEF Launches, CommandRuns, CommandDone
  <2> QED
    BY <1>1, <2>1, <2>2, <2>3, <2>4, <2>5 DEF WorkerNext
<1>2. CASE AppNext
  <2>1. CASE OtherWake \/ \E m \in Messages : Files(m)
    BY <2>1, FilingIsAQueueStep DEF OtherWake, Files
  <2>2. CASE ClearsChat \/ AppDies \/ WorkerDies \/ \E m \in Messages : Sends(m)
    BY <2>2 DEF ClearsChat, AppDies, WorkerDies, Sends
  <2>3. ASSUME NEW r \in Requests, NEW m \in Messages, RewindFreezes(r, m) PROVE QueueNext
    BY <2>3 DEF RewindFreezes, QueueNext, QueueChange
  <2>4. ASSUME NEW r \in Requests, Cut(r) PROVE QueueNext \/ UNCHANGED row
    <3>1. ClaimedChats \in SUBSET Triggers /\ {"claimed"} \in SUBSET {"queued", "claimed"}
      BY DEF ClaimedChats
    <3> QED
      BY <2>4, <3>1 DEF Cut, QueueNext, QueueChange
  <2>5. ASSUME NEW r \in Requests, Takes(r) PROVE QueueNext
    <3>1. req[r].snap \in SUBSET Claims
      BY DEF Base, TypeOK, Request
    <3> QED
      BY <2>5, <3>1 DEF Takes, QueueNext, QueueChange
  <2>6. ASSUME NEW r \in Requests, Deletes(r) PROVE QueueNext
    BY <2>6 DEF Deletes, delete_open_triggers, QueueNext, QueueChange
  <2>7. ASSUME NEW r \in Requests, Requeues(r) PROVE QueueNext
    BY <2>7, FilingIsAQueueStep DEF Requeues
  <2>8. ASSUME NEW r \in Requests,
               \/ \E kind \in {"discard", "reset"} : CancelBegins(r, kind)
               \/ ResetAsks(r) \/ ResetDone(r) \/ GivesUp(r) \/ RequeueRaises(r)
        PROVE  UNCHANGED row
    BY <2>8 DEF CancelBegins, ResetAsks, ResetDone, GivesUp, RequeueRaises
  <2> QED
    BY <1>2, <2>1, <2>2, <2>3, <2>4, <2>5, <2>6, <2>7, <2>8 DEF AppNext, RequestGoesOn
<1> QED
  BY <1>1, <1>2 DEF Next

\* A step of the chat keeps the queue typed and its claims numbered.
LEMMA QueueStays ==
  ASSUME Base, [Next]_vars
  PROVE  [QueueNext]_row /\ QueueTypeOK' /\ ClaimsAreNumbered'
<1>1. [QueueNext]_row
  BY RowsMove DEF vars
<1> QED
  BY <1>1, QueueInvStep DEF QueueInv, Base, TypeOK

-----------------------------------------------------------------------------
(* The type invariant.                                                     *)

\* The records a request moves through.
LEMMA RequestForms ==
  /\ \A at \in At : Blank(at) \in Request
  /\ \A ts \in SUBSET Triggers : Requeuing(ts) \in Request
<1>1. ASSUME NEW at \in At PROVE Blank(at) \in Request
  BY DEF Blank, Request, Kinds
<1>2. ASSUME NEW ts \in SUBSET Triggers PROVE Requeuing(ts) \in Request
  <2>1. Blank("done") \in Request /\ Blank("requeue") \in Request
    BY <1>1 DEF At
  <2>2. [Blank("requeue") EXCEPT !.held = ts] \in Request
    BY DEF Blank, Request, Kinds, At
  <2> QED
    BY <2>1, <2>2 DEF Requeuing
<1> QED
  BY <1>1, <1>2

\* An upset is paid for.
LEMMA UpsetsArePaid == ASSUME Base, Upset PROVE left' \in 0..MaxUpsets
BY AgentWakesAssumption DEF Base, TypeOK, Upset

\* What the worker does keeps the types of everything but the rows.
LEMMA WorkerTypes ==
  ASSUME Base, WorkerNext \/ WorkerDies, QueueTypeOK'
  PROVE  TypeOK'
<1> USE DEF Base, TypeOK, appVars, workerVars
<1>1. CASE ClaimsNext
  <2>1. ASSUME NEW t \in Triggers, claim_trigger(t) PROVE <<t, row[t].gen + 1>> \in Claims
    BY <2>1, QueueAssumption DEF claim_trigger, QueueTypeOK, RowType, Claims
  <2> QED
    BY <1>1, <2>1 DEF ClaimsNext, NextQueued, Oldest
<1>2. CASE Launches \/ TurnEnds
  BY <1>2, UpsetsArePaid DEF Launches, TurnEnds
<1>5. CASE Boot \/ WorkerDies
  BY <1>5, UpsetsArePaid DEF Boot, WorkerDies, WorkerGone
<1>3. ASSUME NEW t \in Triggers, Sweeps(t) PROVE TypeOK'
  BY <1>3 DEF Sweeps
<1>4. ASSUME NEW r \in Requests, CommandRuns(r) \/ CommandDone(r) PROVE TypeOK'
  BY <1>4 DEF CommandRuns, CommandDone
<1> QED
  BY <1>1, <1>2, <1>3, <1>4, <1>5 DEF WorkerNext

\* So do the messages and wakes the app files, clears or loses.
LEMMA MessageTypes ==
  ASSUME Base, QueueTypeOK',
         \/ \E m \in Messages : Sends(m) \/ Files(m)
         \/ OtherWake \/ ClearsChat \/ AppDies
  PROVE  TypeOK'
<1> USE DEF Base, TypeOK, appVars, workerVars
<1>1. ASSUME NEW m \in Messages, Sends(m) PROVE TypeOK'
  BY <1>1 DEF Sends
<1>2. ASSUME NEW m \in Messages \cup {NoMessage}, FilesWake(m)
      PROVE  source' \in [Triggers -> Messages \cup {NoMessage}]
  BY <1>2 DEF FilesWake, Oldest, Fresh
<1>3. ASSUME NEW m \in Messages, Files(m) PROVE TypeOK'
  BY <1>2, <1>3 DEF Files
<1>4. CASE OtherWake
  BY <1>2, <1>4, UpsetsArePaid DEF OtherWake
<1>5. CASE ClearsChat
  BY <1>5, UpsetsArePaid DEF ClearsChat
<1>6. CASE AppDies
  <2>1. givenUp' \subseteq Messages
    BY <1>6 DEF AppDies, Sources
  <2>2. req' \in [Requests -> Request]
    BY <1>6, RequestForms DEF AppDies, At
  <2> QED
    BY <1>6, <2>1, <2>2, UpsetsArePaid DEF AppDies, WorkerGone
<1> QED
  BY <1>1, <1>3, <1>4, <1>5, <1>6

\* And so do the requests.
LEMMA RequestTypes ==
  ASSUME Base, QueueTypeOK', NEW r \in Requests,
         \/ \E m \in Messages : RewindFreezes(r, m)
         \/ \E kind \in {"discard", "reset"} : CancelBegins(r, kind)
         \/ RequestGoesOn(r) \/ RequeueRaises(r)
  PROVE  TypeOK'
<1> USE DEF Base, TypeOK, appVars, workerVars, ReqFrame
<1>1. req[r] \in Request /\ req[r].held \in SUBSET Triggers
  BY DEF Request
<1>2. ASSUME NEW m \in Messages, RewindFreezes(r, m) PROVE TypeOK'
  <2>1. req'[r] \in Request
    BY <1>2 DEF RewindFreezes, Request, Kinds, At
  <2> QED
    BY <1>2, <2>1 DEF RewindFreezes
<1>3. ASSUME NEW kind \in {"discard", "reset"}, CancelBegins(r, kind) PROVE TypeOK'
  <2>1. req'[r] \in Request
    BY <1>1, <1>3 DEF CancelBegins, Request, Kinds, At
  <2> QED
    BY <1>3, <2>1 DEF CancelBegins
<1>4. CASE ResetAsks(r)
  <2>1. req'[r] \in Request
    BY <1>1, <1>4 DEF ResetAsks, Onward, Request, At
  <2> QED
    BY <1>4, <2>1 DEF ResetAsks
<1>5. CASE ResetDone(r)
  <2>1. req'[r] \in Request
    BY <1>1, <1>5 DEF ResetDone, Onward, Request, At
  <2> QED
    BY <1>5, <2>1 DEF ResetDone
<1>6. CASE GivesUp(r)
  <2>1. Requeuing(req[r].held) \in Request
    BY <1>1, RequestForms
  <2> QED
    BY <1>6, <2>1 DEF GivesUp, LockReturned
<1>7. CASE Cut(r)
  <2>1. Kept(r) \in SUBSET Triggers
    BY <1>1 DEF Kept, ClaimedChats
  <2>2. Requeuing(Kept(r)) \in Request /\ Requeuing(req[r].held) \in Request
    BY <1>1, <2>1, RequestForms
  <2> QED
    BY <1>7, <2>2, UpsetsArePaid DEF Cut, HeldAfterRollback
<1>8. CASE Requeues(r)
  <2>1. ASSUME NEW t \in Oldest(req[r].held), FilesWake(source[t])
        PROVE  source' \in [Triggers -> Messages \cup {NoMessage}]
    BY <1>1, <2>1 DEF FilesWake, Oldest, Fresh
  <2>2. ASSUME NEW t PROVE Requeuing(req[r].held \ {t}) \in Request
    BY <1>1, RequestForms
  <2> QED
    BY <1>8, <2>1, <2>2 DEF Requeues
<1>9. CASE RequeueRaises(r) \/ Takes(r) \/ Deletes(r)
  <2>1. Blank("done") \in Request
    BY RequestForms DEF At
  <2>2. givenUp' \subseteq Messages
    BY <1>9 DEF RequeueRaises, Takes, Deletes, Sources
  <2> QED
    BY <1>9, <2>1, <2>2, UpsetsArePaid DEF RequeueRaises, Takes, Deletes
<1> QED
  BY <1>2, <1>3, <1>4, <1>5, <1>6, <1>7, <1>8, <1>9 DEF RequestGoesOn

\* Together, in any step.
LEMMA BaseStep == ASSUME Base, [Next]_vars PROVE Base'
<1>1. QueueTypeOK' /\ ClaimsAreNumbered'
  BY QueueStays
<1>2. CASE UNCHANGED vars
  BY <1>1, <1>2 DEF vars, workerVars, appVars, Base, TypeOK
<1>3. CASE Next
  BY <1>1, <1>3, WorkerTypes, MessageTypes, RequestTypes DEF Next, AppNext, Base
<1> QED
  BY <1>2, <1>3

-----------------------------------------------------------------------------
(* Wakes and messages.                                                     *)

Standing(t) == row[t].status \in {"queued", "claimed", "completed", "failed"}

\* A wake that is alive has a row, or a rewind holds it.
LEMMA AliveIs ==
  /\ \A t : Alive(t) <=> Standing(t) \/ \E r \in Requests : t \in req[r].held
  /\ \A t : Alive(t)' <=> Standing(t)' \/ \E r \in Requests : t \in req'[r].held
BY DEF Alive, Standing, Open, Queued, Claimed, Finished, HeldAnywhere

\* A step that files no wake: none comes alive, and one that dies is the wake of a
\* message that is gone or given up.
Quiet ==
  /\ source' = source /\ givenUp \subseteq givenUp'
  /\ \A m \in Messages : \/ routed'[m] = routed[m]
                         \/ routed[m] = "unsent" /\ routed'[m] = "shown"
                         \/ routed[m] = "shown" /\ routed'[m] = "lost"
  /\ \A m \in dm' : m \in dm \/ routed'[m] = "shown"
  /\ \A t \in Triggers : Alive(t)' => Alive(t)
  /\ \A t \in Triggers : Chat(t) /\ Alive(t) /\ ~Alive(t)' =>
                           source[t] \notin dm' \/ source[t] \in givenUp'
  /\ HeldOnce'

\* A step that files wake u for m: any other wake of m is dead after it.
NewWake(u, m) ==
  /\ u \in Triggers /\ ~Alive(u) /\ source' = [source EXCEPT ![u] = m]
  /\ Alive(u)' /\ m \in Messages \cup {NoMessage}
  /\ m \in Messages => routed'[m] \in {"filed", "lost"}
  /\ \A n \in Messages : n # m => routed'[n] = routed[n]
  /\ dm' = dm /\ givenUp' = givenUp
  /\ \A t \in Triggers \ {u} : Alive(t)' => Alive(t)
  /\ \A t \in Triggers \ {u} : source[t] = m /\ Chat(t) => ~Alive(t)'
  /\ \A t \in Triggers \ {u} : Chat(t) /\ Alive(t) /\ source[t] # m => Alive(t)'
  /\ HeldOnce'

WakeInv == UnfiledHaveNone /\ OneWakePerMessage /\ KeptIsWoken

\* A quiet step neither loses nor doubles a wake.
LEMMA QuietKeeps == ASSUME IInv, Quiet, Base' PROVE WakeInv'
<1> USE DEF IInv, Base, TypeOK
<1>1. UnfiledHaveNone'
  BY DEF Quiet, UnfiledHaveNone, Chat
<1>2. OneWakePerMessage'
  BY DEF Quiet, OneWakePerMessage, Chat
<1>3. KeptIsWoken'
  <2> SUFFICES ASSUME NEW m \in dm', routed'[m] = "filed", m \notin givenUp'
               PROVE  \E t \in Triggers : source'[t] = m /\ Alive(t)'
    BY DEF KeptIsWoken
  <2>1. m \in dm /\ m \in Messages /\ routed[m] = "filed" /\ m \notin givenUp
    BY DEF Quiet
  <2>2. PICK t \in Triggers : source[t] = m /\ Alive(t)
    BY <2>1 DEF KeptIsWoken
  <2>3. Chat(t)
    BY <2>1, <2>2, AgentWakesAssumption DEF Chat
  <2> QED
    BY <2>1, <2>2, <2>3 DEF Quiet
<1> QED
  BY <1>1, <1>2, <1>3 DEF WakeInv

\* Nor does one that files a wake.
LEMMA NewWakeKeeps == ASSUME IInv, NEW u, NEW m, NewWake(u, m), Base' PROVE WakeInv'
<1> USE DEF IInv, Base, TypeOK
<1>1. source'[u] = m /\ \A t \in Triggers \ {u} : source'[t] = source[t]
  BY DEF NewWake
<1>2. UnfiledHaveNone'
  <2> SUFFICES ASSUME NEW t \in Triggers, Chat(t)', Alive(t)'
               PROVE  routed'[source'[t]] \in {"filed", "lost"}
    BY DEF UnfiledHaveNone
  <2>1. CASE t = u
    BY <1>1, <2>1 DEF NewWake, Chat
  <2>2. CASE t # u
    <3>1. Chat(t) /\ Alive(t) /\ source'[t] = source[t] /\ source[t] \in Messages
      BY <1>1, <2>2 DEF NewWake, Chat
    <3> QED
      BY <3>1 DEF NewWake, UnfiledHaveNone
  <2> QED
    BY <2>1, <2>2
<1>3. OneWakePerMessage'
  <2> SUFFICES ASSUME NEW t \in Triggers, NEW v \in Triggers, Chat(t)', source'[t] = source'[v],
                      Alive(t)', Alive(v)', t # v
               PROVE  FALSE
    BY DEF OneWakePerMessage
  <2>1. CASE t = u \/ v = u
    BY <1>1, <2>1 DEF NewWake, Chat
  <2>2. CASE t # u /\ v # u
    BY <1>1, <2>2 DEF NewWake, Chat, OneWakePerMessage
  <2> QED
    BY <2>1, <2>2
<1>4. KeptIsWoken'
  <2> SUFFICES ASSUME NEW n \in dm', routed'[n] = "filed", n \notin givenUp'
               PROVE  \E t \in Triggers : source'[t] = n /\ Alive(t)'
    BY DEF KeptIsWoken
  <2>1. CASE n = m
    BY <1>1, <2>1 DEF NewWake
  <2>2. CASE n # m
    <3>1. n \in dm /\ n \in Messages /\ routed[n] = "filed" /\ n \notin givenUp
      BY <2>2 DEF NewWake
    <3>2. PICK t \in Triggers : source[t] = n /\ Alive(t)
      BY <3>1 DEF KeptIsWoken
    <3>3. t # u /\ Chat(t)
      BY <3>1, <3>2, AgentWakesAssumption DEF NewWake, Chat
    <3> QED
      BY <1>1, <2>2, <3>2, <3>3 DEF NewWake
  <2> QED
    BY <2>1, <2>2
<1> QED
  BY <1>2, <1>3, <1>4 DEF WakeInv

-----------------------------------------------------------------------------
(* The steps.                                                              *)

\* What the worker does to a row keeps it standing, or deleted.
LEMMA WorkerIsQuiet == ASSUME IInv, WorkerNext \/ WorkerDies PROVE Quiet
<1> USE DEF IInv, Base, TypeOK, QueueTypeOK
<1>1. UNCHANGED <<source, dm, routed, req, givenUp>>
  BY DEF WorkerNext, WorkerDies, ClaimsNext, Launches, TurnEnds, Sweeps, Boot, CommandRuns,
         CommandDone, appVars
<1>2. ASSUME NEW c \in Claims, NEW t \in Triggers, complete_agent_trigger(c) \/ RetryOrExhaust(c)
      PROVE  (Standing(t)' <=> Standing(t)) /\ (row[t].status = "deleted" => row'[t] = row[t])
  <2>1. CASE complete_agent_trigger(c) \/ fail_agent_trigger(c)
    BY <2>1 DEF complete_agent_trigger, fail_agent_trigger, End, Held, Claimed, Moved, Standing,
                RowType, Claims
  <2>2. CASE retry_agent_trigger(c, TRUE)
    BY <2>2 DEF retry_agent_trigger, Held, Claimed, Retried, Standing, RowType, Claims
  <2> QED
    BY <1>2, <2>1, <2>2, Zenon DEF RetryOrExhaust
<1>3. ASSUME NEW t \in Triggers
      PROVE  (Standing(t)' <=> Standing(t)) /\ (row[t].status = "deleted" => row'[t] = row[t])
  <2>1. CASE ClaimsNext
    BY <2>1 DEF ClaimsNext, NextQueued, Oldest, claim_trigger, Queued, Standing, RowType
  <2>2. CASE TurnEnds
    <3>1. turn \in Claims
      BY <2>2 DEF TurnEnds
    <3> QED
      BY <1>2, <2>2, <3>1 DEF TurnEnds
  <2>3. ASSUME NEW u \in Triggers, Sweeps(u)
        PROVE  (Standing(t)' <=> Standing(t)) /\ (row[t].status = "deleted" => row'[t] = row[t])
    <3>1. ClaimOn(u) \in Claims
      BY <2>3, QueueAssumption DEF Sweeps, RowType, ClaimsAreNumbered, ClaimOn, Claims
    <3> QED
      BY <1>2, <2>3, <3>1 DEF Sweeps
  <2>4. CASE Boot
    BY <2>4 DEF Boot, requeue_all_claimed_triggers, Claimed, Moved, Standing, RowType
  <2>5. CASE Launches \/ WorkerDies \/ \E r \in Requests : CommandRuns(r) \/ CommandDone(r)
    BY <2>5 DEF Launches, WorkerDies, CommandRuns, CommandDone, Standing
  <2> QED
    BY <2>1, <2>2, <2>3, <2>4, <2>5 DEF WorkerNext
<1>4. \A r \in Requests : req[r].held \subseteq Triggers
  BY DEF Request
<1>5. HeldOnce'
  BY <1>1, <1>3, <1>4 DEF HeldOnce
<1> QED
  BY <1>1, <1>3, <1>5, AliveIs DEF Quiet

\* So is what the app does to messages and rows without filing a wake.
LEMMA MessagesAreQuiet ==
  ASSUME IInv, ClearsChat \/ \E m \in Messages : Sends(m)
  PROVE  Quiet
<1> USE DEF IInv, Base, TypeOK
<1>1. UNCHANGED <<row, source, req, givenUp>>
  BY DEF ClearsChat, Sends, appVars
<1>2. HeldOnce' /\ \A t : Alive(t)' <=> Alive(t)
  BY <1>1, AliveIs DEF HeldOnce, Standing
<1>3. CASE ClearsChat
  BY <1>1, <1>2, <1>3 DEF ClearsChat, Quiet
<1>4. ASSUME NEW m \in Messages, Sends(m) PROVE Quiet
  BY <1>1, <1>2, <1>4 DEF Sends, Quiet
<1> QED
  BY <1>3, <1>4

\* The crash of the app gives up what its requests held and what it had not filed.
LEMMA AppCrashIsQuiet == ASSUME IInv, AppDies PROVE Quiet
<1> USE DEF IInv, Base, TypeOK
<1>1. UNCHANGED <<row, source, dm>>
  BY DEF AppDies
<1>2. \A r \in Requests : req'[r].held = {}
  BY DEF AppDies, HeldOnce, Blank
<1>3. HeldOnce'
  BY <1>2 DEF HeldOnce
<1>4. ASSUME NEW t \in Triggers
      PROVE  /\ Alive(t)' => Alive(t)
             /\ Chat(t) /\ Alive(t) /\ ~Alive(t)' => source[t] \in givenUp'
  BY <1>1, <1>2, AliveIs DEF AppDies, Sources, HeldAnywhere, Standing, Chat
<1>5. \A m \in Messages : routed'[m] = routed[m] \/ (routed[m] = "shown" /\ routed'[m] = "lost")
  BY DEF AppDies
<1> QED
  BY <1>1, <1>3, <1>4, <1>5 DEF Quiet, AppDies

\* What a request is left with when it ends or goes on to queue wakes again.
LEMMA HeldOf ==
  /\ \A at : Blank(at).held = {} /\ Blank(at).at = at /\ Blank(at).kind = "rewind"
  /\ \A ts : /\ Requeuing(ts).held = ts /\ Requeuing(ts).kind = "rewind"
             /\ ts # {} => Requeuing(ts).at = "requeue"
<1>1. \A at : Blank(at).held = {} /\ Blank(at).at = at /\ Blank(at).kind = "rewind"
  BY DEF Blank
<1> QED
  BY <1>1 DEF Requeuing, Blank

\* Steps of a request that change no row and hold the same triggers.
LEMMA WaitingIsQuiet ==
  ASSUME IInv, NEW r \in Requests,
         \/ \E kind \in {"discard", "reset"} : CancelBegins(r, kind)
         \/ ResetAsks(r) \/ ResetDone(r) \/ GivesUp(r)
  PROVE  Quiet
<1> USE DEF IInv, Base, TypeOK, ReqFrame, appVars
<1>1. UNCHANGED <<row, source, dm, routed, givenUp>>
  BY DEF CancelBegins, ResetAsks, ResetDone, GivesUp
<1>2. req[r] \in Request
  OBVIOUS
<1>3. \A s \in Requests : s # r => req'[s] = req[s]
  BY DEF CancelBegins, ResetAsks, ResetDone, GivesUp
<1> DEFINE SameHeld ==
      /\ req'[r].held = req[r].held
      /\ req[r].held # {} =>
           req'[r].kind = "rewind" /\ req'[r].at \in {"asking", "waiting", "cut", "requeue"}
<1>4. SameHeld
  <2>1. ASSUME NEW kind \in {"discard", "reset"}, CancelBegins(r, kind) PROVE SameHeld
    BY <1>2, <2>1 DEF CancelBegins, Begins, Request, HeldOnce
  <2>2. CASE ResetAsks(r)
    BY <1>2, <2>2 DEF ResetAsks, Onward, Request, HeldOnce
  <2>3. CASE ResetDone(r)
    BY <1>2, <2>3 DEF ResetDone, Onward, Request, HeldOnce
  <2>4. CASE GivesUp(r)
    <3>1. req'[r] = Requeuing(req[r].held)
      BY <2>4 DEF GivesUp
    <3> QED
      BY <3>1, HeldOf
  <2> QED
    BY <2>1, <2>2, <2>3, <2>4
<1>5. \A s \in Requests : req'[s].held = req[s].held
  BY <1>3, <1>4
<1>6. HeldOnce'
  BY <1>1, <1>3, <1>4, <1>5 DEF HeldOnce
<1> QED
  BY <1>1, <1>5, <1>6, AliveIs DEF Quiet, Standing

\* A rewind takes queued chats and holds them; what another one holds has no row.
LEMMA FreezeIsQuiet ==
  ASSUME IInv, NEW r \in Requests, NEW m \in Messages, RewindFreezes(r, m)
  PROVE  Quiet
<1> USE DEF IInv, Base, TypeOK, QueueTypeOK, ReqFrame
<1> DEFINE held == {t \in Triggers : Queued(t) /\ Chat(t)}
<1>1. UNCHANGED <<source, dm, routed, givenUp>>
  BY DEF RewindFreezes
<1>2. req[r].held = {}
  BY DEF RewindFreezes, Begins, HeldOnce
<1>3. /\ req'[r].held = held /\ req'[r].kind = "rewind" /\ req'[r].at \in {"asking", "cut"}
      /\ \A s \in Requests : s # r => req'[s] = req[s]
  BY DEF RewindFreezes
<1>4. \A t \in Triggers : row'[t] = IF t \in held THEN Gone ELSE row[t]
  BY DEF RewindFreezes, take_open_human_chat_triggers, Queued
<1>5. \A t \in held : row'[t].status = "deleted" /\ row[t].status = "queued"
  BY <1>4 DEF Queued, Gone, AbsentRow
<1>6. \A s \in Requests : req[s].held \subseteq Triggers
  BY DEF Request
<1>7. HeldOnce'
  <2>1. \A s \in Requests : s # r => \A t \in req[s].held : row'[t] = row[t] /\ t \notin held
    BY <1>4, <1>5, <1>6 DEF HeldOnce
  <2> QED
    BY <1>3, <1>5, <2>1 DEF HeldOnce
<1>8. \A t \in Triggers : Alive(t)' <=> Alive(t)
  BY <1>2, <1>3, <1>4, <1>5, AliveIs DEF Standing
<1> QED
  BY <1>1, <1>7, <1>8 DEF Quiet

\* The cut kills the wakes of removed messages only.
LEMMA CutIsQuiet == ASSUME IInv, NEW r \in Requests, Cut(r) PROVE Quiet
<1> USE DEF IInv, Base, TypeOK, QueueTypeOK
<1>1. UNCHANGED <<source, routed, givenUp>> /\ \A s \in Requests : s # r => req'[s] = req[s]
  BY DEF Cut
<1>2. \A s \in Requests : req[s].held \subseteq Triggers
  BY DEF Request
<1>3. CASE UNCHANGED <<row, dm>> /\ req' = [req EXCEPT ![r] = Requeuing(req[r].held)]
  <2>1. req'[r] = Requeuing(req[r].held)
    BY <1>3
  <2>2. \A s \in Requests : req'[s].held = req[s].held
    BY <1>1, <2>1, HeldOf
  <2>3. HeldOnce'
    BY <1>1, <1>3, <2>1, <2>2, HeldOf DEF HeldOnce
  <2> QED
    BY <1>1, <1>3, <2>2, <2>3, AliveIs DEF Quiet, Standing
<1>4. CASE /\ dm' = dm \ Removed(r)
           /\ take_open_human_chat_triggers(ClaimedChats, {"claimed"})
           /\ req' = [req EXCEPT ![r] = Requeuing(Kept(r))]
  <2>1. req'[r] = Requeuing(Kept(r))
    BY <1>4
  <2>2. \A t \in Triggers : row'[t] = IF t \in ClaimedChats THEN Gone ELSE row[t]
    BY <1>4 DEF take_open_human_chat_triggers, ClaimedChats, Claimed
  <2>3. \A t \in ClaimedChats : row'[t].status = "deleted" /\ row[t].status = "claimed"
    BY <2>2 DEF ClaimedChats, Claimed, Gone, AbsentRow
  <2>4. Kept(r) \subseteq req[r].held \cup ClaimedChats
    BY DEF Kept
  <2>5. HeldOnce'
    <3>1. \A s \in Requests : \A t \in req[s].held : row'[t] = row[t] /\ t \notin ClaimedChats
      BY <1>2, <2>2, <2>3 DEF HeldOnce
    <3>2. \A t \in Kept(r) : row'[t].status = "deleted"
      BY <2>3, <2>4, <3>1 DEF HeldOnce
    <3> QED
      BY <1>1, <2>1, <2>4, <3>1, <3>2, HeldOf DEF HeldOnce
  <2>6. ASSUME NEW t \in Triggers PROVE Alive(t)' => Alive(t)
    BY <1>1, <2>1, <2>2, <2>3, <2>4, AliveIs, HeldOf DEF Standing
  <2>7. ASSUME NEW t \in Triggers, Alive(t), ~Alive(t)' PROVE source[t] \notin dm'
    <3>1. t \in req[r].held \cup ClaimedChats /\ t \notin Kept(r)
      BY <1>1, <2>1, <2>2, <2>7, AliveIs, HeldOf DEF Standing
    <3>2. source[t] \in Removed(r)
      BY <3>1 DEF Kept
    <3> QED
      BY <1>4, <3>2
  <2> QED
    BY <1>1, <1>4, <2>5, <2>6, <2>7 DEF Quiet
<1> QED
  BY <1>3, <1>4 DEF Cut, HeldAfterRollback

\* A discard, a reset and a failed requeue give up the messages whose wakes they kill.
LEMMA GivingUpIsQuiet ==
  ASSUME IInv, NEW r \in Requests, Takes(r) \/ Deletes(r) \/ RequeueRaises(r)
  PROVE  Quiet
<1> USE DEF IInv, Base, TypeOK, QueueTypeOK, ReqFrame
<1>1. UNCHANGED <<source, dm, routed>>
  BY DEF Takes, Deletes, RequeueRaises
<1>2. req'[r].held = {} /\ \A s \in Requests : s # r => req'[s] = req[s]
  BY HeldOf DEF Takes, Deletes, RequeueRaises
<1>3. /\ givenUp \subseteq givenUp'
      /\ \A t \in Triggers : row'[t] \in {row[t], Gone}
      /\ \A t \in Triggers : row[t].status = "deleted" => row'[t] = row[t]
      /\ \A t \in Triggers : Chat(t) /\ Standing(t) /\ row'[t] # row[t] => source[t] \in givenUp'
      /\ \A t \in req[r].held : Chat(t) => source[t] \in givenUp'
  <2>1. CASE Takes(r)
    <3>1. req[r].held = {}
      BY <2>1 DEF Takes, HeldOnce
    <3>2. \A t \in Triggers : row'[t] = IF Claimed(t) /\ ClaimOn(t) \in req[r].snap
                                        THEN Gone ELSE row[t]
      BY <2>1 DEF Takes, take_claimed_trigger
    <3>3. ASSUME NEW t \in Triggers, Chat(t), Claimed(t), ClaimOn(t) \in req[r].snap
          PROVE  source[t] \in givenUp'
      <4>1. Held(ClaimOn(t)) /\ ClaimOn(t)[1] = t
        BY <3>3 DEF Held, ClaimOn, Claimed
      <4>2. source[t] \in Messages
        BY <3>3 DEF Chat
      <4> QED
        BY <2>1, <3>3, <4>1, <4>2 DEF Takes, Sources
    <3> QED
      BY <2>1, <3>1, <3>2, <3>3 DEF Takes, Claimed
  <2>2. CASE Deletes(r)
    <3>1. req[r].held = {}
      BY <2>2 DEF Deletes, HeldOnce
    <3>2. \A t \in Triggers : row'[t] = IF Open(t) THEN Gone ELSE row[t]
      BY <2>2 DEF Deletes, delete_open_triggers, take_open_human_chat_triggers, Open, Queued, Claimed
    <3> QED
      BY <2>2, <3>1, <3>2 DEF Deletes, Sources, Open, Queued, Claimed, Chat
  <2>3. CASE RequeueRaises(r)
    <3>1. req[r].held \subseteq Triggers
      BY DEF Request
    <3> QED
      BY <2>3, <3>1 DEF RequeueRaises, Sources, Chat
  <2> QED
    BY <2>1, <2>2, <2>3
<1>4. HeldOnce'
  <2>1. \A s \in Requests : req[s].held \subseteq Triggers
    BY DEF Request
  <2> QED
    BY <1>2, <1>3, <2>1 DEF HeldOnce
<1>5. ASSUME NEW t \in Triggers
      PROVE  /\ Alive(t)' => Alive(t)
             /\ Chat(t) /\ Alive(t) /\ ~Alive(t)' => source[t] \in givenUp'
  <2>1. Standing(t)' => Standing(t)
    BY <1>3 DEF Standing, Gone, AbsentRow
  <2>2. Standing(t) /\ ~Standing(t)' => row'[t] # row[t]
    BY DEF Standing
  <2> QED
    BY <1>2, <1>3, <2>1, <2>2, AliveIs
<1> QED
  BY <1>1, <1>3, <1>4, <1>5 DEF Quiet

\* The rows when a wake is filed: one appears, and only wakes that answer no message
\* go.
LEMMA FilingRows ==
  ASSUME IInv, NEW m, FilesWake(m)
  PROVE  \E u \in Triggers :
           /\ row[u].status = "absent" /\ row'[u].status = "queued"
           /\ source' = [source EXCEPT ![u] = m]
           /\ \A t \in Triggers \ {u} :
                row'[t] = row[t] \/ (~Chat(t) /\ Queued(t) /\ row'[t] = Gone)
<1> USE DEF IInv, Base, TypeOK, QueueTypeOK
<1>1. PICK u \in Oldest(Fresh) :
        /\ EnqueuePreempting(u, {t \in Triggers : m # NoMessage /\ ~Chat(t)})
        /\ source' = [source EXCEPT ![u] = m]
  BY DEF FilesWake
<1>2. u \in Triggers /\ row[u].status = "absent"
  BY <1>1 DEF Oldest, Fresh
<1>3. row'[u].status = "queued"
  BY <1>1, <1>2 DEF EnqueuePreempting, Moved, RowType
<1>4. \A t \in Triggers \ {u} : row'[t] = row[t] \/ (~Chat(t) /\ Queued(t) /\ row'[t] = Gone)
  BY <1>1 DEF EnqueuePreempting
<1> QED
  BY <1>1, <1>2, <1>3, <1>4

\* The first wake of a message, or one that answers none.
LEMMA FilesNewWake ==
  ASSUME IInv, OtherWake \/ \E m \in Messages : Files(m)
  PROVE  \E u, m : NewWake(u, m)
<1> USE DEF IInv, Base, TypeOK, QueueTypeOK, appVars
<1>1. UNCHANGED <<dm, givenUp, req>>
  BY DEF OtherWake, Files
<1>2. PICK m \in Messages \cup {NoMessage} :
        /\ FilesWake(m)
        /\ m \in Messages => routed[m] = "shown" /\ routed' = [routed EXCEPT ![m] = "filed"]
        /\ m \notin Messages => routed' = routed
  <2>1. CASE OtherWake
    BY <2>1, AgentWakesAssumption DEF OtherWake
  <2>2. ASSUME NEW n \in Messages, Files(n)
        PROVE  /\ FilesWake(n)
               /\ routed[n] = "shown" /\ routed' = [routed EXCEPT ![n] = "filed"]
    BY <2>2 DEF Files
  <2> QED
    BY <2>1, <2>2
<1>3. PICK u \in Triggers :
        /\ row[u].status = "absent" /\ row'[u].status = "queued"
        /\ source' = [source EXCEPT ![u] = m]
        /\ \A t \in Triggers \ {u} :
             row'[t] = row[t] \/ (~Chat(t) /\ Queued(t) /\ row'[t] = Gone)
  BY <1>2, FilingRows
<1>4. HeldOnce' /\ ~Alive(u) /\ Alive(u)'
  <2>1. \A s \in Requests : \A t \in req[s].held :
          t \in Triggers \ {u} /\ ~Queued(t) /\ row'[t] = row[t]
    BY <1>3 DEF HeldOnce, Request, Queued
  <2> QED
    BY <1>1, <1>3, <2>1, AliveIs DEF HeldOnce, Standing
<1>5. \A t \in Triggers \ {u} : (Alive(t)' => Alive(t)) /\ (Chat(t) /\ Alive(t) => Alive(t)')
  BY <1>1, <1>3, AliveIs DEF Standing, Gone, AbsentRow
<1>6. \A t \in Triggers \ {u} : source[t] = m /\ Chat(t) => ~Alive(t)
  BY <1>2 DEF UnfiledHaveNone, Chat
<1>7. NewWake(u, m)
  BY <1>1, <1>2, <1>3, <1>4, <1>5, <1>6 DEF NewWake
<1> QED
  BY <1>7

\* A held wake comes back under a new id, and is held no longer.
LEMMA RequeueNewWake ==
  ASSUME IInv, NEW r \in Requests, Requeues(r)
  PROVE  \E u, m : NewWake(u, m)
<1> USE DEF IInv, Base, TypeOK, QueueTypeOK
<1>1. UNCHANGED <<dm, givenUp, routed>> /\ \A s \in Requests : s # r => req'[s] = req[s]
  BY DEF Requeues
<1>2. PICK h \in req[r].held : FilesWake(source[h]) /\ req'[r] = Requeuing(req[r].held \ {h})
  BY DEF Requeues, Oldest
<1>3. PICK u \in Triggers :
        /\ row[u].status = "absent" /\ row'[u].status = "queued"
        /\ source' = [source EXCEPT ![u] = source[h]]
        /\ \A t \in Triggers \ {u} :
             row'[t] = row[t] \/ (~Chat(t) /\ Queued(t) /\ row'[t] = Gone)
  BY <1>2, FilingRows
<1>4. h \in Triggers /\ Alive(h)
  BY AliveIs DEF Request
<1>5. req'[r].held = req[r].held \ {h}
  BY <1>2, HeldOf
<1>6. \A s \in Requests : \A t \in req[s].held :
        t \in Triggers \ {u} /\ ~Queued(t) /\ row'[t] = row[t] /\ ~Standing(t) /\ ~Standing(t)'
  BY <1>3 DEF HeldOnce, Request, Queued, Standing
<1>7. HeldOnce'
  <2>1. /\ \A s \in Requests : req'[s].held \subseteq req[s].held
        /\ req'[r].held # {} => req'[r].kind = "rewind" /\ req'[r].at = "requeue"
    BY <1>1, <1>2, <1>5, HeldOf
  <2>2. \A s \in Requests : \A t \in req'[s].held : row'[t].status = "deleted"
    BY <1>6, <2>1 DEF HeldOnce
  <2>3. \A s, q \in Requests : s # q => req'[s].held \cap req'[q].held = {}
    BY <2>1 DEF HeldOnce
  <2> QED
    BY <1>1, <2>1, <2>2, <2>3 DEF HeldOnce
<1>8. ~Alive(u) /\ Alive(u)'
  BY <1>3, <1>6, AliveIs DEF Standing
<1>9. ASSUME NEW t \in Triggers \ {u}
      PROVE  /\ Alive(t)' => Alive(t)
             /\ Chat(t) /\ Alive(t) /\ source[t] # source[h] => Alive(t)'
             /\ source[t] = source[h] /\ Chat(t) => ~Alive(t)'
  <2>1. Standing(t)' => Standing(t)
    BY <1>3 DEF Standing, Gone, AbsentRow
  <2>2. Chat(t) /\ Standing(t) => Standing(t)'
    BY <1>3 DEF Standing
  <2>3. Alive(t)' => Alive(t)
    BY <1>1, <1>5, <2>1, AliveIs
  <2>4. ~Alive(h)'
    <3>1. ~Standing(h)'
      BY <1>2, <1>6
    <3>2. \A s \in Requests : h \notin req'[s].held
      BY <1>1, <1>2, <1>5 DEF HeldOnce
    <3> QED
      BY <3>1, <3>2, AliveIs
  <2>5. source[t] = source[h] /\ Chat(t) /\ Alive(t) => t = h
    BY <1>4 DEF OneWakePerMessage
  <2> QED
    BY <1>1, <1>5, <2>1, <2>2, <2>3, <2>4, <2>5, AliveIs
<1>10. /\ source[h] \in Messages \cup {NoMessage}
       /\ source[h] \in Messages => routed'[source[h]] \in {"filed", "lost"}
  BY <1>1, <1>4, AgentWakesAssumption DEF UnfiledHaveNone, Chat
<1>11. NewWake(u, source[h])
  BY <1>1, <1>3, <1>7, <1>8, <1>9, <1>10 DEF NewWake
<1> QED
  BY <1>11

-----------------------------------------------------------------------------
\* Every step keeps the invariant.
LEMMA Inductive == IInv /\ [Next]_vars => IInv'
<1> SUFFICES ASSUME IInv, [Next]_vars PROVE IInv'
  OBVIOUS
<1>1. Base'
  BY BaseStep DEF IInv
<1>2. ASSUME Quiet PROVE IInv'
  BY <1>1, <1>2, QuietKeeps DEF Quiet, IInv, WakeInv
<1>3. ASSUME NEW u, NEW m, NewWake(u, m) PROVE IInv'
  BY <1>1, <1>3, NewWakeKeeps DEF NewWake, IInv, WakeInv
<1>4. CASE UNCHANGED vars
  <2>1. Quiet
    BY <1>4, AliveIs DEF Quiet, HeldOnce, Standing, vars, appVars, IInv
  <2> QED
    BY <1>2, <2>1
<1>5. CASE WorkerNext \/ WorkerDies
  BY <1>2, <1>5, WorkerIsQuiet
<1>6. CASE ClearsChat \/ AppDies \/ \E m \in Messages : Sends(m)
  BY <1>2, <1>6, MessagesAreQuiet, AppCrashIsQuiet
<1>7. CASE OtherWake \/ \E m \in Messages : Files(m)
  BY <1>3, <1>7, FilesNewWake
<1>8. ASSUME NEW r \in Requests,
             \/ \E m \in Messages : RewindFreezes(r, m)
             \/ \E kind \in {"discard", "reset"} : CancelBegins(r, kind)
             \/ RequestGoesOn(r) \/ RequeueRaises(r)
      PROVE  IInv'
  <2>1. CASE Requeues(r)
    BY <1>3, <2>1, RequeueNewWake
  <2>2. CASE ~Requeues(r)
    <3>1. Quiet
      BY <1>8, <2>2, FreezeIsQuiet, WaitingIsQuiet, CutIsQuiet, GivingUpIsQuiet DEF RequestGoesOn
    <3> QED
      BY <1>2, <3>1
  <2> QED
    BY <2>1, <2>2
<1> QED
  BY <1>4, <1>5, <1>6, <1>7, <1>8 DEF Next, AppNext

\* It holds before anything was sent.
LEMMA InitHolds == Init => IInv
<1> SUFFICES ASSUME Init PROVE IInv
  OBVIOUS
<1> USE AgentWakesAssumption, QueueAssumption DEF Init, QueueInit
<1>1. QueueTypeOK /\ ClaimsAreNumbered
  BY RowFields DEF QueueTypeOK, ClaimsAreNumbered, Claimed, AbsentRow
<1>2. Base
  BY <1>1, RequestForms DEF Base, TypeOK, At
<1>3. \A r \in Requests : req[r].held = {}
  BY DEF Blank
<1>4. \A t \in Triggers : ~Chat(t)
  BY DEF Chat
<1> QED
  BY <1>2, <1>3, <1>4 DEF IInv, HeldOnce, UnfiledHaveNone, OneWakePerMessage, KeptIsWoken

\* Every variable keeps its type, for any number of messages, requests and upsets.
THEOREM AgentWakesTypes == Spec => []TypeOK
<1>1. IInv => TypeOK
  BY DEF IInv, Base
<1> QED
  BY <1>1, InitHolds, Inductive, PTL DEF Spec

\* Rewinds, floor moves, resets and the worker change the rows of the agent's wakes
\* only as the queue allows.
THEOREM AgentWakesUseQueue == Spec => QueueSpec
<1>1. Init => QueueInit
  BY DEF Init
<1>2. IInv /\ [Next]_vars => [QueueNext]_row
  BY QueueStays DEF IInv
<1> QED
  BY <1>1, <1>2, InitHolds, Inductive, PTL DEF Spec, QueueSpec

\* No message has two wakes that are open, held or finished, however rewinds,
\* retries, resets and crashes meet.
THEOREM MessagesWakeOnce == Spec => []OneWakePerMessage
<1>1. IInv => OneWakePerMessage
  BY DEF IInv
<1> QED
  BY <1>1, InitHolds, Inductive, PTL DEF Spec

\* A message that stands in the DM, and whose wake was filed and not given up, has a
\* wake: no rewind, failed cut, timeout or crash of the worker loses it.
THEOREM KeptMessagesAreWoken == Spec => []KeptIsWoken
<1>1. IInv => KeptIsWoken
  BY DEF IInv
<1> QED
  BY <1>1, InitHolds, Inductive, PTL DEF Spec
=============================================================================
