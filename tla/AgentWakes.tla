------------------------------ MODULE AgentWakes ------------------------------
(***************************************************************************)
(* One agent's direct chat with the operator: the messages that stand in    *)
(* it, the wakes filed for them, and the requests of the app that cancel    *)
(* the agent's turn and then go on with its rows: a chat rewind, a floor    *)
(* move or send-home, a runtime reset.                                      *)
(*                                                                          *)
(* The app and the worker are two processes over one database.  A request   *)
(* of the app is a coroutine: what it reads before an await may be stale    *)
(* after it.  The worker is the dispatcher with its passes, lanes and       *)
(* leases left out: a turn starts, ends, or is cancelled by a command.      *)
(***************************************************************************)
EXTENDS TriggerQueue

CONSTANTS
  Messages,    \* the operator's messages, numbered in the order of the thread
  Requests,    \* requests of the app, numbered in the order they are made
  KindsOf,     \* bound: what each of them may be
  NoMessage,   \* a wake that answers no message of the DM, or no wake
  Nobody,      \* no request
  NoClaim,
  RetryLimit,  \* turn_failure_retry_limit
  MaxUpsets    \* bound: crashes, faults, turns that fail, other wakes, cleared chats

Kinds == {"rewind", "discard", "reset"}

ASSUME AgentWakesAssumption ==
  /\ Triggers \subseteq Nat /\ IsFiniteSet(Triggers) /\ Messages \subseteq Nat
  /\ Requests \subseteq Nat /\ KindsOf \in [Requests -> SUBSET Kinds]
  /\ NoMessage \notin Messages /\ Nobody \notin Requests /\ NoClaim \notin Claims
  /\ RetryLimit \in Nat /\ RetryLimit <= MaxRetries /\ MaxUpsets \in Nat

VARIABLES
  source,      \* trigger -> source_message_id of its payload
  dm,          \* the messages that stand in the DM
  routed,      \* message -> how far route_human_dm has come with it
  up,          \* whether a worker process runs
  launching,   \* the claim _drain_queue has made and not launched yet
  turn,        \* the claim of the agent's turn (_active_turns)
  command,     \* request -> the status of its reset_agent_runtime command
  guard,       \* the request that holds RuntimeServices._lock over a wait
  req,         \* request -> what its coroutine knows
  givenUp,     \* history: messages whose wake was dropped on purpose or by a crash
  left         \* what is left of MaxUpsets

workerVars == <<up, launching, turn>>
appVars    == <<guard, req>>
vars == <<row, source, dm, routed, workerVars, command, appVars, givenUp, left>>

-----------------------------------------------------------------------------
\* The await a request is suspended in.  It is at "cut" or "take" when its reset
\* is over and it goes on without an await.
At == {"idle", "asking", "waiting", "cut", "take", "delete", "requeue", "done"}

\* cut: the first message to go; held: triggers taken, to be queued again;
\* snap: the claims listed before the reset.
Request == [at : At, kind : Kinds, cut : Messages \cup {NoMessage},
            held : SUBSET Triggers, snap : SUBSET Claims]

TypeOK ==
  /\ QueueTypeOK
  /\ source \in [Triggers -> Messages \cup {NoMessage}]
  /\ dm \subseteq Messages /\ givenUp \subseteq Messages
  /\ routed \in [Messages -> {"unsent", "shown", "filed", "lost"}]
  /\ up \in BOOLEAN
  /\ launching \in Claims \cup {NoClaim} /\ turn \in Claims \cup {NoClaim}
  /\ command \in [Requests -> {"none", "queued", "claimed", "completed"}]
  /\ guard \in Requests \cup {Nobody} /\ req \in [Requests -> Request]
  /\ left \in 0..MaxUpsets

Open(t)  == Queued(t) \/ Claimed(t)
Chat(t)  == source[t] # NoMessage
Sources(ts) == {source[t] : t \in ts} \cap Messages
HeldAnywhere == UNION {req[r].held : r \in Requests}

\* The oldest rows of ts, at most one; ids are given out in order.
Oldest(ts) == {t \in ts : \A u \in ts : t <= u}
Fresh == {t \in Triggers : row[t].status = "absent"}

Upset == left > 0 /\ left' = left - 1

\* Between the end of a reset and the next database statement of its request no
\* other coroutine of the app runs.
AppRuns == \A r \in Requests : req[r].at \notin {"cut", "take"}

\* enqueue_trigger goes through start(), which takes the lock; the wake it files
\* for message m preempts the wakes that answer none.
MayEnqueue == AppRuns /\ guard = Nobody /\ up
FilesWake(m) ==
  \E u \in Oldest(Fresh) :
    /\ EnqueuePreempting(u, {t \in Triggers : m # NoMessage /\ ~Chat(t)})
    /\ source' = [source EXCEPT ![u] = m]

-----------------------------------------------------------------------------
(* The worker.                                                             *)

\* Chats first, then by age.
NextQueued ==
  LET queued == {t \in Triggers : Queued(t)}
      chats  == {t \in queued : Chat(t)}
  IN  Oldest(IF chats # {} THEN chats ELSE queued)

\* The claim is made, and broadcasts are awaited before its launch.
ClaimsNext ==
  /\ up /\ turn = NoClaim /\ launching = NoClaim
  /\ \E t \in NextQueued :
       /\ claim_trigger(t)
       /\ launching' = <<t, row[t].gen + 1>>
  /\ UNCHANGED <<source, dm, routed, up, turn, command, appVars, givenUp, left>>

\* Launched, whatever became of its row since.
Launches ==
  /\ launching # NoClaim
  /\ turn' = launching /\ launching' = NoClaim
  /\ UNCHANGED <<row, source, dm, routed, up, command, appVars, givenUp, left>>

RetryOrExhaust(c) ==
  IF row[c[1]].retries < RetryLimit THEN retry_agent_trigger(c, TRUE)
                                    ELSE fail_agent_trigger(c)

TurnEnds ==
  /\ turn # NoClaim
  /\ \/ complete_agent_trigger(turn) /\ UNCHANGED left
     \/ RetryOrExhaust(turn) /\ Upset
  /\ turn' = NoClaim
  /\ UNCHANGED <<source, dm, routed, up, launching, command, appVars, givenUp>>

\* The live-orphan sweep; how old a claim without a turn is, is left to chance.
Sweeps(t) ==
  /\ up /\ turn = NoClaim /\ launching = NoClaim /\ Claimed(t)
  /\ RetryOrExhaust(ClaimOn(t))
  /\ UNCHANGED <<source, dm, routed, workerVars, command, appVars, givenUp, left>>

\* reset_agent: the turn is cancelled and awaited, its row stays claimed; a claim
\* that is only being launched is missed.
CommandRuns(r) ==
  /\ up /\ command[r] = "queued" /\ \A s \in Requests : command[s] # "claimed"
  /\ command' = [command EXCEPT ![r] = "claimed"]
  /\ turn' = NoClaim
  /\ UNCHANGED <<row, source, dm, routed, up, launching, appVars, givenUp, left>>

CommandDone(r) ==
  /\ up /\ command[r] = "claimed"
  /\ command' = [command EXCEPT ![r] = "completed"]
  /\ UNCHANGED <<row, source, dm, routed, workerVars, appVars, givenUp, left>>

WorkerGone == up' = FALSE /\ turn' = NoClaim /\ launching' = NoClaim

WorkerDies ==
  /\ up /\ Upset /\ WorkerGone
  /\ UNCHANGED <<row, source, dm, routed, command, appVars, givenUp>>

\* start(), under the lock: open commands are deleted, and the new worker
\* requeues every claim.
Boot ==
  /\ ~up /\ guard = Nobody /\ AppRuns
  /\ up' = TRUE
  /\ requeue_all_claimed_triggers
  /\ command' = [r \in Requests |-> IF command[r] \in {"queued", "claimed"}
                                    THEN "none" ELSE command[r]]
  /\ UNCHANGED <<source, dm, routed, turn, launching, appVars, givenUp, left>>

WorkerNext ==
  \/ ClaimsNext \/ Launches \/ TurnEnds \/ Boot
  \/ \E t \in Triggers : Sweeps(t)
  \/ \E r \in Requests : CommandRuns(r) \/ CommandDone(r)

-----------------------------------------------------------------------------
(* The app: messages.                                                      *)

\* route_human_dm: the message is committed, then its broadcast is awaited.
Sends(m) ==
  /\ AppRuns /\ routed[m] = "unsent" /\ \A n \in Messages : n < m => routed[n] # "unsent"
  /\ dm' = dm \cup {m}
  /\ routed' = [routed EXCEPT ![m] = "shown"]
  /\ UNCHANGED <<row, source, workerVars, command, appVars, givenUp, left>>

\* Then its wake is filed; whether the message still stands is not looked at.
Files(m) ==
  /\ MayEnqueue /\ routed[m] = "shown"
  /\ FilesWake(m)
  /\ routed' = [routed EXCEPT ![m] = "filed"]
  /\ UNCHANGED <<dm, workerVars, command, appVars, givenUp, left>>

\* Some other part of the app wakes the agent, with a wake that a chat preempts.
OtherWake ==
  /\ MayEnqueue /\ Upset
  /\ FilesWake(NoMessage)
  /\ UNCHANGED <<dm, routed, workerVars, command, appVars, givenUp>>

\* delete_human_chat_thread: the messages go, their wakes stay.
ClearsChat ==
  /\ AppRuns /\ dm # {} /\ Upset
  /\ dm' = {}
  /\ UNCHANGED <<row, source, routed, workerVars, command, appVars, givenUp>>

-----------------------------------------------------------------------------
(* The app: requests that cancel the agent's turn.                         *)

Begins(r, kind) ==
  /\ AppRuns /\ req[r].at = "idle" /\ kind \in KindsOf[r]
  /\ \A q \in Requests : q < r => req[q].at # "idle"

ReqFrame == UNCHANGED <<source, dm, routed, workerVars, command, guard>>

\* rewind_human_chat until its first await: the queued chat wakes are taken.  A
\* reset is asked for only if a chat wake is claimed.
RewindFreezes(r, m) ==
  LET held == {t \in Triggers : Queued(t) /\ Chat(t)}
      live == \E t \in Triggers : Claimed(t) /\ Chat(t)
  IN  /\ Begins(r, "rewind") /\ m \in dm
      /\ take_open_human_chat_triggers(held, {"queued"})
      /\ req' = [req EXCEPT ![r] = [at |-> IF live THEN "asking" ELSE "cut", kind |-> "rewind",
                                    cut |-> m, held |-> held, snap |-> {}]]
      /\ UNCHANGED <<givenUp, left>> /\ ReqFrame

\* cancel_turn_and_discard_claim lists the claims; the reset route lists nothing.
CancelBegins(r, kind) ==
  /\ Begins(r, kind)
  /\ req' = [req EXCEPT ![r].at = "asking", ![r].kind = kind,
                        ![r].snap = IF kind = "discard" THEN {c \in Claims : Held(c)} ELSE {}]
  /\ UNCHANGED <<row, givenUp, left>> /\ ReqFrame

\* Where a request goes on once its reset is over.
Onward(kind) == CASE kind = "rewind" -> "cut" [] kind = "discard" -> "take" [] OTHER -> "delete"

\* reset_agent_runtime: the command is filed and awaited under the lock; with no
\* worker there is no turn to cancel.
ResetAsks(r) ==
  /\ AppRuns /\ guard = Nobody /\ req[r].at = "asking"
  /\ IF up
     THEN /\ command' = [command EXCEPT ![r] = "queued"] /\ guard' = r
          /\ req' = [req EXCEPT ![r].at = "waiting"]
     ELSE /\ req' = [req EXCEPT ![r].at = Onward(req[r].kind)]
          /\ UNCHANGED <<command, guard>>
  /\ UNCHANGED <<row, source, dm, routed, workerVars, givenUp, left>>

ResetDone(r) ==
  /\ AppRuns /\ req[r].at = "waiting" /\ command[r] = "completed"
  /\ guard' = Nobody
  /\ req' = [req EXCEPT ![r].at = Onward(req[r].kind)]
  /\ UNCHANGED <<row, source, dm, routed, workerVars, command, givenUp, left>>

\* A request that is over, or goes on to queue the triggers ts again.
Blank(at)  == [at |-> at, kind |-> "rewind", cut |-> NoMessage, held |-> {}, snap |-> {}]
Requeuing(ts) ==
  IF ts = {} THEN Blank("done") ELSE [Blank("requeue") EXCEPT !.held = ts]

\* Seeded fault: the lock stays taken.
LockKept == UNCHANGED guard

LockReturned == guard' = Nobody

\* 10 s are over, the worker died, or the command failed: the caller raises.  A
\* rewind queues what it took again; the command stays open.
GivesUp(r) ==
  /\ AppRuns /\ req[r].at = "waiting" /\ command[r] # "completed"
  /\ LockReturned
  /\ req' = [req EXCEPT ![r] = Requeuing(req[r].held)]
  /\ UNCHANGED <<row, source, dm, routed, workerVars, command, givenUp, left>>

\* What the cut of r removes and takes, and the triggers of kept messages.
Removed(r)   == {m \in dm : m >= req[r].cut}
ClaimedChats == {t \in Triggers : Claimed(t) /\ Chat(t)}
Kept(r)      == {t \in req[r].held \cup ClaimedChats : source[t] \notin Removed(r)}

\* Seeded fault: the claimed triggers are queued again too.
HeldWithClaimed(r) == req[r].held \cup ClaimedChats

HeldAfterRollback(r) == req[r].held

\* The cut, one transaction: the messages from req[r].cut on go, and every claimed
\* chat wake is taken.  It rolls back when the first message is gone, or on a fault.
Cut(r) ==
  /\ req[r].at = "cut"
  /\ \/ /\ req[r].cut \in dm
        /\ dm' = dm \ Removed(r)
        /\ take_open_human_chat_triggers(ClaimedChats, {"claimed"})
        /\ req' = [req EXCEPT ![r] = Requeuing(Kept(r))]
        /\ UNCHANGED left
     \/ /\ IF req[r].cut \in dm THEN Upset ELSE UNCHANGED left
        /\ req' = [req EXCEPT ![r] = Requeuing(HeldAfterRollback(r))]
        /\ UNCHANGED <<row, dm>>
  /\ UNCHANGED <<source, routed, workerVars, command, guard, givenUp>>

\* _enqueue_again, one held trigger after the other, each under a new id.
Requeues(r) ==
  /\ MayEnqueue /\ req[r].at = "requeue"
  /\ \E t \in Oldest(req[r].held) :
       /\ FilesWake(source[t])
       /\ req' = [req EXCEPT ![r] = Requeuing(@.held \ {t})]
  /\ UNCHANGED <<dm, routed, workerVars, command, guard, givenUp, left>>

\* One of them raises: the loop ends, and the rest is lost.
RequeueRaises(r) ==
  /\ AppRuns /\ req[r].at = "requeue" /\ Upset
  /\ givenUp' = givenUp \cup Sources(req[r].held)
  /\ req' = [req EXCEPT ![r] = Blank("done")]
  /\ UNCHANGED row /\ ReqFrame

\* The claims listed before the reset are deleted, if still held.
Takes(r) ==
  /\ req[r].at = "take"
  /\ take_claimed_trigger(req[r].snap)
  /\ givenUp' = givenUp \cup Sources({c[1] : c \in {d \in req[r].snap : Held(d)}})
  /\ req' = [req EXCEPT ![r] = Blank("done")]
  /\ UNCHANGED left /\ ReqFrame

\* The reset route, some broadcasts later: every open row of the agent goes.
Deletes(r) ==
  /\ AppRuns /\ req[r].at = "delete"
  /\ delete_open_triggers(Triggers)
  /\ givenUp' = givenUp \cup Sources({t \in Triggers : Open(t)})
  /\ req' = [req EXCEPT ![r] = Blank("done")]
  /\ UNCHANGED left /\ ReqFrame

\* The app dies, and its worker with it.
AppDies ==
  /\ Upset /\ WorkerGone
  /\ guard' = Nobody
  /\ givenUp' = givenUp \cup Sources(HeldAnywhere) \cup {m \in Messages : routed[m] = "shown"}
  /\ routed' = [m \in Messages |-> IF routed[m] = "shown" THEN "lost" ELSE routed[m]]
  /\ req' = [r \in Requests |-> IF req[r].at = "idle" THEN req[r] ELSE Blank("done")]
  /\ UNCHANGED <<row, source, dm, command>>

RequestGoesOn(r) ==
  \/ ResetAsks(r) \/ ResetDone(r) \/ GivesUp(r) \/ Cut(r) \/ Requeues(r)
  \/ Takes(r) \/ Deletes(r)

AppNext ==
  \/ \E m \in Messages : Sends(m) \/ Files(m)
  \/ OtherWake \/ ClearsChat \/ AppDies \/ WorkerDies
  \/ \E r \in Requests :
       \/ \E m \in Messages : RewindFreezes(r, m)
       \/ \E kind \in {"discard", "reset"} : CancelBegins(r, kind)
       \/ RequestGoesOn(r) \/ RequeueRaises(r)

-----------------------------------------------------------------------------
Init ==
  /\ QueueInit
  /\ source = [t \in Triggers |-> NoMessage]
  /\ dm = {} /\ routed = [m \in Messages |-> "unsent"]
  /\ up = TRUE /\ launching = NoClaim /\ turn = NoClaim
  /\ command = [r \in Requests |-> "none"]
  /\ guard = Nobody /\ req = [r \in Requests |-> Blank("idle")]
  /\ givenUp = {} /\ left = MaxUpsets

Next == WorkerNext \/ AppNext

Spec == Init /\ [][Next]_vars
-----------------------------------------------------------------------------
(* Correctness.                                                            *)

Alive(t) == Open(t) \/ Finished(t) \/ t \in HeldAnywhere

\* rewind_human_chat "puts back any operator message that still stands but lost
\* its wake": a message of the DM whose wake was filed has a wake that is open,
\* held by a rewind, or ran to its end, unless the wake was dropped on purpose.
KeptIsWoken ==
  \A m \in dm : routed[m] = "filed" /\ m \notin givenUp =>
    \E t \in Triggers : source[t] = m /\ Alive(t)

\* "re-queueing it too would wake the agent twice for one message": however
\* rewinds, retries, resets and crashes meet, no message has two wakes.
OneWakePerMessage ==
  \A t, u \in Triggers :
    Chat(t) /\ source[t] = source[u] /\ Alive(t) /\ Alive(u) => t = u

-----------------------------------------------------------------------------
(* Liveness.  Neither process stops while one of its tasks can go on: every  *)
(* loop of the worker and every coroutine of the app is scheduled, and a     *)
(* wait ends with its command or its timeout.  A dead worker is started by   *)
(* the next start(), of an enqueue, a reset or a resume: one is taken to     *)
(* come.                                                                     *)

Progress ==
  \/ WorkerNext
  \/ \E m \in Messages : Files(m)
  \/ \E r \in Requests : RequestGoesOn(r)

FairSpec == Spec /\ WF_vars(Progress)

\* Every message the operator sends is dealt with in the end: its wake runs to
\* its end, or the message or its wake is taken away.
MessagesAreAnswered ==
  \A m \in Messages :
    m \in dm ~> \/ m \notin dm \/ m \in givenUp
                \/ \E t \in Triggers : source[t] = m /\ Finished(t)
=============================================================================
