-------------------------------- MODULE Rounds --------------------------------
(***************************************************************************)
(* The response rounds of one thread (core/agent_loop/channel_rounds.py,     *)
(* response_rounds.py, thread_supersede.py, channel_host.py and the tables   *)
(* channel_response_rounds and channel_response_candidates).                 *)
(*                                                                           *)
(* A round gives every member of the thread a seat for one human message,    *)
(* the tip.  Nothing drives a round but the turns bound to it: each one must *)
(* leave a wake for the next seat.  Four kinds of process write these rows:  *)
(* the one channel turn the dispatcher lets run in a thread, the app's       *)
(* handlers of human messages, the app's reset of an agent, and a restart.   *)
(*                                                                           *)
(* A step is what a process does between two points where it may wait: a     *)
(* model call of the router, an await, a hand-over to or from a thread.  The *)
(* slot queue is finer: a reservation and a promotion are steps of their own *)
(* (db/response_rounds.py).  Who the router chooses is any choice.           *)
(***************************************************************************)
EXTENDS Naturals, FiniteSets

CONSTANTS
  Agents,      \* the members of the thread
  NoAgent,
  Posters,     \* the app's handlers of human messages
  LastTip,     \* bound: how many human messages are posted
  MaxRounds,   \* bound: how many rounds are opened
  Cap,         \* channel_response_round_cap
  Clicks,      \* whether the operator pauses, resumes or resets by hand
  Faults,      \* whether a turn may end without a decision, and the worker crash
  MaxIncidents \* bound: how many of these happen

Ids == 1 .. MaxRounds
Procs == Posters \cup {"turn", "reset"}
Modes == {"rounds", "fanout"}
OpenSeat == {"pending", "queued", "responding"}
Wake == [agent : Agents, round : Ids, kind : {"message", "response"}]

ASSUME RoundAssumption ==
  /\ LastTip \in Nat /\ MaxRounds \in Nat /\ Cap \in Nat \ {0}
  /\ MaxIncidents \in Nat /\ {Clicks, Faults} \subseteq BOOLEAN
  /\ NoAgent \notin Agents /\ "turn" \notin Posters /\ "reset" \notin Posters

VARIABLES
  tip,       \* the newest human message, numbered from 1
  phrases,   \* the messages that are a pause phrase
  paused,    \* host Paused
  round,     \* id -> status, tip, round_index, dispatch_mode
  seat,      \* id -> agent -> candidate status, "none" for no row
  wakes,     \* queued triggers bound to a round
  act,       \* process -> what it is doing
  incidents,
  said,      \* history: who posted a line in which round
  halted     \* history: rounds whose queue a turn left without a next wake

boss == <<tip, phrases, paused>>
vars == <<boss, incidents, round, seat, wakes, act, said, halted>>

Idle == [at |-> "idle", tip |-> 0, round |-> 0, agent |-> NoAgent, kind |-> "none",
         spoke |-> FALSE, index |-> 0, mode |-> "rounds", rest |-> {}, ids |-> {}, emits |-> {}]
NoRound == [status |-> "none", tip |-> 0, index |-> 0, mode |-> "rounds"]

\* The types; a completed round was opened, an idle process holds nothing.
TypeOK ==
  /\ tip \in 0 .. LastTip /\ phrases \subseteq 1 .. tip /\ paused \in BOOLEAN
  /\ incidents \in 0 .. MaxIncidents
  /\ round \in [Ids -> [status : {"none", "active", "completed"}, tip : 0 .. LastTip,
                        index : 0 .. Cap, mode : Modes]]
  /\ seat \in [Ids -> [Agents -> OpenSeat \cup {"none", "responded", "observed"}]]
  /\ wakes \subseteq Wake
  /\ act \in [Procs -> [at : {"idle", "think", "join", "activate", "finish",
                              "advance", "reroute", "post", "skip", "hear", "open",
                              "create", "install", "file", "down", "boot"},
                        tip : 0 .. LastTip, round : 0 .. MaxRounds,
                        agent : Agents \cup {NoAgent},
                        kind : {"none", "message", "response"},
                        spoke : BOOLEAN, index : 0 .. Cap, mode : Modes,
                        rest : SUBSET Agents, ids : SUBSET Ids, emits : SUBSET Wake]]
  /\ said \subseteq Ids \X Agents /\ halted \subseteq Ids
  /\ \A p \in Procs : act[p].at = "idle" => act[p] = Idle
  /\ \A r \in Ids : round[r].status = "none" <=> round[r] = NoRound

-----------------------------------------------------------------------------
(* Rows of the round tables.                                                *)

In(r, states) == {a \in Agents : seat[r][a] \in states}

\* Seeded fault: a round that nobody answered is not completed.
CompletesIfAnswered(rows, R) ==
  [r \in Ids |-> IF r \in R /\ (\A a \in Agents : rows[r][a] \notin OpenSeat)
                       /\ \E a \in Agents : rows[r][a] = "responded"
                 THEN [round[r] EXCEPT !.status = "completed"] ELSE round[r]]

\* maybe_complete_round, given the seats.
maybe_complete_round(rows, R) ==
  [r \in Ids |-> IF r \in R /\ \A a \in Agents : rows[r][a] \notin OpenSeat
                 THEN [round[r] EXCEPT !.status = "completed"] ELSE round[r]]

\* The statement of one seat, followed by the count that may complete the round.
Marks(r, a, status) ==
  /\ seat' = [seat EXCEPT ![r][a] = status]
  /\ round' = maybe_complete_round(seat', {r})

\* _snapshot_is_current, get_later_human_channel_message.
Stale(t) == t < tip

\* list_claimed_agent_ids_for_round; a reset has deleted its row already.
in_flight == {<<act["turn"].round, act["turn"].agent>>}

\* The rounds of R that lose the wake of a seat which was promoted and has not
\* started: the seat stays responding.
Stranded(R) ==
  {w.round : w \in {v \in wakes : v.round \in R /\ seat[v.round][v.agent] = "responding"}}

\* The agents of R's rounds who have not started become observed; their wakes go.
Cancels(R, spared) ==
  /\ seat' = [r \in Ids |-> [a \in Agents |->
                IF r \in R /\ seat[r][a] \in {"pending", "queued"} /\ <<r, a>> \notin spared
                THEN "observed" ELSE seat[r][a]]]
  /\ wakes' = {w \in wakes : w.round \notin R}
  /\ round' = maybe_complete_round(seat', R)
  /\ halted' = halted \cup Stranded(R)

Active == {r \in Ids : round[r].status = "active"}

\* create_agent_trigger for one member of a round.
WakeOf(a, r, kind) == [agent |-> a, round |-> r, kind |-> kind]

Goes(p, at) == act' = [act EXCEPT ![p].at = at]

\* A turn that spoke posts its line; any other only files its wakes.
Ends(p) == IF act[p].spoke THEN "post" ELSE "file"

-----------------------------------------------------------------------------
(* A channel turn, from its claim to the decision.                          *)

\* One channel holds one live speak (_claim_available_trigger).
Claim ==
  /\ act["turn"] = Idle
  /\ \E w \in wakes :
       /\ wakes' = wakes \ {w}
       /\ act' = [act EXCEPT !["turn"] =
                    [Idle EXCEPT !.at = "think", !.round = w.round, !.agent = w.agent,
                                 !.kind = w.kind, !.tip = round[w.round].tip]]
  /\ UNCHANGED <<boss, incidents, round, seat, said, halted>>

T == act["turn"]

\* answer: a newer human message discards the reply.
Answers ==
  /\ T.at = "think"
  /\ act' = [act EXCEPT !["turn"].spoke = TRUE,
                        !["turn"].at = IF Stale(T.tip) THEN "skip"
                                       ELSE IF T.kind = "message" THEN "join" ELSE "finish"]
  /\ UNCHANGED <<boss, incidents, round, seat, wakes, said, halted>>

\* observe_channel_message: the seat is observed, the round moves on.
observe_channel_message ==
  /\ T.at = "think" /\ T.kind = "message"
  /\ Marks(T.round, T.agent, "observed")
  /\ Goes("turn", "advance")
  /\ UNCHANGED <<boss, incidents, wakes, said, halted>>

\* A channel_response that passes: finalize_channel_response(responded=False).
passes ==
  /\ T.at = "think" /\ T.kind = "response"
  /\ Goes("turn", "finish")
  /\ UNCHANGED <<boss, incidents, round, seat, wakes, said, halted>>

\* Seeded fault: a failed turn leaves its seat as it is.
ReleasesNothing ==
  /\ T.at = "think"
  /\ act' = [act EXCEPT !["turn"] = Idle]
  /\ UNCHANGED <<boss, incidents, round, seat, wakes, said, halted>>

\* A turn that fails for good: release_channel_seat, unless its seat is closed.
release_channel_seat ==
  /\ T.at = "think"
  /\ act' = [act EXCEPT !["turn"] = IF seat[T.round][T.agent] \in OpenSeat
                                    THEN [T EXCEPT !.at = "finish"] ELSE Idle]
  /\ UNCHANGED <<boss, incidents, round, seat, wakes, said, halted>>

\* reserve_slot: only a pending seat is queued.
reserve_slot ==
  /\ T.at = "join"
  /\ seat' = [seat EXCEPT ![T.round][T.agent] = IF @ = "pending" THEN "queued" ELSE @]
  /\ Goes("turn", "activate")
  /\ UNCHANGED <<boss, incidents, round, wakes, said, halted>>

\* Seeded fault: a seat is promoted beside the one that responds.
PromotesBeside(r) == In(r, {"queued"})

\* activate_next_candidate: a queued seat, when nobody is responding.  Then
\* apply_decision asks once more whether the tip moved.
next_candidate(r) == IF In(r, {"responding"}) = {} THEN In(r, {"queued"}) ELSE {}

begin_channel_response ==
  /\ T.at = "activate"
  /\ \/ \E a \in next_candidate(T.round) :
          /\ seat' = [seat EXCEPT ![T.round][a] = "responding"]
          /\ Goes("turn", IF a # T.agent THEN "file" ELSE IF Stale(T.tip) THEN "skip"
                         ELSE "finish")
     \/ /\ next_candidate(T.round) = {}
        /\ Goes("turn", "file")
        /\ UNCHANGED seat
  /\ UNCHANGED <<boss, incidents, round, wakes, said, halted>>

-----------------------------------------------------------------------------
(* The end of a seat and the next one.  The turn runs it, or the app for a   *)
(* turn it reset.                                                            *)

Finishers == {"turn", "reset"}

\* finalize_shared_response; fan-out wakes the promoted seat.
finalize_channel_response(p) ==
  LET r == act[p].round
      marked == [seat EXCEPT ![r][act[p].agent] =
                   IF act[p].spoke THEN "responded" ELSE "observed"]
      queued == {a \in Agents : marked[r][a] = "queued"}
      next == IF \E a \in Agents : marked[r][a] = "responding" THEN {} ELSE queued
  IN /\ act[p].at = "finish"
     /\ \/ \E a \in next :
             /\ seat' = [marked EXCEPT ![r][a] = "responding"]
             /\ act' = IF round[r].mode = "rounds"
                       THEN [act EXCEPT ![p].at = "advance"]
                       ELSE [act EXCEPT ![p].at = Ends(p), ![p].emits =
                                          {WakeOf(a, r, "response")}]
        \/ /\ next = {}
           /\ seat' = marked
           /\ Goes(p, "advance")
     /\ round' = maybe_complete_round(seat', {r})
     /\ UNCHANGED <<boss, incidents, wakes, said, halted>>

\* Rounds of one message with one index (_round_index_exists).
RoundsAt(t, i) == {r \in Ids : round[r].status # "none" /\ round[r].tip = t /\ round[r].index = i}

\* _open_follow_up_round, up to its model call: the cap, the tip, no such round yet.
_open_follow_up_round(p) ==
  LET index == round[act[p].round].index + 1
      opens == /\ index <= Cap /\ ~Stale(act[p].tip)
               /\ RoundsAt(act[p].tip, index) = {}
  IN act' = IF opens
            THEN [act EXCEPT ![p].at = "create", ![p].index = index, ![p].rest = {}]
            ELSE [act EXCEPT ![p].at = Ends(p), ![p].rest = {}]

\* Whether the queue of r is left with open seats and nobody to wake.
Halts(r) == IF In(r, OpenSeat) = {} THEN {} ELSE {r}

\* advance_channel_round, up to the first model call; fan-out: _route_completed_fanout.
advance_channel_round(p) ==
  LET r == act[p].round
      pending == In(r, {"pending"})
      stops == Stale(act[p].tip) \/ paused
      waits == In(r, {"queued", "responding"}) # {}
  IN /\ act[p].at = "advance"
     /\ \/ /\ round[r].mode = "fanout"
           /\ IF round[r].status = "completed" THEN _open_follow_up_round(p)
              ELSE Goes(p, Ends(p))
           /\ UNCHANGED <<round, seat, halted>>
        \/ /\ round[r].mode = "rounds" /\ (stops \/ waits)
           /\ round' = IF Stale(act[p].tip) THEN maybe_complete_round(seat, {r}) ELSE round
           /\ Goes(p, Ends(p))
           /\ halted' = IF stops THEN halted \cup Halts(r) ELSE halted
           /\ UNCHANGED seat
        \/ /\ round[r].mode = "rounds" /\ ~stops /\ ~waits
           /\ \/ \E a \in pending :
                   /\ seat' = [seat EXCEPT ![r][a] = "queued"]
                   /\ act' = [act EXCEPT ![p].at = Ends(p),
                                         ![p].emits = {WakeOf(a, r, "message")}]
                   /\ UNCHANGED round
              \/ /\ pending # {} /\ act[p].spoke
                 /\ act' = [act EXCEPT ![p].at = "reroute", ![p].rest = pending]
                 /\ UNCHANGED <<round, seat>>
              \/ /\ pending = {}
                 /\ round' = maybe_complete_round(seat, {r})
                 /\ _open_follow_up_round(p)
                 /\ UNCHANGED seat
           /\ UNCHANGED halted
     /\ UNCHANGED <<boss, incidents, wakes, said>>

\* Seeded fault: who has spoken is asked again.
AsksAgain(r, rest) == rest \cup In(r, {"observed", "responded"})

\* Who may be asked again: the seats still open, and those who passed.
eligible(r, rest) == rest \cup In(r, {"observed"})

\* _redecide_remaining, back from the model with the seats it read before.
_redecide_remaining(p) ==
  LET r == act[p].round
      rest == act[p].rest
      Queues(rows, a) ==
        /\ seat' = [rows EXCEPT ![r][a] = "queued"]
        /\ act' = [act EXCEPT ![p].at = Ends(p), ![p].rest = {},
                              ![p].emits = {WakeOf(a, r, "message")}]
        /\ UNCHANGED round
  IN /\ act[p].at = "reroute"
     /\ \/ \E a \in rest : Queues(seat, a)
        \/ \E speak \in SUBSET eligible(r, rest) :
             LET rows == [seat EXCEPT ![r] = [a \in Agents |->
                            IF a \in speak THEN "pending"
                            ELSE IF a \in rest THEN "observed" ELSE @[a]]]
                 pending == {a \in Agents : rows[r][a] = "pending"}
             IN \/ \E a \in pending : Queues(rows, a)
                \/ /\ pending = {}
                   /\ seat' = rows
                   /\ round' = maybe_complete_round(rows, {r})
                   /\ _open_follow_up_round(p)
     /\ UNCHANGED <<boss, incidents, wakes, said, halted>>

FreeIds == {r \in Ids : round[r].status = "none"}

-----------------------------------------------------------------------------
(* Opening a round: a model call, the round row, its seats.                 *)

\* start_channel_peer_round, up to its model call; the content picks the mode.
start_channel_peer_round(p) ==
  /\ act[p].at = "open"
  /\ \/ /\ act[p].tip \in phrases /\ ~paused
        /\ paused' = TRUE
        /\ Cancels(Active, {})
        /\ Goes(p, "file")
     \/ /\ act[p].tip \in phrases \/ paused
        /\ paused
        /\ Goes(p, "file")
        /\ UNCHANGED <<paused, round, seat, wakes, halted>>
     \/ /\ act[p].tip \notin phrases /\ ~paused
        /\ \E mode \in Modes :
             act' = [act EXCEPT ![p].at = "create", ![p].index = 1, ![p].mode = mode]
        /\ UNCHANGED <<paused, round, seat, wakes, halted>>
  /\ UNCHANGED <<tip, phrases, incidents, said>>

\* create_round and its meta; a follow-up for nobody is not opened.
create_round(p) ==
  LET r == MaxRounds + 1 - Cardinality(FreeIds)
  IN /\ act[p].at = "create"
     /\ \/ /\ FreeIds # {}
           /\ round' = [round EXCEPT ![r] = [status |-> "active", tip |-> act[p].tip,
                                             index |-> act[p].index, mode |-> act[p].mode]]
           /\ act' = [act EXCEPT ![p].at = "install", ![p].ids = {r}]
        \/ /\ act[p].index > 1 \/ FreeIds = {}
           /\ Goes(p, IF act[p].index > 1 THEN Ends(p) ELSE "file")
           /\ UNCHANGED round
     /\ UNCHANGED <<boss, incidents, seat, wakes, said, halted>>

\* _install_round_queue: who speaks, and who is passed by the engine.
_install_round_queue(p) ==
  /\ act[p].at = "install"
  /\ \E r \in act[p].ids, speak \in SUBSET Agents :
       /\ act[p].mode = "fanout" => speak = Agents
       /\ act[p].index > 1 => speak # {}
       /\ \E first \in IF act[p].mode = "rounds" /\ speak # {} THEN speak ELSE {NoAgent} :
            LET woken == IF act[p].mode = "fanout" THEN speak ELSE {first} \cap Agents
            IN /\ seat' = [seat EXCEPT ![r] = [a \in Agents |->
                             IF a = first THEN "queued" ELSE IF a \in speak THEN "pending"
                             ELSE "observed"]]
               /\ round' = IF speak = {} THEN maybe_complete_round(seat', {r}) ELSE round
               /\ act' = [act EXCEPT
                            ![p].at = IF act[p].index > 1 THEN Ends(p) ELSE "file",
                            ![p].emits = @ \cup {WakeOf(a, r, "message") : a \in woken}]
  /\ UNCHANGED <<boss, incidents, wakes, said, halted>>

-----------------------------------------------------------------------------
(* The end of a turn.                                                       *)

\* _persist_reply: a newer human message discards the line.
_persist_reply ==
  /\ T.at = "post"
  /\ \/ /\ Stale(T.tip)
        /\ Goes("turn", "skip")
        /\ UNCHANGED said
     \/ /\ ~Stale(T.tip)
        /\ said' = said \cup {<<T.round, T.agent>>}
        /\ Goes("turn", "file")
  /\ UNCHANGED <<boss, incidents, round, seat, wakes, halted>>

\* supersede_stale_thread_turn: close the old round, wake once on the latest tip.
supersede_stale_thread_turn ==
  LET own == [seat EXCEPT ![T.round][T.agent] = IF @ \in OpenSeat THEN "observed" ELSE @]
  IN /\ T.at = "skip"
     /\ seat' = [own EXCEPT ![T.round] = [a \in Agents |->
                   IF @[a] \in {"pending", "queued"} THEN "observed" ELSE @[a]]]
     /\ round' = maybe_complete_round(seat', {T.round})
     /\ wakes' = {w \in wakes : w.round # T.round}
     /\ act' = IF \E r \in Ids : round[r].tip = tip
               THEN [act EXCEPT !["turn"].at = "file"]
               ELSE [act EXCEPT !["turn"].at = "open", !["turn"].tip = tip]
     /\ halted' = halted \cup Stranded({T.round})
     /\ UNCHANGED <<boss, incidents, said>>

\* Seeded fault: what the process held is not cleared.
FilesAndKeeps(p) ==
  /\ act[p].at = "file"
  /\ wakes' = wakes \cup act[p].emits
  /\ act' = [act EXCEPT ![p].at = "idle"]
  /\ UNCHANGED <<boss, incidents, round, seat, said, halted>>

\* The trigger is completed and its wakes are filed; the app files its own.
Files(p) ==
  /\ act[p].at = "file"
  /\ wakes' = wakes \cup act[p].emits
  /\ act' = [act EXCEPT ![p] = Idle]
  /\ UNCHANGED <<boss, incidents, round, seat, said, halted>>

-----------------------------------------------------------------------------
(* The app: human messages, the pause button, the reset of an agent.        *)

\* The message is stored before its rounds are looked at (an await between).
Says(p) ==
  /\ act[p] = Idle /\ tip < LastTip
  /\ tip' = tip + 1
  /\ phrases' \in {phrases, phrases \cup {tip + 1}}
  /\ act' = [act EXCEPT ![p] = [Idle EXCEPT !.at = "hear", !.tip = tip + 1]]
  /\ UNCHANGED <<paused, incidents, round, seat, wakes, said, halted>>

\* cancel_queued_older_thread_rounds and prepare_human_channel_message.
Hears(p) ==
  LET t == act[p].tip
      older == {r \in Active : round[r].tip # t}
  IN /\ act[p].at = "hear"
     /\ IF t \in phrases /\ ~paused THEN Cancels(Active, {})
        ELSE Cancels(older, in_flight)
     /\ paused' = (t \in phrases)
     /\ act' = [act EXCEPT ![p] = IF t \in phrases THEN Idle ELSE [@ EXCEPT !.at = "open"]]
     /\ UNCHANGED <<tip, phrases, incidents, said>>

Happens == incidents < MaxIncidents /\ incidents' = incidents + 1

PauseButton ==
  /\ Clicks /\ Happens /\ ~paused
  /\ paused' = TRUE
  /\ Cancels(Active, {})
  /\ UNCHANGED <<tip, phrases, act, said>>

ResumeButton ==
  /\ Clicks /\ Happens /\ paused
  /\ paused' = FALSE
  /\ UNCHANGED <<tip, phrases, round, seat, wakes, act, said, halted>>

\* discard_claimed_turns: the cancelled turn's seat is released by the app.
Resets ==
  /\ Clicks /\ Happens /\ T.at = "think" /\ act["reset"] = Idle
  /\ act' = [act EXCEPT !["turn"] = Idle,
                        !["reset"] = IF seat[T.round][T.agent] \in OpenSeat
                                     THEN [T EXCEPT !.at = "finish"] ELSE Idle]
  /\ UNCHANGED <<boss, round, seat, wakes, said, halted>>

-----------------------------------------------------------------------------
(* Turns that end without moving their round, and the restart.              *)

\* An unreadable or late model reply, no model, a decision refused halfway:
\* the trigger completes and the seat stays (_finish_decision_recovery).
TurnGivesUp ==
  /\ Faults /\ Happens /\ (T.at = "think" \/ (T.at = "finish" /\ T.spoke))
  /\ act' = [act EXCEPT !["turn"] = Idle]
  /\ halted' = halted \cup Halts(T.round)
  /\ UNCHANGED <<boss, round, seat, wakes, said>>

\* The worker dies; requeue_all_claimed_triggers puts the wake back, unless
\* the trigger had been completed and only its wakes were lost.
Crash ==
  /\ Faults /\ Happens /\ T.at \notin {"down", "boot"}
  /\ act' = [act EXCEPT !["turn"] = [Idle EXCEPT !.at = "down"]]
  /\ wakes' \in IF T = Idle THEN {wakes}
                ELSE {wakes \cup {WakeOf(T.agent, T.round, T.kind)}}
                     \cup (IF T.at = "file" THEN {wakes} ELSE {})
  /\ halted' = IF T.at = "think" THEN halted
               ELSE halted \cup T.ids \cup ({T.round} \cap Ids) \cup {w.round : w \in T.emits}
  /\ UNCHANGED <<boss, round, seat, said>>

\* close_orphaned_channel_rounds reads which rounds have a live trigger ...
ReadsLive ==
  /\ T.at = "down"
  /\ act' = [act EXCEPT !["turn"].at = "boot", !["turn"].ids = {w.round : w \in wakes}]
  /\ UNCHANGED <<boss, incidents, round, seat, wakes, said, halted>>

\* ... and closes the others that are older than the claim timeout.
close_orphaned_channel_rounds ==
  LET opening == UNION {act[p].ids \cup {w.round : w \in act[p].emits} : p \in Posters}
  IN /\ T.at = "boot"
     /\ \E youngest \in 1 .. MaxRounds + 1 :
          LET dead == {r \in Active : r < youngest /\ r \notin T.ids \cup opening}
          IN /\ seat' = [r \in Ids |-> [a \in Agents |->
                           IF r \in dead /\ seat[r][a] \in OpenSeat THEN "observed"
                           ELSE seat[r][a]]]
             /\ round' = [r \in Ids |-> IF r \in dead
                            THEN [round[r] EXCEPT !.status = "completed"] ELSE round[r]]
     /\ act' = [act EXCEPT !["turn"] = Idle]
     /\ UNCHANGED <<boss, incidents, wakes, said, halted>>

-----------------------------------------------------------------------------
Init ==
  /\ tip = 0 /\ phrases = {} /\ paused = FALSE
  /\ round = [r \in Ids |-> NoRound]
  /\ seat = [r \in Ids |-> [a \in Agents |-> "none"]]
  /\ wakes = {} /\ act = [p \in Procs |-> Idle]
  /\ incidents = 0 /\ said = {} /\ halted = {}

Finishes(p) ==
  \/ finalize_channel_response(p) \/ advance_channel_round(p) \/ _redecide_remaining(p)
  \/ create_round(p) \/ _install_round_queue(p) \/ Files(p)

TurnNext ==
  \/ Claim \/ Answers \/ observe_channel_message \/ passes \/ release_channel_seat
  \/ reserve_slot \/ begin_channel_response
  \/ _persist_reply \/ supersede_stale_thread_turn
  \/ Finishes("turn") \/ start_channel_peer_round("turn")
  \/ ReadsLive \/ close_orphaned_channel_rounds

PosterNext(p) ==
  \/ Hears(p) \/ start_channel_peer_round(p) \/ create_round(p)
  \/ _install_round_queue(p) \/ Files(p)

Next ==
  \/ TurnNext \/ Finishes("reset")
  \/ \E p \in Posters : Says(p) \/ PosterNext(p)
  \/ PauseButton \/ ResumeButton \/ Resets
  \/ TurnGivesUp \/ Crash

\* Threads and handlers go on; a queued wake is claimed in the end (Dispatcher).
\* Nothing makes anybody post, press a button or crash.
Fairness ==
  /\ WF_vars(TurnNext) /\ WF_vars(Finishes("reset"))
  /\ \A p \in Posters : WF_vars(PosterNext(p))

Spec == Init /\ [][Next]_vars /\ Fairness

-----------------------------------------------------------------------------
(* Properties.                                                              *)

Settled(r) == round[r].status # "active" /\ In(r, OpenSeat) = {}
Quiet == \A p \in Procs : act[p] = Idle

\* A round is driven only by the turns bound to it, so when nobody is at
\* work every unsettled round has a wake, unless its queue was stopped in one
\* of the known ways: Pause or a newer message met by a turn, a turn that
\* ended without a decision, a crash.
OnlyKnownStops ==
  Quiet => \A r \in Ids \ halted : Settled(r) \/ \E w \in wakes : w.round = r

\* The seat that speaks is one: two promotions never pass each other.
OneResponder == \A r \in Ids : Cardinality(In(r, {"responding"})) <= 1

\* A seat speaks once in a round, whatever re-routes and resets it meets, unless
\* the worker died with the round in its hands: a retried channel_response posts again.
SpeaksOnce ==
  T.at = "post" => T.round \in halted \/ <<T.round, T.agent>> \notin said

\* Every round comes to its end, unless it was stopped in a known way.
RoundsSettle ==
  \A r \in Ids : ~Settled(r) ~> (Settled(r) \/ r \in halted)
================================================================================
