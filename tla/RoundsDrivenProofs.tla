-------------------------- MODULE RoundsDrivenProofs --------------------------
(***************************************************************************)
(* Proofs about Rounds, for every number of members, handlers, messages and  *)
(* rounds: a round that was not stopped in a known way always has somebody   *)
(* who drives it on, and a seat speaks once.                                 *)
(***************************************************************************)
EXTENDS RoundsProofs

-----------------------------------------------------------------------------
(* The seats of a round that was not stopped.                               *)

Closed(r) == In(r, OpenSeat) = {}
Letter(w, r, a) == w.round = r /\ w.agent = a
Letters == {w \in Wake : w \in wakes \/ \E p \in Procs : w \in act[p].emits}
At(p, r, a, steps) == On(p, r) /\ act[p].agent = a /\ act[p].at \in steps

\* A process has a seat in its hands: it is to be waked, or in its turn.
Busy(p, r, a) ==
  \/ \E w \in act[p].emits : Letter(w, r, a)
  \/ At(p, r, a, {"think", "join", "finish"})
  \/ At(p, r, a, {"activate"}) /\ seat[r][a] = "queued"

\* Each seat has one wake or one turn, and none when it has responded.
Unique(r) ==
  \A a \in Agents :
    /\ \A v, w \in wakes : Letter(v, r, a) /\ Letter(w, r, a) => v = w
    /\ \A p \in Procs :
         /\ \A v, w \in act[p].emits : Letter(v, r, a) /\ Letter(w, r, a) => v = w
         /\ Busy(p, r, a) => \A w \in wakes : ~Letter(w, r, a)
         /\ \A q \in Procs : Busy(p, r, a) /\ Busy(q, r, a) => p = q
Spent(r) ==
  \A a \in Agents :
    /\ seat[r][a] = "responded" =>
         (\A w \in wakes : ~Letter(w, r, a)) /\ \A p \in Procs : ~Busy(p, r, a)
    /\ <<r, a>> \in said => seat[r][a] = "responded"

\* A turn whose reply is decided has closed its seat, and has not posted yet.
Replying(p) ==
  /\ act[p].spoke
  /\ act[p].at \in {"advance", "reroute", "post"} \/ (act[p].at \in {"create", "install"} /\ act[p].index > 1)
Unsaid(r) ==
  On("turn", r) /\ Replying("turn") => seat[r][T.agent] = "responded" /\ <<r, T.agent>> \notin said

\* The seats of fan-out: everybody is waked at once, and they respond in turn.
Seats(w, r, a) == seat[r][a] \in {"observed", IF w = "message" THEN "pending" ELSE "responding"}
FanoutWakes(r) ==
  \A a \in Agents : \A w \in Letters : Letter(w, r, a) => Seats(w.kind, r, a)
FanoutTurn(p, r, a) ==
  On(p, r) /\ act[p].agent = a =>
    /\ act[p].at = "think" => Seats(act[p].kind, r, a)
    /\ act[p].at = "join" => seat[r][a] \in {"observed", "pending"}
    /\ act[p].at = "activate" => seat[r][a] \in {"observed", "queued", "responding"}
    /\ act[p].at = "finish" => seat[r][a] \in {"observed", "pending", "responding"}
    /\ seat[r][a] = "pending" => act[p].at \in {"think", "join", "finish", "skip"}
FanoutTurns(r) == \A p \in Procs, a \in Agents : FanoutTurn(p, r, a)
FanoutSeat(r, a) ==
  /\ seat[r][a] = "pending" =>
       \/ \E w \in Letters : Letter(w, r, a)
       \/ \E p \in Procs : At(p, r, a, {"think", "join", "finish", "skip"})
  /\ seat[r][a] = "responding" =>
       \/ \E w \in Letters : Letter(w, r, a)
       \/ \E p \in Procs : At(p, r, a, {"think", "finish", "skip"})
  /\ seat[r][a] = "queued" =>
       (\E b \in Agents : seat[r][b] = "responding") \/ At("turn", r, a, {"activate"})
FanoutSeats(r) == \A a \in Agents : FanoutSeat(r, a)
Fanout(r) == FanoutWakes(r) /\ FanoutTurns(r) /\ FanoutSeats(r)

\* The seats of rounds: one wake or one process has the round, and it has the
\* only seat that is queued or responding.
OneHolder(r) ==
  /\ \A v, w \in wakes : v.round = r /\ w.round = r => v = w
  /\ \A p \in Procs : 
       /\ \A v, w \in act[p].emits : v.round = r /\ w.round = r => v = w
       /\ Holds(p, r) => ~Waits(r)
       /\ \A q \in Procs : Holds(p, r) /\ Holds(q, r) => p = q
Awaited(r, kind, a) == kind = "message" /\ (seat[r][a] = "queued" \/ Closed(r))
TurnsWakes(r) == \A w \in Letters : w.round = r => Awaited(r, w.kind, w.agent)
TurnsTurn(p, r) ==
  On(p, r) =>
    /\ act[p].at \in {"think", "join", "activate"} => Awaited(r, act[p].kind, act[p].agent)
    /\ act[p].at \notin {"think", "join", "activate", "finish", "skip"} \/ act[p].emits # {} =>
         seat[r][act[p].agent] \notin OpenSeat
    /\ act[p].at = "reroute" =>
         \A a \in Agents : /\ seat[r][a] = "pending" => a \in act[p].rest
                           /\ a \in act[p].rest => seat[r][a] \in {"pending", "observed"}
TurnsTurns(r) == \A p \in Procs : TurnsTurn(p, r)
TurnsSeat(r, a) ==
  /\ seat[r][a] = "queued" =>
       \/ \E w \in Letters : Letter(w, r, a)
       \/ \E p \in Procs : At(p, r, a, {"think", "join", "activate", "finish", "skip"})
  /\ seat[r][a] = "responding" => \E p \in Procs : At(p, r, a, {"finish", "skip"})
  /\ seat[r][a] = "pending" =>
       \/ \E w \in Letters : w.round = r
       \/ \E p \in Procs : On(p, r) /\ act[p].at \in {"think", "join", "activate", "finish",
                                                      "advance", "reroute", "skip"}
TurnsSeats(r) == \A a \in Agents : TurnsSeat(r, a)
Turns(r) == OneHolder(r) /\ TurnsWakes(r) /\ TurnsTurns(r) /\ TurnsSeats(r)

\* A round is active while a seat is open, or until its seats are there.
EndsWithSeats(r) == round[r].status = "active" => ~Closed(r) \/ \E p \in Procs : Installs(p, r)

Driven(r) ==
  /\ Unique(r) /\ Spent(r) /\ Unsaid(r) /\ EndsWithSeats(r)
  /\ round[r].mode = "fanout" => Fanout(r)
  /\ round[r].mode = "rounds" => Turns(r)
IInv == Formed /\ OneResponds /\ \A r \in Ids \ halted : Driven(r)

-----------------------------------------------------------------------------
(* A round is driven on: what a step leaves alone.                          *)

Late == {"open", "create", "install", "file", "post"}
SameQueue(r) ==
  /\ seat'[r] = seat[r] /\ round'[r] = round[r]
  /\ \A w \in Wake : w.round = r => (w \in wakes' <=> w \in wakes)
SameRound(r) ==
  /\ SameQueue(r)
  /\ \A a \in Agents : <<r, a>> \in said' <=> <<r, a>> \in said

\* A process is seen alike from a round: it does not move, or it has left the
\* seat behind and goes on.
Rests(p, r) ==
  /\ On(p, r)' <=> On(p, r)
  /\ On(p, r) => \/ act'[p] = act[p]
                 \/ /\ act'[p].agent = act[p].agent
                    /\ act[p].at \in Late /\ act'[p].at \in Late \cup {"skip"}
                    /\ Replying(p)' => Replying(p)
  /\ \A w \in Wake : w.round = r => (w \in act'[p].emits <=> w \in act[p].emits)
  /\ Installs(p, r)' <=> Installs(p, r)

\* No seat is woken or taken by anybody else than before.
Fewer(r) ==
  /\ \A w \in wakes' : w.round = r => w \in wakes
  /\ \A p \in Procs : /\ \A w \in act'[p].emits : w.round = r => w \in act[p].emits
                      /\ \A a \in Agents : Busy(p, r, a)' => Busy(p, r, a)

LEMMA UniqueKept ==
  ASSUME NEW r \in Ids, Unique(r), Fewer(r) PROVE Unique(r)'
<1> SUFFICES ASSUME NEW a \in Agents
             PROVE  /\ \A v, w \in wakes' : Letter(v, r, a) /\ Letter(w, r, a) => v = w
                    /\ \A p \in Procs :
                         /\ \A v, w \in act'[p].emits : Letter(v, r, a) /\ Letter(w, r, a) => v = w
                         /\ Busy(p, r, a)' => \A w \in wakes' : ~Letter(w, r, a)
                         /\ \A q \in Procs : Busy(p, r, a)' /\ Busy(q, r, a)' => p = q
  BY DEF Unique, Letter
<1>1. \A w \in wakes' : Letter(w, r, a) => w \in wakes
  BY DEF Fewer, Letter
<1>2. \A p \in Procs : \A w \in act'[p].emits : Letter(w, r, a) => w \in act[p].emits
  BY DEF Fewer, Letter
<1>3. \A p \in Procs : Busy(p, r, a)' => Busy(p, r, a)
  BY DEF Fewer
<1> QED
  BY <1>1, <1>2, <1>3 DEF Unique

LEMMA SpentKept ==
  ASSUME NEW r \in Ids, Spent(r), Fewer(r),
         \A a \in Agents : /\ seat'[r][a] = "responded" <=> seat[r][a] = "responded"
                           /\ <<r, a>> \in said' <=> <<r, a>> \in said
  PROVE  Spent(r)'
<1>1. \A w \in wakes' : w.round = r => w \in wakes
  BY DEF Fewer
<1>2. \A p \in Procs, a \in Agents : Busy(p, r, a)' => Busy(p, r, a)
  BY DEF Fewer
<1> QED
  BY <1>1, <1>2 DEF Spent, Letter

LEMMA LettersTyped ==
  ASSUME TypeOK
  PROVE  /\ \A w : w \in Letters <=> w \in wakes \/ \E p \in Procs : w \in act[p].emits
         /\ wakes \subseteq Wake /\ \A p \in Procs : act[p].emits \subseteq Wake
BY DEF TypeOK, Letters

LEMMA RestsFewer ==
  ASSUME TypeOK, TypeOK', NEW r \in Ids, \A p \in Procs : Rests(p, r),
         \A w \in wakes' : w.round = r => w \in wakes,
         \A a \in Agents : seat'[r][a] = "queued" => seat[r][a] = "queued"
  PROVE  Fewer(r)
<1>1. \A p \in Procs : act[p].emits \subseteq Wake /\ act'[p].emits \subseteq Wake
  BY DEF TypeOK
<1>2. \A p \in Procs : \A w \in act'[p].emits : w.round = r => w \in act[p].emits
  BY <1>1 DEF Rests
<1>3. ASSUME NEW p \in Procs, NEW a \in Agents, Busy(p, r, a)' PROVE Busy(p, r, a)
  <2>1. CASE \E w \in act'[p].emits : Letter(w, r, a)
    BY <1>2, <2>1 DEF Busy, Letter
  <2>2. CASE ~\E w \in act'[p].emits : Letter(w, r, a)
    <3>1. On(p, r)' /\ act'[p].agent = a /\ act'[p].at \in {"think", "join", "finish", "activate"}
          /\ (act'[p].at = "activate" => seat'[r][a] = "queued")
      BY <1>3, <2>2 DEF Busy, At, Letter
    <3>2. On(p, r) /\ act'[p] = act[p]
      BY <3>1 DEF Rests, Late
    <3> QED
      BY <3>1, <3>2 DEF Busy, At
  <2> QED
    BY <2>1, <2>2
<1> QED
  BY <1>2, <1>3 DEF Fewer

LEMMA RestsUnsaid ==
  ASSUME NEW r \in Ids, Unsaid(r), Rests("turn", r),
         \A a \in Agents : /\ seat[r][a] = "responded" => seat'[r][a] = "responded"
                           /\ <<r, a>> \in said' <=> <<r, a>> \in said,
         On("turn", r) => T.agent \in Agents
  PROVE  Unsaid(r)'
BY DEF Unsaid, Rests, Replying, On, T

\* The parts of Turns that only look at who holds the round.
LEMMA RestsHolder ==
  ASSUME TypeOK, TypeOK', NEW r \in Ids, OneHolder(r), \A p \in Procs : Rests(p, r),
         \A w \in wakes' : w.round = r => w \in wakes
  PROVE  OneHolder(r)'
<1>1. \A p \in Procs : act[p].emits \subseteq Wake /\ act'[p].emits \subseteq Wake
  BY DEF TypeOK
<1>2. \A p \in Procs : \A w \in act'[p].emits : w.round = r => w \in act[p].emits
  BY <1>1 DEF Rests
<1>3. \A p \in Procs : Holds(p, r)' => Holds(p, r)
  BY <1>2 DEF Rests, Holds, Mails
<1>4. Waits(r)' => Waits(r)
  BY DEF Waits
<1> QED
  BY <1>2, <1>3, <1>4 DEF OneHolder

\* In rounds, whoever has the round has the only seat that may be queued or respond.
LEMMA HolderFacts ==
  ASSUME TypeOK, NEW r \in Ids, Turns(r), NEW p \in Procs, On(p, r), ~Mails(p, r)
  PROVE  /\ \A w \in Letters : w.round # r
         /\ ~Waits(r) /\ \A q \in Procs : q # p => ~Holds(q, r) /\ ~On(q, r) /\ ~Mails(q, r)
         /\ \A a \in Agents : seat[r][a] \in {"queued", "responding"} =>
              a = act[p].agent /\ act[p].at \in {"think", "join", "activate", "finish", "skip"}
<1>1. OneHolder(r) /\ Holds(p, r)
  BY DEF Turns, Holds
<1>2. ~Waits(r) /\ \A q \in Procs : q # p => ~Holds(q, r) /\ ~On(q, r) /\ ~Mails(q, r)
  BY <1>1 DEF OneHolder, Holds
<1>3. \A w \in Letters : w.round # r
  BY <1>2, LettersTyped DEF Waits, Mails
<1>4. \A a \in Agents : seat[r][a] \in {"queued", "responding"} =>
        \E q \in Procs : At(q, r, a, {"think", "join", "activate", "finish", "skip"})
  BY <1>3 DEF Turns, TurnsSeats, TurnsSeat, Letter, At
<1>5. \A q \in Procs, a \in Agents :
        At(q, r, a, {"think", "join", "activate", "finish", "skip"}) => q = p
  BY <1>2 DEF At
<1> QED
  BY <1>2, <1>3, <1>4, <1>5 DEF At

\* A turn or a reset is on the round it has a seat of.
LEMMA OnFacts ==
  ASSUME Formed, NEW r \in Ids, NEW p \in Procs, On(p, r)
  PROVE  /\ p \in Finishers /\ p \notin Posters /\ act[p] \in Acts /\ act[p].round = r
         /\ act[p].agent \in Agents /\ act[p].kind \in {"message", "response"} /\ Local(p)
         /\ act[p].at \notin {"idle", "down", "boot", "hear"} /\ Opened(r) /\ ~Installs(p, r)
<1> USE Numbers
<1>1. act[p] \in Acts /\ Local(p) /\ (act[p].at = "idle" => act[p] = Idle)
  BY ActsTyped DEF Formed, TypeOK, Shape
<1>2. p \notin Posters /\ p \in Finishers
  BY <1>1 DEF Local, PosterShape, On, Finishers, Procs
<1>3. act[p].at \notin {"idle", "down", "boot", "hear"} /\ Bound(p)
  <2>1. act[p].at # "idle"
    BY <1>1, IdleFacts DEF On
  <2>2. CASE p = "turn"
    BY <1>1, <2>1, <2>2 DEF Local, TurnShape, T, On
  <2>3. CASE p = "reset"
    BY <1>1, <2>1, <2>3 DEF Local, ResetShape
  <2> QED
    BY <1>2, <2>2, <2>3 DEF Finishers
<1>4. Opened(r)
  BY DEF Formed, Shape, Referred, On
<1>5. ~Installs(p, r)
  BY DEF Formed, Shape, Installing, Holds
<1> QED
  BY <1>1, <1>2, <1>3, <1>4, <1>5 DEF Bound, Acts, On

\* A turn on a round, and the same turn at its next step.
LEMMA TurnOn ==
  ASSUME Formed, NEW r \in Ids, On("turn", r)
  PROVE  /\ TypeOK /\ T \in Acts /\ T = act["turn"] /\ T' = act'["turn"] /\ T.round = r
         /\ T.agent \in Agents /\ T.kind \in {"message", "response"} /\ TurnShape
         /\ Opened(r) /\ ~Installs("turn", r)
<1>1. "turn" \in Procs /\ T = act["turn"] /\ T' = act'["turn"]
  BY DEF Procs, T
<1>2. Local("turn") /\ TypeOK
  BY <1>1, OnFacts DEF Formed
<1>3. TurnShape
  BY <1>2 DEF Local
<1> QED
  BY <1>1, <1>2, <1>3, OnFacts

LEMMA RestsDriven ==
  ASSUME Formed, TypeOK', NEW r \in Ids, Driven(r), SameQueue(r), \A p \in Procs : Rests(p, r),
         Spent(r)', Unsaid(r)'
  PROVE  Driven(r)'
<1> USE Numbers
<1>1. TypeOK /\ (\A w \in wakes' : w.round = r => w \in wakes) /\ wakes' \subseteq Wake
  BY DEF Formed, TypeOK, SameQueue
<1>2. seat'[r] = seat[r]
  BY DEF SameQueue
<1>3. Fewer(r)
  BY <1>1, <1>2, RestsFewer
<1>4. Unique(r)'
  BY <1>3, UniqueKept DEF Driven
<1>6. \A p \in Procs : Installs(p, r)' <=> Installs(p, r)
  BY DEF Rests
<1>7. EndsWithSeats(r)'
  BY <1>2, <1>6 DEF Driven, EndsWithSeats, SameQueue, Closed, In
<1>8. \A w \in Wake : w.round = r => (w \in Letters' <=> w \in Letters)
  <2>1. \A w \in Wake : w \in Letters <=> w \in wakes \/ \E p \in Procs : w \in act[p].emits
    BY DEF Letters
  <2>2. \A w \in Wake : w \in Letters' <=> w \in wakes' \/ \E p \in Procs : w \in act'[p].emits
    BY DEF Letters
  <2> QED
    BY <2>1, <2>2 DEF SameQueue, Rests
<1>9. Letters \subseteq Wake /\ Letters' \subseteq Wake
  BY DEF Letters
<1>10. ASSUME NEW p \in Procs, NEW a \in Agents, NEW steps, Late \cap steps = {}, At(p, r, a, steps)
       PROVE At(p, r, a, steps)'
  BY <1>10 DEF At, Rests
<1>11. ASSUME round[r].mode = "fanout" PROVE Fanout(r)'
  <2>1. Fanout(r)
    BY <1>11 DEF Driven
  <2>2. FanoutWakes(r)'
    BY <1>2, <1>8, <1>9, <2>1 DEF Fanout, FanoutWakes, Letter, Seats
  <2>3. FanoutTurns(r)'
    BY <1>2, <2>1 DEF Fanout, FanoutTurns, FanoutTurn, Rests, On, Seats, Late
  <2>4. FanoutSeats(r)'
    <3> SUFFICES ASSUME NEW a \in Agents PROVE FanoutSeat(r, a)'
      BY DEF FanoutSeats
    <3>1. (\E w \in Letters : Letter(w, r, a)) => \E w \in Letters' : Letter(w, r, a)
      BY <1>8, <1>9 DEF Letter
    <3>2. seat[r][a] = "pending" => \/ \E w \in Letters' : Letter(w, r, a)
                                    \/ \E p \in Procs : At(p, r, a, {"think", "join", "finish", "skip"})'
      BY <1>10, <2>1, <3>1 DEF Fanout, FanoutSeats, FanoutSeat, Late
    <3>3. seat[r][a] = "responding" => \/ \E w \in Letters' : Letter(w, r, a)
                                       \/ \E p \in Procs : At(p, r, a, {"think", "finish", "skip"})'
      BY <1>10, <2>1, <3>1 DEF Fanout, FanoutSeats, FanoutSeat, Late
    <3>4. seat[r][a] = "queued" =>
             (\E b \in Agents : seat[r][b] = "responding") \/ At("turn", r, a, {"activate"})'
      BY <1>10, <2>1 DEF Fanout, FanoutSeats, FanoutSeat, Late
    <3> QED
      BY <1>2, <3>2, <3>3, <3>4 DEF FanoutSeat, Letter
  <2> QED
    BY <2>2, <2>3, <2>4 DEF Fanout
<1>12. ASSUME round[r].mode = "rounds" PROVE Turns(r)'
  <2>1. Turns(r)
    BY <1>12 DEF Driven
  <2>2. OneHolder(r)'
    BY <1>1, <2>1, RestsHolder DEF Turns
  <2>3. Closed(r)' <=> Closed(r)
    BY <1>2 DEF Closed, In
  <2>4. TurnsWakes(r)'
    BY <1>2, <1>8, <1>9, <2>1, <2>3 DEF Turns, TurnsWakes, Awaited
  <2>5. TurnsTurns(r)'
    BY <1>2, <2>1, <2>3 DEF Turns, TurnsTurns, TurnsTurn, Rests, On, Awaited, Late
  <2>6. TurnsSeats(r)'
    <3> SUFFICES ASSUME NEW a \in Agents PROVE TurnsSeat(r, a)'
      BY DEF TurnsSeats
    <3>1. /\ (\E w \in Letters : Letter(w, r, a)) => \E w \in Letters' : Letter(w, r, a)
          /\ (\E w \in Letters : w.round = r) => \E w \in Letters' : w.round = r
      BY <1>8, <1>9 DEF Letter
    <3>2. seat[r][a] = "queued" =>
             \/ \E w \in Letters' : Letter(w, r, a)
             \/ \E p \in Procs : At(p, r, a, {"think", "join", "activate", "finish", "skip"})'
      BY <1>10, <2>1, <3>1 DEF Turns, TurnsSeats, TurnsSeat, Late
    <3>3. seat[r][a] = "responding" => \E p \in Procs : At(p, r, a, {"finish", "skip"})'
      BY <1>10, <2>1 DEF Turns, TurnsSeats, TurnsSeat, Late
    <3>4. \A p \in Procs : On(p, r) /\ act[p].at \in
              {"think", "join", "activate", "finish", "advance", "reroute", "skip"} =>
            On(p, r)' /\ act'[p].at \in
              {"think", "join", "activate", "finish", "advance", "reroute", "skip"}
      BY DEF Rests, Late
    <3>5. seat[r][a] = "pending" =>
             \/ \E w \in Letters' : w.round = r
             \/ \E p \in Procs : On(p, r)' /\ act'[p].at \in
                  {"think", "join", "activate", "finish", "advance", "reroute", "skip"}
      BY <2>1, <3>1, <3>4 DEF Turns, TurnsSeats, TurnsSeat
    <3> QED
      BY <1>2, <3>2, <3>3, <3>5 DEF TurnsSeat, Letter
  <2> QED
    BY <2>2, <2>4, <2>5, <2>6 DEF Turns
<1>13. round'[r].mode = round[r].mode
  BY DEF SameQueue
<1> QED
  BY <1>4, <1>7, <1>11, <1>12, <1>13 DEF Driven

LEMMA DrivenKept ==
  ASSUME Formed, TypeOK', NEW r \in Ids, Driven(r), SameRound(r), \A p \in Procs : Rests(p, r)
  PROVE  Driven(r)'
<1>1. TypeOK /\ (\A w \in wakes' : w.round = r => w \in wakes) /\ "turn" \in Procs
  BY Numbers DEF Formed, TypeOK, SameRound, SameQueue
<1>2. seat'[r] = seat[r] /\ \A a \in Agents : <<r, a>> \in said' <=> <<r, a>> \in said
  BY DEF SameRound, SameQueue
<1>3. Spent(r)'
  BY <1>1, <1>2, RestsFewer, SpentKept DEF Driven
<1>4. Unsaid(r)'
  BY <1>1, <1>2, TurnOn, RestsUnsaid DEF Driven
<1> QED
  BY <1>3, <1>4, RestsDriven DEF SameRound

-----------------------------------------------------------------------------
(* A step of one process, seen from the round it has a seat of.             *)

LEMMA OthersRest ==
  ASSUME NEW r, NEW q, act'[q] = act[q] PROVE Rests(q, r)
BY DEF Rests, On, Installs

LEMMA StepsAway ==
  ASSUME Formed, TypeOK', NEW r \in Ids, Driven(r), SameRound(r), NEW P \in SUBSET Procs,
         \A q \in Procs \ P : act'[q] = act[q],
         \A p \in P : ~Holds(p, r) /\ ~Holds(p, r)'
  PROVE  Driven(r)'
<1>1. \A q \in Procs \ P : Rests(q, r)
  BY OthersRest
<1>2. \A p \in P : Rests(p, r)
  BY DEF Rests, Holds, Mails
<1> QED
  BY <1>1, <1>2, DrivenKept

SameLetters(r) == \A w \in Wake : w.round = r => (w \in Letters' <=> w \in Letters)

\* The table of wakes and what p files for r stay.
LEMMA KeepsLetters ==
  ASSUME TypeOK, TypeOK', NEW r \in Ids, NEW p \in Procs, \A q \in Procs : q # p => act'[q] = act[q],
         \A w \in Wake : w.round = r => (w \in wakes' <=> w \in wakes),
         \A w \in Wake : w.round = r => (w \in act'[p].emits <=> w \in act[p].emits)
  PROVE  /\ SameLetters(r) /\ Letters \subseteq Wake /\ Letters' \subseteq Wake
         /\ \A a \in Agents : (\E w \in Letters' : Letter(w, r, a)) <=> (\E w \in Letters : Letter(w, r, a))
         /\ (\E w \in Letters' : w.round = r) <=> (\E w \in Letters : w.round = r)
         /\ Waits(r)' <=> Waits(r)
         /\ \A q \in Procs : Mails(q, r)' <=> Mails(q, r)
<1>1. \A w \in Wake : w \in Letters <=> w \in wakes \/ \E q \in Procs : w \in act[q].emits
  BY DEF Letters
<1>2. \A w \in Wake : w \in Letters' <=> w \in wakes' \/ \E q \in Procs : w \in act'[q].emits
  BY DEF Letters
<1>3. Letters \subseteq Wake /\ Letters' \subseteq Wake
  BY DEF Letters
<1>4. SameLetters(r)
  BY <1>1, <1>2 DEF SameLetters
<1>5. /\ \A a \in Agents : (\E w \in Letters' : Letter(w, r, a)) <=> (\E w \in Letters : Letter(w, r, a))
      /\ (\E w \in Letters' : w.round = r) <=> (\E w \in Letters : w.round = r)
  BY <1>3, <1>4 DEF SameLetters, Letter
<1>6. wakes \subseteq Wake /\ wakes' \subseteq Wake
      /\ \A q \in Procs : act[q].emits \subseteq Wake /\ act'[q].emits \subseteq Wake
  BY DEF TypeOK
<1>7. Waits(r)' <=> Waits(r)
  BY <1>6 DEF Waits
<1>8. \A q \in Procs : Mails(q, r)' <=> Mails(q, r)
  BY <1>6 DEF Mails
<1> QED
  BY <1>3, <1>4, <1>5, <1>7, <1>8

\* Nobody but p is busy with a seat when p is.
LEMMA BusyAlone ==
  ASSUME NEW r \in Ids, Unique(r), NEW p \in Procs, NEW a \in Agents, Busy(p, r, a)
  PROVE  /\ \A w \in wakes : ~Letter(w, r, a)
         /\ \A q \in Procs : q # p => ~Busy(q, r, a) /\ \A w \in act[q].emits : ~Letter(w, r, a)
<1>1. \A q \in Procs : q # p => ~Busy(q, r, a)
  BY DEF Unique
<1> QED
  BY <1>1 DEF Unique, Busy

\* A turn that had to decide goes on to join the queue, to close its seat, or to
\* its skip line.
LEMMA DecidesDriven ==
  ASSUME Formed, TypeOK', NEW r \in Ids, On("turn", r), Driven(r), T.at = "think",
         UNCHANGED <<round, seat, wakes, said>>, \A q \in Procs : q # "turn" => act'[q] = act[q],
         T'.round = r, T'.agent = T.agent, T'.kind = T.kind, T'.emits = {},
         T'.at \in {"join", "finish", "skip"}, T'.at = "join" => T.kind = "message"
  PROVE  Driven(r)'
<1> USE Numbers
<1>1. /\ TypeOK /\ T.emits = {} /\ T.agent \in Agents /\ T.round = r
      /\ On("turn", r)' /\ act["turn"].emits = {} /\ act'["turn"].emits = {}
      /\ T = act["turn"] /\ T' = act'["turn"]
  BY OnFacts DEF Formed, T, Local, TurnShape, On
<1>2. /\ SameLetters(r) /\ Letters \subseteq Wake /\ Letters' \subseteq Wake
      /\ \A a \in Agents : (\E w \in Letters' : Letter(w, r, a)) <=> (\E w \in Letters : Letter(w, r, a))
      /\ (\E w \in Letters' : w.round = r) <=> (\E w \in Letters : w.round = r)
      /\ Waits(r)' <=> Waits(r)
      /\ \A q \in Procs : Mails(q, r)' <=> Mails(q, r)
  BY <1>1, KeepsLetters
<1>3. Fewer(r)
  <2>1. ASSUME NEW q \in Procs, NEW a \in Agents, Busy(q, r, a)' PROVE Busy(q, r, a)
    <3>1. CASE q = "turn"
      BY <1>1, <2>1, <3>1 DEF Busy, At, On
    <3>2. CASE q # "turn"
      BY <2>1, <3>2 DEF Busy, At, On
    <3> QED
      BY <3>1, <3>2
  <2> QED
    BY <1>1, <2>1 DEF Fewer
<1>4. Unique(r)' /\ Spent(r)'
  BY <1>3, UniqueKept, SpentKept DEF Driven
<1>5. Unsaid(r)' /\ EndsWithSeats(r)'
  <2>1. Unsaid(r)'
    BY <1>1 DEF Unsaid, Replying
  <2>2. \A q \in Procs : Installs(q, r)' <=> Installs(q, r)
    BY <1>1 DEF Installs
  <2> QED
    BY <2>1, <2>2 DEF Driven, EndsWithSeats, Closed, In
<1>6. ASSUME round[r].mode = "fanout" PROVE Fanout(r)'
  <2>1. FanoutWakes(r) /\ FanoutTurns(r) /\ FanoutSeats(r)
    BY <1>6 DEF Driven, Fanout
  <2>2. FanoutWakes(r)'
    BY <1>2, <2>1 DEF FanoutWakes, SameLetters, Letter, Seats
  <2>3. FanoutTurns(r)'
    <3> SUFFICES ASSUME NEW q \in Procs, NEW a \in Agents PROVE FanoutTurn(q, r, a)'
      BY DEF FanoutTurns
    <3>1. CASE q = "turn"
      BY <1>1, <2>1, <3>1 DEF FanoutTurns, FanoutTurn, Seats, On
    <3>2. CASE q # "turn"
      BY <2>1, <3>2 DEF FanoutTurns, FanoutTurn, On, Seats
    <3> QED
      BY <3>1, <3>2
  <2>4. FanoutSeats(r)'
    <3> SUFFICES ASSUME NEW a \in Agents PROVE FanoutSeat(r, a)'
      BY DEF FanoutSeats
    <3>1. \A q \in Procs : At(q, r, a, {"think", "join", "finish", "skip"}) =>
                             At(q, r, a, {"think", "join", "finish", "skip"})'
      BY <1>1 DEF At, On
    <3>2. seat[r][a] = "responding" =>
            \A q \in Procs : At(q, r, a, {"think", "finish", "skip"}) => At(q, r, a, {"think", "finish", "skip"})'
      BY <1>1, <2>1 DEF At, On, FanoutTurns, FanoutTurn, Seats
    <3>3. ~At("turn", r, a, {"activate"})
      BY <1>1 DEF At
    <3> QED
      BY <1>2, <2>1, <3>1, <3>2, <3>3 DEF FanoutSeats, FanoutSeat
  <2> QED
    BY <2>2, <2>3, <2>4 DEF Fanout
<1>7. ASSUME round[r].mode = "rounds" PROVE Turns(r)'
  <2>1. OneHolder(r) /\ TurnsWakes(r) /\ TurnsTurns(r) /\ TurnsSeats(r)
    BY <1>7 DEF Driven, Turns
  <2>2. OneHolder(r)'
    <3>1. \A q \in Procs : Holds(q, r)' => Holds(q, r)
      BY <1>1, <1>2 DEF Holds, On, Installs
    <3> QED
      BY <1>1, <1>2, <2>1, <3>1 DEF OneHolder
  <2>3. TurnsWakes(r)'
    BY <1>2, <2>1 DEF TurnsWakes, SameLetters, Awaited, Closed, In
  <2>4. TurnsTurns(r)'
    <3> SUFFICES ASSUME NEW q \in Procs PROVE TurnsTurn(q, r)'
      BY DEF TurnsTurns
    <3>1. CASE q = "turn"
      BY <1>1, <2>1, <3>1 DEF TurnsTurns, TurnsTurn, On, Awaited, Closed, In
    <3>2. CASE q # "turn"
      BY <2>1, <3>2 DEF TurnsTurns, TurnsTurn, On, Awaited, Closed, In
    <3> QED
      BY <3>1, <3>2
  <2>5. TurnsSeats(r)'
    <3> SUFFICES ASSUME NEW a \in Agents PROVE TurnsSeat(r, a)'
      BY DEF TurnsSeats
    <3>1. \A q \in Procs : At(q, r, a, {"think", "join", "activate", "finish", "skip"}) =>
                             At(q, r, a, {"think", "join", "activate", "finish", "skip"})'
      BY <1>1 DEF At, On
    <3>2. \A q \in Procs : At(q, r, a, {"finish", "skip"}) => At(q, r, a, {"finish", "skip"})'
      BY <1>1 DEF At, On
    <3>3. On("turn", r)' /\ act'["turn"].at \in
                                {"think", "join", "activate", "finish", "advance", "reroute", "skip"}
      BY <1>1
    <3> QED
      BY <1>2, <2>1, <3>1, <3>2, <3>3 DEF TurnsSeats, TurnsSeat
  <2> QED
    BY <2>2, <2>3, <2>4, <2>5 DEF Turns
<1> QED
  BY <1>4, <1>5, <1>6, <1>7 DEF Driven

\* A process that stands still, and a seat that stays or is observed.
LEMMA FanoutStands ==
  ASSUME NEW r \in Ids, NEW q \in Procs, NEW a \in Agents, FanoutTurn(q, r, a), act'[q] = act[q],
         seat'[r][a] \in {seat[r][a], "observed"}
  PROVE  FanoutTurn(q, r, a)'
BY DEF FanoutTurn, On, Seats

LEMMA TurnsStands ==
  ASSUME NEW r \in Ids, NEW q \in Procs, TurnsTurn(q, r), act'[q] = act[q],
         \A a \in Agents : seat'[r][a] = seat[r][a], On(q, r) => act[q].agent \in Agents
  PROVE  TurnsTurn(q, r)'
BY DEF TurnsTurn, On, Awaited, Closed, In

\* A turn that is given up, its seat closed already.
LEMMA LeavesDriven ==
  ASSUME Formed, TypeOK', NEW r \in Ids, On("turn", r), Driven(r), T.at \in {"think", "finish"},
         seat[r][T.agent] \notin OpenSeat, round[r].mode = "rounds" => Closed(r),
         UNCHANGED <<round, seat, wakes, said>>, \A q \in Procs : q # "turn" => act'[q] = act[q],
         act'["turn"] = Idle
  PROVE  Driven(r)'
<1> USE Numbers
<1>1. /\ TypeOK /\ T.agent \in Agents /\ T = act["turn"] /\ ~Installs("turn", r)
      /\ act["turn"].emits = {} /\ act'["turn"].emits = {}
      /\ act'["turn"].round = 0 /\ act'["turn"].at = "idle"
  BY OnFacts, IdleFacts DEF Formed, T, Local, TurnShape
<1>2. ~On("turn", r)' /\ ~Holds("turn", r)'
  BY <1>1 DEF On, Holds, Mails, Installs
<1>3. /\ SameLetters(r) /\ Letters \subseteq Wake /\ Letters' \subseteq Wake
      /\ \A a \in Agents : (\E w \in Letters' : Letter(w, r, a)) <=> (\E w \in Letters : Letter(w, r, a))
      /\ Waits(r)' <=> Waits(r)
  BY <1>1, KeepsLetters
<1>4. Fewer(r)
  <2>1. ASSUME NEW q \in Procs, NEW a \in Agents, Busy(q, r, a)' PROVE Busy(q, r, a)
    <3>1. CASE q = "turn"
      BY <1>1, <1>2, <2>1, <3>1 DEF Busy, At
    <3>2. CASE q # "turn"
      BY <2>1, <3>2 DEF Busy, At, On
    <3> QED
      BY <3>1, <3>2
  <2> QED
    BY <1>1, <2>1 DEF Fewer
<1>5. Unique(r)' /\ Spent(r)'
  BY <1>4, UniqueKept, SpentKept DEF Driven
<1>6. Unsaid(r)' /\ EndsWithSeats(r)'
  <2>1. \A q \in Procs : Installs(q, r) => q # "turn" /\ Installs(q, r)'
    BY <1>1 DEF Installs
  <2> QED
    BY <1>2, <2>1 DEF Driven, EndsWithSeats, Closed, In, Unsaid
<1>7. ASSUME round[r].mode = "fanout" PROVE Fanout(r)'
  <2>1. FanoutWakes(r) /\ FanoutTurns(r) /\ FanoutSeats(r)
    BY <1>7 DEF Driven, Fanout
  <2>2. FanoutWakes(r)'
    BY <1>3, <2>1 DEF FanoutWakes, SameLetters, Letter, Seats
  <2>3. FanoutTurns(r)'
    <3> SUFFICES ASSUME NEW q \in Procs, NEW a \in Agents PROVE FanoutTurn(q, r, a)'
      BY DEF FanoutTurns
    <3>1. CASE q = "turn"
      BY <1>2, <3>1 DEF FanoutTurn
    <3>2. CASE q # "turn"
      BY <2>1, <3>2, FanoutStands DEF FanoutTurns
    <3> QED
      BY <3>1, <3>2
  <2>4. FanoutSeats(r)'
    <3> SUFFICES ASSUME NEW a \in Agents PROVE FanoutSeat(r, a)'
      BY DEF FanoutSeats
    <3>1. ASSUME NEW q \in Procs, NEW steps, At(q, r, a, steps), seat[r][a] \in OpenSeat
          PROVE  At(q, r, a, steps)'
      <4>1. q # "turn"
        BY <1>1, <3>1 DEF At
      <4> QED
        BY <3>1, <4>1 DEF At, On
    <3>2. ~At("turn", r, a, {"activate"})
      BY <1>1 DEF At
    <3>3. FanoutSeat(r, a)
      BY <2>1 DEF FanoutSeats
    <3> QED
      BY <1>3, <3>1, <3>2, <3>3 DEF FanoutSeat, OpenSeat
  <2> QED
    BY <2>2, <2>3, <2>4 DEF Fanout
<1>8. ASSUME round[r].mode = "rounds" PROVE Turns(r)'
  <2>1. OneHolder(r) /\ TurnsWakes(r) /\ TurnsTurns(r) /\ Closed(r)
    BY <1>8 DEF Driven, Turns
  <2>2. OneHolder(r)'
    <3>1. \A q \in Procs : Holds(q, r)' => Holds(q, r)
      <4> SUFFICES ASSUME NEW q \in Procs, Holds(q, r)' PROVE Holds(q, r)
        OBVIOUS
      <4>1. q # "turn"
        BY <1>2
      <4> QED
        BY <4>1 DEF Holds, On, Installs, Mails
    <3> QED
      BY <1>1, <1>3, <2>1, <3>1 DEF OneHolder
  <2>3. TurnsWakes(r)'
    BY <1>3, <2>1 DEF TurnsWakes, SameLetters, Awaited, Closed, In
  <2>4. TurnsTurns(r)'
    <3> SUFFICES ASSUME NEW q \in Procs PROVE TurnsTurn(q, r)'
      BY DEF TurnsTurns
    <3>1. CASE q = "turn"
      BY <1>2, <3>1 DEF TurnsTurn
    <3>2. CASE q # "turn"
      BY <2>1, <3>2, OnFacts, TurnsStands DEF TurnsTurns
    <3> QED
      BY <3>1, <3>2
  <2>5. TurnsSeats(r)'
    BY <2>1 DEF TurnsSeats, TurnsSeat, Closed, In, OpenSeat
  <2> QED
    BY <2>2, <2>3, <2>4, <2>5 DEF Turns
<1> QED
  BY <1>5, <1>6, <1>7, <1>8 DEF Driven

\* A reset takes the seat of a turn that had to decide.
LEMMA ResetsDriven ==
  ASSUME Formed, TypeOK', NEW r \in Ids, On("turn", r), Driven(r), Resets, seat[r][T.agent] \in OpenSeat
  PROVE  Driven(r)'
<1> USE Numbers
<1> DEFINE R == act'["reset"]
<1>1. /\ TypeOK /\ T.agent \in Agents /\ T = act["turn"] /\ ~Installs("turn", r) /\ T.at = "think"
      /\ act["turn"].emits = {} /\ act'["turn"].emits = {} /\ T.round = r
      /\ act'["turn"].round = 0 /\ act'["turn"].at = "idle"
      /\ UNCHANGED <<round, seat, wakes, said>> /\ ~act["turn"].spoke
  BY ResetsFacts, OnFacts, IdleFacts, Zenon DEF Formed, T, Local, TurnShape, Resets, On
<1>2. /\ R.at = "finish" /\ R.round = r /\ R.agent = T.agent /\ R.kind = T.kind /\ R.emits = {}
      /\ act["reset"].round = 0 /\ act["reset"].at = "idle" /\ act["reset"].emits = {}
      /\ \A q \in Procs : q # "turn" /\ q # "reset" => act'[q] = act[q]
  BY <1>1, ResetsFacts, IdleFacts, Zenon DEF Resets, Procs
<1> HIDE DEF R
<1>3. /\ ~On("turn", r)' /\ ~Holds("turn", r)' /\ ~Holds("reset", r) /\ ~On("reset", r)
      /\ On("reset", r)' /\ ~Mails("reset", r)' /\ ~Installs("reset", r)'
  BY <1>1, <1>2 DEF On, Holds, Mails, Installs, R
<1>4. /\ \A w : w \in Letters' <=> w \in Letters
      /\ Waits(r)' <=> Waits(r)
  <2>1. \A q \in Procs : act'[q].emits = act[q].emits
    BY <1>1, <1>2, Zenon DEF R
  <2> QED
    BY <1>1, <2>1 DEF Letters, Waits
<1>5. \A a \in Agents : Busy("reset", r, a)' => Busy("turn", r, a)
  BY <1>1, <1>2, <1>3 DEF Busy, At, R, On
<1>6. \A a \in Agents : ~Busy("turn", r, a)'
  BY <1>1, <1>3 DEF Busy, At
<1>7. \A q \in Procs, a \in Agents : q # "turn" /\ q # "reset" => (Busy(q, r, a)' <=> Busy(q, r, a))
  BY <1>1, <1>2 DEF Busy, At, On
<1>8. Unique(r)'
  <2> SUFFICES ASSUME NEW a \in Agents
               PROVE  /\ \A v, w \in wakes' : Letter(v, r, a) /\ Letter(w, r, a) => v = w
                      /\ \A p \in Procs :
                           /\ \A v, w \in act'[p].emits : Letter(v, r, a) /\ Letter(w, r, a) => v = w
                           /\ Busy(p, r, a)' => \A w \in wakes' : ~Letter(w, r, a)
                           /\ \A q \in Procs : Busy(p, r, a)' /\ Busy(q, r, a)' => p = q
    BY DEF Unique, Letter
  <2>1. \A q \in Procs : act'[q].emits = act[q].emits
    BY <1>1, <1>2, Zenon DEF R
  <2>2. /\ \A v, w \in wakes : Letter(v, r, a) /\ Letter(w, r, a) => v = w
        /\ \A p \in Procs :
             /\ \A v, w \in act[p].emits : Letter(v, r, a) /\ Letter(w, r, a) => v = w
             /\ Busy(p, r, a) => \A w \in wakes : ~Letter(w, r, a)
             /\ \A q \in Procs : Busy(p, r, a) /\ Busy(q, r, a) => p = q
    BY DEF Driven, Unique
  <2>3. \A p \in Procs : Busy(p, r, a)' => \A w \in wakes : ~Letter(w, r, a)
    BY <1>5, <1>6, <1>7, <2>2
  <2>4. \A p, q \in Procs : Busy(p, r, a)' /\ Busy(q, r, a)' => p = q
    BY <1>5, <1>6, <1>7, <2>2
  <2> QED
    BY <1>1, <2>1, <2>2, <2>3, <2>4
<1>9. Spent(r)'
  <2>1. \A q \in Procs, a \in Agents : Busy(q, r, a)' => \E p \in Procs : Busy(p, r, a)
    BY <1>5, <1>6, <1>7
  <2> QED
    BY <1>1, <2>1 DEF Driven, Spent, Letter
<1>10. Unsaid(r)' /\ EndsWithSeats(r)'
  <2>1. \A q \in Procs : Installs(q, r) => Installs(q, r)'
    BY <1>1, <1>2 DEF Installs
  <2> QED
    BY <1>1, <1>3, <2>1 DEF Driven, EndsWithSeats, Closed, In, Unsaid
<1>11. \A q \in Procs, a \in Agents : \A steps :
         At(q, r, a, steps) /\ "finish" \in steps => \E p \in Procs : At(p, r, a, steps)'
  <2> SUFFICES ASSUME NEW q \in Procs, NEW a \in Agents, NEW steps, At(q, r, a, steps), "finish" \in steps
               PROVE  \E p \in Procs : At(p, r, a, steps)'
    OBVIOUS
  <2>1. CASE q = "turn"
    <3>1. At("reset", r, a, steps)'
      BY <1>1, <1>2, <1>3, <2>1 DEF At, R
    <3> QED
      BY <3>1
  <2>2. CASE q # "turn"
    <3>1. At(q, r, a, steps)'
      BY <1>2, <1>3, <2>2 DEF At, On
    <3> QED
      BY <3>1
  <2> QED
    BY <2>1, <2>2
<1>12. ASSUME round[r].mode = "fanout" PROVE Fanout(r)'
  <2>1. FanoutWakes(r) /\ FanoutTurns(r) /\ FanoutSeats(r)
    BY <1>12 DEF Driven, Fanout
  <2>2. FanoutWakes(r)'
    BY <1>1, <1>4, <2>1 DEF FanoutWakes, Letter, Seats
  <2>3. FanoutTurns(r)'
    <3> SUFFICES ASSUME NEW q \in Procs, NEW a \in Agents PROVE FanoutTurn(q, r, a)'
      BY DEF FanoutTurns
    <3>1. CASE q = "turn"
      BY <1>3, <3>1 DEF FanoutTurn
    <3>2. CASE q = "reset"
      <4>1. FanoutTurn("turn", r, a)
        BY <2>1 DEF FanoutTurns
      <4> QED
        BY <1>1, <1>2, <3>2, <4>1 DEF FanoutTurn, R, On, Seats
    <3>3. CASE q # "turn" /\ q # "reset"
      BY <1>1, <1>2, <2>1, <3>3, FanoutStands DEF FanoutTurns
    <3> QED
      BY <3>1, <3>2, <3>3
  <2>4. FanoutSeats(r)'
    <3> SUFFICES ASSUME NEW a \in Agents PROVE FanoutSeat(r, a)'
      BY DEF FanoutSeats
    <3>1. FanoutSeat(r, a) /\ ~At("turn", r, a, {"activate"})
      BY <1>1, <2>1 DEF FanoutSeats, At
    <3>2. (\E w \in Letters' : Letter(w, r, a)) <=> (\E w \in Letters : Letter(w, r, a))
      BY <1>4
    <3> QED
      BY <1>1, <1>11, <3>1, <3>2 DEF FanoutSeat, Letter
  <2> QED
    BY <2>2, <2>3, <2>4 DEF Fanout
<1>13. ASSUME round[r].mode = "rounds" PROVE Turns(r)'
  <2>1. OneHolder(r) /\ TurnsWakes(r) /\ TurnsTurns(r) /\ TurnsSeats(r)
    BY <1>13 DEF Driven, Turns
  <2>2. Holds("turn", r) /\ \A q \in Procs : q # "turn" => ~Holds(q, r)
    BY <2>1 DEF Holds, OneHolder
  <2>3. \A q \in Procs : Holds(q, r)' <=> q = "reset"
    BY <1>2, <1>3, <2>2 DEF Holds, On, Mails, Installs
  <2>4. OneHolder(r)'
    <3>1. \A q \in Procs : act'[q].emits = act[q].emits
      BY <1>1, <1>2, Zenon DEF R
    <3> QED
      BY <1>1, <1>4, <2>1, <2>2, <2>3, <3>1 DEF OneHolder
  <2>5. TurnsWakes(r)'
    BY <1>1, <1>4, <2>1 DEF TurnsWakes, Awaited, Closed, In
  <2>6. TurnsTurns(r)'
    BY <1>1, <1>2, <2>3 DEF TurnsTurns, TurnsTurn, Holds, R
  <2>7. TurnsSeats(r)'
    <3> SUFFICES ASSUME NEW a \in Agents PROVE TurnsSeat(r, a)'
      BY DEF TurnsSeats
    <3>1. TurnsSeat(r, a)
      BY <2>1 DEF TurnsSeats
    <3>2. (\E w \in Letters' : Letter(w, r, a)) <=> (\E w \in Letters : Letter(w, r, a))
      BY <1>4
    <3>3. On("reset", r)' /\ act'["reset"].at \in
                                {"think", "join", "activate", "finish", "advance", "reroute", "skip"}
      BY <1>2, <1>3 DEF R
    <3> QED
      BY <1>1, <1>11, <3>1, <3>2, <3>3 DEF TurnsSeat, Letter
  <2> QED
    BY <2>4, <2>5, <2>6, <2>7 DEF Turns
<1> QED
  BY <1>1, <1>8, <1>9, <1>10, <1>12, <1>13 DEF Driven

\* The worker dies before the turn decided: its wake comes back.
LEMMA ReturnsDriven ==
  ASSUME Formed, TypeOK', NEW r \in Ids, On("turn", r), Driven(r), Crash, T.at = "think"
  PROVE  Driven(r)'
<1> USE Numbers
<1> DEFINE back == WakeOf(T.agent, T.round, T.kind)
<1>1. /\ TypeOK /\ T.agent \in Agents /\ T = act["turn"] /\ ~Installs("turn", r)
      /\ act["turn"].emits = {} /\ T.round = r /\ T.kind \in {"message", "response"}
      /\ UNCHANGED <<round, seat, said>> /\ ~act["turn"].spoke /\ act["turn"].at = "think"
  BY OnFacts DEF Formed, T, Local, TurnShape, Crash, On
<1>2. /\ act'["turn"].at = "down" /\ act'["turn"].round = 0 /\ act'["turn"].emits = {}
      /\ \A q \in Procs : q # "turn" => act'[q] = act[q]
      /\ wakes' = wakes \cup {back}
  BY <1>1, CrashFacts, IdleFacts
<1>3. back \in Wake /\ back.round = r /\ back.agent = T.agent /\ back.kind = T.kind
  BY <1>1 DEF Wake, WakeOf
<1> HIDE DEF back
<1>4. ~On("turn", r)' /\ ~Holds("turn", r)' /\ \A q \in Procs : act'[q].emits = act[q].emits
  BY <1>1, <1>2, Zenon DEF On, Holds, Mails, Installs
<1>5. \A w : w \in Letters' <=> w \in Letters \/ w = back
  BY <1>2, <1>3, <1>4 DEF Letters
<1>6. \A a \in Agents : /\ ~Busy("turn", r, a)'
                        /\ Busy("turn", r, a) <=> a = T.agent
  BY <1>1, <1>2, <1>4 DEF Busy, At, On
<1>7. \A q \in Procs, a \in Agents : q # "turn" => (Busy(q, r, a)' <=> Busy(q, r, a))
  BY <1>1, <1>2 DEF Busy, At, On
<1>8. Unique(r)'
  <2> SUFFICES ASSUME NEW a \in Agents
               PROVE  /\ \A v, w \in wakes' : Letter(v, r, a) /\ Letter(w, r, a) => v = w
                      /\ \A p \in Procs :
                           /\ \A v, w \in act'[p].emits : Letter(v, r, a) /\ Letter(w, r, a) => v = w
                           /\ Busy(p, r, a)' => \A w \in wakes' : ~Letter(w, r, a)
                           /\ \A q \in Procs : Busy(p, r, a)' /\ Busy(q, r, a)' => p = q
    BY DEF Unique, Letter
  <2>1. /\ \A v, w \in wakes : Letter(v, r, a) /\ Letter(w, r, a) => v = w
        /\ \A p \in Procs :
             /\ \A v, w \in act[p].emits : Letter(v, r, a) /\ Letter(w, r, a) => v = w
             /\ Busy(p, r, a) => \A w \in wakes : ~Letter(w, r, a)
             /\ \A q \in Procs : Busy(p, r, a) /\ Busy(q, r, a) => p = q
    BY DEF Driven, Unique
  <2>2. Letter(back, r, a) => a = T.agent
    BY <1>3 DEF Letter
  <2>3. a = T.agent => (\A w \in wakes : ~Letter(w, r, a)) /\ \A q \in Procs : ~Busy(q, r, a)'
    BY <1>6, <1>7, <2>1
  <2>4. \A v, w \in wakes' : Letter(v, r, a) /\ Letter(w, r, a) => v = w
    BY <1>2, <2>1, <2>2, <2>3
  <2>5. \A p \in Procs : Busy(p, r, a)' => \A w \in wakes' : ~Letter(w, r, a)
    BY <1>2, <1>6, <1>7, <2>1, <2>2, <2>3
  <2>6. \A p, q \in Procs : Busy(p, r, a)' /\ Busy(q, r, a)' => p = q
    BY <1>6, <1>7, <2>1
  <2> QED
    BY <1>4, <2>1, <2>4, <2>5, <2>6
<1>9. Spent(r)'
  <2>1. seat[r][T.agent] # "responded"
    BY <1>1, <1>6, Zenon DEF Driven, Spent
  <2>2. \A q \in Procs, a \in Agents : Busy(q, r, a)' => Busy(q, r, a)
    BY <1>6, <1>7
  <2> QED
    BY <1>1, <1>2, <1>3, <2>1, <2>2 DEF Driven, Spent, Letter
<1>10. Unsaid(r)' /\ EndsWithSeats(r)'
  <2>1. \A q \in Procs : Installs(q, r) => Installs(q, r)'
    BY <1>1, <1>2 DEF Installs
  <2> QED
    BY <1>1, <1>4, <2>1 DEF Driven, EndsWithSeats, Closed, In, Unsaid
<1>11. \A q \in Procs, a \in Agents : \A steps :
         At(q, r, a, steps) => At(q, r, a, steps)' \/ (a = T.agent /\ Letter(back, r, a) /\ back \in Letters')
  <2> SUFFICES ASSUME NEW q \in Procs, NEW a \in Agents, NEW steps, At(q, r, a, steps)
               PROVE  At(q, r, a, steps)' \/ (a = T.agent /\ Letter(back, r, a) /\ back \in Letters')
    OBVIOUS
  <2>1. CASE q = "turn"
    BY <1>1, <1>3, <1>5, <2>1 DEF At, Letter
  <2>2. CASE q # "turn"
    BY <1>2, <2>2 DEF At, On
  <2> QED
    BY <2>1, <2>2
<1>12. ASSUME round[r].mode = "fanout" PROVE Fanout(r)'
  <2>1. FanoutWakes(r) /\ FanoutTurns(r) /\ FanoutSeats(r)
    BY <1>12 DEF Driven, Fanout
  <2>2. FanoutWakes(r)'
    <3>1. Seats(T.kind, r, T.agent)
      BY <1>1, <2>1 DEF FanoutTurns, FanoutTurn, On
    <3> QED
      BY <1>1, <1>3, <1>5, <2>1, <3>1 DEF FanoutWakes, Letter, Seats
  <2>3. FanoutTurns(r)'
    <3> SUFFICES ASSUME NEW q \in Procs, NEW a \in Agents PROVE FanoutTurn(q, r, a)'
      BY DEF FanoutTurns
    <3>1. CASE q = "turn"
      BY <1>4, <3>1 DEF FanoutTurn
    <3>2. CASE q # "turn"
      BY <1>1, <1>2, <2>1, <3>2, FanoutStands DEF FanoutTurns
    <3> QED
      BY <3>1, <3>2
  <2>4. FanoutSeats(r)'
    <3> SUFFICES ASSUME NEW a \in Agents PROVE FanoutSeat(r, a)'
      BY DEF FanoutSeats
    <3>1. FanoutSeat(r, a) /\ ~At("turn", r, a, {"activate"})
      BY <1>1, <2>1 DEF FanoutSeats, At
    <3>2. (\E w \in Letters : Letter(w, r, a)) => (\E w \in Letters' : Letter(w, r, a))
      BY <1>5
    <3> QED
      BY <1>1, <1>11, <3>1, <3>2 DEF FanoutSeat, Letter
  <2> QED
    BY <2>2, <2>3, <2>4 DEF Fanout
<1>13. ASSUME round[r].mode = "rounds" PROVE Turns(r)'
  <2>1. OneHolder(r) /\ TurnsWakes(r) /\ TurnsTurns(r) /\ TurnsSeats(r)
    BY <1>13 DEF Driven, Turns
  <2>2. Holds("turn", r) /\ ~Waits(r) /\ \A q \in Procs : q # "turn" => ~Holds(q, r)
    BY <2>1 DEF Holds, OneHolder
  <2>3. \A q \in Procs : ~Holds(q, r)'
    BY <1>2, <1>4, <2>2 DEF Holds, On, Mails, Installs
  <2>4. OneHolder(r)'
    BY <1>2, <1>4, <2>1, <2>2, <2>3 DEF OneHolder, Waits
  <2>5. TurnsWakes(r)'
    <3>1. Awaited(r, T.kind, T.agent)
      BY <1>1, <2>1 DEF TurnsTurns, TurnsTurn, On
    <3> QED
      BY <1>1, <1>3, <1>5, <2>1, <3>1 DEF TurnsWakes, Awaited, Closed, In
  <2>6. TurnsTurns(r)'
    BY <2>3 DEF TurnsTurns, TurnsTurn, Holds
  <2>7. TurnsSeats(r)'
    <3> SUFFICES ASSUME NEW a \in Agents PROVE TurnsSeat(r, a)'
      BY DEF TurnsSeats
    <3>1. TurnsSeat(r, a)
      BY <2>1 DEF TurnsSeats
    <3>2. (\E w \in Letters : Letter(w, r, a)) => (\E w \in Letters' : Letter(w, r, a))
      BY <1>5
    <3>3. \A q \in Procs : ~At(q, r, a, {"finish", "skip"})
      BY <1>1, <2>2 DEF At, Holds
    <3>4. back \in Letters' /\ back.round = r
      BY <1>3, <1>5
    <3> QED
      BY <1>1, <1>11, <3>1, <3>2, <3>3, <3>4 DEF TurnsSeat, Letter
  <2> QED
    BY <2>4, <2>5, <2>6, <2>7 DEF Turns
<1> QED
  BY <1>1, <1>8, <1>9, <1>10, <1>12, <1>13 DEF Driven

\* A wake of the round becomes a turn.
LEMMA ClaimDriven ==
  ASSUME Formed, TypeOK', NEW r \in Ids, NEW w0 \in wakes, w0.round = r, Driven(r),
         act["turn"] = Idle, wakes' = wakes \ {w0}, UNCHANGED <<round, seat, said>>,
         T'.at = "think", T'.round = r, T'.agent = w0.agent, T'.kind = w0.kind, T'.emits = {}, ~T'.spoke,
         \A q \in Procs : q # "turn" => act'[q] = act[q]
  PROVE  Driven(r)'
<1> USE Numbers
<1>1. /\ TypeOK /\ T = act["turn"] /\ T' = act'["turn"] /\ w0 \in Wake /\ w0.agent \in Agents
      /\ act["turn"].round = 0 /\ act["turn"].emits = {} /\ act["turn"].at = "idle"
  BY IdleFacts DEF Formed, T, TypeOK, Wake
<1>2. /\ ~On("turn", r) /\ ~Holds("turn", r) /\ On("turn", r)' /\ ~Mails("turn", r)' /\ ~Installs("turn", r)'
      /\ \A q \in Procs : act'[q].emits = act[q].emits
  BY <1>1, Zenon DEF On, Holds, Mails, Installs
<1>3. \A w : w \in Letters => w \in Letters' \/ w = w0
  BY <1>2 DEF Letters
<1>4. \A w : w \in Letters' => w \in Letters
  BY <1>2 DEF Letters
<1>5. w0 \in Letters
  BY <1>1 DEF Letters
<1>6. \A a \in Agents : (Busy("turn", r, a)' <=> a = w0.agent) /\ ~Busy("turn", r, a)
  BY <1>1, <1>2 DEF Busy, At, On
<1>7. \A q \in Procs, a \in Agents : q # "turn" => (Busy(q, r, a)' <=> Busy(q, r, a))
  BY DEF Busy, At, On
<1>8. \A q \in Procs : ~Busy(q, r, w0.agent)
  BY <1>1 DEF Driven, Unique, Letter
<1>9. Unique(r)'
  <2> SUFFICES ASSUME NEW a \in Agents
               PROVE  /\ \A v, w \in wakes' : Letter(v, r, a) /\ Letter(w, r, a) => v = w
                      /\ \A p \in Procs :
                           /\ \A v, w \in act'[p].emits : Letter(v, r, a) /\ Letter(w, r, a) => v = w
                           /\ Busy(p, r, a)' => \A w \in wakes' : ~Letter(w, r, a)
                           /\ \A q \in Procs : Busy(p, r, a)' /\ Busy(q, r, a)' => p = q
    BY DEF Unique, Letter
  <2>1. /\ \A v, w \in wakes : Letter(v, r, a) /\ Letter(w, r, a) => v = w
        /\ \A p \in Procs :
             /\ \A v, w \in act[p].emits : Letter(v, r, a) /\ Letter(w, r, a) => v = w
             /\ Busy(p, r, a) => \A w \in wakes : ~Letter(w, r, a)
             /\ \A q \in Procs : Busy(p, r, a) /\ Busy(q, r, a) => p = q
    BY DEF Driven, Unique
  <2>2. a = w0.agent => \A w \in wakes' : ~Letter(w, r, a)
    BY <2>1 DEF Letter
  <2>3. \A p \in Procs : Busy(p, r, a)' => \A w \in wakes' : ~Letter(w, r, a)
    BY <1>6, <1>7, <2>1, <2>2
  <2>4. \A p, q \in Procs : Busy(p, r, a)' /\ Busy(q, r, a)' => p = q
    BY <1>6, <1>7, <1>8, <2>1
  <2> QED
    BY <1>2, <2>1, <2>3, <2>4
<1>10. Spent(r)'
  <2>1. seat[r][w0.agent] # "responded"
    BY <1>1, Zenon DEF Driven, Spent, Letter
  <2> QED
    BY <1>6, <1>7, <2>1 DEF Driven, Spent, Letter
<1>11. Unsaid(r)' /\ EndsWithSeats(r)'
  <2>1. \A q \in Procs : Installs(q, r) => Installs(q, r)'
    BY <1>1 DEF Installs
  <2> QED
    BY <1>1, <2>1 DEF Driven, EndsWithSeats, Closed, In, Unsaid, Replying
<1>12. \A q \in Procs, a \in Agents : \A steps : At(q, r, a, steps) => At(q, r, a, steps)'
  BY <1>2 DEF At, On
<1>13. \A a \in Agents : (\E w \in Letters : Letter(w, r, a)) =>
         (\E w \in Letters' : Letter(w, r, a)) \/ (a = w0.agent /\ On("turn", r)' /\ act'["turn"].agent = a)
  BY <1>1, <1>2, <1>3 DEF Letter
<1>14. ASSUME round[r].mode = "fanout" PROVE Fanout(r)'
  <2>1. FanoutWakes(r) /\ FanoutTurns(r) /\ FanoutSeats(r)
    BY <1>14 DEF Driven, Fanout
  <2>2. FanoutWakes(r)'
    BY <1>4, <2>1 DEF FanoutWakes, Letter, Seats
  <2>3. FanoutTurns(r)'
    <3> SUFFICES ASSUME NEW q \in Procs, NEW a \in Agents PROVE FanoutTurn(q, r, a)'
      BY DEF FanoutTurns
    <3>1. CASE q = "turn"
      <4>1. a = w0.agent => Seats(w0.kind, r, a)
        BY <1>5, <2>1 DEF FanoutWakes, Letter
      <4> QED
        BY <1>1, <3>1, <4>1 DEF FanoutTurn, Seats
    <3>2. CASE q # "turn"
      BY <2>1, <3>2, FanoutStands DEF FanoutTurns
    <3> QED
      BY <3>1, <3>2
  <2>4. FanoutSeats(r)'
    <3> SUFFICES ASSUME NEW a \in Agents PROVE FanoutSeat(r, a)'
      BY DEF FanoutSeats
    <3>1. FanoutSeat(r, a)
      BY <2>1 DEF FanoutSeats
    <3>2. \A steps : On("turn", r)' /\ act'["turn"].agent = a /\ "think" \in steps => At("turn", r, a, steps)'
      BY <1>1 DEF At
    <3> QED
      BY <1>12, <1>13, <3>1, <3>2 DEF FanoutSeat, Letter
  <2> QED
    BY <2>2, <2>3, <2>4 DEF Fanout
<1>15. ASSUME round[r].mode = "rounds" PROVE Turns(r)'
  <2>1. OneHolder(r) /\ TurnsWakes(r) /\ TurnsTurns(r) /\ TurnsSeats(r)
    BY <1>15 DEF Driven, Turns
  <2>2. Waits(r) /\ (\A q \in Procs : ~Holds(q, r)) /\ ~Waits(r)'
    BY <2>1 DEF OneHolder, Waits
  <2>3. \A q \in Procs : Holds(q, r)' <=> q = "turn"
    BY <1>2, <2>2 DEF Holds, On, Mails, Installs
  <2>4. OneHolder(r)'
    BY <1>2, <2>1, <2>2, <2>3 DEF OneHolder, Waits
  <2>5. TurnsWakes(r)'
    BY <1>4, <2>1 DEF TurnsWakes, Awaited, Closed, In
  <2>6. TurnsTurns(r)'
    <3>1. Awaited(r, w0.kind, w0.agent)
      BY <1>5, <2>1 DEF TurnsWakes
    <3> QED
      BY <1>1, <2>3, <3>1 DEF TurnsTurns, TurnsTurn, Holds, Awaited, Closed, In
  <2>7. TurnsSeats(r)'
    <3> SUFFICES ASSUME NEW a \in Agents PROVE TurnsSeat(r, a)'
      BY DEF TurnsSeats
    <3>1. TurnsSeat(r, a)
      BY <2>1 DEF TurnsSeats
    <3>2. \A steps : On("turn", r)' /\ act'["turn"].agent = a /\ "think" \in steps => At("turn", r, a, steps)'
      BY <1>1 DEF At
    <3>3. On("turn", r)' /\ act'["turn"].at \in
                                {"think", "join", "activate", "finish", "advance", "reroute", "skip"}
      BY <1>1, <1>2
    <3> QED
      BY <1>12, <1>13, <3>1, <3>2, <3>3 DEF TurnsSeat, Letter
  <2> QED
    BY <2>4, <2>5, <2>6, <2>7 DEF Turns
<1> QED
  BY <1>9, <1>10, <1>11, <1>14, <1>15 DEF Driven

\* The seats of a round, all but one as they were.
LEMMA ClosedKept ==
  ASSUME NEW r \in Ids, \A a \in Agents : seat'[r][a] \in OpenSeat <=> seat[r][a] \in OpenSeat
  PROVE  Closed(r)' <=> Closed(r)
BY DEF Closed, In

\* Whoever has the round alone, in rounds: what is left to show of it.
HeldLetters(p, r) ==
  /\ \A v, w \in act[p].emits : v.round = r /\ w.round = r => v = w
  /\ \A w \in act[p].emits : w.round = r => Awaited(r, w.kind, w.agent)
HeldSeat(p, r, a) ==
  /\ seat[r][a] = "queued" =>
       \/ \E w \in act[p].emits : Letter(w, r, a)
       \/ At(p, r, a, {"think", "join", "activate", "finish", "skip"})
  /\ seat[r][a] = "responding" => At(p, r, a, {"finish", "skip"})
  /\ seat[r][a] = "pending" =>
       \/ \E w \in act[p].emits : w.round = r
       \/ On(p, r) /\ act[p].at \in {"think", "join", "activate", "finish",
                                     "advance", "reroute", "skip"}

LEMMA HolderTurns ==
  ASSUME TypeOK', NEW r \in Ids, NEW p \in Procs, ~Waits(r)',
         \A q \in Procs : q # p => ~Holds(q, r)',
         HeldLetters(p, r)', TurnsTurn(p, r)', \A a \in Agents : HeldSeat(p, r, a)'
  PROVE  Turns(r)'
<1>1. \A w \in wakes' : w.round # r
  BY DEF Waits
<1>2. \A q \in Procs : q # p => ~On(q, r)' /\ ~Mails(q, r)'
  BY DEF Holds
<1>3. \A w : w \in Letters' <=> w \in wakes' \/ \E q \in Procs : w \in act'[q].emits
  BY DEF TypeOK, Letters
<1>4. \A w \in Letters' : w.round = r => w \in act'[p].emits
  BY <1>1, <1>2, <1>3 DEF Mails
<1>5. OneHolder(r)'
  <2>1. \A v, w \in wakes' : v.round = r /\ w.round = r => v = w
    BY <1>1
  <2>2. ASSUME NEW q \in Procs, NEW v \in act'[q].emits, NEW w \in act'[q].emits,
               v.round = r, w.round = r
        PROVE  v = w
    <3>1. Mails(q, r)'
      BY <2>2 DEF Mails
    <3> QED
      BY <1>2, <2>2, <3>1 DEF HeldLetters
  <2> QED
    BY <2>1, <2>2 DEF OneHolder
<1>6. TurnsWakes(r)'
  BY <1>4 DEF TurnsWakes, HeldLetters
<1>7. TurnsTurns(r)'
  BY <1>2 DEF TurnsTurns, TurnsTurn
<1>8. TurnsSeats(r)'
  <2> SUFFICES ASSUME NEW a \in Agents PROVE TurnsSeat(r, a)'
    BY DEF TurnsSeats
  <2>1. \A w \in act'[p].emits : w \in Letters'
    BY <1>3
  <2> QED
    BY <2>1 DEF TurnsSeat, HeldSeat, Letter
<1> QED
  BY <1>5, <1>6, <1>7, <1>8 DEF Turns

\* Nobody else takes the round while p moves.
LEMMA HolderStays ==
  ASSUME TypeOK, TypeOK', NEW r \in Ids, Turns(r), NEW p \in Procs, On(p, r), ~Mails(p, r),
         \A q \in Procs : q # p => act'[q] = act[q],
         \A w \in wakes' : w.round = r => w \in wakes
  PROVE  ~Waits(r)' /\ \A q \in Procs : q # p => ~Holds(q, r)'
<1>1. ~Waits(r) /\ \A q \in Procs : q # p => ~Holds(q, r)
  BY HolderFacts
<1>2. ASSUME NEW q \in Procs, q # p PROVE ~Holds(q, r)'
  <2>1. act'[q] = act[q] /\ ~Holds(q, r)
    BY <1>1, <1>2
  <2> QED
    BY <2>1 DEF Holds, On, Mails, Installs
<1> QED
  BY <1>1, <1>2 DEF Waits

LEMMA TurnGoes ==
  ASSUME TypeOK, NEW at, Goes("turn", at),
         at \in {"think", "join", "activate", "finish", "advance", "reroute", "post", "skip", "hear",
                 "open", "create", "install", "file", "down", "boot"}
  PROVE  /\ T'.at = at /\ T'.round = T.round /\ T'.agent = T.agent /\ T'.kind = T.kind
         /\ T'.spoke = T.spoke /\ T'.index = T.index /\ T'.ids = T.ids /\ T'.emits = T.emits
         /\ \A q \in Procs : q # "turn" => act'[q] = act[q]
<1>1. "turn" \in Procs
  BY DEF Procs
<1>2. act'["turn"] = [act["turn"] EXCEPT !.at = at] /\ \A q \in Procs : q # "turn" => act'[q] = act[q]
  BY <1>1, GoesTo
<1>3. act["turn"] \in Acts
  BY <1>1, ActsTyped
<1> QED
  BY <1>2, <1>3 DEF Acts, T

\* One seat of a round gets a status, and the count follows.
LEMMA MarksOne ==
  ASSUME TypeOK, NEW r \in Ids, NEW a \in Agents, NEW status \in Statuses, Opened(r), Marks(r, a, status)
  PROVE  /\ seat'[r][a] = status /\ \A b \in Agents : b # a => seat'[r][b] = seat[r][b]
         /\ round'[r].mode = round[r].mode
         /\ IF \A b \in Agents : seat'[r][b] \notin OpenSeat
            THEN round'[r].status = "completed" ELSE round'[r] = round[r]
BY MarksRows, Zenon DEF Marks

\* observe_channel_message: the seat closes before the round moves on.
LEMMA ObserveDriven ==
  ASSUME Formed, TypeOK', NEW r \in Ids, On("turn", r), Driven(r), observe_channel_message
  PROVE  Driven(r)'
<1> USE Numbers
<1>1. /\ TypeOK /\ T.agent \in Agents /\ T = act["turn"] /\ T' = act'["turn"] /\ ~Installs("turn", r)
      /\ T.emits = {} /\ T.round = r /\ T.at = "think" /\ T.kind = "message" /\ Opened(r)
      /\ UNCHANGED <<wakes, said, halted>> /\ ~T.spoke
  BY TurnOn DEF TurnShape, observe_channel_message
<1>2. /\ T'.at = "advance" /\ T'.round = r /\ T'.agent = T.agent /\ T'.emits = {} /\ ~T'.spoke
      /\ \A q \in Procs : q # "turn" => act'[q] = act[q]
  BY <1>1, TurnGoes DEF observe_channel_message
<1>3. /\ seat'[r][T.agent] = "observed"
      /\ \A b \in Agents : b # T.agent => seat'[r][b] = seat[r][b]
      /\ round'[r].mode = round[r].mode
      /\ IF \A b \in Agents : seat'[r][b] \notin OpenSeat
         THEN round'[r].status = "completed" ELSE round'[r] = round[r]
  <2>1. PICK a \in Agents : a = T.agent
    BY <1>1
  <2>2. Marks(r, a, "observed")
    BY <1>1, <2>1 DEF observe_channel_message
  <2>3. "observed" \in Statuses
    BY DEF Statuses
  <2> QED
    BY <1>1, <2>1, <2>2, <2>3, MarksOne
<1>4. On("turn", r)' /\ act["turn"].emits = {} /\ act'["turn"].emits = {}
  BY <1>1, <1>2 DEF On
<1>5. /\ SameLetters(r) /\ Letters \subseteq Wake /\ Letters' \subseteq Wake
      /\ \A a \in Agents : (\E w \in Letters' : Letter(w, r, a)) <=> (\E w \in Letters : Letter(w, r, a))
      /\ (\E w \in Letters' : w.round = r) <=> (\E w \in Letters : w.round = r)
      /\ Waits(r)' <=> Waits(r)
      /\ \A q \in Procs : Mails(q, r)' <=> Mails(q, r)
  BY <1>1, <1>2, <1>4, KeepsLetters
<1>6. Fewer(r)
  <2>1. ASSUME NEW q \in Procs, NEW a \in Agents, Busy(q, r, a)' PROVE Busy(q, r, a)
    <3>1. CASE q = "turn"
      BY <1>1, <1>2, <2>1, <3>1 DEF Busy, At, On
    <3>2. CASE q # "turn"
      BY <1>2, <1>3, <2>1, <3>2 DEF Busy, At, On
    <3> QED
      BY <3>1, <3>2
  <2> QED
    BY <1>1, <1>2, <1>4, <2>1 DEF Fewer
<1>7. Busy("turn", r, T.agent) /\ seat[r][T.agent] # "responded"
  BY <1>1, Zenon DEF Busy, At, On, Driven, Spent
<1>8. Unique(r)' /\ Spent(r)'
  BY <1>1, <1>3, <1>6, <1>7, UniqueKept, SpentKept DEF Driven
<1>9. Unsaid(r)' /\ EndsWithSeats(r)'
  <2>1. Unsaid(r)'
    BY <1>1, <1>2 DEF Unsaid, Replying
  <2> QED
    BY <1>3, <2>1 DEF EndsWithSeats, Closed, In
<1>10. ASSUME round[r].mode = "fanout" PROVE Fanout(r)'
  <2>1. FanoutWakes(r) /\ FanoutTurns(r) /\ FanoutSeats(r)
    BY <1>10 DEF Driven, Fanout
  <2>2. seat[r][T.agent] \in {"observed", "pending"}
    BY <1>1, <2>1 DEF FanoutTurns, FanoutTurn, On, Seats
  <2>3. FanoutWakes(r)'
    BY <1>3, <1>5, <2>1 DEF FanoutWakes, SameLetters, Letter, Seats
  <2>4. FanoutTurns(r)'
    <3> SUFFICES ASSUME NEW q \in Procs, NEW a \in Agents PROVE FanoutTurn(q, r, a)'
      BY DEF FanoutTurns
    <3>1. CASE q = "turn"
      BY <1>1, <1>2, <1>3, <3>1 DEF FanoutTurn
    <3>2. CASE q # "turn"
      BY <1>2, <1>3, <2>1, <3>2, FanoutStands DEF FanoutTurns
    <3> QED
      BY <3>1, <3>2
  <2>5. FanoutSeats(r)'
    <3> SUFFICES ASSUME NEW a \in Agents, a # T.agent PROVE FanoutSeat(r, a)'
      BY <1>3 DEF FanoutSeats, FanoutSeat
    <3>1. FanoutSeat(r, a) /\ ~At("turn", r, a, {"activate"}) /\ seat'[r][a] = seat[r][a]
      BY <1>1, <1>3, <2>1 DEF FanoutSeats, At
    <3>2. \A q \in Procs : \A steps : At(q, r, a, steps) => At(q, r, a, steps)'
      BY <1>1, <1>2 DEF At, On
    <3>3. (\E b \in Agents : seat[r][b] = "responding") => (\E b \in Agents : seat'[r][b] = "responding")
      BY <1>3, <2>2
    <3> QED
      BY <1>5, <3>1, <3>2, <3>3 DEF FanoutSeat, Letter
  <2> QED
    BY <2>3, <2>4, <2>5 DEF Fanout
<1>11. ASSUME round[r].mode = "rounds" PROVE Turns(r)'
  <2>1. OneHolder(r) /\ TurnsWakes(r) /\ TurnsTurns(r) /\ TurnsSeats(r) /\ Turns(r)
    BY <1>11 DEF Driven, Turns
  <2>2. /\ \A w \in Letters : w.round # r
        /\ ~Waits(r) /\ \A q \in Procs : q # "turn" => ~Holds(q, r) /\ ~On(q, r) /\ ~Mails(q, r)
        /\ \A a \in Agents : seat[r][a] \in {"queued", "responding"} => a = T.agent
    BY <1>1, <1>4, <2>1, HolderFacts DEF Mails
  <2>3. ~Waits(r)' /\ \A q \in Procs : q # "turn" => ~Holds(q, r)'
    BY <1>1, <1>2, <1>4, <2>1, HolderStays DEF Mails
  <2>4. TurnsTurn("turn", r)'
    BY <1>1, <1>2, <1>3 DEF TurnsTurn, OpenSeat
  <2>5. HeldLetters("turn", r)' /\ \A a \in Agents : HeldSeat("turn", r, a)'
    BY <1>1, <1>2, <1>3, <1>4, <2>2 DEF HeldLetters, HeldSeat
  <2>6. "turn" \in Procs
    BY DEF Procs
  <2> QED
    BY <2>3, <2>4, <2>5, <2>6, HolderTurns
<1> QED
  BY <1>3, <1>8, <1>9, <1>10, <1>11 DEF Driven

\* reserve_slot: a pending seat is queued.
LEMMA ReserveDriven ==
  ASSUME Formed, TypeOK', NEW r \in Ids, On("turn", r), Driven(r), reserve_slot
  PROVE  Driven(r)'
<1> USE Numbers
<1>1. /\ TypeOK /\ T.agent \in Agents /\ T = act["turn"] /\ T' = act'["turn"] /\ ~Installs("turn", r)
      /\ T.emits = {} /\ T.round = r /\ T.at = "join" /\ T.kind = "message"
      /\ UNCHANGED <<round, wakes, said, halted>>
  BY TurnOn DEF TurnShape, reserve_slot
<1>2. /\ T'.at = "activate" /\ T'.round = r /\ T'.agent = T.agent /\ T'.emits = {} /\ T'.kind = T.kind
      /\ \A q \in Procs : q # "turn" => act'[q] = act[q]
  BY <1>1, TurnGoes DEF reserve_slot
<1>3. /\ seat'[r][T.agent] = IF seat[r][T.agent] = "pending" THEN "queued" ELSE seat[r][T.agent]
      /\ \A b \in Agents : b # T.agent => seat'[r][b] = seat[r][b]
  BY <1>1 DEF reserve_slot, TypeOK
<1>4. On("turn", r)' /\ act["turn"].emits = {} /\ act'["turn"].emits = {}
  BY <1>1, <1>2 DEF On
<1>5. /\ SameLetters(r) /\ Letters \subseteq Wake /\ Letters' \subseteq Wake
      /\ \A a \in Agents : (\E w \in Letters' : Letter(w, r, a)) <=> (\E w \in Letters : Letter(w, r, a))
      /\ (\E w \in Letters' : w.round = r) <=> (\E w \in Letters : w.round = r)
      /\ Waits(r)' <=> Waits(r)
      /\ \A q \in Procs : Mails(q, r)' <=> Mails(q, r)
  BY <1>1, <1>2, <1>4, KeepsLetters
<1>6. Busy("turn", r, T.agent)
  BY <1>1 DEF Busy, At, On
<1>7. /\ \A w \in Letters : ~Letter(w, r, T.agent)
      /\ \A q \in Procs : q # "turn" => ~Busy(q, r, T.agent)
      /\ seat[r][T.agent] # "responded"
  <2>1. /\ \A w \in wakes : ~Letter(w, r, T.agent)
        /\ \A q \in Procs : q # "turn" => ~Busy(q, r, T.agent) /\ \A w \in act[q].emits : ~Letter(w, r, T.agent)
    BY <1>1, <1>6, BusyAlone DEF Driven
  <2> QED
    BY <1>1, <1>4, <1>6, <2>1, Zenon DEF Letters, Driven, Spent
<1>8. Fewer(r)
  <2>1. ASSUME NEW q \in Procs, NEW a \in Agents, Busy(q, r, a)' PROVE Busy(q, r, a)
    <3>1. CASE q = "turn"
      BY <1>1, <1>2, <2>1, <3>1 DEF Busy, At, On
    <3>2. CASE q # "turn" /\ ~At(q, r, a, {"activate"})
      BY <1>2, <2>1, <3>2 DEF Busy, At, On
    <3>3. CASE q # "turn" /\ At(q, r, a, {"activate"})
      <4>1. q \in Finishers /\ Local(q)
        BY <3>3, OnFacts DEF At
      <4> QED
        BY <3>3, <4>1 DEF Finishers, Local, ResetShape, At
    <3> QED
      BY <3>1, <3>2, <3>3
  <2> QED
    BY <1>1, <1>2, <1>4, <2>1 DEF Fewer
<1>9. Unique(r)' /\ Spent(r)'
  BY <1>1, <1>3, <1>7, <1>8, UniqueKept, SpentKept DEF Driven
<1>10. Closed(r)' <=> Closed(r)
  <2>1. \A a \in Agents : seat'[r][a] \in OpenSeat <=> seat[r][a] \in OpenSeat
    BY <1>3 DEF OpenSeat
  <2> QED
    BY <2>1, ClosedKept
<1>11. Unsaid(r)' /\ EndsWithSeats(r)'
  <2>1. Unsaid(r)'
    BY <1>1, <1>2 DEF Unsaid, Replying
  <2>2. \A q \in Procs : Installs(q, r) => Installs(q, r)'
    BY <1>1, <1>2 DEF Installs
  <2> QED
    BY <1>1, <1>10, <2>1, <2>2 DEF EndsWithSeats, Driven
<1>12. ASSUME round[r].mode = "fanout" PROVE Fanout(r)'
  <2>1. FanoutWakes(r) /\ FanoutTurns(r) /\ FanoutSeats(r)
    BY <1>12 DEF Driven, Fanout
  <2>2. seat[r][T.agent] \in {"observed", "pending"}
    BY <1>1, <2>1 DEF FanoutTurns, FanoutTurn, On, Seats
  <2>3. FanoutWakes(r)'
    BY <1>3, <1>5, <1>7, <2>1 DEF FanoutWakes, SameLetters, Letter, Seats
  <2>4. FanoutTurns(r)'
    <3> SUFFICES ASSUME NEW q \in Procs, NEW a \in Agents PROVE FanoutTurn(q, r, a)'
      BY DEF FanoutTurns
    <3>1. CASE q = "turn"
      BY <1>1, <1>2, <1>3, <2>2, <3>1 DEF FanoutTurn
    <3>2. CASE q # "turn" /\ a # T.agent
      BY <1>2, <1>3, <2>1, <3>2, FanoutStands DEF FanoutTurns
    <3>3. CASE q # "turn" /\ a = T.agent
      <4>1. ~Busy(q, r, a)
        BY <1>7, <3>3
      <4>2. On(q, r) /\ act[q].agent = a => act[q].at \notin {"think", "join", "finish"}
        BY <4>1 DEF Busy, At
      <4>3. FanoutTurn(q, r, a) /\ act'[q] = act[q]
        BY <1>2, <2>1, <3>3 DEF FanoutTurns
      <4> QED
        BY <1>3, <2>2, <3>3, <4>2, <4>3 DEF FanoutTurn, On
    <3> QED
      BY <3>1, <3>2, <3>3
  <2>5. FanoutSeats(r)'
    <3> SUFFICES ASSUME NEW a \in Agents PROVE FanoutSeat(r, a)'
      BY DEF FanoutSeats
    <3>1. CASE a = T.agent
      <4>1. At("turn", r, a, {"activate"})'
        BY <1>1, <1>2, <1>4, <3>1 DEF At
      <4> QED
        BY <1>3, <2>2, <3>1, <4>1 DEF FanoutSeat
    <3>2. CASE a # T.agent
      <4>1. FanoutSeat(r, a) /\ ~At("turn", r, a, {"activate"}) /\ seat'[r][a] = seat[r][a]
        BY <1>1, <1>3, <2>1, <3>2 DEF FanoutSeats, At
      <4>2. \A q \in Procs : \A steps : At(q, r, a, steps) => At(q, r, a, steps)'
        BY <1>1, <1>2, <3>2 DEF At, On
      <4>3. (\E b \in Agents : seat[r][b] = "responding") => (\E b \in Agents : seat'[r][b] = "responding")
        BY <1>3, <2>2
      <4> QED
        BY <1>5, <4>1, <4>2, <4>3 DEF FanoutSeat, Letter
    <3> QED
      BY <3>1, <3>2
  <2> QED
    BY <2>3, <2>4, <2>5 DEF Fanout
<1>13. ASSUME round[r].mode = "rounds" PROVE Turns(r)'
  <2>1. OneHolder(r) /\ TurnsWakes(r) /\ TurnsTurns(r) /\ TurnsSeats(r) /\ Turns(r)
    BY <1>13 DEF Driven, Turns
  <2>2. /\ \A w \in Letters : w.round # r
        /\ ~Waits(r) /\ \A q \in Procs : q # "turn" => ~Holds(q, r) /\ ~On(q, r) /\ ~Mails(q, r)
        /\ \A a \in Agents : seat[r][a] \in {"queued", "responding"} =>
             a = T.agent /\ T.at \in {"think", "join", "activate", "finish", "skip"}
    BY <1>1, <1>4, <2>1, HolderFacts DEF Mails
  <2>3. ~Waits(r)' /\ \A q \in Procs : q # "turn" => ~Holds(q, r)'
    BY <1>1, <1>2, <1>4, <2>1, HolderStays DEF Mails
  <2>4. Awaited(r, T.kind, T.agent)
    BY <1>1, <2>1 DEF TurnsTurns, TurnsTurn, On
  <2>5. seat'[r][T.agent] = seat[r][T.agent]
    BY <1>1, <1>3, <2>4 DEF Awaited, Closed, In, OpenSeat
  <2>6. TurnsTurn("turn", r)'
    BY <1>1, <1>2, <1>10, <2>4, <2>5 DEF TurnsTurn, Awaited
  <2>7. "turn" \in Procs
    BY DEF Procs
  <2>8. \A a \in Agents :
          /\ seat'[r][a] # "responding"
          /\ seat'[r][a] = "queued" =>
               At("turn", r, a, {"think", "join", "activate", "finish", "skip"})'
    <3> SUFFICES ASSUME NEW a \in Agents
                 PROVE  /\ seat'[r][a] # "responding"
                        /\ seat'[r][a] = "queued" =>
                             At("turn", r, a, {"think", "join", "activate", "finish", "skip"})'
      OBVIOUS
    <3>1. seat'[r][a] = seat[r][a]
      BY <1>3, <2>5
    <3>2. seat[r][a] # "responding"
      <4>1. \A q \in Procs : ~At(q, r, a, {"finish", "skip"})
        BY <1>1, <2>2 DEF At
      <4> QED
        BY <2>1, <4>1 DEF TurnsSeats, TurnsSeat
    <3> QED
      BY <1>1, <1>2, <1>4, <2>2, <3>1, <3>2 DEF At
  <2>9. HeldLetters("turn", r)'
    BY <1>4 DEF HeldLetters
  <2>10. ASSUME NEW a \in Agents PROVE HeldSeat("turn", r, a)'
    <3>1. On("turn", r)' /\ act'["turn"].at = "activate"
      BY <1>1, <1>2, <1>4
    <3> QED
      BY <2>8, <3>1 DEF HeldSeat
  <2> QED
    BY <2>3, <2>6, <2>7, <2>9, <2>10, HolderTurns
<1> QED
  BY <1>1, <1>9, <1>11, <1>12, <1>13 DEF Driven

\* In fan-out, a process moves on at its own seat, the letters of the round stay.
LEMMA FanoutMoves ==
  ASSUME Formed, TypeOK', NEW r \in Ids, NEW p \in Procs, On(p, r), Unique(r), Fanout(r),
         \A q \in Procs : q # p => act'[q] = act[q],
         UNCHANGED wakes, act'[p].emits = act[p].emits,
         NEW own \in Agents, act[p].agent = own, act'[p].agent = own, On(p, r)',
         \A b \in Agents : b # own => seat'[r][b] = seat[r][b],
         \A w \in Letters : ~Letter(w, r, own),
         \A q \in Procs : q # p => ~Busy(q, r, own),
         seat'[r][own] # "pending",
         p = "turn" \/ seat'[r][own] = "observed",
         \A b \in Agents : b # own /\ seat[r][b] = "queued" => \E c \in Agents : seat'[r][c] = "responding",
         FanoutTurn(p, r, own)', FanoutSeat(r, own)'
  PROVE  Fanout(r)'
<1> USE Numbers
<1>1. /\ TypeOK /\ p \in Finishers
      /\ SameLetters(r) /\ Letters \subseteq Wake /\ Letters' \subseteq Wake
      /\ \A a \in Agents : (\E w \in Letters' : Letter(w, r, a)) <=> (\E w \in Letters : Letter(w, r, a))
  BY OnFacts, KeepsLetters DEF Formed
<1>2. FanoutWakes(r)'
  <2> SUFFICES ASSUME NEW a \in Agents, NEW w \in Letters', Letter(w, r, a) PROVE Seats(w.kind, r, a)'
    BY DEF FanoutWakes, Letter
  <2>1. w \in Letters
    BY <1>1 DEF SameLetters, Letter
  <2>2. a # own /\ Seats(w.kind, r, a)
    BY <2>1 DEF Fanout, FanoutWakes
  <2>3. seat'[r][a] = seat[r][a]
    BY <2>2
  <2> QED
    BY <2>2, <2>3 DEF Seats
<1>3. FanoutTurns(r)'
  <2> SUFFICES ASSUME NEW q \in Procs, NEW a \in Agents PROVE FanoutTurn(q, r, a)'
    BY DEF FanoutTurns
  <2>1. CASE q = p
    BY <2>1 DEF FanoutTurn
  <2>2. CASE q # p /\ a # own
    BY <2>2, FanoutStands DEF Fanout, FanoutTurns
  <2>3. CASE q # p /\ a = own /\ On(q, r) /\ act[q].agent = a
    <3>1. act[q].at \notin {"think", "join", "finish"} /\ act'[q] = act[q] /\ q \in Finishers
      BY <2>3, OnFacts DEF Busy, At
    <3>2. act[q].at = "activate" => q = "turn"
      BY <2>3, <3>1, OnFacts DEF Finishers, Local, ResetShape
    <3>3. act[q].at = "activate" => seat'[r][a] = "observed"
      BY <2>3, <3>2
    <3> QED
      BY <2>3, <3>1, <3>3 DEF FanoutTurn
  <2>4. CASE q # p /\ ~(On(q, r) /\ act[q].agent = a)
    <3>1. act'[q] = act[q]
      BY <2>4
    <3> QED
      BY <2>4, <3>1 DEF FanoutTurn, On
  <2> QED
    BY <2>1, <2>2, <2>3, <2>4
<1>4. FanoutSeats(r)'
  <2> SUFFICES ASSUME NEW a \in Agents, a # own PROVE FanoutSeat(r, a)'
    BY DEF FanoutSeats
  <2>1. FanoutSeat(r, a) /\ seat'[r][a] = seat[r][a]
    BY DEF Fanout, FanoutSeats
  <2>2. \A q \in Procs : \A steps : At(q, r, a, steps) => At(q, r, a, steps)'
    BY DEF At, On
  <2> QED
    BY <1>1, <2>1, <2>2 DEF FanoutSeat, Letter
<1> QED
  BY <1>2, <1>3, <1>4 DEF Fanout

\* begin_channel_response promotes nobody but the seat of its own turn.
LEMMA BeginCases ==
  ASSUME Formed, TypeOK', NEW r \in Ids, On("turn", r), Driven(r), begin_channel_response
  PROVE  \/ /\ T'.at = "file" /\ seat'[r] = seat[r]
            /\ (\E b \in Agents : seat[r][b] = "responding") \/ \A b \in Agents : seat[r][b] # "queued"
         \/ /\ T'.at \in {"finish", "skip"} /\ seat[r][T.agent] = "queued"
            /\ seat'[r][T.agent] = "responding"
            /\ \A b \in Agents : seat[r][b] # "responding"
            /\ \A b \in Agents : b # T.agent => seat'[r][b] = seat[r][b]
<1> USE Numbers
<1>1. /\ TypeOK /\ T.agent \in Agents /\ T = act["turn"] /\ T' = act'["turn"]
      /\ T.emits = {} /\ T.round = r /\ T.at = "activate"
  BY TurnOn DEF TurnShape, begin_channel_response
<1>2. CASE next_candidate(r) = {} /\ Goes("turn", "file") /\ UNCHANGED seat
  <2>1. T'.at = "file"
    BY <1>1, <1>2, TurnGoes
  <2>2. (\E b \in Agents : seat[r][b] = "responding") \/ \A b \in Agents : seat[r][b] # "queued"
    BY <1>2 DEF next_candidate, In
  <2> QED
    BY <1>2, <2>1, <2>2
<1>3. ASSUME NEW a \in next_candidate(r), seat' = [seat EXCEPT ![r][a] = "responding"],
             Goes("turn", IF a # T.agent THEN "file" ELSE IF Stale(T.tip) THEN "skip" ELSE "finish")
      PROVE  /\ T'.at \in {"finish", "skip"} /\ seat[r][T.agent] = "queued"
             /\ seat'[r][T.agent] = "responding"
             /\ \A b \in Agents : seat[r][b] # "responding"
             /\ \A b \in Agents : b # T.agent => seat'[r][b] = seat[r][b]
  <2>1. a \in Agents /\ seat[r][a] = "queued" /\ \A b \in Agents : seat[r][b] # "responding"
    BY <1>3 DEF next_candidate, In
  <2>2. a = T.agent
    <3>1. CASE round[r].mode = "fanout"
      BY <1>1, <2>1, <3>1 DEF Driven, Fanout, FanoutSeats, FanoutSeat, At
    <3>2. CASE round[r].mode = "rounds"
      BY <1>1, <2>1, <3>2, HolderFacts DEF Driven, Mails, Procs
    <3>3. round[r].mode \in {"rounds", "fanout"}
      BY <1>1 DEF TypeOK, Modes
    <3> QED
      BY <3>1, <3>2, <3>3
  <2>3. PICK at \in {"finish", "skip"} : Goes("turn", at)
    BY <1>3, <2>2
  <2>4. T'.at = at
    BY <1>1, <2>3, TurnGoes
  <2>5. seat'[r][a] = "responding" /\ \A b \in Agents : b # a => seat'[r][b] = seat[r][b]
    BY <1>1, <1>3, <2>1 DEF TypeOK
  <2> QED
    BY <2>1, <2>2, <2>3, <2>4, <2>5
<1>4. \/ next_candidate(r) = {} /\ Goes("turn", "file") /\ UNCHANGED seat
      \/ \E a \in next_candidate(r) :
           /\ seat' = [seat EXCEPT ![r][a] = "responding"]
           /\ Goes("turn", IF a # T.agent THEN "file" ELSE IF Stale(T.tip) THEN "skip" ELSE "finish")
  BY <1>1 DEF begin_channel_response
<1> QED
  BY <1>2, <1>3, <1>4

LEMMA BeginDriven ==
  ASSUME Formed, TypeOK', NEW r \in Ids, On("turn", r), Driven(r), begin_channel_response
  PROVE  Driven(r)'
<1> USE Numbers
<1>0. PICK own \in Agents : own = T.agent
  BY TurnOn
<1>1. /\ TypeOK /\ T.agent = own /\ T = act["turn"] /\ T' = act'["turn"] /\ ~Installs("turn", r)
      /\ T.emits = {} /\ T.round = r /\ T.at = "activate" /\ T.kind = "message" /\ "turn" \in Procs
      /\ UNCHANGED <<round, wakes, said, halted>>
  BY <1>0, TurnOn DEF TurnShape, begin_channel_response, Procs
<1>2. /\ T'.at \in {"file", "finish", "skip"} /\ T'.round = r /\ T'.agent = own /\ T'.emits = {}
      /\ \A q \in Procs : q # "turn" => act'[q] = act[q]
  <2>1. PICK at \in {"file", "finish", "skip"} : Goes("turn", at)
    BY Zenon DEF begin_channel_response
  <2> QED
    BY <1>1, <2>1, TurnGoes
<1>3. \/ /\ T'.at = "file" /\ seat'[r] = seat[r]
         /\ (\E b \in Agents : seat[r][b] = "responding") \/ \A b \in Agents : seat[r][b] # "queued"
      \/ /\ T'.at \in {"finish", "skip"} /\ seat[r][own] = "queued" /\ seat'[r][own] = "responding"
         /\ \A b \in Agents : seat[r][b] # "responding"
         /\ \A b \in Agents : b # own => seat'[r][b] = seat[r][b]
  BY <1>0, BeginCases
<1>4. On("turn", r)' /\ act["turn"].emits = {} /\ act'["turn"].emits = {}
  BY <1>1, <1>2 DEF On
<1>5. Fewer(r)
  <2>1. ASSUME NEW q \in Procs, NEW a \in Agents, Busy(q, r, a)' PROVE Busy(q, r, a)
    <3>1. CASE q = "turn"
      BY <1>1, <1>2, <1>3, <2>1, <3>1 DEF Busy, At, On
    <3>2. CASE q # "turn" /\ ~At(q, r, a, {"activate"})
      BY <1>2, <2>1, <3>2 DEF Busy, At, On
    <3>3. CASE q # "turn" /\ At(q, r, a, {"activate"})
      <4>1. q \in Finishers /\ Local(q)
        BY <3>3, OnFacts DEF At
      <4> QED
        BY <3>3, <4>1 DEF Finishers, Local, ResetShape, At
    <3> QED
      BY <3>1, <3>2, <3>3
  <2> QED
    BY <1>1, <1>2, <1>4, <2>1 DEF Fewer
<1>6. Unique(r)' /\ Spent(r)'
  BY <1>1, <1>3, <1>5, UniqueKept, SpentKept DEF Driven
<1>7. Unsaid(r)' /\ EndsWithSeats(r)'
  <2>1. Unsaid(r)'
    BY <1>1, <1>2 DEF Unsaid, Replying
  <2>2. \A q \in Procs : Installs(q, r) => Installs(q, r)'
    BY <1>1, <1>2 DEF Installs
  <2>3. \A a \in Agents : seat'[r][a] \in OpenSeat <=> seat[r][a] \in OpenSeat
    BY <1>3 DEF OpenSeat
  <2>4. Closed(r)' <=> Closed(r)
    BY <2>3, ClosedKept
  <2> QED
    BY <1>1, <2>1, <2>2, <2>4 DEF EndsWithSeats, Driven
<1>8. ASSUME round[r].mode = "fanout" PROVE Fanout(r)'
  <2>1. FanoutWakes(r) /\ FanoutTurns(r) /\ FanoutSeats(r) /\ Unique(r) /\ Fanout(r)
    BY <1>8 DEF Driven, Fanout
  <2>2. seat[r][own] \in {"observed", "queued", "responding"}
    BY <1>1, <2>1 DEF FanoutTurns, FanoutTurn
  <2>3. CASE T'.at = "file"
    <3>1. seat'[r] = seat[r]
      BY <1>3, <2>3
    <3>2. FanoutWakes(r)'
      <4>1. SameLetters(r) /\ Letters \subseteq Wake /\ Letters' \subseteq Wake
        BY <1>1, <1>2, <1>4, KeepsLetters
      <4> QED
        BY <2>1, <3>1, <4>1 DEF FanoutWakes, SameLetters, Letter, Seats
    <3>3. FanoutTurns(r)'
      <4> SUFFICES ASSUME NEW q \in Procs, NEW a \in Agents PROVE FanoutTurn(q, r, a)'
        BY DEF FanoutTurns
      <4>1. CASE q = "turn"
        BY <1>1, <1>2, <2>2, <2>3, <3>1, <4>1 DEF FanoutTurn
      <4>2. CASE q # "turn"
        BY <1>2, <2>1, <3>1, <4>2, FanoutStands DEF FanoutTurns
      <4> QED
        BY <4>1, <4>2
    <3>4. FanoutSeats(r)'
      <4> SUFFICES ASSUME NEW a \in Agents PROVE FanoutSeat(r, a)'
        BY DEF FanoutSeats
      <4>1. FanoutSeat(r, a)
        BY <2>1 DEF FanoutSeats
      <4>2. /\ \A q \in Procs : At(q, r, a, {"think", "join", "finish", "skip"}) =>
                                  At(q, r, a, {"think", "join", "finish", "skip"})'
            /\ \A q \in Procs : At(q, r, a, {"think", "finish", "skip"}) =>
                                  At(q, r, a, {"think", "finish", "skip"})'
        BY <1>1, <1>2 DEF At, On
      <4>3. (\E w \in Letters' : Letter(w, r, a)) <=> (\E w \in Letters : Letter(w, r, a))
        BY <1>1, <1>2, <1>4, KeepsLetters
      <4>4. seat[r][a] = "queued" => \E b \in Agents : seat[r][b] = "responding"
        BY <1>3, <2>3
      <4> QED
        BY <3>1, <4>1, <4>2, <4>3, <4>4 DEF FanoutSeat, Letter
    <3> QED
      BY <3>2, <3>3, <3>4 DEF Fanout
  <2>4. CASE T'.at # "file"
    <3>1. /\ T'.at \in {"finish", "skip"} /\ seat[r][own] = "queued" /\ seat'[r][own] = "responding"
          /\ \A b \in Agents : b # own => seat'[r][b] = seat[r][b]
      BY <1>3, <2>4
    <3>2. Busy("turn", r, own)
      BY <1>1, <3>1 DEF Busy, At
    <3>3. /\ \A w \in wakes : ~Letter(w, r, own)
          /\ \A q \in Procs : q # "turn" => ~Busy(q, r, own) /\ \A w \in act[q].emits : ~Letter(w, r, own)
      BY <1>1, <2>1, <3>2, BusyAlone
    <3>4. \A w \in Letters : ~Letter(w, r, own)
      BY <1>4, <3>3 DEF Letters
    <3>5. FanoutTurn("turn", r, own)'
      BY <1>1, <1>2, <3>1 DEF FanoutTurn
    <3>6. FanoutSeat(r, own)'
      <4>1. At("turn", r, own, {"think", "finish", "skip"})'
        BY <1>1, <1>2, <1>4, <3>1 DEF At
      <4> QED
        BY <1>1, <3>1, <4>1 DEF FanoutSeat
    <3>7. /\ act["turn"].agent = own /\ act'["turn"].agent = own
          /\ act'["turn"].emits = act["turn"].emits
      BY <1>1, <1>2
    <3>8. seat'[r][own] # "pending" /\ \E c \in Agents : seat'[r][c] = "responding"
      BY <1>1, <3>1
    <3>9. \A q \in Procs : q # "turn" => ~Busy(q, r, own)
      BY <3>3
    <3> QED
      BY <1>1, <1>2, <1>4, <2>1, <3>1, <3>4, <3>5, <3>6, <3>7, <3>8, <3>9, FanoutMoves, Zenon
  <2> QED
    BY <2>3, <2>4
<1>9. ASSUME round[r].mode = "rounds" PROVE Turns(r)'
  <2>1. OneHolder(r) /\ TurnsWakes(r) /\ TurnsTurns(r) /\ TurnsSeats(r) /\ Turns(r)
    BY <1>9 DEF Driven, Turns
  <2>2. /\ ~Waits(r) /\ \A q \in Procs : q # "turn" => ~Holds(q, r) /\ ~On(q, r) /\ ~Mails(q, r)
        /\ \A w \in Letters : w.round # r
        /\ \A a \in Agents : seat[r][a] \in {"queued", "responding"} => a = own
    BY <1>1, <1>4, <2>1, HolderFacts DEF Mails
  <2>3. ~Waits(r)' /\ \A q \in Procs : q # "turn" => ~Holds(q, r)'
    BY <1>1, <1>2, <1>4, <2>1, HolderStays DEF Mails
  <2>4. \A a \in Agents : seat[r][a] # "responding"
    <3>1. \A a \in Agents, q \in Procs : ~At(q, r, a, {"finish", "skip"})
      BY <1>1, <2>2 DEF At
    <3> QED
      BY <2>1, <3>1 DEF TurnsSeats, TurnsSeat
  <2>5. T'.at = "file" => Closed(r) /\ seat'[r] = seat[r]
    <3>1. Awaited(r, T.kind, own)
      BY <1>1, <2>1 DEF TurnsTurns, TurnsTurn, On
    <3> QED
      BY <1>1, <1>3, <2>4, <3>1 DEF Awaited
  <2>6. HeldLetters("turn", r)'
    BY <1>4 DEF HeldLetters
  <2>7. TurnsTurn("turn", r)'
    BY <1>1, <1>2, <2>5 DEF TurnsTurn, Closed, In
  <2>8. ASSUME NEW a \in Agents PROVE HeldSeat("turn", r, a)'
    <3>1. CASE T'.at = "file"
      BY <2>5, <3>1 DEF HeldSeat, Closed, In, OpenSeat
    <3>2. CASE T'.at # "file"
      <4>1. On("turn", r)' /\ act'["turn"].at \in {"finish", "skip"} /\ act'["turn"].agent = own
        BY <1>1, <1>2, <1>4, <3>2
      <4>2. seat'[r][a] \in {"queued", "responding"} => a = own
        BY <1>3, <2>2
      <4>3. seat'[r][a] \in {"queued", "responding"} => At("turn", r, a, {"finish", "skip"})'
        BY <4>1, <4>2 DEF At
      <4>4. seat'[r][a] # "queued"
        BY <1>3, <2>2, <3>2
      <4> QED
        BY <4>1, <4>3, <4>4 DEF HeldSeat
    <3> QED
      BY <3>1, <3>2
  <2> QED
    BY <1>1, <2>3, <2>6, <2>7, <2>8, HolderTurns
<1> QED
  BY <1>1, <1>6, <1>7, <1>8, <1>9 DEF Driven

-----------------------------------------------------------------------------
(* The end of a seat, seen from its round.                                  *)

\* A process that decided goes on with its round.
Leaves(p, r, own) ==
  /\ On(p, r) /\ act[p].agent = own /\ act[p].emits = {}
  /\ act[p].at \in {"finish", "advance", "reroute"}
  /\ act'[p].round = r /\ act'[p].agent = own /\ act'[p].spoke = act[p].spoke
  /\ act'[p].at \in {"advance", "reroute", "create", "post", "file"}
  /\ \A q \in Procs : q # p => act'[q] = act[q]
  /\ UNCHANGED <<wakes, said>>

LEMMA LeavesBusy ==
  ASSUME Formed, NEW r \in Ids, NEW p \in Finishers, NEW own \in Agents, Leaves(p, r, own),
         \A b \in Agents : seat'[r][b] = "queued" =>
           seat[r][b] = "queued" \/ (\A q \in Procs : q # p => ~At(q, r, b, {"activate"}))
  PROVE  /\ \A q \in Procs, b \in Agents : q # p => (Busy(q, r, b)' => Busy(q, r, b))
         /\ \A b \in Agents : Busy(p, r, b)' => \E w \in act'[p].emits : Letter(w, r, b)
<1>1. ASSUME NEW q \in Procs, NEW b \in Agents, q # p, Busy(q, r, b)' PROVE Busy(q, r, b)
  <2>1. act'[q] = act[q]
    BY <1>1 DEF Leaves
  <2> QED
    BY <1>1, <2>1 DEF Busy, At, On
<1>2. ASSUME NEW b \in Agents, Busy(p, r, b)' PROVE \E w \in act'[p].emits : Letter(w, r, b)
  BY <1>2 DEF Busy, At, Leaves, Letter
<1> QED
  BY <1>1, <1>2

LEMMA LeavesUnique ==
  ASSUME NEW r \in Ids, NEW p \in Finishers, NEW own \in Agents, Leaves(p, r, own), Unique(r),
         \A q \in Procs, b \in Agents : q # p => (Busy(q, r, b)' => Busy(q, r, b)),
         \A b \in Agents : Busy(p, r, b)' => \E w \in act'[p].emits : Letter(w, r, b),
         \A v, w \in act'[p].emits : v.round = r /\ w.round = r => v = w,
         \A b \in Agents : (\E w \in act'[p].emits : Letter(w, r, b)) =>
           /\ \A w \in wakes : ~Letter(w, r, b)
           /\ \A q \in Procs : q # p => ~Busy(q, r, b)
  PROVE  Unique(r)'
<1> SUFFICES ASSUME NEW a \in Agents
             PROVE  /\ \A v, w \in wakes' : Letter(v, r, a) /\ Letter(w, r, a) => v = w
                    /\ \A q \in Procs :
                         /\ \A v, w \in act'[q].emits : Letter(v, r, a) /\ Letter(w, r, a) => v = w
                         /\ Busy(q, r, a)' => \A w \in wakes' : ~Letter(w, r, a)
                         /\ \A s \in Procs : Busy(q, r, a)' /\ Busy(s, r, a)' => q = s
  BY DEF Unique, Letter
<1>1. wakes' = wakes /\ \A q \in Procs : q # p => act'[q] = act[q]
  BY DEF Leaves
<1>2. \A v, w \in wakes' : Letter(v, r, a) /\ Letter(w, r, a) => v = w
  BY <1>1 DEF Unique
<1>3. ASSUME NEW q \in Procs PROVE \A v, w \in act'[q].emits : Letter(v, r, a) /\ Letter(w, r, a) => v = w
  <2>1. CASE q = p
    BY <2>1 DEF Letter
  <2>2. CASE q # p
    BY <1>1, <2>2 DEF Unique
  <2> QED
    BY <2>1, <2>2
<1>4. ASSUME NEW q \in Procs, Busy(q, r, a)' PROVE \A w \in wakes' : ~Letter(w, r, a)
  <2>1. CASE q = p
    BY <1>1, <1>4, <2>1
  <2>2. CASE q # p
    BY <1>1, <1>4, <2>2 DEF Unique
  <2> QED
    BY <2>1, <2>2
<1>5. ASSUME NEW q \in Procs, NEW s \in Procs, Busy(q, r, a)', Busy(s, r, a)' PROVE q = s
  <2>1. CASE q = p /\ s # p
    BY <1>5, <2>1
  <2>2. CASE q # p /\ s = p
    BY <1>5, <2>2
  <2>3. CASE q # p /\ s # p
    BY <1>5, <2>3 DEF Unique
  <2> QED
    BY <2>1, <2>2, <2>3
<1> QED
  BY <1>2, <1>3, <1>4, <1>5

LEMMA LeavesSpent ==
  ASSUME NEW r \in Ids, NEW p \in Finishers, NEW own \in Agents, Leaves(p, r, own), Spent(r),
         \A q \in Procs, b \in Agents : q # p => (Busy(q, r, b)' => Busy(q, r, b)),
         \A b \in Agents : Busy(p, r, b)' => \E w \in act'[p].emits : Letter(w, r, b),
         \A w \in act'[p].emits : \A b \in Agents : Letter(w, r, b) => seat'[r][b] # "responded",
         \A b \in Agents : seat[r][b] = "responded" => seat'[r][b] = "responded",
         \A b \in Agents : seat'[r][b] = "responded" /\ seat[r][b] # "responded" =>
           /\ \A w \in wakes : ~Letter(w, r, b)
           /\ \A q \in Procs : q # p => ~Busy(q, r, b)
  PROVE  Spent(r)'
<1> SUFFICES ASSUME NEW a \in Agents
             PROVE  /\ seat'[r][a] = "responded" =>
                         (\A w \in wakes' : ~Letter(w, r, a)) /\ \A q \in Procs : ~Busy(q, r, a)'
                    /\ <<r, a>> \in said' => seat'[r][a] = "responded"
  BY DEF Spent, Letter
<1>1. wakes' = wakes /\ said' = said
  BY DEF Leaves
<1>2. ASSUME seat'[r][a] = "responded"
      PROVE  (\A w \in wakes' : ~Letter(w, r, a)) /\ \A q \in Procs : ~Busy(q, r, a)'
  <2>1. (\A w \in wakes : ~Letter(w, r, a)) /\ \A q \in Procs : q # p => ~Busy(q, r, a)
    BY <1>2, Zenon DEF Spent
  <2>2. ~Busy(p, r, a)'
    BY <1>2
  <2> QED
    BY <1>1, <2>1, <2>2
<1> QED
  BY <1>1, <1>2 DEF Spent

LEMMA LeavesUnsaid ==
  ASSUME NEW r \in Ids, NEW p \in Finishers, NEW own \in Agents, Leaves(p, r, own), Unsaid(r),
         On("turn", r) => T.agent \in Agents,
         \A b \in Agents : seat[r][b] = "responded" => seat'[r][b] = "responded",
         act[p].spoke => seat'[r][own] = "responded" /\ <<r, own>> \notin said
  PROVE  Unsaid(r)'
<1>1. CASE p = "turn"
  BY <1>1 DEF Unsaid, Leaves, On, Replying, T
<1>2. CASE p # "turn"
  <2>1. act'["turn"] = act["turn"] /\ said' = said
    BY <1>2 DEF Leaves, Procs
  <2> QED
    BY <2>1 DEF Unsaid, On, Replying, T
<1> QED
  BY <1>1, <1>2

\* finalize_channel_response, seen from its round: the seat closes, and the one
\* that fan-out promotes gets a wake.
Closes(p, r, own) ==
  /\ act'[p].at = "advance" /\ act'[p].emits = {}
  /\ \A b \in Agents : b # own => seat'[r][b] = seat[r][b]
  /\ (\E b \in Agents : b # own /\ seat[r][b] = "responding")
       \/ \A b \in Agents : b # own => seat[r][b] # "queued"
HandsOn(p, r, own, a) ==
  /\ a # own /\ seat[r][a] = "queued" /\ \A b \in Agents : b # own => seat[r][b] # "responding"
  /\ round[r].mode # "rounds"
  /\ act'[p].at \in {"post", "file"} /\ act'[p].emits = {WakeOf(a, r, "response")}
  /\ seat'[r][a] = "responding"
  /\ \A b \in Agents : b # own /\ b # a => seat'[r][b] = seat[r][b]

LEMMA FinalizeFacts ==
  ASSUME Formed, TypeOK', NEW r \in Ids, NEW p \in Finishers, On(p, r), NEW own \in Agents,
         act[p].agent = own, finalize_channel_response(p)
  PROVE  /\ Leaves(p, r, own) /\ act[p].at = "finish" /\ seat'[r][own] = Closing(p)
         /\ round'[r].mode = round[r].mode
         /\ IF \A b \in Agents : seat'[r][b] \notin OpenSeat
            THEN round'[r].status = "completed" ELSE round'[r] = round[r]
         /\ \/ Closes(p, r, own)
            \/ \E a \in Agents : HandsOn(p, r, own, a)
            \/ round[r].mode = "rounds" /\ \E a \in Agents : a # own /\ seat[r][a] = "queued"
<1> USE Numbers
<1>1. /\ TypeOK /\ p \in Procs /\ act[p] \in Acts /\ act[p].round = r /\ act[p].emits = {}
      /\ act[p].at = "finish" /\ UNCHANGED <<wakes, said>> /\ seat \in [Ids -> [Agents -> Statuses]]
  BY FinisherBound, TypeParts DEF finalize_channel_response, Formed, TypesOk, SeatsOk, On
<1>2. /\ seat'[r][own] = Closing(p) /\ round'[r].mode = round[r].mode
      /\ IF \A b \in Agents : seat'[r][b] \notin OpenSeat
         THEN round'[r].status = "completed" ELSE round'[r] = round[r]
  BY <1>1, FinalizeRows
<1>3. /\ \/ \E a \in Agents :
              /\ a # own /\ seat[r][a] = "queued" /\ Promoted(p, a)
              /\ \A b \in Agents : b # own => seat[r][b] # "responding"
              /\ \/ /\ round[r].mode = "rounds"
                    /\ act' = [act EXCEPT ![p].at = "advance"]
                 \/ /\ round[r].mode # "rounds"
                    /\ act' = [act EXCEPT ![p].at = Ends(p),
                                          ![p].emits = {WakeOf(a, r, "response")}]
         \/ /\ NobodyPromoted(p)
            /\ \/ \E b \in Agents : b # own /\ seat[r][b] = "responding"
               \/ \A b \in Agents : b # own => seat[r][b] # "queued"
            /\ Goes(p, "advance")
  BY <1>1, FinalizeCases, Zenon
<1>4. Ends(p) \in {"post", "file"}
  BY DEF Ends
<1>5. Closing(p) \in Statuses
  BY DEF Closing, Statuses
<1>6. act' \in [Procs -> Acts]
  BY DEF TypeOK, Acts
<1>7. ASSUME act' = [act EXCEPT ![p].at = "advance"]
      PROVE  Leaves(p, r, own) /\ act'[p].at = "advance" /\ act'[p].emits = {}
  <2>1. act'[p] = [act[p] EXCEPT !.at = "advance"] /\ \A q \in Procs : q # p => act'[q] = act[q]
    BY <1>1, <1>7, ActsTyped
  <2>2. /\ act'[p].at = "advance" /\ act'[p].emits = {} /\ act'[p].round = r
        /\ act'[p].agent = own /\ act'[p].spoke = act[p].spoke
    BY <1>1, <2>1 DEF Acts
  <2> QED
    BY <1>1, <2>1, <2>2 DEF Leaves
<1>8. CASE NobodyPromoted(p) /\ Goes(p, "advance")
           /\ \/ \E b \in Agents : b # own /\ seat[r][b] = "responding"
              \/ \A b \in Agents : b # own => seat[r][b] # "queued"
  <2>1. \A b \in Agents : b # own => seat'[r][b] = seat[r][b]
    BY <1>1, <1>8 DEF NobodyPromoted
  <2>2. Leaves(p, r, own) /\ act'[p].at = "advance" /\ act'[p].emits = {}
    BY <1>7, <1>8 DEF Goes
  <2> QED
    BY <1>1, <1>2, <1>8, <2>1, <2>2 DEF Closes
<1>9. ASSUME NEW a \in Agents, a # own, seat[r][a] = "queued", Promoted(p, a),
             \A b \in Agents : b # own => seat[r][b] # "responding",
             round[r].mode # "rounds",
             act' = [act EXCEPT ![p].at = Ends(p), ![p].emits = {WakeOf(a, r, "response")}]
      PROVE  Leaves(p, r, own) /\ HandsOn(p, r, own, a)
  <2>1. act'[p] = [act[p] EXCEPT !.at = Ends(p), !.emits = {WakeOf(a, r, "response")}]
        /\ \A q \in Procs : q # p => act'[q] = act[q]
    BY <1>1, <1>9, ActsTyped
  <2>2. /\ act'[p].at = Ends(p) /\ act'[p].emits = {WakeOf(a, r, "response")} /\ act'[p].round = r
        /\ act'[p].agent = own /\ act'[p].spoke = act[p].spoke
    BY <1>1, <2>1 DEF Acts
  <2>3. seat'[r][a] = "responding" /\ \A b \in Agents : b # own /\ b # a => seat'[r][b] = seat[r][b]
    BY <1>1, <1>9 DEF Promoted
  <2>4. Leaves(p, r, own)
    BY <1>1, <1>4, <2>1, <2>2 DEF Leaves
  <2> QED
    BY <1>4, <1>9, <2>2, <2>3, <2>4, Zenon DEF HandsOn
<1>10. CASE \E a \in Agents : a # own /\ seat[r][a] = "queued" /\ round[r].mode = "rounds"
                             /\ act' = [act EXCEPT ![p].at = "advance"]
  BY <1>1, <1>2, <1>7, <1>10
<1>11. CASE \E a \in Agents :
              /\ a # own /\ seat[r][a] = "queued" /\ Promoted(p, a)
              /\ \A b \in Agents : b # own => seat[r][b] # "responding"
              /\ round[r].mode # "rounds"
              /\ act' = [act EXCEPT ![p].at = Ends(p), ![p].emits = {WakeOf(a, r, "response")}]
  BY <1>1, <1>2, <1>9, <1>11, Zenon
<1> QED
  BY <1>3, <1>8, <1>10, <1>11

\* In rounds the seat of the turn is the only one queued, so nobody is promoted.
LEMMA FinalizeCloses ==
  ASSUME Formed, TypeOK', NEW r \in Ids, Driven(r), NEW p \in Finishers, On(p, r), NEW own \in Agents,
         act[p].agent = own, finalize_channel_response(p)
  PROVE  Closes(p, r, own) \/ (round[r].mode = "fanout" /\ \E a \in Agents : HandsOn(p, r, own, a))
<1>1. TypeOK /\ p \in Procs /\ act[p].emits = {} /\ round[r].mode \in {"rounds", "fanout"}
  <2>1. TypeOK /\ p \in Procs /\ act[p].emits = {}
    BY FinisherBound DEF Formed, finalize_channel_response
  <2> QED
    BY <2>1 DEF TypeOK, Modes
<1>2. CASE Closes(p, r, own)
  BY <1>2
<1>3. CASE \E a \in Agents : HandsOn(p, r, own, a)
  BY <1>1, <1>3 DEF HandsOn
<1>4. CASE round[r].mode = "rounds" /\ \E a \in Agents : a # own /\ seat[r][a] = "queued"
  <2>1. Turns(r) /\ ~Mails(p, r)
    BY <1>1, <1>4 DEF Driven, Mails
  <2> QED
    BY <1>1, <1>4, <2>1, HolderFacts
<1> QED
  BY <1>2, <1>3, <1>4, FinalizeFacts

LEMMA FinalizeDriven ==
  ASSUME Formed, TypeOK', NEW r \in Ids, Driven(r), NEW p \in Finishers, On(p, r),
         finalize_channel_response(p)
  PROVE  Driven(r)'
<1> USE Numbers
<1>0. PICK own \in Agents : act[p].agent = own
  BY OnFacts DEF Finishers, Procs
<1>1. /\ TypeOK /\ p \in Procs /\ Leaves(p, r, own) /\ act[p].at = "finish" /\ seat'[r][own] = Closing(p)
      /\ round'[r].mode = round[r].mode
      /\ IF \A b \in Agents : seat'[r][b] \notin OpenSeat
         THEN round'[r].status = "completed" ELSE round'[r] = round[r]
  BY <1>0, FinalizeFacts DEF Formed, Finishers, Procs
<1>2. /\ act[p].emits = {} /\ act'[p].round = r /\ act'[p].agent = own /\ act'[p].spoke = act[p].spoke
      /\ On(p, r)' /\ wakes' = wakes /\ said' = said
      /\ \A q \in Procs : q # p => act'[q] = act[q]
  BY <1>1 DEF Leaves, On
<1>3. Busy(p, r, own)
  BY <1>0, <1>1 DEF Busy, At
<1>4. /\ \A w \in wakes : ~Letter(w, r, own)
      /\ \A q \in Procs : q # p => ~Busy(q, r, own) /\ \A w \in act[q].emits : ~Letter(w, r, own)
      /\ seat[r][own] # "responded" /\ <<r, own>> \notin said
  <2>1. Unique(r) /\ Spent(r)
    BY DEF Driven
  <2>2. seat[r][own] # "responded" /\ <<r, own>> \notin said
    BY <1>1, <1>3, <2>1 DEF Spent
  <2> QED
    BY <1>1, <1>3, <2>1, <2>2, BusyAlone
<1>5. \A w \in Letters : ~Letter(w, r, own)
  BY <1>2, <1>4 DEF Letters
<1>6. /\ Closing(p) \in {"responded", "observed"} /\ Closing(p) \notin OpenSeat
      /\ (act[p].spoke => seat'[r][own] = "responded")
      /\ p = "turn" \/ seat'[r][own] = "observed"
  <2>1. p = "turn" \/ ~act[p].spoke
    BY <1>1, FinisherBound DEF Finishers
  <2> QED
    BY <1>1, <2>1 DEF Closing, OpenSeat
<1>7. EndsWithSeats(r)'
  BY <1>1 DEF EndsWithSeats, Closed, In
<1>8. On("turn", r) => T.agent \in Agents
  BY TurnOn
<1>9. CASE Closes(p, r, own)
  <2>1. /\ act'[p].at = "advance" /\ act'[p].emits = {}
        /\ \A b \in Agents : b # own => seat'[r][b] = seat[r][b]
        /\ (\E b \in Agents : b # own /\ seat[r][b] = "responding")
             \/ \A b \in Agents : b # own => seat[r][b] # "queued"
    BY <1>9 DEF Closes
  <2>2. /\ \A q \in Procs, b \in Agents : q # p => (Busy(q, r, b)' => Busy(q, r, b))
        /\ \A b \in Agents : ~Busy(p, r, b)'
    <3>1. \A b \in Agents : seat'[r][b] = "queued" => seat[r][b] = "queued"
      BY <1>1, <1>6, <2>1
    <3>2. \A b \in Agents : Busy(p, r, b)' => \E w \in act'[p].emits : Letter(w, r, b)
      BY <1>1, <3>1, LeavesBusy
    <3> QED
      BY <1>1, <2>1, <3>1, <3>2, LeavesBusy
  <2>3. Unique(r)'
    BY <1>1, <2>1, <2>2, LeavesUnique DEF Driven
  <2>4. \A b \in Agents : /\ seat[r][b] = "responded" => seat'[r][b] = "responded"
                          /\ seat'[r][b] = "responded" /\ seat[r][b] # "responded" => b = own
    BY <1>4, <2>1
  <2>5. Spent(r)'
    BY <1>1, <1>4, <2>1, <2>2, <2>4, LeavesSpent DEF Driven
  <2>6. Unsaid(r)'
    BY <1>1, <1>4, <1>6, <1>8, <2>4, LeavesUnsaid DEF Driven
  <2>7. ASSUME round[r].mode = "fanout" PROVE Fanout(r)'
    <3>1. Fanout(r) /\ Unique(r)
      BY <2>7 DEF Driven
    <3>2. seat'[r][own] # "pending" /\ seat'[r][own] \notin OpenSeat
      BY <1>1, <1>6 DEF OpenSeat
    <3>3. FanoutTurn(p, r, own)'
      BY <2>1, <3>2 DEF FanoutTurn
    <3>4. FanoutSeat(r, own)'
      BY <3>2 DEF FanoutSeat, OpenSeat
    <3>5. \A b \in Agents : b # own /\ seat[r][b] = "queued" => \E c \in Agents : seat'[r][c] = "responding"
      BY <2>1
    <3>6. act'[p].emits = act[p].emits /\ \A q \in Procs : q # p => ~Busy(q, r, own)
      BY <1>2, <1>4, <2>1
    <3> QED
      BY <1>0, <1>1, <1>2, <1>5, <1>6, <2>1, <3>1, <3>2, <3>3, <3>4, <3>5, <3>6, FanoutMoves, ZenonT(40)
  <2>8. ASSUME round[r].mode = "rounds" PROVE Turns(r)'
    <3>1. Turns(r) /\ ~Mails(p, r)
      BY <1>2, <2>8 DEF Driven, Mails
    <3>2. ~Waits(r)' /\ \A q \in Procs : q # p => ~Holds(q, r)'
      BY <1>1, <1>2, <3>1, HolderStays
    <3>3. HeldLetters(p, r)'
      BY <2>1 DEF HeldLetters
    <3>4. TurnsTurn(p, r)'
      BY <1>1, <1>2, <1>6, <2>1 DEF TurnsTurn
    <3>5. ASSUME NEW a \in Agents PROVE HeldSeat(p, r, a)'
      <4>1. seat'[r][a] \notin {"queued", "responding"}
        <5>1. CASE a = own
          BY <1>1, <1>6, <5>1
        <5>2. CASE a # own
          BY <1>0, <1>1, <2>1, <3>1, <5>2, HolderFacts
        <5> QED
          BY <5>1, <5>2
      <4> QED
        BY <1>2, <2>1, <4>1 DEF HeldSeat
    <3> QED
      BY <1>1, <3>2, <3>3, <3>4, <3>5, HolderTurns
  <2> QED
    BY <1>1, <1>7, <2>3, <2>5, <2>6, <2>7, <2>8 DEF Driven
<1>10. ASSUME NEW a \in Agents, round[r].mode = "fanout", HandsOn(p, r, own, a) PROVE Driven(r)'
  <2> DEFINE x == WakeOf(a, r, "response")
  <2>1. /\ act'[p].at \in {"post", "file"} /\ act'[p].emits = {x} /\ a # own
        /\ \A b \in Agents : b # own /\ b # a => seat'[r][b] = seat[r][b]
        /\ seat[r][a] = "queued" /\ seat'[r][a] = "responding"
        /\ \A b \in Agents : b # own => seat[r][b] # "responding"
    BY <1>10 DEF HandsOn
  <2>2. x \in Wake /\ Letter(x, r, a) /\ x.kind = "response" /\ \A b \in Agents : Letter(x, r, b) => b = a
    BY DEF Wake, WakeOf, Letter
  <2> HIDE DEF x
  <2>3. FanoutWakes(r) /\ FanoutTurns(r) /\ FanoutSeats(r) /\ Unique(r)
    BY <1>10 DEF Driven, Fanout
  <2>4. \A w \in Letters : ~Letter(w, r, a)
    <3> SUFFICES ASSUME NEW w \in Letters, Letter(w, r, a) PROVE FALSE
      OBVIOUS
    <3>1. Seats(w.kind, r, a)
      BY <2>3 DEF FanoutWakes
    <3> QED
      BY <2>1, <3>1 DEF Seats
  <2>5. \A w : w \in Letters <=> w \in wakes \/ \E q \in Procs : w \in act[q].emits
    BY <1>1, LettersTyped
  <2>6. /\ \A w \in wakes : ~Letter(w, r, a)
        /\ \A q \in Procs : ~At(q, r, a, {"think", "join", "finish"}) /\ \A w \in act[q].emits : ~Letter(w, r, a)
    <3>1. ASSUME NEW q \in Procs PROVE ~At(q, r, a, {"think", "join", "finish"})
      BY <2>1, <2>3 DEF At, FanoutTurns, FanoutTurn, Seats
    <3> QED
      BY <2>4, <2>5, <3>1
  <2>7. \A q \in Procs, b \in Agents : q # p => (Busy(q, r, b)' => Busy(q, r, b))
    <3>1. \A b \in Agents : seat'[r][b] = "queued" => seat[r][b] = "queued"
      BY <1>1, <1>6, <2>1
    <3> QED
      BY <1>1, <3>1, LeavesBusy
  <2>8. \A b \in Agents : Busy(p, r, b)' => b = a
    <3>1. \A b \in Agents : seat'[r][b] = "queued" => seat[r][b] = "queued"
      BY <1>1, <1>6, <2>1
    <3>2. \A b \in Agents : Busy(p, r, b)' => \E w \in act'[p].emits : Letter(w, r, b)
      BY <1>1, <3>1, LeavesBusy
    <3> QED
      BY <2>1, <2>2, <3>2
  <2>9. \A q \in Procs : q # p => ~Busy(q, r, a)'
    <3> SUFFICES ASSUME NEW q \in Procs, q # p, Busy(q, r, a)' PROVE FALSE
      OBVIOUS
    <3>1. act'[q] = act[q] /\ seat'[r][a] # "queued"
      BY <1>2, <2>1
    <3>2. (\E w \in act[q].emits : Letter(w, r, a)) \/ At(q, r, a, {"think", "join", "finish"})
      BY <3>1 DEF Busy, At, On
    <3> QED
      BY <2>6, <3>2
  <2>10. Unique(r)'
    <3> SUFFICES ASSUME NEW b \in Agents
                 PROVE  /\ \A v, w \in wakes' : Letter(v, r, b) /\ Letter(w, r, b) => v = w
                        /\ \A q \in Procs :
                             /\ \A v, w \in act'[q].emits : Letter(v, r, b) /\ Letter(w, r, b) => v = w
                             /\ Busy(q, r, b)' => \A w \in wakes' : ~Letter(w, r, b)
                             /\ \A s \in Procs : Busy(q, r, b)' /\ Busy(s, r, b)' => q = s
      BY DEF Unique, Letter
    <3>1. \A q \in Procs : \A v, w \in act'[q].emits : Letter(v, r, b) /\ Letter(w, r, b) => v = w
      <4> SUFFICES ASSUME NEW q \in Procs
                   PROVE  \A v, w \in act'[q].emits : Letter(v, r, b) /\ Letter(w, r, b) => v = w
        OBVIOUS
      <4>1. CASE q = p
        BY <2>1, <4>1
      <4>2. CASE q # p
        BY <1>2, <2>3, <4>2 DEF Unique
      <4> QED
        BY <4>1, <4>2
    <3>2. \A q \in Procs : Busy(q, r, b)' => \A w \in wakes' : ~Letter(w, r, b)
      <4>1. CASE b = a
        BY <1>2, <2>6, <4>1
      <4>2. CASE b # a
        BY <1>2, <2>3, <2>7, <2>8, <4>2 DEF Unique
      <4> QED
        BY <4>1, <4>2
    <3>3. \A q, s \in Procs : Busy(q, r, b)' /\ Busy(s, r, b)' => q = s
      <4>1. CASE b = a
        BY <2>9, <4>1
      <4>2. CASE b # a
        BY <2>3, <2>7, <2>8, <4>2 DEF Unique
      <4> QED
        BY <4>1, <4>2
    <3> QED
      BY <1>2, <2>3, <3>1, <3>2, <3>3 DEF Unique
  <2>11. \A b \in Agents : /\ seat[r][b] = "responded" => seat'[r][b] = "responded"
                           /\ seat'[r][b] = "responded" /\ seat[r][b] # "responded" => b = own
    BY <1>4, <2>1
  <2>12. Spent(r)'
    <3>1. \A b \in Agents : Busy(p, r, b)' => \E w \in act'[p].emits : Letter(w, r, b)
      BY <2>1, <2>2, <2>8
    <3>2. \A w \in act'[p].emits : \A b \in Agents : Letter(w, r, b) => seat'[r][b] # "responded"
      BY <2>1, <2>2
    <3>3. \A b \in Agents : seat'[r][b] = "responded" /\ seat[r][b] # "responded" =>
           /\ \A w \in wakes : ~Letter(w, r, b)
           /\ \A q \in Procs : q # p => ~Busy(q, r, b)
      BY <1>4, <2>11
    <3> QED
      BY <1>1, <2>7, <2>11, <3>1, <3>2, <3>3, LeavesSpent DEF Driven
  <2>13. Unsaid(r)'
    BY <1>1, <1>4, <1>6, <1>8, <2>11, LeavesUnsaid DEF Driven
  <2>14. \A w : w \in Letters' <=> w \in Letters \/ w = x
    <3>1. \A w : w \in Letters' <=> w \in wakes' \/ \E q \in Procs : w \in act'[q].emits
      BY DEF TypeOK, Letters
    <3> QED
      BY <1>1, <1>2, <2>1, <2>5, <3>1
  <2>15. FanoutWakes(r)'
    <3> SUFFICES ASSUME NEW b \in Agents, NEW w \in Letters', Letter(w, r, b) PROVE Seats(w.kind, r, b)'
      BY DEF FanoutWakes, Letter
    <3>1. CASE w = x
      BY <2>1, <2>2, <3>1 DEF Seats
    <3>2. CASE w # x
      <4>1. w \in Letters /\ b # own /\ b # a
        BY <1>5, <2>4, <2>14, <3>2
      <4>2. Seats(w.kind, r, b) /\ seat'[r][b] = seat[r][b]
        BY <2>1, <2>3, <4>1 DEF FanoutWakes
      <4> QED
        BY <4>2 DEF Seats
    <3> QED
      BY <3>1, <3>2
  <2>16. FanoutTurns(r)'
    <3> SUFFICES ASSUME NEW q \in Procs, NEW b \in Agents PROVE FanoutTurn(q, r, b)'
      BY DEF FanoutTurns
    <3>1. CASE q = p
      BY <1>1, <1>2, <1>6, <2>1, <3>1 DEF FanoutTurn
    <3>2. CASE q # p /\ ~(On(q, r) /\ act[q].agent = b)
      <4>1. act'[q] = act[q]
        BY <1>2, <3>2
      <4> QED
        BY <3>2, <4>1 DEF FanoutTurn, On
    <3>3. CASE q # p /\ b # own /\ b # a
      BY <1>2, <2>1, <2>3, <3>3, FanoutStands DEF FanoutTurns
    <3>4. CASE q # p /\ b = own /\ On(q, r) /\ act[q].agent = b
      <4>1. act[q].at \notin {"think", "join", "finish"} /\ act'[q] = act[q] /\ q \in Finishers
        BY <1>2, <1>4, <3>4, OnFacts DEF Busy, At
      <4>2. act[q].at = "activate" => q = "turn"
        BY <3>4, <4>1, OnFacts DEF Finishers, Local, ResetShape
      <4>3. act[q].at = "activate" => seat'[r][b] = "observed"
        BY <1>6, <3>4, <4>2
      <4> QED
        BY <1>1, <1>6, <3>4, <4>1, <4>3 DEF FanoutTurn
    <3>5. CASE q # p /\ b = a /\ On(q, r) /\ act[q].agent = b
      <4>1. act[q].at \notin {"think", "join", "finish"} /\ act'[q] = act[q]
        BY <1>2, <2>6, <3>5 DEF At
      <4> QED
        BY <2>1, <3>5, <4>1 DEF FanoutTurn
    <3> QED
      BY <3>1, <3>2, <3>3, <3>4, <3>5
  <2>17. FanoutSeats(r)'
    <3> SUFFICES ASSUME NEW b \in Agents PROVE FanoutSeat(r, b)'
      BY DEF FanoutSeats
    <3>1. CASE b = own
      BY <1>1, <1>6, <3>1 DEF FanoutSeat, OpenSeat
    <3>2. CASE b = a
      BY <2>1, <2>2, <2>14, <3>2 DEF FanoutSeat, Letter
    <3>3. CASE b # own /\ b # a
      <4>1. FanoutSeat(r, b) /\ seat'[r][b] = seat[r][b]
        BY <2>1, <2>3, <3>3 DEF FanoutSeats
      <4>2. \A q \in Procs : \A steps : At(q, r, b, steps) => At(q, r, b, steps)'
        BY <1>0, <1>2, <3>3 DEF At, On
      <4>3. (\E w \in Letters : Letter(w, r, b)) => (\E w \in Letters' : Letter(w, r, b))
        BY <2>14
      <4> QED
        BY <2>1, <4>1, <4>2, <4>3 DEF FanoutSeat, Letter
    <3> QED
      BY <3>1, <3>2, <3>3
  <2> QED
    BY <1>1, <1>7, <1>10, <2>10, <2>12, <2>13, <2>15, <2>16, <2>17 DEF Driven, Fanout
<1> QED
  BY <1>0, <1>9, <1>10, FinalizeCloses

\* In fan-out, a process goes on after the end of its seat.
LEMMA FanoutSame ==
  ASSUME Formed, TypeOK', NEW r \in Ids, NEW p \in Procs, On(p, r), Fanout(r),
         NEW own \in Agents, act[p].agent = own, act'[p].agent = own, act'[p].round = r,
         act[p].at \notin {"think", "join", "activate", "finish", "skip"},
         act'[p].at \notin {"think", "join", "activate", "finish"},
         \A q \in Procs : q # p => act'[q] = act[q],
         UNCHANGED wakes, act'[p].emits = act[p].emits, seat'[r] = seat[r]
  PROVE  Fanout(r)'
<1>1. /\ SameLetters(r) /\ Letters \subseteq Wake /\ Letters' \subseteq Wake
      /\ \A a \in Agents : (\E w \in Letters' : Letter(w, r, a)) <=> (\E w \in Letters : Letter(w, r, a))
  BY KeepsLetters DEF Formed
<1>2. FanoutWakes(r)'
  BY <1>1 DEF Fanout, FanoutWakes, SameLetters, Letter, Seats
<1>3. FanoutTurns(r)'
  <2> SUFFICES ASSUME NEW q \in Procs, NEW a \in Agents PROVE FanoutTurn(q, r, a)'
    BY DEF FanoutTurns
  <2>1. FanoutTurn(q, r, a)
    BY DEF Fanout, FanoutTurns
  <2>2. CASE q = p
    BY <2>1, <2>2 DEF FanoutTurn
  <2>3. CASE q # p
    BY <2>1, <2>3, FanoutStands
  <2> QED
    BY <2>2, <2>3
<1>4. FanoutSeats(r)'
  <2> SUFFICES ASSUME NEW a \in Agents PROVE FanoutSeat(r, a)'
    BY DEF FanoutSeats
  <2>1. FanoutSeat(r, a)
    BY DEF Fanout, FanoutSeats
  <2>2. \A q \in Procs :
          /\ At(q, r, a, {"think", "join", "finish", "skip"}) => At(q, r, a, {"think", "join", "finish", "skip"})'
          /\ At(q, r, a, {"think", "finish", "skip"}) => At(q, r, a, {"think", "finish", "skip"})'
          /\ At(q, r, a, {"activate"}) => At(q, r, a, {"activate"})'
    BY DEF At, On
  <2>3. "turn" \in Procs
    BY DEF Procs
  <2> QED
    BY <1>1, <2>1, <2>2, <2>3 DEF FanoutSeat, Letter
<1> QED
  BY <1>2, <1>3, <1>4 DEF Fanout

LEMMA OnwardLeaves ==
  ASSUME Formed, NEW r \in Ids, NEW p \in Finishers, On(p, r), NEW own \in Agents, act[p].agent = own,
         act[p].at \in {"advance", "reroute"}, NEW x, Onward(p, x),
         x.at \in {"advance", "reroute", "create", "post", "file"}, UNCHANGED <<wakes, said>>
  PROVE  Leaves(p, r, own) /\ act'[p] = x /\ (act[p].spoke => x.at # "file") /\ (x.at = "post" => act[p].spoke)
<1>1. /\ p \in Procs /\ act[p].round = r /\ act[p].emits = {} /\ TypeOK
  BY FinisherBound DEF Formed, On
<1>2. act'[p] = x /\ \A q \in Procs : q # p => act'[q] = act[q]
  BY <1>1, ActsTyped DEF Onward
<1>3. /\ x.round = r /\ x.agent = own /\ x.spoke = act[p].spoke
  BY <1>1 DEF Onward
<1> QED
  BY <1>1, <1>2, <1>3 DEF Leaves, Onward

\* A process that has its round alone, in rounds, after the end of its seat.
Alone(p, r, own) ==
  /\ Leaves(p, r, own) /\ act[p].at \in {"advance", "reroute"}
  /\ round[r].mode = "rounds" /\ round'[r].mode = "rounds"
  /\ \A b \in Agents : seat'[r][b] = "responded" <=> seat[r][b] = "responded"
  /\ act[p].spoke => seat[r][own] = "responded" /\ <<r, own>> \notin said

LEMMA AloneFacts ==
  ASSUME Formed, TypeOK', NEW r \in Ids, Driven(r), NEW p \in Finishers, NEW own \in Agents, Alone(p, r, own)
  PROVE  /\ p \in Procs /\ On(p, r) /\ On(p, r)' /\ act[p].emits = {} /\ act[p].agent = own
         /\ act'[p].agent = own /\ act'[p].round = r /\ act'[p].spoke = act[p].spoke
         /\ ~Waits(r) /\ ~Waits(r)' /\ \A q \in Procs : q # p => ~Holds(q, r) /\ ~Holds(q, r)'
         /\ \A a \in Agents : seat[r][a] \notin {"queued", "responding"}
         /\ \A q \in Procs, b \in Agents : q # p => ~Busy(q, r, b) /\ ~Busy(q, r, b)'
         /\ \A b \in Agents : Busy(p, r, b)' => \E w \in act'[p].emits : Letter(w, r, b)
         /\ On("turn", r) => T.agent \in Agents
<1>1. /\ TypeOK /\ p \in Procs /\ On(p, r) /\ On(p, r)' /\ act[p].emits = {} /\ act[p].agent = own
      /\ act'[p].agent = own /\ act'[p].round = r /\ act'[p].spoke = act[p].spoke
      /\ \A q \in Procs : q # p => act'[q] = act[q]
      /\ UNCHANGED wakes /\ act[p].at \in {"advance", "reroute"}
      /\ act'[p].at \in {"advance", "reroute", "create", "post", "file"}
  BY DEF Formed, Alone, Leaves, On, Finishers, Procs
<1>2. Turns(r) /\ ~Mails(p, r)
  BY <1>1 DEF Alone, Driven, Mails
<1>3. /\ ~Waits(r) /\ \A q \in Procs : q # p => ~Holds(q, r)
      /\ \A a \in Agents : seat[r][a] \notin {"queued", "responding"}
  BY <1>1, <1>2, HolderFacts
<1>4. ~Waits(r)' /\ \A q \in Procs : q # p => ~Holds(q, r)'
  BY <1>1, <1>2, HolderStays
<1>5. \A q \in Procs, b \in Agents : q # p => ~Busy(q, r, b) /\ ~Busy(q, r, b)'
  BY <1>3, <1>4 DEF Busy, Holds, At, Mails, Letter, On
<1>6. \A b \in Agents : Busy(p, r, b)' => \E w \in act'[p].emits : Letter(w, r, b)
  BY <1>1 DEF Busy, At
<1>7. On("turn", r) => T.agent \in Agents
  BY TurnOn
<1> QED
  BY <1>1, <1>3, <1>4, <1>5, <1>6, <1>7

\* Nobody is left to be waked.
LEMMA AloneEnds ==
  ASSUME Formed, TypeOK', NEW r \in Ids, Driven(r), NEW p \in Finishers, NEW own \in Agents, Alone(p, r, own),
         act'[p].at \in {"create", "post", "file"}, act'[p].emits = {},
         Closed(r)', round'[r].status # "active"
  PROVE  Driven(r)'
<1>1. /\ p \in Procs /\ On(p, r)' /\ act'[p].agent = own /\ act'[p].round = r
      /\ ~Waits(r)' /\ \A q \in Procs : q # p => ~Holds(q, r)'
      /\ \A q \in Procs, b \in Agents : q # p => ~Busy(q, r, b) /\ ~Busy(q, r, b)'
      /\ \A b \in Agents : Busy(p, r, b)' => \E w \in act'[p].emits : Letter(w, r, b)
      /\ On("turn", r) => T.agent \in Agents
  BY AloneFacts
<1>2. /\ Leaves(p, r, own) /\ round'[r].mode = "rounds"
      /\ \A b \in Agents : seat'[r][b] = "responded" <=> seat[r][b] = "responded"
      /\ act[p].spoke => seat[r][own] = "responded" /\ <<r, own>> \notin said
  BY DEF Alone
<1>3. \A a \in Agents : seat'[r][a] \notin OpenSeat
  BY DEF Closed, In
<1>4. Unique(r)'
  BY <1>1, <1>2, LeavesUnique DEF Driven
<1>5. Spent(r)'
  BY <1>1, <1>2, LeavesSpent DEF Driven
<1>6. Unsaid(r)'
  BY <1>1, <1>2, LeavesUnsaid DEF Driven
<1>7. EndsWithSeats(r)'
  BY DEF EndsWithSeats
<1>8. HeldLetters(p, r)' /\ \A a \in Agents : HeldSeat(p, r, a)'
  BY <1>3 DEF HeldLetters, HeldSeat, OpenSeat
<1>9. TurnsTurn(p, r)'
  BY <1>1, <1>3 DEF TurnsTurn
<1>10. Turns(r)'
  BY <1>1, <1>8, <1>9, HolderTurns
<1> QED
  BY <1>2, <1>4, <1>5, <1>6, <1>7, <1>10 DEF Driven

\* The next seat is queued, and its wake is to be filed.
LEMMA AloneQueues ==
  ASSUME Formed, TypeOK', NEW r \in Ids, Driven(r), NEW p \in Finishers, NEW own \in Agents, Alone(p, r, own),
         NEW a \in Agents, act'[p].at \in {"post", "file"}, act'[p].emits = {WakeOf(a, r, "message")},
         seat'[r][a] = "queued", seat'[r][own] \notin OpenSeat,
         \A b \in Agents : b # a => seat'[r][b] \in {seat[r][b], "pending", "observed"}
  PROVE  Driven(r)'
<1>1. /\ p \in Procs /\ On(p, r)' /\ act'[p].agent = own /\ act'[p].round = r
      /\ ~Waits(r) /\ ~Waits(r)' /\ \A q \in Procs : q # p => ~Holds(q, r)'
      /\ \A b \in Agents : seat[r][b] \notin {"queued", "responding"}
      /\ \A q \in Procs, b \in Agents : q # p => ~Busy(q, r, b) /\ ~Busy(q, r, b)'
      /\ \A b \in Agents : Busy(p, r, b)' => \E w \in act'[p].emits : Letter(w, r, b)
      /\ On("turn", r) => T.agent \in Agents
  BY AloneFacts
<1>2. /\ Leaves(p, r, own) /\ round'[r].mode = "rounds"
      /\ \A b \in Agents : seat'[r][b] = "responded" <=> seat[r][b] = "responded"
      /\ act[p].spoke => seat[r][own] = "responded" /\ <<r, own>> \notin said
  BY DEF Alone
<1> DEFINE w == WakeOf(a, r, "message")
<1>3. w \in Wake /\ Letter(w, r, a) /\ w.kind = "message" /\ w.round = r /\ w.agent = a
  BY DEF Wake, WakeOf, Letter
<1>4. act'[p].emits = {w}
  OBVIOUS
<1> HIDE DEF w
<1>5. Unique(r)'
  <2>1. \A v \in wakes, b \in Agents : ~Letter(v, r, b)
    BY <1>1 DEF Waits, Letter
  <2>2. \A u, v \in act'[p].emits : u.round = r /\ v.round = r => u = v
    BY <1>4
  <2> QED
    BY <1>1, <1>2, <2>1, <2>2, LeavesUnique DEF Driven
<1>6. Spent(r)'
  <2>1. \A v \in act'[p].emits : \A b \in Agents : Letter(v, r, b) => seat'[r][b] # "responded"
    BY <1>3, <1>4 DEF Letter
  <2> QED
    BY <1>1, <1>2, <2>1, LeavesSpent DEF Driven
<1>7. Unsaid(r)'
  BY <1>1, <1>2, LeavesUnsaid DEF Driven
<1>8. EndsWithSeats(r)'
  BY DEF EndsWithSeats, Closed, In, OpenSeat
<1>9. HeldLetters(p, r)'
  BY <1>3, <1>4 DEF HeldLetters, Awaited
<1>10. ASSUME NEW b \in Agents PROVE HeldSeat(p, r, b)'
  <2>1. CASE b = a
    BY <1>3, <1>4, <2>1 DEF HeldSeat, Letter
  <2>2. CASE b # a
    <3>1. seat'[r][b] \notin {"queued", "responding"}
      BY <1>1, <2>2
    <3> QED
      BY <1>3, <1>4, <3>1 DEF HeldSeat
  <2> QED
    BY <2>1, <2>2
<1>11. TurnsTurn(p, r)'
  BY <1>1 DEF TurnsTurn
<1>12. Turns(r)'
  BY <1>1, <1>9, <1>10, <1>11, HolderTurns
<1> QED
  BY <1>2, <1>5, <1>6, <1>7, <1>8, <1>12 DEF Driven

\* advance_channel_round and what it leaves of the round's seats.
LEMMA AdvanceDriven ==
  ASSUME Formed, TypeOK', NEW r \in Ids, Driven(r), r \notin halted', NEW p \in Finishers, On(p, r),
         advance_channel_round(p)
  PROVE  Driven(r)'
<1> USE Numbers
<1>0. PICK own \in Agents : act[p].agent = own
  BY OnFacts DEF Finishers, Procs
<1>1. /\ TypeOK /\ p \in Procs /\ act[p].round = r /\ act[p].emits = {} /\ act[p].at = "advance"
      /\ UNCHANGED <<wakes, said>>
  BY FinisherBound DEF Formed, On, advance_channel_round
<1>2. /\ On("turn", r) => T.agent \in Agents
      /\ act[p].spoke => seat[r][own] = "responded" /\ <<r, own>> \notin said
  <2>1. act[p].spoke => p = "turn"
    BY <1>1, FinisherBound DEF Finishers
  <2> QED
    BY <1>0, <1>1, <2>1, TurnOn DEF Driven, Unsaid, Replying, T
<1>3. ASSUME NEW x, Onward(p, x), x.at \in {"reroute", "create", "post", "file"}, x.emits = {},
             seat'[r] = seat[r], round'[r].mode = round[r].mode, EndsWithSeats(r)'
      PROVE  /\ Leaves(p, r, own) /\ act'[p] = x /\ Unique(r)' /\ Spent(r)' /\ Unsaid(r)' /\ EndsWithSeats(r)'
             /\ round'[r].mode = round[r].mode
  <2>1. Leaves(p, r, own) /\ act'[p] = x
    BY <1>0, <1>1, <1>3, OnwardLeaves
  <2>2. /\ \A q \in Procs, b \in Agents : q # p => (Busy(q, r, b)' => Busy(q, r, b))
        /\ \A b \in Agents : Busy(p, r, b)' => \E w \in act'[p].emits : Letter(w, r, b)
    BY <1>3, <2>1, LeavesBusy
  <2>3. Unique(r)'
    BY <1>3, <2>1, <2>2, LeavesUnique DEF Driven
  <2>4. Spent(r)'
    BY <1>3, <2>1, <2>2, LeavesSpent DEF Driven
  <2>5. Unsaid(r)'
    BY <1>2, <1>3, <2>1, LeavesUnsaid DEF Driven
  <2> QED
    BY <1>3, <2>1, <2>3, <2>4, <2>5
<1>4. CASE round[r].mode = "fanout"
  <2>1. PICK x : /\ Onward(p, x) /\ UNCHANGED <<round, seat>>
                 /\ x.at \in {"create", "post", "file"} /\ x.emits = {}
    BY <1>1, <1>4, AdvanceCases, Zenon
  <2>2. EndsWithSeats(r)'
    <3>1. \A q \in Procs : Installs(q, r) => Installs(q, r)'
      <4> SUFFICES ASSUME NEW q \in Procs, Installs(q, r) PROVE Installs(q, r)'
        OBVIOUS
      <4>1. q # p
        BY <1>1 DEF Installs
      <4>2. Leaves(p, r, own)
        BY <1>0, <1>1, <2>1, OnwardLeaves
      <4> QED
        BY <4>1, <4>2 DEF Leaves, Installs
    <3> QED
      BY <2>1, <3>1 DEF Driven, EndsWithSeats, Closed, In
  <2>3. /\ Leaves(p, r, own) /\ act'[p] = x /\ Unique(r)' /\ Spent(r)' /\ Unsaid(r)'
    BY <1>3, <2>1, <2>2
  <2>4. Fanout(r)'
    <3>1. /\ act'[p].agent = own /\ act'[p].round = r /\ \A q \in Procs : q # p => act'[q] = act[q]
      BY <2>3 DEF Leaves
    <3>2. Fanout(r) /\ act'[p].emits = act[p].emits /\ act'[p].at \notin {"think", "join", "activate", "finish"}
      BY <1>1, <1>4, <2>1, <2>3 DEF Driven
    <3> QED
      BY <1>0, <1>1, <2>1, <3>1, <3>2, FanoutSame, Zenon
  <2> QED
    BY <1>4, <2>1, <2>2, <2>3, <2>4 DEF Driven
<1>5. CASE round[r].mode = "rounds"
  <2>1. Turns(r) /\ ~Mails(p, r) /\ OneHolder(r) /\ TurnsTurns(r)
    BY <1>1, <1>5 DEF Driven, Mails, Turns
  <2>2. /\ ~Waits(r) /\ \A q \in Procs : q # p => ~Holds(q, r)
        /\ \A a \in Agents : seat[r][a] \notin {"queued", "responding"}
    BY <1>1, <2>1, HolderFacts
  <2>3. seat[r][own] \notin OpenSeat
    BY <1>0, <1>1, <2>1 DEF TurnsTurns, TurnsTurn
  <2>4. round[r].status = "active" => ~Closed(r)
    <3>1. \A q \in Procs : ~Installs(q, r)
      BY <1>1, <2>2 DEF Holds, Installs
    <3> QED
      BY <3>1 DEF Driven, EndsWithSeats
  <2>5. \A q \in Procs, b \in Agents : q # p => ~Busy(q, r, b)
    BY <2>2 DEF Busy, Holds, At, Mails, Letter
  <2>6. ASSUME NEW x, Onward(p, x), x.at \in {"create", "post", "file"}, x.emits = {},
               seat' = seat, Closed(r), round' = maybe_complete_round(seat, {r}) \/ round' = round
        PROVE  Driven(r)'
    <3>1. round'[r].mode = round[r].mode /\ round'[r].status # "active"
      <4>1. CASE round' = round
        BY <2>4, <2>6, <4>1
      <4>2. CASE round' = maybe_complete_round(seat, {r})
        <5>1. round'[r] = [round[r] EXCEPT !.status = "completed"]
          BY <2>6, <4>2 DEF maybe_complete_round, Closed, In
        <5>2. round[r] \in [status : {"none", "active", "completed"}, tip : 0 .. LastTip,
                            index : 0 .. Cap, mode : Modes]
          BY <1>1 DEF TypeOK
        <5> QED
          BY <5>1, <5>2
      <4> QED
        BY <2>6, <4>1, <4>2
    <3>2. Leaves(p, r, own) /\ act'[p] = x
      BY <1>0, <1>1, <2>6, OnwardLeaves
    <3>3. Alone(p, r, own)
      BY <1>1, <1>2, <1>5, <2>6, <3>1, <3>2 DEF Alone
    <3>4. Closed(r)'
      BY <2>6 DEF Closed, In
    <3> QED
      BY <2>6, <3>1, <3>2, <3>3, <3>4, AloneEnds
  <2>7. ASSUME NEW x, Onward(p, x), NEW a \in Agents, seat[r][a] = "pending",
               seat' = [seat EXCEPT ![r][a] = "queued"], round' = round,
               x.at \in {"post", "file"}, x.emits = {WakeOf(a, r, "message")}
        PROVE  Driven(r)'
    <3>1. Leaves(p, r, own) /\ act'[p] = x
      BY <1>0, <1>1, <2>7, OnwardLeaves
    <3>2. /\ seat'[r][a] = "queued" /\ \A b \in Agents : b # a => seat'[r][b] = seat[r][b]
      BY <1>1, <2>7 DEF TypeOK
    <3>3. Alone(p, r, own)
      <4>1. \A b \in Agents : seat'[r][b] = "responded" <=> seat[r][b] = "responded"
        BY <2>7, <3>2
      <4> QED
        BY <1>1, <1>2, <1>5, <2>7, <3>1, <4>1 DEF Alone
    <3>4. seat'[r][own] \notin OpenSeat
      BY <2>3, <2>7, <3>2 DEF OpenSeat
    <3> QED
      BY <2>7, <3>1, <3>2, <3>3, <3>4, AloneQueues
  <2>8. ASSUME NEW x, Onward(p, x), x.at = "reroute", x.rest = In(r, {"pending"}), x.emits = {},
               UNCHANGED <<round, seat>>
        PROVE  Driven(r)'
    <3>1. EndsWithSeats(r)'
      BY <2>4, <2>8 DEF EndsWithSeats, Closed, In
    <3>2. Leaves(p, r, own) /\ act'[p] = x /\ Unique(r)' /\ Spent(r)' /\ Unsaid(r)'
      BY <1>3, <2>8, <3>1
    <3>3. On(p, r)' /\ act'[p].agent = own /\ act'[p].at = "reroute" /\ act'[p].emits = {}
      BY <2>8, <3>2 DEF Leaves, On
    <3>4. ~Waits(r)' /\ \A q \in Procs : q # p => ~Holds(q, r)'
      BY <1>1, <2>1, <3>2, HolderStays DEF Leaves
    <3>5. HeldLetters(p, r)'
      BY <3>3 DEF HeldLetters
    <3>6. \A a \in Agents : HeldSeat(p, r, a)'
      BY <2>2, <2>8, <3>3 DEF HeldSeat
    <3>7. TurnsTurn(p, r)'
      BY <2>3, <2>8, <3>2, <3>3 DEF TurnsTurn, In
    <3>8. Turns(r)'
      BY <1>1, <3>4, <3>5, <3>6, <3>7, HolderTurns
    <3> QED
      BY <1>5, <2>8, <3>1, <3>2, <3>8 DEF Driven
  <2>9. Closed(r) <=> In(r, {"pending"}) = {}
    BY <2>2 DEF Closed, In, OpenSeat
  <2>10. PICK x :
          /\ Onward(p, x)
          /\ \/ /\ Stale(act[p].tip) \/ paused \/ In(r, {"queued", "responding"}) # {}
                /\ UNCHANGED seat
                /\ round' = maybe_complete_round(seat, {r}) \/ round' = round
                /\ halted' = IF Stale(act[p].tip) \/ paused THEN halted \cup Halts(r) ELSE halted
                /\ x.at \in {"post", "file"} /\ x.emits = {}
             \/ \E a \in Agents :
                  /\ seat[r][a] = "pending" /\ seat' = [seat EXCEPT ![r][a] = "queued"]
                  /\ UNCHANGED round
                  /\ x.at \in {"post", "file"} /\ x.emits = {WakeOf(a, r, "message")}
             \/ /\ x.at = "reroute" /\ x.rest = In(r, {"pending"}) /\ x.emits = {}
                /\ UNCHANGED <<round, seat>>
             \/ /\ In(r, {"pending"}) = {}
                /\ round' = maybe_complete_round(seat, {r})
                /\ UNCHANGED seat
                /\ x.at \in {"create", "post", "file"} /\ x.emits = {}
    BY <1>1, <1>5, AdvanceCases, Zenon
  <2>11. In(r, {"queued", "responding"}) = {}
    BY <2>2 DEF In
  <2>12. CASE /\ Stale(act[p].tip) \/ paused \/ In(r, {"queued", "responding"}) # {}
              /\ UNCHANGED seat
              /\ round' = maybe_complete_round(seat, {r}) \/ round' = round
              /\ halted' = IF Stale(act[p].tip) \/ paused THEN halted \cup Halts(r) ELSE halted
              /\ x.at \in {"post", "file"} /\ x.emits = {}
    <3>1. Closed(r)
      BY <2>11, <2>12 DEF Halts, Closed
    <3> QED
      BY <2>6, <2>10, <2>12, <3>1
  <2> QED
    BY <2>6, <2>7, <2>8, <2>9, <2>10, <2>12
<1> QED
  BY <1>1, <1>4, <1>5 DEF TypeOK, Modes

LEMMA CompletesOne ==
  ASSUME TypeOK, NEW r \in Ids, Opened(r), round' = maybe_complete_round(seat', {r})
  PROVE  /\ round'[r].mode = round[r].mode
         /\ IF \A a \in Agents : seat'[r][a] \notin OpenSeat
            THEN round'[r].status = "completed" ELSE round'[r] = round[r]
<1>1. {r} \in SUBSET Ids /\ \A q \in {r} : Opened(q)
  OBVIOUS
<1>2. round'[r].mode = round[r].mode
  BY <1>1, CompleteFacts, Zenon
<1>3. IF \A a \in Agents : seat'[r][a] \notin OpenSeat
      THEN round'[r].status = "completed" ELSE round'[r] = round[r]
  BY <1>1, CompleteFacts, Zenon
<1> QED
  BY <1>2, <1>3

\* _redecide_remaining: the seats the model asks again, or nobody.
LEMMA RedecideDriven ==
  ASSUME Formed, TypeOK', NEW r \in Ids, Driven(r), NEW p \in Finishers, On(p, r), _redecide_remaining(p)
  PROVE  Driven(r)'
<1> USE Numbers
<1>0. PICK own \in Agents : act[p].agent = own
  BY OnFacts DEF Finishers, Procs
<1>1. /\ TypeOK /\ p \in Procs /\ act[p].round = r /\ act[p].emits = {} /\ act[p].at = "reroute"
      /\ act[p].spoke /\ UNCHANGED <<wakes, said>> /\ round[r].mode = "rounds"
  BY FinisherBound DEF Formed, On, _redecide_remaining, Local
<1>2. /\ On("turn", r) => T.agent \in Agents
      /\ seat[r][own] = "responded" /\ <<r, own>> \notin said
  <2>1. p = "turn"
    BY <1>1, FinisherBound DEF Finishers
  <2> QED
    BY <1>0, <1>1, <2>1, TurnOn DEF Driven, Unsaid, Replying, T
<1>3. Turns(r) /\ ~Mails(p, r) /\ TurnsTurn(p, r)
  BY <1>1 DEF Driven, Mails, Turns, TurnsTurns
<1>4. /\ \A a \in Agents : seat[r][a] \notin {"queued", "responding"}
      /\ \A a \in Agents : /\ seat[r][a] = "pending" => a \in act[p].rest
                           /\ a \in act[p].rest => seat[r][a] \in {"pending", "observed"}
  <2>1. \A a \in Agents : seat[r][a] \notin {"queued", "responding"}
    BY <1>1, <1>3, HolderFacts
  <2> QED
    BY <1>1, <1>3, <2>1 DEF TurnsTurn
<1>5. PICK x, row : /\ Onward(p, x) /\ row \in [Agents -> Statuses]
                    /\ seat' = [seat EXCEPT ![r] = row]
                    /\ Requeues(p, x, row) \/ NobodyLeft(p, x, row)
  BY <1>1, RedecideCases
<1>6. seat'[r] = row
  BY <1>1, <1>5 DEF TypeOK
<1>7. CASE Requeues(p, x, row)
  <2>1. PICK a \in Agents :
          /\ row[a] = "queued" /\ (a \in eligible(r, act[p].rest) \/ seat[r][a] = "pending")
          /\ x.emits = {WakeOf(a, r, "message")}
          /\ \/ \A b \in Agents : b # a => row[b] = seat[r][b]
             \/ \E speak \in SUBSET eligible(r, act[p].rest) :
                  \A b \in Agents : b # a =>
                    row[b] = IF b \in speak THEN "pending"
                             ELSE IF b \in act[p].rest THEN "observed" ELSE seat[r][b]
    BY <1>1, <1>7 DEF Requeues
  <2>2. x.at = "post" /\ round' = round
    BY <1>7 DEF Requeues
  <2>3. \A b \in Agents : b \in eligible(r, act[p].rest) => seat[r][b] \in {"pending", "observed"}
    BY <1>4 DEF eligible, In
  <2>4. \A b \in Agents : b # a =>
          /\ row[b] \in {seat[r][b], "pending", "observed"}
          /\ row[b] = "responded" <=> seat[r][b] = "responded"
          /\ seat[r][b] = "responded" => row[b] = "responded"
    <3> SUFFICES ASSUME NEW b \in Agents, b # a
                 PROVE  /\ row[b] \in {seat[r][b], "pending", "observed"}
                        /\ row[b] = "responded" <=> seat[r][b] = "responded"
      OBVIOUS
    <3>1. CASE row[b] = seat[r][b]
      BY <3>1
    <3>2. CASE \E speak \in SUBSET eligible(r, act[p].rest) :
                 row[b] = IF b \in speak THEN "pending"
                          ELSE IF b \in act[p].rest THEN "observed" ELSE seat[r][b]
      BY <1>4, <2>3, <3>2
    <3> QED
      BY <2>1, <3>1, <3>2
  <2>5. seat[r][a] \in {"pending", "observed"} /\ a # own
    BY <1>2, <2>1, <2>3
  <2>6. Leaves(p, r, own) /\ act'[p] = x
    BY <1>0, <1>1, <1>5, <2>2, OnwardLeaves
  <2>7. \A b \in Agents : seat'[r][b] = "responded" <=> seat[r][b] = "responded"
    BY <1>6, <2>1, <2>4, <2>5
  <2>8. Alone(p, r, own)
    BY <1>1, <1>2, <2>2, <2>6, <2>7 DEF Alone
  <2>9. seat'[r][own] \notin OpenSeat
    BY <1>2, <2>7 DEF OpenSeat
  <2> QED
    BY <1>6, <2>1, <2>2, <2>4, <2>6, <2>8, <2>9, AloneQueues
<1>8. CASE NobodyLeft(p, x, row)
  <2>1. \A b \in Agents : row[b] \notin OpenSeat /\ (row[b] = "responded" <=> seat[r][b] = "responded")
    <3> SUFFICES ASSUME NEW b \in Agents
                 PROVE  row[b] \notin OpenSeat /\ (row[b] = "responded" <=> seat[r][b] = "responded")
      OBVIOUS
    <3>1. row[b] = (IF b \in act[p].rest THEN "observed" ELSE seat[r][b]) /\ row[b] # "pending"
      BY <1>1, <1>8 DEF NobodyLeft
    <3> QED
      BY <1>4, <3>1 DEF OpenSeat
  <2>2. x.at \in {"create", "post"} /\ x.emits = {} /\ round' = maybe_complete_round(seat', {r})
    BY <1>1, <1>8 DEF NobodyLeft
  <2>3. Leaves(p, r, own) /\ act'[p] = x
    BY <1>0, <1>1, <1>5, <2>2, OnwardLeaves
  <2>4. round'[r].mode = round[r].mode /\ round'[r].status = "completed"
    <3>1. Opened(r)
      BY <1>1, FinisherBound
    <3>2. \A a \in Agents : seat'[r][a] \notin OpenSeat
      BY <1>6, <2>1
    <3> QED
      BY <1>1, <2>2, <3>1, <3>2, CompletesOne, Zenon
  <2>5. Alone(p, r, own)
    BY <1>1, <1>2, <1>6, <2>1, <2>3, <2>4 DEF Alone
  <2>6. Closed(r)'
    BY <1>6, <2>1 DEF Closed, In
  <2> QED
    BY <2>2, <2>3, <2>4, <2>5, <2>6, AloneEnds
<1> QED
  BY <1>5, <1>7, <1>8

-----------------------------------------------------------------------------
(* Seats that are closed all at once: a pause, a newer message, a sweep.     *)

\* Some open seats become observed, and some wakes go.
Shrinks(r) ==
  /\ \A a \in Agents : \/ seat'[r][a] = seat[r][a]
                       \/ seat[r][a] \in OpenSeat /\ seat'[r][a] = "observed"
  /\ \A w \in wakes' : w.round = r => w \in wakes
  /\ \A a \in Agents : <<r, a>> \in said' <=> <<r, a>> \in said
  /\ round'[r].mode = round[r].mode

\* A process is seen alike, or has left its seat behind, or skips its line.
Yields(p, r) ==
  /\ On(p, r)' <=> On(p, r)
  /\ On(p, r) => \/ act'[p] = act[p]
                 \/ /\ act'[p].agent = act[p].agent /\ act[p].at \in Late \cup {"skip"}
                    /\ act'[p].at \in Late \cup {"skip"} /\ (Replying(p)' => Replying(p))
                    /\ act[p].at = "skip" => seat'[r][act[p].agent] \notin OpenSeat
  /\ \A w \in Wake : w.round = r => (w \in act'[p].emits <=> w \in act[p].emits)
  /\ Installs(p, r)' <=> Installs(p, r)

LEMMA RestsYields == ASSUME NEW r, NEW p, Rests(p, r) PROVE Yields(p, r)
BY DEF Rests, Yields, Late

\* Only the seat of the turn stays open without having started; no seat that
\* has started loses its wake; wakes are left only where everything is closed.
Spares(r) ==
  /\ \A a \in Agents : seat'[r][a] \in {"pending", "queued"} =>
       /\ On("turn", r) /\ T.agent = a
       /\ \A b \in Agents : seat[r][b] = "responding" => seat'[r][b] = "responding"
  /\ \A a \in Agents : seat'[r][a] = "responding" => \A w \in wakes : ~Letter(w, r, a)
  /\ \A w \in wakes' : w.round = r => Closed(r)'

LEMMA ShrinkFewer ==
  ASSUME TypeOK, TypeOK', NEW r \in Ids, \A p \in Procs : Yields(p, r), Shrinks(r)
  PROVE  Fewer(r) /\ \A p \in Procs : \A w \in act'[p].emits : w.round = r => w \in act[p].emits
<1>1. \A p \in Procs : act[p].emits \subseteq Wake /\ act'[p].emits \subseteq Wake
  BY DEF TypeOK
<1>2. \A p \in Procs : \A w \in act'[p].emits : w.round = r => w \in act[p].emits
  BY <1>1 DEF Yields
<1>3. ASSUME NEW p \in Procs, NEW a \in Agents, Busy(p, r, a)' PROVE Busy(p, r, a)
  <2>1. CASE \E w \in act'[p].emits : Letter(w, r, a)
    BY <1>2, <2>1 DEF Busy, Letter
  <2>2. CASE ~\E w \in act'[p].emits : Letter(w, r, a)
    <3>1. On(p, r)' /\ act'[p].agent = a /\ act'[p].at \in {"think", "join", "finish", "activate"}
          /\ (act'[p].at = "activate" => seat'[r][a] = "queued")
      BY <1>3, <2>2 DEF Busy, At, Letter
    <3>2. On(p, r) /\ act'[p] = act[p]
      BY <3>1 DEF Yields, Late
    <3>3. seat'[r][a] = "queued" => seat[r][a] = "queued"
      BY DEF Shrinks
    <3> QED
      BY <3>1, <3>2, <3>3 DEF Busy, At
  <2> QED
    BY <2>1, <2>2
<1>4. \A w \in wakes' : w.round = r => w \in wakes
  BY DEF Shrinks
<1> QED
  BY <1>2, <1>3, <1>4 DEF Fewer

LEMMA ShrinkFanout ==
  ASSUME Formed, TypeOK', NEW r \in Ids, Fanout(r), \A p \in Procs : Yields(p, r), Shrinks(r), Spares(r)
  PROVE  Fanout(r)'
<1>1. TypeOK /\ "turn" \in Procs /\ T = act["turn"] /\ T' = act'["turn"]
  BY Numbers DEF Formed, T
<1>2. \A p \in Procs : \A w \in act'[p].emits : w.round = r => w \in act[p].emits
  BY <1>1, ShrinkFewer
<1>3. \A a \in Agents : \/ seat'[r][a] = seat[r][a]
                        \/ seat[r][a] \in OpenSeat /\ seat'[r][a] = "observed"
  BY DEF Shrinks
<1>4. \A w : w \in Letters' <=> w \in wakes' \/ \E p \in Procs : w \in act'[p].emits
  BY DEF TypeOK, Letters
<1>5. \A w \in Letters' : w.round = r => w \in Letters
  BY <1>1, <1>2, <1>4, LettersTyped DEF Shrinks
<1>6. FanoutWakes(r) /\ FanoutTurns(r) /\ FanoutSeats(r)
  BY DEF Fanout
<1>7. FanoutWakes(r)'
  BY <1>3, <1>5, <1>6 DEF FanoutWakes, Letter, Seats
<1>8. FanoutTurns(r)'
  <2> SUFFICES ASSUME NEW p \in Procs, NEW a \in Agents PROVE FanoutTurn(p, r, a)'
    BY DEF FanoutTurns
  <2>1. FanoutTurn(p, r, a) /\ Yields(p, r)
    BY <1>6 DEF FanoutTurns
  <2>2. CASE act'[p] = act[p]
    BY <1>3, <2>1, <2>2, FanoutStands
  <2>3. CASE act'[p] # act[p]
    BY <1>3, <2>1, <2>3 DEF FanoutTurn, Yields, On, Late, OpenSeat
  <2> QED
    BY <2>2, <2>3
<1>9. ASSUME NEW p \in Procs, NEW a \in Agents, seat'[r][a] \in OpenSeat, NEW steps, Late \cap steps = {},
             At(p, r, a, steps)
      PROVE  At(p, r, a, steps)'
  <2>1. act'[p] = act[p] \/ act[p].at \in Late
    BY <1>9 DEF At, Yields
  <2> QED
    BY <1>9, <2>1 DEF At, On
<1>10. ASSUME NEW a \in Agents PROVE FanoutSeat(r, a)'
  <2>1. FanoutSeat(r, a) /\ FanoutTurn("turn", r, a)
    BY <1>1, <1>6 DEF FanoutSeats, FanoutTurns
  <2>2. CASE seat'[r][a] = "pending"
    <3>1. seat[r][a] = "pending" /\ On("turn", r) /\ T.agent = a
      BY <1>3, <2>2 DEF Spares
    <3>2. At("turn", r, a, {"think", "join", "finish", "skip"})
      BY <1>1, <2>1, <3>1 DEF At, FanoutTurn
    <3>3. At("turn", r, a, {"think", "join", "finish", "skip"})'
      BY <1>1, <1>9, <2>2, <3>2 DEF Late, OpenSeat
    <3> QED
      BY <1>1, <2>2, <3>3 DEF FanoutSeat
  <2>3. CASE seat'[r][a] = "responding"
    <3>1. seat[r][a] = "responding" /\ \A w \in wakes : ~Letter(w, r, a)
      BY <1>3, <2>3 DEF Spares
    <3>2. \/ \E p \in Procs : \E w \in act[p].emits : Letter(w, r, a)
          \/ \E p \in Procs : At(p, r, a, {"think", "finish", "skip"})
      BY <1>1, <2>1, <3>1, LettersTyped DEF FanoutSeat
    <3>3. CASE \E p \in Procs : \E w \in act[p].emits : Letter(w, r, a)
      <4>1. PICK p \in Procs : \E w \in act[p].emits : Letter(w, r, a)
        BY <3>3
      <4>2. PICK w \in act[p].emits : Letter(w, r, a)
        BY <4>1
      <4>3. w \in Wake /\ w.round = r
        BY <1>1, <4>2, LettersTyped DEF Letter
      <4>4. w \in Letters'
        BY <1>4, <4>2, <4>3 DEF Yields
      <4> QED
        BY <2>3, <4>2, <4>4 DEF FanoutSeat, Letter
    <3>4. CASE \E p \in Procs : At(p, r, a, {"think", "finish", "skip"})
      <4>1. \E p \in Procs : At(p, r, a, {"think", "finish", "skip"})'
        BY <1>9, <2>3, <3>4 DEF Late, OpenSeat
      <4> QED
        BY <2>3, <4>1 DEF FanoutSeat
    <3> QED
      BY <3>2, <3>3, <3>4
  <2>4. CASE seat'[r][a] = "queued"
    <3>1. seat[r][a] = "queued" /\ \A b \in Agents : seat[r][b] = "responding" => seat'[r][b] = "responding"
      BY <1>3, <2>4 DEF Spares
    <3>2. (\E b \in Agents : seat[r][b] = "responding") \/ At("turn", r, a, {"activate"})
      BY <2>1, <3>1 DEF FanoutSeat
    <3>3. At("turn", r, a, {"activate"}) => At("turn", r, a, {"activate"})'
      BY <1>1, <1>9, <2>4 DEF Late, OpenSeat
    <3> QED
      BY <2>4, <3>1, <3>2, <3>3 DEF FanoutSeat
  <2> QED
    BY <2>2, <2>3, <2>4 DEF FanoutSeat
<1> QED
  BY <1>7, <1>8, <1>10 DEF Fanout, FanoutSeats

LEMMA ShrinkTurns ==
  ASSUME Formed, TypeOK', NEW r \in Ids, Turns(r), \A p \in Procs : Yields(p, r), Shrinks(r), Spares(r)
  PROVE  Turns(r)'
<1>1. TypeOK /\ "turn" \in Procs /\ T = act["turn"] /\ T' = act'["turn"]
  BY Numbers DEF Formed, T
<1>2. \A p \in Procs : \A w \in act'[p].emits : w.round = r => w \in act[p].emits
  BY <1>1, ShrinkFewer
<1>3. \A a \in Agents : \/ seat'[r][a] = seat[r][a]
                        \/ seat[r][a] \in OpenSeat /\ seat'[r][a] = "observed"
  BY DEF Shrinks
<1>4. \A w : w \in Letters' <=> w \in wakes' \/ \E p \in Procs : w \in act'[p].emits
  BY DEF TypeOK, Letters
<1>5. OneHolder(r) /\ TurnsWakes(r) /\ TurnsTurns(r) /\ TurnsSeats(r)
  BY DEF Turns
<1>6. /\ \A p \in Procs : Holds(p, r)' => Holds(p, r)
      /\ Waits(r)' => Waits(r)
  BY <1>2 DEF Yields, Holds, Mails, Waits, Shrinks
<1>7. OneHolder(r)'
  <2>1. \A w \in wakes' : w.round = r => w \in wakes
    BY DEF Shrinks
  <2> QED
    BY <1>2, <1>5, <1>6, <2>1 DEF OneHolder
<1>8. ASSUME NEW p \in Procs, NEW a \in Agents, seat'[r][a] \in OpenSeat, NEW steps, Late \cap steps = {},
             At(p, r, a, steps)
      PROVE  At(p, r, a, steps)' /\ act'[p] = act[p]
  <2>1. act'[p] = act[p] \/ act[p].at \in Late
    BY <1>8 DEF At, Yields
  <2> QED
    BY <1>8, <2>1 DEF At, On
<1>9. Closed(r) => Closed(r)'
  BY <1>3 DEF Closed, In, OpenSeat
\* Whoever has the round and has its seat closed, or loses it, leaves no open seat.
<1>10. ASSUME NEW p \in Procs, Holds(p, r),
              On(p, r) => \/ seat[r][act[p].agent] \notin OpenSeat
                          \/ seat'[r][act[p].agent] \notin OpenSeat
                          \/ act[p].at \notin {"finish", "skip"} /\ seat'[r][act[p].agent] \notin {"pending", "queued"}
       PROVE  Closed(r)'
  <2> SUFFICES ASSUME NEW b \in Agents, seat'[r][b] \in OpenSeat PROVE FALSE
    BY DEF Closed, In
  <2>1. seat[r][b] = seat'[r][b]
    BY <1>3 DEF OpenSeat
  <2>2. \E q \in Procs : On(q, r) /\ act[q].agent = b
                         /\ (seat'[r][b] = "responding" => act[q].at \in {"finish", "skip"})
    <3>1. CASE seat'[r][b] \in {"pending", "queued"}
      BY <1>1, <3>1 DEF Spares
    <3>2. CASE seat'[r][b] = "responding"
      BY <1>5, <2>1, <3>2 DEF TurnsSeats, TurnsSeat, At
    <3> QED
      BY <3>1, <3>2 DEF OpenSeat
  <2>3. PICK q \in Procs : On(q, r) /\ act[q].agent = b
                           /\ (seat'[r][b] = "responding" => act[q].at \in {"finish", "skip"})
    BY <2>2
  <2>4. q = p
    BY <1>5, <1>10, <2>3 DEF OneHolder, Holds
  <2> QED
    BY <1>10, <2>1, <2>3, <2>4 DEF OpenSeat
<1>11. TurnsWakes(r)'
  <2> SUFFICES ASSUME NEW w \in Letters', w.round = r PROVE Awaited(r, w.kind, w.agent)'
    BY DEF TurnsWakes
  <2>1. CASE w \in wakes'
    <3>1. w \in Letters /\ Closed(r)'
      BY <1>1, <2>1, LettersTyped DEF Shrinks, Spares
    <3> QED
      BY <1>5, <3>1 DEF TurnsWakes, Awaited
  <2>2. CASE w \notin wakes'
    <3>1. PICK p \in Procs : w \in act[p].emits
      BY <1>2, <1>4, <2>2
    <3>2. w \in Letters /\ Holds(p, r)
      BY <1>1, <3>1, LettersTyped DEF Holds, Mails
    <3>3. On(p, r) => seat[r][act[p].agent] \notin OpenSeat
      BY <1>5, <3>1 DEF TurnsTurns, TurnsTurn
    <3>4. Closed(r)'
      BY <1>10, <3>2, <3>3
    <3> QED
      BY <1>5, <3>2, <3>4 DEF TurnsWakes, Awaited
  <2> QED
    BY <2>1, <2>2
<1>12. TurnsTurns(r)'
  <2> SUFFICES ASSUME NEW p \in Procs, On(p, r)' PROVE TurnsTurn(p, r)'
    BY DEF TurnsTurns, TurnsTurn
  <2>1. TurnsTurn(p, r) /\ Yields(p, r) /\ On(p, r) /\ act[p].agent \in Agents
    BY <1>5, OnFacts DEF TurnsTurns, Yields
  <2>2. CASE act'[p] = act[p]
    <3>1. ASSUME act[p].at \in {"think", "join", "activate"} PROVE Awaited(r, act[p].kind, act[p].agent)'
      <4>1. Awaited(r, act[p].kind, act[p].agent)
        BY <2>1, <3>1 DEF TurnsTurn
      <4>2. CASE seat'[r][act[p].agent] = "queued"
        BY <2>2, <4>1, <4>2 DEF Awaited
      <4>3. CASE Closed(r)
        BY <1>9, <2>2, <4>1, <4>3 DEF Awaited
      <4>4. CASE seat'[r][act[p].agent] # "queued" /\ seat[r][act[p].agent] = "queued"
        <5>1. seat'[r][act[p].agent] \notin OpenSeat
          BY <1>3, <2>1, <4>4 DEF OpenSeat
        <5>2. Closed(r)'
          BY <1>10, <2>1, <5>1 DEF Holds
        <5> QED
          BY <2>2, <4>1, <5>2 DEF Awaited
      <4> QED
        BY <4>1, <4>2, <4>3, <4>4 DEF Awaited
    <3>2. seat[r][act[p].agent] \notin OpenSeat => seat'[r][act[p].agent] \notin OpenSeat
      BY <1>3, <2>1 DEF OpenSeat
    <3>3. \A a \in Agents : /\ seat'[r][a] = "pending" => seat[r][a] = "pending"
                            /\ seat[r][a] \in {"pending", "observed"} => seat'[r][a] \in {"pending", "observed"}
      BY <1>3
    <3>4. /\ act[p].at \notin {"think", "join", "activate", "finish", "skip"} \/ act[p].emits # {} =>
               seat'[r][act[p].agent] \notin OpenSeat
          /\ act[p].at = "reroute" =>
               \A a \in Agents : /\ seat'[r][a] = "pending" => a \in act[p].rest
                                 /\ a \in act[p].rest => seat'[r][a] \in {"pending", "observed"}
      BY <2>1, <3>2, <3>3 DEF TurnsTurn
    <3> QED
      BY <2>2, <3>1, <3>4 DEF TurnsTurn, Awaited, Closed, In
  <2>3. CASE act'[p] # act[p]
    <3>1. /\ act'[p].agent = act[p].agent /\ act[p].at \in Late \cup {"skip"}
          /\ act'[p].at \in Late \cup {"skip"}
          /\ act[p].at = "skip" => seat'[r][act[p].agent] \notin OpenSeat
      BY <2>1, <2>3 DEF Yields
    <3>2. seat'[r][act[p].agent] \notin OpenSeat
      BY <1>3, <2>1, <3>1 DEF TurnsTurn, Late, OpenSeat
    <3> QED
      BY <3>1, <3>2 DEF TurnsTurn, Late
  <2> QED
    BY <2>2, <2>3
<1>13. ASSUME NEW a \in Agents PROVE TurnsSeat(r, a)'
  <2>1. CASE seat'[r][a] \in {"pending", "queued"}
    <3>1. seat[r][a] = seat'[r][a] /\ On("turn", r) /\ T.agent = a
      BY <1>3, <2>1 DEF Spares
    <3>2. At("turn", r, a, {"think", "join", "activate", "finish", "skip"})
      BY <1>1, <1>5, <2>1, <3>1 DEF At, TurnsTurns, TurnsTurn, OpenSeat
    <3>3. At("turn", r, a, {"think", "join", "activate", "finish", "skip"})'
      BY <1>1, <1>8, <2>1, <3>2 DEF Late, OpenSeat
    <3>4. On("turn", r)' /\ act'["turn"].at \in
             {"think", "join", "activate", "finish", "advance", "reroute", "skip"}
      BY <3>3 DEF At
    <3> QED
      BY <1>1, <2>1, <3>3, <3>4 DEF TurnsSeat
  <2>2. CASE seat'[r][a] = "responding"
    <3>1. \E p \in Procs : At(p, r, a, {"finish", "skip"})
      BY <1>3, <1>5, <2>2 DEF TurnsSeats, TurnsSeat
    <3>2. \E p \in Procs : At(p, r, a, {"finish", "skip"})'
      BY <1>8, <2>2, <3>1 DEF Late, OpenSeat
    <3> QED
      BY <2>2, <3>2 DEF TurnsSeat
  <2> QED
    BY <2>1, <2>2 DEF TurnsSeat
<1> QED
  BY <1>7, <1>11, <1>12, <1>13 DEF Turns, TurnsSeats

LEMMA ShrinkDriven ==
  ASSUME Formed, TypeOK', NEW r \in Ids, Driven(r), \A p \in Procs : Yields(p, r),
         Shrinks(r), Spares(r), EndsWithSeats(r)'
  PROVE  Driven(r)'
<1>1. TypeOK /\ "turn" \in Procs /\ T = act["turn"] /\ T' = act'["turn"]
  BY Numbers DEF Formed, T
<1>2. Fewer(r)
  BY <1>1, ShrinkFewer
<1>3. \A a \in Agents : /\ seat'[r][a] = "responded" <=> seat[r][a] = "responded"
                        /\ <<r, a>> \in said' <=> <<r, a>> \in said
  BY DEF Shrinks, OpenSeat
<1>4. Unique(r)' /\ Spent(r)'
  BY <1>2, <1>3, UniqueKept, SpentKept DEF Driven
<1>5. Unsaid(r)'
  <2>1. On("turn", r) => T.agent \in Agents
    BY TurnOn
  <2> QED
    BY <1>1, <1>3, <2>1 DEF Driven, Unsaid, Yields, Replying, On
<1> QED
  BY <1>4, <1>5, ShrinkFanout, ShrinkTurns DEF Driven, Shrinks

\* A cancelled round, seen while nobody leaves a seat of it.
LEMMA CancelsDriven ==
  ASSUME Formed, TypeOK', NEW r \in Ids, Driven(r), r \notin halted', NEW R \in SUBSET Ids,
         \A q \in R : Opened(q), NEW spared \in SUBSET in_flight, Cancels(R, spared), UNCHANGED said,
         \A p \in Procs : Rests(p, r)
  PROVE  Driven(r)'
<1>1. TypeOK /\ "turn" \in Procs
  BY Numbers DEF Formed
<1>2. /\ halted' = halted \cup Stranded(R)
      /\ (\A w : w \in wakes' <=> w \in wakes /\ w.round \notin R)
      /\ round'[r].mode = round[r].mode
      /\ r \notin R => seat'[r] = seat[r] /\ round'[r] = round[r]
      /\ \A a \in Agents : seat'[r][a] = IF Dropped(R, spared, r, a) THEN "observed" ELSE seat[r][a]
      /\ r \in R => IF \A a \in Agents : seat'[r][a] \notin OpenSeat
                    THEN round'[r].status = "completed" ELSE round'[r] = round[r]
  BY <1>1, CancelsFacts
<1>3. CASE r \notin R
  <2>1. SameRound(r)
    BY <1>2, <1>3 DEF SameRound, SameQueue
  <2> QED
    BY <2>1, DrivenKept
<1>4. CASE r \in R
  <2>1. Shrinks(r)
    BY <1>2, <1>4, Zenon DEF Shrinks, Dropped, OpenSeat
  <2>2. EndsWithSeats(r)'
    BY <1>2, <1>4 DEF EndsWithSeats, Closed, In
  <2>3. ASSUME NEW a \in Agents, seat'[r][a] \in {"pending", "queued"} PROVE On("turn", r) /\ T.agent = a
    <3>1. <<r, a>> \in spared
      BY <1>2, <1>4, <2>3 DEF Dropped
    <3> QED
      BY <3>1 DEF in_flight, On, T
  <2>4. \A b \in Agents : seat[r][b] = "responding" => seat'[r][b] = "responding"
    BY <1>2, Zenon DEF Dropped
  <2>5. ASSUME NEW a \in Agents, seat'[r][a] = "responding", NEW w \in wakes, Letter(w, r, a) PROVE FALSE
    <3>1. seat[r][a] = "responding"
      BY <1>2, <2>5
    <3>2. w \in {v \in wakes : v.round \in R /\ seat[v.round][v.agent] = "responding"} /\ w.round = r
      BY <1>4, <2>5, <3>1 DEF Letter
    <3>3. r \in Stranded(R)
      BY <3>2 DEF Stranded
    <3> QED
      BY <1>2, <3>3
  <2>6. \A w \in wakes' : w.round # r
    BY <1>2, <1>4
  <2>7. Spares(r)
    BY <2>3, <2>4, <2>5, <2>6 DEF Spares
  <2> QED
    BY <2>1, <2>2, <2>7, RestsYields, ShrinkDriven
<1> QED
  BY <1>3, <1>4

\* supersede_stale_thread_turn: what is left of the round of the skipped turn.
LEMMA SupersedeDriven ==
  ASSUME Formed, TypeOK', NEW r \in Ids, Driven(r), r \notin halted', supersede_stale_thread_turn,
         On("turn", r)
  PROVE  Driven(r)'
<1>1. /\ TypeOK /\ T \in Acts /\ T = act["turn"] /\ T' = act'["turn"] /\ T.round = r /\ T.agent \in Agents
      /\ ~Installs("turn", r) /\ T.at = "skip" /\ "turn" \in Procs /\ UNCHANGED said
      /\ halted' = halted \cup Stranded({r}) /\ wakes' = {w \in wakes : w.round # r}
  BY TurnOn, Numbers, Zenon DEF supersede_stale_thread_turn
<1>2. /\ round'[r].mode = round[r].mode
      /\ \A a \in Agents : seat'[r][a] =
           IF seat[r][a] \in {"pending", "queued"} \/ (a = T.agent /\ seat[r][a] \in OpenSeat)
           THEN "observed" ELSE seat[r][a]
      /\ IF \A a \in Agents : seat'[r][a] \notin OpenSeat
         THEN round'[r].status = "completed" ELSE round'[r] = round[r]
  BY <1>1, SupersedeFacts
<1>3. /\ \A q \in Procs : q # "turn" => act'[q] = act[q]
      /\ T'.round = r /\ T'.agent = T.agent /\ T'.emits = T.emits /\ T'.at \in {"file", "open"}
  <2> DEFINE x == [T EXCEPT !.at = "file"]
             y == [T EXCEPT !.at = "open", !.tip = tip]
  <2>1. act' = [act EXCEPT !["turn"] = x] \/ act' = [act EXCEPT !["turn"] = y]
    <3>1. act' = [act EXCEPT !["turn"].at = "file"] \/ act' = [act EXCEPT !["turn"].at = "open", !["turn"].tip = tip]
      BY DEF supersede_stale_thread_turn
    <3> QED
      BY <1>1, <3>1, ActsTyped, Zenon
  <2>2. act \in [Procs -> Acts]
    BY <1>1, ActsTyped
  <2>3. T' \in {x, y} /\ \A q \in Procs : q # "turn" => act'[q] = act[q]
    BY <1>1, <2>1, <2>2
  <2>4. /\ x.round = r /\ x.agent = T.agent /\ x.emits = T.emits /\ x.at = "file"
        /\ y.round = r /\ y.agent = T.agent /\ y.emits = T.emits /\ y.at = "open"
    BY <1>1 DEF Acts
  <2> QED
    BY <2>3, <2>4, Zenon
<1>4. Shrinks(r)
  BY <1>1, <1>2 DEF Shrinks, OpenSeat
<1>5. EndsWithSeats(r)'
  BY <1>2 DEF EndsWithSeats, Closed, In
<1>6. Spares(r)
  <2>1. \A a \in Agents : seat'[r][a] \notin {"pending", "queued"}
    BY <1>2
  <2>2. ASSUME NEW a \in Agents, seat'[r][a] = "responding", NEW w \in wakes, Letter(w, r, a) PROVE FALSE
    <3>1. seat[r][a] = "responding"
      BY <1>2, <2>2
    <3>2. w \in {v \in wakes : v.round \in {r} /\ seat[v.round][v.agent] = "responding"} /\ w.round = r
      BY <2>2, <3>1 DEF Letter
    <3>3. r \in Stranded({r})
      BY <3>2 DEF Stranded
    <3> QED
      BY <1>1, <3>3
  <2> QED
    BY <1>1, <2>1, <2>2 DEF Spares
<1>7. Yields("turn", r)
  <2>1. seat'[r][T.agent] \notin OpenSeat
    BY <1>1, <1>2 DEF OpenSeat
  <2> QED
    BY <1>1, <1>3, <2>1 DEF Yields, On, Late, Replying, Installs
<1>8. \A q \in Procs : q # "turn" => Yields(q, r)
  BY <1>3, OthersRest, RestsYields
<1> QED
  BY <1>4, <1>5, <1>6, <1>7, <1>8, ShrinkDriven

\* close_orphaned_channel_rounds: a round it closes has no open seat left.
LEMMA SweepDriven ==
  ASSUME Formed, TypeOK', NEW r \in Ids, Driven(r), close_orphaned_channel_rounds
  PROVE  Driven(r)'
<1>1. /\ TypeOK /\ "turn" \in Procs /\ T = act["turn"] /\ T.at = "boot" /\ TurnShape
      /\ UNCHANGED <<wakes, said>> /\ 0 \notin Ids
  BY Numbers DEF Formed, Shape, Local, T, close_orphaned_channel_rounds
<1>2. /\ act'["turn"] = Idle /\ \A q \in Procs : q # "turn" => act'[q] = act[q]
  BY SweepFacts
<1>3. PICK youngest \in 1 .. MaxRounds + 1 :
              \A q \in Ids :
                IF q \in Swept(youngest)
                THEN /\ round'[q].status = "completed" /\ round'[q].mode = round[q].mode
                     /\ round'[q].index = round[q].index /\ Opened(q)
                     /\ \A a \in Agents : seat'[q][a] = IF seat[q][a] \in OpenSeat THEN "observed" ELSE seat[q][a]
                ELSE round'[q] = round[q] /\ seat'[q] = seat[q]
  BY SweepFacts
<1>4. Rests("turn", r)
  BY <1>1, <1>2, IdleFacts DEF Rests, On, Installs, TurnShape
<1>5. \A q \in Procs : Rests(q, r)
  BY <1>2, <1>4, OthersRest
<1>6. CASE r \notin Swept(youngest)
  <2>1. SameRound(r)
    BY <1>1, <1>3, <1>6 DEF SameRound, SameQueue
  <2> QED
    BY <1>5, <2>1, DrivenKept
<1>7. CASE r \in Swept(youngest)
  <2>1. /\ round'[r].status = "completed" /\ round'[r].mode = round[r].mode
        /\ \A a \in Agents : seat'[r][a] = IF seat[r][a] \in OpenSeat THEN "observed" ELSE seat[r][a]
    BY <1>3, <1>7
  <2>2. Shrinks(r)
    BY <1>1, <2>1 DEF Shrinks
  <2>3. \A a \in Agents : seat'[r][a] \notin OpenSeat
    BY <2>1 DEF OpenSeat
  <2>4. Spares(r) /\ EndsWithSeats(r)'
    BY <2>1, <2>3 DEF Spares, EndsWithSeats, Closed, In, OpenSeat
  <2> QED
    BY <1>5, <2>2, <2>4, RestsYields, ShrinkDriven
<1> QED
  BY <1>6, <1>7

-----------------------------------------------------------------------------
(* Rounds that are opened, and wakes that are filed.                        *)

\* A round whose seats are still to be filled is in its opener's hands.
LEMMA InstallingDriven ==
  ASSUME Formed', NEW r \in Ids, NEW p \in Procs, Installs(p, r)'
  PROVE  Driven(r)'
<1>1. /\ \A a \in Agents : seat'[r][a] = "none" /\ <<r, a>> \notin said'
      /\ \A w \in wakes' : w.round # r
      /\ \A q \in Procs : Holds(q, r)' => q = p /\ ~On(q, r)' /\ ~Mails(q, r)'
  BY DEF Formed, Shape, Installing, Unfilled, Waits
<1>2. \A q \in Procs : ~On(q, r)' /\ ~Mails(q, r)'
  BY <1>1 DEF Holds
<1>3. \A q \in Procs : \A w \in act'[q].emits : w.round # r
  BY <1>2 DEF Mails
<1>4. "turn" \in Procs /\ \A w \in Letters' : w.round # r
  BY <1>1, <1>3, Numbers DEF Letters
<1>5. \A q \in Procs, a \in Agents : ~Busy(q, r, a)'
  BY <1>2, <1>3 DEF Busy, At, Letter
<1>6. Unique(r)'
  BY <1>1, <1>3, <1>5 DEF Unique, Letter
<1>7. Spent(r)'
  BY <1>1 DEF Spent
<1>8. Unsaid(r)' /\ EndsWithSeats(r)'
  BY <1>2, <1>4 DEF Unsaid, EndsWithSeats
<1>9. Fanout(r)'
  <2>1. FanoutWakes(r)'
    BY <1>4 DEF FanoutWakes, Letter
  <2>2. FanoutTurns(r)'
    BY <1>2 DEF FanoutTurns, FanoutTurn
  <2>3. FanoutSeats(r)'
    BY <1>1, Zenon DEF FanoutSeats, FanoutSeat
  <2> QED
    BY <2>1, <2>2, <2>3 DEF Fanout
<1>10. Turns(r)'
  <2>1. OneHolder(r)'
    BY <1>1, <1>3 DEF OneHolder, Waits
  <2>2. TurnsWakes(r)'
    BY <1>4 DEF TurnsWakes
  <2>3. TurnsTurns(r)'
    BY <1>2 DEF TurnsTurns, TurnsTurn
  <2>4. TurnsSeats(r)'
    BY <1>1, Zenon DEF TurnsSeats, TurnsSeat
  <2> QED
    BY <2>1, <2>2, <2>3, <2>4 DEF Turns
<1> QED
  BY <1>6, <1>7, <1>8, <1>9, <1>10 DEF Driven

LEMMA CreateDriven ==
  ASSUME Formed, Formed', NEW r \in Ids, Driven(r), NEW p \in Procs, create_round(p)
  PROVE  Driven(r)'
<1>1. TypeOK /\ TypeOK' /\ act[p].at = "create" /\ UNCHANGED <<seat, wakes, said>> /\ act[p] \in Acts
  BY CreateCases, ActsTyped DEF Formed
<1>2. CASE Installs(p, r)'
  BY <1>2, InstallingDriven
<1>3. CASE ~Installs(p, r)'
  <2>1. /\ \A q \in Procs : q # p => act'[q] = act[q]
        /\ round'[r] = round[r]
        /\ act'[p].round = act[p].round /\ act'[p].agent = act[p].agent
        /\ act'[p].emits = act[p].emits /\ act'[p].index = act[p].index /\ act'[p].spoke = act[p].spoke
        /\ act'[p].at \in {"install", "post", "file"}
        /\ act'[p].at # "file" => act'[p].at = "install" \/ act[p].index > 1
    <3>1. CASE \E q \in Ids : Opens(p, q)
      <4>1. PICK q \in Ids : Opens(p, q)
        BY <3>1
      <4>2. /\ \A s \in Ids : s # q => round'[s] = round[s]
            /\ act'[p] = [act[p] EXCEPT !.at = "install", !.ids = {q}]
            /\ \A s \in Procs : s # p => act'[s] = act[s]
        BY <4>1, OpensFacts, Zenon
      <4>3. /\ act'[p].round = act[p].round /\ act'[p].agent = act[p].agent /\ act'[p].ids = {q}
            /\ act'[p].emits = act[p].emits /\ act'[p].index = act[p].index /\ act'[p].spoke = act[p].spoke
            /\ act'[p].at = "install"
        BY <1>1, <4>2 DEF Acts
      <4>4. q # r
        BY <1>3, <4>3 DEF Installs
      <4> QED
        BY <4>2, <4>3, <4>4
    <3>2. CASE UNCHANGED round /\ Goes(p, IF act[p].index > 1 THEN Ends(p) ELSE "file")
      <4> DEFINE at == IF act[p].index > 1 THEN Ends(p) ELSE "file"
      <4>1. at \in {"post", "file"} /\ (at # "file" => act[p].index > 1)
        BY DEF Ends
      <4> HIDE DEF at
      <4>2. /\ act'[p] = [act[p] EXCEPT !.at = at] /\ \A q \in Procs : q # p => act'[q] = act[q]
        BY <1>1, <3>2, <4>1, GoesFacts DEF at
      <4>3. /\ act'[p].round = act[p].round /\ act'[p].agent = act[p].agent
            /\ act'[p].emits = act[p].emits /\ act'[p].index = act[p].index /\ act'[p].spoke = act[p].spoke
            /\ act'[p].at = at
        BY <1>1, <4>2 DEF Acts
      <4> QED
        BY <3>2, <4>1, <4>2, <4>3
    <3> QED
      BY <3>1, <3>2, CreateCases
  <2>2. Rests(p, r)
    <3>1. Replying(p)' => Replying(p)
      BY <1>1, <2>1 DEF Replying
    <3>2. ~Installs(p, r)
      BY <1>1 DEF Installs
    <3> QED
      BY <1>1, <1>3, <2>1, <3>1, <3>2 DEF Rests, On, Late
  <2>3. SameRound(r)
    BY <1>1, <2>1 DEF SameRound, SameQueue
  <2> QED
    BY <1>1, <2>1, <2>2, <2>3, OthersRest, DrivenKept
<1> QED
  BY <1>2, <1>3

\* _install_round_queue fills the round: in rounds one wake and one queued seat,
\* in fan-out a wake for everybody.
LEMMA FillDriven ==
  ASSUME Formed, Formed', NEW r \in Ids, NEW p \in Procs, Installs(p, r), act[p].ids = {r},
         NEW speak \in SUBSET Agents, NEW first \in Agents \cup {NoAgent}, Fills(p, r, speak, first),
         UNCHANGED <<wakes, said>>
  PROVE  Driven(r)'
<1> USE Numbers
<1>1. /\ \A a \in Agents : seat[r][a] = "none" /\ <<r, a>> \notin said
      /\ \A w \in wakes : w.round # r
      /\ \A q \in Procs : Holds(q, r) => q = p /\ ~On(q, r) /\ ~Mails(q, r)
      /\ round[r].mode = act[p].mode /\ TypeOK'
  BY DEF Formed, Shape, Installing, Unfilled, Waits, Local, Installs
<1>2. /\ round'[r].mode = round[r].mode
      /\ \A a \in Agents : seat'[r][a] = IF a = first THEN "queued"
                                         ELSE IF a \in speak THEN "pending" ELSE "observed"
      /\ IF speak = {} THEN round'[r].status = "completed" ELSE round'[r] = round[r]
      /\ act'[p].at = IF act[p].index > 1 THEN Ends(p) ELSE "file"
      /\ act'[p].round = act[p].round
      /\ act'[p].emits = act[p].emits \cup Filed(p, r, speak, first)
      /\ \A q \in Procs : q # p => act'[q] = act[q]
  <2>1. Filled(p, r, speak, first)
    BY FillsFacts
  <2> QED
    BY <2>1 DEF Filled
<1>3. /\ act[p].mode = "fanout" => speak = Agents /\ first = NoAgent
      /\ act[p].mode = "rounds" => IF speak = {} THEN first = NoAgent ELSE first \in speak
  BY DEF Fills
<1>4. \A q \in Procs : ~On(q, r) /\ ~Mails(q, r)
  BY <1>1 DEF Holds
<1>5. act'[p].at \in {"post", "file"}
  BY <1>2 DEF Ends
<1>6. /\ \A q \in Procs : ~On(q, r)' /\ (q # p => ~Mails(q, r)')
      /\ \A q \in Procs : ~Installs(q, r)'
      /\ \A q \in Procs : q # p => ~Holds(q, r)'
  <2>1. \A q \in Procs : q # p => ~Holds(q, r)
    BY <1>1
  <2> QED
    BY <1>2, <1>4, <1>5, <2>1 DEF On, Mails, Installs, Holds
<1>7. ASSUME NEW w \in act'[p].emits, w.round = r
      PROVE  \E a \in Agents : /\ a \in IF act[p].mode = "fanout" THEN speak ELSE {first} \cap Agents
                               /\ w = WakeOf(a, r, "message")
  <2>1. w \in Filed(p, r, speak, first)
    BY <1>2, <1>4, <1>7 DEF Mails
  <2> QED
    BY <2>1 DEF Filed
<1>8. \A a \in Agents : a \in (IF act[p].mode = "fanout" THEN speak ELSE {first} \cap Agents) =>
        \E w \in act'[p].emits : Letter(w, r, a)
  <2>1. \A a \in Agents : Letter(WakeOf(a, r, "message"), r, a)
    BY DEF WakeOf, Letter
  <2>2. \A a \in Agents : a \in (IF act[p].mode = "fanout" THEN speak ELSE {first} \cap Agents) =>
          WakeOf(a, r, "message") \in act'[p].emits
    BY <1>2 DEF Filed
  <2> QED
    BY <2>1, <2>2
<1>9. \A w \in act'[p].emits, a \in Agents : Letter(w, r, a) => w = WakeOf(a, r, "message")
  BY <1>7 DEF WakeOf, Letter
<1>10. \A w : w \in Letters' /\ w.round = r => w \in act'[p].emits
  <2>1. \A w : w \in Letters' <=> w \in wakes' \/ \E q \in Procs : w \in act'[q].emits
    BY <1>1 DEF TypeOK, Letters
  <2> QED
    BY <1>1, <1>6, <2>1 DEF Mails
<1>11. \A w \in act'[p].emits : w \in Letters'
  BY <1>1 DEF TypeOK, Letters
<1>12. \A q \in Procs, a \in Agents : Busy(q, r, a)' => q = p
  BY <1>6 DEF Busy, At, Mails, Letter
<1>13. Unique(r)'
  <2>1. \A w \in wakes' : w.round # r
    BY <1>1
  <2>2. \A q \in Procs, a \in Agents :
          \A v, w \in act'[q].emits : Letter(v, r, a) /\ Letter(w, r, a) => v = w
    <3> SUFFICES ASSUME NEW q \in Procs, NEW a \in Agents, NEW v \in act'[q].emits, NEW w \in act'[q].emits,
                        Letter(v, r, a), Letter(w, r, a)
                 PROVE  v = w
      OBVIOUS
    <3>1. q = p
      BY <1>6 DEF Mails, Letter
    <3> QED
      BY <1>9, <3>1
  <2> QED
    BY <1>12, <2>1, <2>2 DEF Unique, Letter
<1>14. Spent(r)' /\ Unsaid(r)'
  BY <1>1, <1>2, <1>6 DEF Spent, Unsaid
<1>15. EndsWithSeats(r)'
  BY <1>2 DEF EndsWithSeats, Closed, In, OpenSeat
<1>16. CASE round[r].mode = "fanout"
  <2>1. \A a \in Agents : seat'[r][a] = "pending"
    BY <1>1, <1>2, <1>3, <1>16
  <2>2. \A a \in Agents : \E w \in Letters' : Letter(w, r, a)
    BY <1>1, <1>3, <1>8, <1>11, <1>16
  <2>3. FanoutWakes(r)'
    <3> SUFFICES ASSUME NEW a \in Agents, NEW w \in Letters', Letter(w, r, a) PROVE Seats(w.kind, r, a)'
      BY DEF FanoutWakes, Letter
    <3>1. w.kind = "message"
      BY <1>9, <1>10 DEF Letter, WakeOf
    <3> QED
      BY <2>1, <3>1 DEF Seats
  <2>4. FanoutTurns(r)'
    BY <1>6 DEF FanoutTurns, FanoutTurn
  <2>5. FanoutSeats(r)'
    BY <2>1, <2>2 DEF FanoutSeats, FanoutSeat, Letter
  <2> QED
    BY <1>2, <1>13, <1>14, <1>15, <1>16, <2>3, <2>4, <2>5 DEF Driven, Fanout
<1>17. CASE round[r].mode = "rounds"
  <2>1. IF speak = {} THEN first = NoAgent ELSE first \in speak
    BY <1>1, <1>3, <1>17
  <2>2. \A w \in act'[p].emits : w.round = r => first \in Agents /\ w = WakeOf(first, r, "message")
    BY <1>1, <1>7, <1>17
  <2>3. HeldLetters(p, r)'
    <3>1. \A v, w \in act'[p].emits : v.round = r /\ w.round = r => v = w
      BY <2>2
    <3>2. \A w \in act'[p].emits : w.round = r => Awaited(r, w.kind, w.agent)'
      BY <1>2, <2>2 DEF Awaited, WakeOf
    <3> QED
      BY <3>1, <3>2 DEF HeldLetters
  <2>4. ASSUME NEW a \in Agents PROVE HeldSeat(p, r, a)'
    <3>1. seat'[r][a] \in OpenSeat => first \in Agents /\ \E w \in act'[p].emits : Letter(w, r, first)
      BY <1>1, <1>2, <1>8, <1>17, <2>1 DEF OpenSeat
    <3> QED
      BY <1>2, <3>1 DEF HeldSeat, Letter, OpenSeat
  <2>5. TurnsTurn(p, r)' /\ ~Waits(r)'
    BY <1>1, <1>6 DEF TurnsTurn, Waits
  <2>6. Turns(r)'
    BY <1>1, <1>6, <2>3, <2>4, <2>5, HolderTurns
  <2> QED
    BY <1>2, <1>13, <1>14, <1>15, <1>17, <2>6 DEF Driven
<1> QED
  BY <1>16, <1>17 DEF Formed, TypeOK, Modes

LEMMA InstallDriven ==
  ASSUME Formed, Formed', NEW r \in Ids, Driven(r), NEW p \in Procs, _install_round_queue(p)
  PROVE  Driven(r)'
<1>1. /\ UNCHANGED <<wakes, said>> /\ act[p].at = "install" /\ TypeOK /\ TypeOK'
  BY InstallCases DEF Formed
<1>2. PICK q \in Ids, speak \in SUBSET Agents, first \in Agents \cup {NoAgent} :
        Installs(p, q) /\ act[p].ids = {q} /\ Fills(p, q, speak, first)
  BY InstallCases
<1>3. CASE q = r
  BY <1>1, <1>2, <1>3, FillDriven
<1>4. CASE q # r
  <2>1. Filled(p, q, speak, first)
    BY <1>2, FillsFacts
  <2>2. /\ seat'[r] = seat[r] /\ round'[r] = round[r]
        /\ act'[p].at = IF act[p].index > 1 THEN Ends(p) ELSE "file"
        /\ act'[p].round = act[p].round /\ act'[p].agent = act[p].agent /\ act'[p].spoke = act[p].spoke
        /\ act'[p].emits = act[p].emits \cup Filed(p, q, speak, first)
        /\ \A s \in Procs : s # p => act'[s] = act[s]
    BY <1>4, <2>1 DEF Filled
  <2>3. \A w \in Filed(p, q, speak, first) : w.round = q
    BY DEF Filed, WakeOf
  <2>4. /\ act'[p].at \in {"post", "file"} /\ (Replying(p)' => Replying(p))
        /\ ~Installs(p, r) /\ ~Installs(p, r)'
    BY <1>1, <1>2, <1>4, <2>2 DEF Ends, Replying, Installs
  <2>5. Rests(p, r)
    BY <1>1, <1>4, <2>2, <2>3, <2>4 DEF Rests, On, Late
  <2>6. SameRound(r)
    BY <1>1, <2>2 DEF SameRound, SameQueue
  <2> QED
    BY <1>1, <2>2, <2>5, <2>6, OthersRest, DrivenKept
<1> QED
  BY <1>3, <1>4

\* The wakes of a process are filed, and it is done.
LEMMA FilesDriven ==
  ASSUME Formed, TypeOK', NEW r \in Ids, Driven(r), NEW p \in Procs, Files(p)
  PROVE  Driven(r)'
<1>1. /\ TypeOK /\ act[p].at = "file" /\ UNCHANGED <<round, seat, said>>
      /\ wakes' = wakes \cup act[p].emits /\ "turn" \in Procs
  BY Numbers DEF Files, Formed
<1>2. act'[p] = Idle /\ \A q \in Procs : q # p => act'[q] = act[q]
  BY <1>1, IdleFacts, Moved, Zenon DEF Files
<1>3. /\ ~On(p, r)' /\ ~Mails(p, r)' /\ act'[p].emits = {} /\ ~Installs(p, r) /\ ~Installs(p, r)'
      /\ ~Holds(p, r)' /\ act'[p].at = "idle"
  BY <1>1, <1>2, IdleFacts, Numbers DEF On, Mails, Installs, Holds
<1>4. /\ \A w : w \in Letters <=> w \in wakes \/ \E q \in Procs : w \in act[q].emits
      /\ \A w : w \in Letters' <=> w \in wakes' \/ \E q \in Procs : w \in act'[q].emits
  BY <1>1 DEF TypeOK, Letters
<1>5. \A w : w \in Letters' <=> w \in Letters
  <2>1. ASSUME NEW w, w \in Letters' PROVE w \in Letters
    <3>1. CASE w \in wakes'
      BY <1>1, <1>4, <3>1
    <3>2. CASE \E q \in Procs : w \in act'[q].emits
      BY <1>2, <1>3, <1>4, <3>2
    <3> QED
      BY <1>4, <2>1, <3>1, <3>2
  <2>2. ASSUME NEW w, w \in Letters PROVE w \in Letters'
    <3>1. CASE w \in wakes
      BY <1>1, <1>4, <3>1
    <3>2. CASE \E q \in Procs : w \in act[q].emits
      BY <1>1, <1>2, <1>4, <3>2
    <3> QED
      BY <1>4, <2>2, <3>1, <3>2
  <2> QED
    BY <2>1, <2>2
<1>6. /\ \A q \in Procs, a \in Agents : Busy(q, r, a)' => q # p /\ Busy(q, r, a)
      /\ \A q \in Procs, a \in Agents : q # p => (Busy(q, r, a)' <=> Busy(q, r, a))
      /\ \A a \in Agents : \A w \in act[p].emits : Letter(w, r, a) => Busy(p, r, a)
  <2>1. ASSUME NEW q \in Procs, NEW a \in Agents, q # p PROVE Busy(q, r, a)' <=> Busy(q, r, a)
    BY <1>1, <1>2, <2>1 DEF Busy, At, On, Letter
  <2>2. \A a \in Agents : ~Busy(p, r, a)'
    BY <1>3 DEF Busy, At
  <2>3. \A a \in Agents : \A w \in act[p].emits : Letter(w, r, a) => Busy(p, r, a)
    BY DEF Busy
  <2> QED
    BY <2>1, <2>2, <2>3
<1>7. Unique(r)'
  <2> SUFFICES ASSUME NEW a \in Agents
               PROVE  /\ \A v, w \in wakes' : Letter(v, r, a) /\ Letter(w, r, a) => v = w
                      /\ \A q \in Procs :
                           /\ \A v, w \in act'[q].emits : Letter(v, r, a) /\ Letter(w, r, a) => v = w
                           /\ Busy(q, r, a)' => \A w \in wakes' : ~Letter(w, r, a)
                           /\ \A s \in Procs : Busy(q, r, a)' /\ Busy(s, r, a)' => q = s
    BY DEF Unique, Letter
  <2>1. Unique(r)
    BY DEF Driven
  <2>2. \A v, w \in wakes' : Letter(v, r, a) /\ Letter(w, r, a) => v = w
    <3> SUFFICES ASSUME NEW v \in wakes', NEW w \in wakes', Letter(v, r, a), Letter(w, r, a) PROVE v = w
      OBVIOUS
    <3>1. v \in wakes \/ v \in act[p].emits
      BY <1>1
    <3>2. w \in wakes \/ w \in act[p].emits
      BY <1>1
    <3>3. v \in act[p].emits => w \notin wakes
      BY <1>6, <2>1 DEF Unique
    <3>4. w \in act[p].emits => v \notin wakes
      BY <1>6, <2>1 DEF Unique
    <3> QED
      BY <2>1, <3>1, <3>2, <3>3, <3>4 DEF Unique
  <2>3. ASSUME NEW q \in Procs
        PROVE  \A v, w \in act'[q].emits : Letter(v, r, a) /\ Letter(w, r, a) => v = w
    <3>1. CASE q = p
      BY <1>3, <3>1
    <3>2. CASE q # p
      BY <1>2, <2>1, <3>2 DEF Unique
    <3> QED
      BY <3>1, <3>2
  <2>4. ASSUME NEW q \in Procs, Busy(q, r, a)', NEW w \in wakes', Letter(w, r, a) PROVE FALSE
    <3>1. q # p /\ Busy(q, r, a)
      BY <1>6, <2>4
    <3>2. w \notin wakes
      BY <2>1, <2>4, <3>1 DEF Unique
    <3>3. Busy(p, r, a)
      BY <1>1, <1>6, <2>4, <3>2
    <3> QED
      BY <2>1, <3>1, <3>3 DEF Unique
  <2>5. \A q, s \in Procs : Busy(q, r, a)' /\ Busy(s, r, a)' => q = s
    BY <1>6, <2>1 DEF Unique
  <2> QED
    BY <2>2, <2>3, <2>4, <2>5
<1>8. Spent(r)'
  <2> SUFFICES ASSUME NEW a \in Agents
               PROVE  /\ seat'[r][a] = "responded" =>
                           (\A w \in wakes' : ~Letter(w, r, a)) /\ \A q \in Procs : ~Busy(q, r, a)'
                      /\ <<r, a>> \in said' => seat'[r][a] = "responded"
    BY DEF Spent, Letter
  <2>1. Spent(r)
    BY DEF Driven
  <2>2. \A w \in wakes' : Letter(w, r, a) => w \in wakes \/ Busy(p, r, a)
    BY <1>1, <1>6
  <2>3. seat[r][a] = "responded" => (\A w \in wakes : ~Letter(w, r, a)) /\ \A q \in Procs : ~Busy(q, r, a)
    BY <2>1, Zenon DEF Spent
  <2>4. <<r, a>> \in said => seat[r][a] = "responded"
    BY <2>1 DEF Spent
  <2> QED
    BY <1>1, <1>6, <2>2, <2>3, <2>4
<1>9. Unsaid(r)' /\ EndsWithSeats(r)'
  <2>1. \A q \in Procs : Installs(q, r) => Installs(q, r)'
    BY <1>2, <1>3 DEF Installs
  <2>2. EndsWithSeats(r)'
    BY <1>1, <2>1 DEF Driven, EndsWithSeats, Closed, In
  <2>3. CASE p = "turn"
    BY <1>3, <2>2, <2>3 DEF Unsaid
  <2>4. CASE p # "turn"
    BY <1>1, <1>2, <2>2, <2>4 DEF Driven, Unsaid, On, Replying, T
  <2> QED
    BY <2>3, <2>4
<1>10. ASSUME NEW a \in Agents, NEW q \in Procs, NEW steps, "file" \notin steps, At(q, r, a, steps)
       PROVE  At(q, r, a, steps)'
  <2>1. q # p
    BY <1>1, <1>10 DEF At
  <2> QED
    BY <1>2, <1>10, <2>1 DEF At, On
<1>11. ASSUME round[r].mode = "fanout" PROVE Fanout(r)'
  <2>1. FanoutWakes(r) /\ FanoutTurns(r) /\ FanoutSeats(r)
    BY <1>11 DEF Driven, Fanout
  <2>2. FanoutWakes(r)'
    BY <1>1, <1>5, <2>1 DEF FanoutWakes, Letter, Seats
  <2>3. FanoutTurns(r)'
    <3> SUFFICES ASSUME NEW q \in Procs, NEW a \in Agents PROVE FanoutTurn(q, r, a)'
      BY DEF FanoutTurns
    <3>1. CASE q = p
      BY <1>3, <3>1 DEF FanoutTurn
    <3>2. CASE q # p
      BY <1>1, <1>2, <2>1, <3>2, FanoutStands DEF FanoutTurns
    <3> QED
      BY <3>1, <3>2
  <2>4. FanoutSeats(r)'
    <3> SUFFICES ASSUME NEW a \in Agents PROVE FanoutSeat(r, a)'
      BY DEF FanoutSeats
    <3>1. FanoutSeat(r, a)
      BY <2>1 DEF FanoutSeats
    <3>2. \A q \in Procs :
            /\ At(q, r, a, {"think", "join", "finish", "skip"}) => At(q, r, a, {"think", "join", "finish", "skip"})'
            /\ At(q, r, a, {"think", "finish", "skip"}) => At(q, r, a, {"think", "finish", "skip"})'
            /\ At(q, r, a, {"activate"}) => At(q, r, a, {"activate"})'
      BY <1>10
    <3>3. (\E w \in Letters : Letter(w, r, a)) => \E w \in Letters' : Letter(w, r, a)
      BY <1>5
    <3> QED
      BY <1>1, <3>1, <3>2, <3>3 DEF FanoutSeat, Letter
  <2> QED
    BY <2>2, <2>3, <2>4 DEF Fanout
<1>12. ASSUME round[r].mode = "rounds" PROVE Turns(r)'
  <2>1. OneHolder(r) /\ TurnsWakes(r) /\ TurnsTurns(r) /\ TurnsSeats(r)
    BY <1>12 DEF Driven, Turns
  <2>2. OneHolder(r)'
    <3>1. \A q \in Procs : q # p => (Holds(q, r)' <=> Holds(q, r)) /\ (Mails(q, r)' <=> Mails(q, r))
      BY <1>2 DEF Holds, On, Mails, Installs
    <3>2. \A w \in act[p].emits : w.round = r => Holds(p, r)
      BY DEF Holds, Mails
    <3>3. \A q \in Procs : Holds(q, r)' => q # p /\ Holds(q, r)
      BY <1>3, <3>1
    <3>4. \A v, w \in wakes' : v.round = r /\ w.round = r => v = w
      <4> SUFFICES ASSUME NEW v \in wakes', NEW w \in wakes', v.round = r, w.round = r PROVE v = w
        OBVIOUS
      <4>1. v \in wakes \/ v \in act[p].emits
        BY <1>1
      <4>2. w \in wakes \/ w \in act[p].emits
        BY <1>1
      <4>3. (v \in act[p].emits => w \notin wakes) /\ (w \in act[p].emits => v \notin wakes)
        BY <2>1, <3>2 DEF OneHolder, Waits
      <4> QED
        BY <2>1, <4>1, <4>2, <4>3 DEF OneHolder
    <3>5. ASSUME NEW q \in Procs PROVE \A v, w \in act'[q].emits : v.round = r /\ w.round = r => v = w
      <4>1. CASE q = p
        BY <1>3, <4>1
      <4>2. CASE q # p
        BY <1>2, <2>1, <4>2 DEF OneHolder
      <4> QED
        BY <4>1, <4>2
    <3>6. ASSUME NEW q \in Procs, Holds(q, r)' PROVE ~Waits(r)'
      <4>1. q # p /\ Holds(q, r) /\ ~Waits(r)
        BY <2>1, <3>3, <3>6 DEF OneHolder
      <4>2. ~Holds(p, r)
        BY <2>1, <4>1 DEF OneHolder
      <4> QED
        BY <1>1, <3>2, <4>1, <4>2 DEF Waits
    <3>7. \A q, s \in Procs : Holds(q, r)' /\ Holds(s, r)' => q = s
      BY <2>1, <3>3 DEF OneHolder
    <3> QED
      BY <3>4, <3>5, <3>6, <3>7 DEF OneHolder
  <2>3. TurnsWakes(r)'
    BY <1>1, <1>5, <2>1 DEF TurnsWakes, Awaited, Closed, In
  <2>4. TurnsTurns(r)'
    <3> SUFFICES ASSUME NEW q \in Procs PROVE TurnsTurn(q, r)'
      BY DEF TurnsTurns
    <3>1. CASE q = p
      BY <1>3, <3>1 DEF TurnsTurn
    <3>2. CASE q # p
      <4>1. On(q, r) => act[q].agent \in Agents
        BY OnFacts
      <4> QED
        BY <1>1, <1>2, <2>1, <3>2, <4>1, TurnsStands DEF TurnsTurns
    <3> QED
      BY <3>1, <3>2
  <2>5. TurnsSeats(r)'
    <3> SUFFICES ASSUME NEW a \in Agents PROVE TurnsSeat(r, a)'
      BY DEF TurnsSeats
    <3>1. TurnsSeat(r, a)
      BY <2>1 DEF TurnsSeats
    <3>2. \A q \in Procs :
            /\ At(q, r, a, {"think", "join", "activate", "finish", "skip"}) =>
                 At(q, r, a, {"think", "join", "activate", "finish", "skip"})'
            /\ At(q, r, a, {"finish", "skip"}) => At(q, r, a, {"finish", "skip"})'
      BY <1>10
    <3>3. \A q \in Procs :
            On(q, r) /\ act[q].at \in {"think", "join", "activate", "finish", "advance", "reroute", "skip"} =>
              On(q, r)' /\ act'[q].at \in {"think", "join", "activate", "finish", "advance", "reroute", "skip"}
      BY <1>1, <1>2 DEF On
    <3>4. /\ (\E w \in Letters : Letter(w, r, a)) => \E w \in Letters' : Letter(w, r, a)
          /\ (\E w \in Letters : w.round = r) => \E w \in Letters' : w.round = r
      BY <1>5
    <3> QED
      BY <1>1, <3>1, <3>2, <3>3, <3>4 DEF TurnsSeat, Letter
  <2> QED
    BY <2>2, <2>3, <2>4, <2>5 DEF Turns
<1> QED
  BY <1>1, <1>7, <1>8, <1>9, <1>11, <1>12 DEF Driven

-----------------------------------------------------------------------------
(* The lines that are posted, and the messages that are heard.               *)

\* _persist_reply: a line posted is of a seat that has responded.
LEMMA PersistDriven ==
  ASSUME Formed, TypeOK', NEW r \in Ids, Driven(r), _persist_reply
  PROVE  Driven(r)'
<1>1. /\ TypeOK /\ TypeOK' /\ "turn" \in Procs /\ T = act["turn"] /\ T' = act'["turn"]
      /\ T.at = "post" /\ UNCHANGED <<round, seat, wakes>> /\ T.spoke
  BY Numbers DEF Formed, T, _persist_reply, Shape, Local, TurnShape
<1>2. PICK at \in {"skip", "file"} : Goes("turn", at) /\ (at = "skip" => said' = said)
          /\ (said' = said \/ said' = said \cup {<<T.round, T.agent>>})
  BY DEF _persist_reply
<1>3. /\ T'.at = at /\ T'.round = T.round /\ T'.agent = T.agent /\ T'.spoke = T.spoke /\ T'.emits = T.emits
      /\ \A q \in Procs : q # "turn" => act'[q] = act[q]
  BY <1>1, <1>2, TurnGoes, Zenon
<1>4. Rests("turn", r)
  BY <1>1, <1>3 DEF Rests, On, Late, Replying, Installs
<1>5. \A q \in Procs : Rests(q, r)
  BY <1>3, <1>4, OthersRest
<1>6. SameQueue(r)
  BY <1>1 DEF SameQueue
<1>7. Fewer(r)
  BY <1>1, <1>5, RestsFewer
<1>8. Spent(r)'
  <2> SUFFICES ASSUME NEW a \in Agents
               PROVE  /\ seat'[r][a] = "responded" =>
                           (\A w \in wakes' : ~Letter(w, r, a)) /\ \A q \in Procs : ~Busy(q, r, a)'
                      /\ <<r, a>> \in said' => seat'[r][a] = "responded"
    BY DEF Spent, Letter
  <2>1. seat'[r][a] = "responded" =>
          (\A w \in wakes' : ~Letter(w, r, a)) /\ \A q \in Procs : ~Busy(q, r, a)'
    <3>1. \A q \in Procs : Busy(q, r, a)' => Busy(q, r, a)
      BY <1>7 DEF Fewer
    <3> QED
      BY <1>1, <3>1, Zenon DEF Driven, Spent
  <2>2. ASSUME <<r, a>> \in said' PROVE seat'[r][a] = "responded"
    <3>1. CASE <<r, a>> \in said
      BY <1>1, <3>1 DEF Driven, Spent
    <3>2. CASE <<r, a>> \notin said
      <4>1. T.round = r /\ T.agent = a
        BY <1>2, <2>2, <3>2
      <4> QED
        BY <1>1, <4>1 DEF Driven, Unsaid, On, Replying
    <3> QED
      BY <3>1, <3>2
  <2> QED
    BY <2>1, <2>2
<1>9. Unsaid(r)'
  BY <1>1, <1>3 DEF Unsaid, Replying
<1> QED
  BY <1>1, <1>5, <1>6, <1>8, <1>9, RestsDriven

LEMMA HearsDriven ==
  ASSUME Formed, TypeOK', NEW r \in Ids, Driven(r), r \notin halted', NEW p \in Posters, Hears(p)
  PROVE  Driven(r)'
<1>1. p \in Procs /\ TypeOK /\ Local(p) /\ Local(p)'
  <2>1. Moves({p})
    BY HearsTypes
  <2> QED
    BY <2>1, Numbers DEF Formed, Shape, Moves
<1>2. \A q \in Procs : q # p => act'[q] = act[q]
  BY HearsTypes DEF Moves
<1>3. Rests(p, r)
  <2>1. /\ act[p].round = 0 /\ act'[p].round = 0 /\ act[p].emits = {} /\ act[p].at = "hear"
        /\ act'[p].at \in {"idle", "open"}
    <3>1. act[p] \in Acts
      BY <1>1, ActsTyped
    <3>2. act'[p] = IF act[p].tip \in phrases THEN Idle ELSE [act[p] EXCEPT !.at = "open"]
      BY <1>1, ActsTyped DEF Hears
    <3> QED
      BY <1>1, <3>1, <3>2, IdleFacts DEF Local, PosterShape, Hears, Acts
  <2>2. act'[p].emits = {}
    BY <1>1, <2>1 DEF Local, PosterShape
  <2> QED
    BY <2>1, <2>2, Numbers DEF Rests, On, Installs
<1>4. Cancels(HearsOf(p), HearsSpared(p)) /\ UNCHANGED said
  BY HearsTypes, Zenon DEF Hears
<1>5. /\ HearsOf(p) \in SUBSET Ids /\ (\A q \in HearsOf(p) : Opened(q))
      /\ HearsSpared(p) \in SUBSET in_flight
  BY ActiveOpened DEF HearsOf, HearsSpared
<1> QED
  BY <1>2, <1>3, <1>4, <1>5, OthersRest, CancelsDriven

LEMMA StartDriven ==
  ASSUME Formed, TypeOK', NEW r \in Ids, Driven(r), r \notin halted', NEW p \in Procs,
         start_channel_peer_round(p)
  PROVE  Driven(r)'
<1>1. TypeOK /\ act[p] \in Acts /\ act[p].at = "open" /\ UNCHANGED said
  BY ActsTyped DEF Formed, start_channel_peer_round
<1>2. PICK x \in Acts :
           /\ act' = [act EXCEPT ![p] = x]
           /\ x.round = act[p].round /\ x.agent = act[p].agent /\ x.kind = act[p].kind
           /\ x.spoke = act[p].spoke /\ x.emits = act[p].emits
           /\ \/ Cancels(Active, {}) /\ x.at = "file"
              \/ UNCHANGED <<round, seat, wakes, halted>> /\ (x.at = "file" \/ (x.at = "create" /\ x.index = 1))
  BY StartCases
<1>3. act'[p] = x /\ \A q \in Procs : q # p => act'[q] = act[q]
  BY <1>1, <1>2, Moved, Zenon
<1>4. Rests(p, r)
  BY <1>1, <1>2, <1>3 DEF Rests, On, Late, Replying, Installs
<1>5. \A q \in Procs : Rests(q, r)
  BY <1>3, <1>4, OthersRest
<1>6. CASE Cancels(Active, {})
  <2>1. Active \in SUBSET Ids /\ (\A q \in Active : Opened(q)) /\ {} \in SUBSET in_flight
    BY ActiveOpened
  <2> QED
    BY <1>1, <1>5, <1>6, <2>1, CancelsDriven
<1>7. CASE UNCHANGED <<round, seat, wakes, halted>>
  <2>1. SameRound(r)
    BY <1>1, <1>7 DEF SameRound, SameQueue
  <2> QED
    BY <1>5, <2>1, DrivenKept
<1> QED
  BY <1>2, <1>6, <1>7

LEMMA PauseDriven ==
  ASSUME Formed, TypeOK', NEW r \in Ids, Driven(r), r \notin halted', PauseButton
  PROVE  Driven(r)'
<1>1. Cancels(Active, {}) /\ UNCHANGED <<said, act>>
  BY DEF PauseButton
<1>2. Active \in SUBSET Ids /\ (\A q \in Active : Opened(q)) /\ {} \in SUBSET in_flight
  BY ActiveOpened
<1>3. \A q \in Procs : Rests(q, r)
  BY <1>1, OthersRest
<1> QED
  BY <1>1, <1>2, <1>3, CancelsDriven

-----------------------------------------------------------------------------
(* Every step drives on a round that it does not stop.                      *)

\* A process that has no seat of the round, and keeps the wakes it has to file.
LEMMA AwayKept ==
  ASSUME Formed, TypeOK', NEW r \in Ids, Driven(r), SameRound(r), NEW p \in Procs,
         \A q \in Procs : q # p => act'[q] = act[q], ~On(p, r), act'[p].round = act[p].round,
         act'[p].emits = act[p].emits, act[p].at # "install", act'[p].at # "install"
  PROVE  Driven(r)'
<1>1. Rests(p, r)
  BY DEF Rests, On, Installs
<1> QED
  BY <1>1, OthersRest, DrivenKept

LEMMA SameTables ==
  ASSUME NEW r, UNCHANGED <<round, seat, wakes, said>> PROVE SameRound(r)
BY DEF SameRound, SameQueue

LEMMA ClaimStep == ASSUME Formed, TypeOK', NEW r \in Ids, Driven(r), Claim PROVE Driven(r)'
<1> USE Numbers
<1>1. PICK w0 \in wakes :
        /\ wakes' = wakes \ {w0}
        /\ act' = [act EXCEPT !["turn"] =
                     [Idle EXCEPT !.at = "think", !.round = w0.round, !.agent = w0.agent,
                                  !.kind = w0.kind, !.tip = round[w0.round].tip]]
  BY Zenon DEF Claim
<1>2. TypeOK /\ w0 \in Wake /\ w0.round \in Ids
  BY <1>1 DEF Formed, TypeOK, Wake
<1>3. /\ T' = act'["turn"] /\ \A q \in Procs : q # "turn" => act'[q] = act[q]
      /\ T'.at = "think" /\ T'.round = w0.round /\ T'.agent = w0.agent /\ T'.kind = w0.kind
      /\ T'.emits = {} /\ ~T'.spoke
  BY <1>1, <1>2, ActsTyped, IdleFacts DEF T, Acts, Idle
<1>4. act["turn"] = Idle /\ UNCHANGED <<round, seat, said>>
  BY DEF Claim
<1>5. CASE w0.round = r
  BY <1>1, <1>3, <1>4, <1>5, ClaimDriven
<1>6. CASE w0.round # r
  <2>1. ~Holds("turn", r) /\ ~Holds("turn", r)'
    BY <1>3, <1>4, <1>6, IdleFacts DEF Holds, On, Mails, Installs
  <2>2. SameRound(r)
    BY <1>1, <1>4, <1>6 DEF SameRound, SameQueue
  <2>3. Turn \in SUBSET Procs /\ \A q \in Procs \ Turn : act'[q] = act[q]
    BY <1>3 DEF Turn
  <2> QED
    BY <2>1, <2>2, <2>3, StepsAway, Zenon DEF Turn
<1> QED
  BY <1>5, <1>6

\* A decision: it leaves the rows alone.
LEMMA DecisionStep ==
  ASSUME Formed, TypeOK', NEW r \in Ids, Driven(r), Answers \/ passes \/ release_channel_seat
  PROVE  Driven(r)'
<1> USE Numbers
<1>1. T.at = "think" /\ UNCHANGED <<round, seat, wakes, said>>
  BY DEF Answers, passes, release_channel_seat
<1>2. TypeOK /\ T \in Acts /\ T = act["turn"] /\ T' = act'["turn"] /\ T.emits = {} /\ T.round \in Ids
  BY <1>1, TurnBound DEF TurnShape, Formed, T
<1>3. SameRound(r)
  BY <1>1, SameTables
<1>4. CASE Answers \/ passes \/ seat[T.round][T.agent] \in OpenSeat
  <2>1. /\ T'.round = T.round /\ T'.agent = T.agent /\ T'.kind = T.kind /\ T'.emits = {}
        /\ T'.at \in {"join", "finish", "skip"} /\ (T'.at = "join" => T.kind = "message")
        /\ \A q \in Procs : q # "turn" => act'[q] = act[q]
    <3>1. CASE Answers
      BY <1>2, <3>1, ActsTyped DEF Answers, T, Acts
    <3>2. CASE passes
      BY <1>2, <3>2, ActsTyped DEF passes, Goes, T, Acts
    <3>3. CASE release_channel_seat /\ seat[T.round][T.agent] \in OpenSeat
      <4>1. act' = [act EXCEPT !["turn"] = [T EXCEPT !.at = "finish"]]
        BY <3>3 DEF release_channel_seat
      <4> QED
        BY <1>2, <4>1, ActsTyped DEF T, Acts
    <3> QED
      BY <1>4, <3>1, <3>2, <3>3
  <2>2. CASE On("turn", r)
    BY <1>1, <1>2, <2>1, <2>2, DecidesDriven DEF On
  <2>3. CASE ~On("turn", r)
    BY <1>1, <1>2, <1>3, <2>1, <2>3, AwayKept, Zenon
  <2> QED
    BY <2>2, <2>3
<1>5. CASE release_channel_seat /\ seat[T.round][T.agent] \notin OpenSeat
  <2>1. act'["turn"] = Idle /\ \A q \in Procs : q # "turn" => act'[q] = act[q]
    BY <1>2, <1>5, ActsTyped DEF release_channel_seat
  <2>2. CASE On("turn", r)
    <3>1. T.round = r
      BY <1>2, <2>2 DEF On
    <3>2. round[r].mode = "rounds" => Closed(r)
      BY <1>1, <1>2, <1>5, <2>2, <3>1 DEF Driven, Turns, TurnsTurns, TurnsTurn, Awaited, OpenSeat
    <3> QED
      BY <1>1, <1>5, <2>1, <2>2, <3>1, <3>2, LeavesDriven
  <2>3. CASE ~On("turn", r)
    <3>1. ~Holds("turn", r) /\ ~Holds("turn", r)'
      BY <1>1, <1>2, <2>1, <2>3, IdleFacts DEF Holds, On, Mails, Installs
    <3>2. Turn \in SUBSET Procs /\ \A q \in Procs \ Turn : act'[q] = act[q]
      BY <2>1 DEF Turn
    <3> QED
      BY <1>3, <3>1, <3>2, StepsAway, Zenon DEF Turn
  <2> QED
    BY <2>2, <2>3
<1> QED
  BY <1>4, <1>5

\* A turn whose own seat is written on the way to its response.
LEMMA SeatStep ==
  ASSUME Formed, TypeOK', NEW r \in Ids, Driven(r),
         observe_channel_message \/ reserve_slot \/ begin_channel_response
  PROVE  Driven(r)'
<1> USE Numbers
<1>1. CASE On("turn", r)
  BY <1>1, ObserveDriven, ReserveDriven, BeginDriven
<1>2. CASE ~On("turn", r)
  <2>1. /\ T.at \in {"think", "join", "activate"} /\ UNCHANGED <<wakes, said>>
        /\ \E at \in {"advance", "activate", "file", "skip", "finish"} : Goes("turn", at)
    BY Zenon DEF observe_channel_message, reserve_slot, begin_channel_response
  <2>2. /\ TypeOK /\ T = act["turn"] /\ T' = act'["turn"] /\ T.emits = {} /\ T.round \in Ids
        /\ T.agent \in Agents /\ Opened(T.round)
    BY <2>1, TurnBound DEF TurnShape, Formed, T
  <2>3. /\ T'.round = T.round /\ T'.emits = T.emits /\ T'.at # "install"
        /\ \A q \in Procs : q # "turn" => act'[q] = act[q]
    <3>1. PICK at \in {"advance", "activate", "file", "skip", "finish"} : Goes("turn", at)
      BY <2>1
    <3> QED
      BY <2>2, <3>1, TurnGoes
  <2>4. seat'[r] = seat[r] /\ round'[r] = round[r]
    <3>1. r # T.round
      BY <1>2, <2>2 DEF On
    <3>2. CASE observe_channel_message
      BY <2>2, <3>1, <3>2, MarksRows, ZenonT(40) DEF observe_channel_message, Marks, Statuses
    <3>3. CASE reserve_slot \/ begin_channel_response
      BY <2>2, <3>1, <3>3, ZenonT(40) DEF reserve_slot, begin_channel_response, TypeOK
    <3> QED
      BY <3>2, <3>3
  <2>5. SameRound(r)
    BY <2>1, <2>4 DEF SameRound, SameQueue
  <2> QED
    BY <1>2, <2>1, <2>2, <2>3, <2>5, AwayKept, Zenon
<1> QED
  BY <1>1, <1>2

\* A finisher moves the seats of its own round only.
LEMMA FinisherStep ==
  ASSUME Formed, TypeOK', NEW r \in Ids, Driven(r), r \notin halted', NEW p \in Finishers,
         finalize_channel_response(p) \/ advance_channel_round(p) \/ _redecide_remaining(p)
  PROVE  Driven(r)'
<1> USE Numbers
<1>1. CASE On(p, r)
  BY <1>1, FinalizeDriven, AdvanceDriven, RedecideDriven
<1>2. CASE ~On(p, r)
  <2> DEFINE own == act[p].round
  <2>1. act[p].at \in {"finish", "advance", "reroute"} /\ UNCHANGED <<wakes, said>>
    BY Zenon DEF finalize_channel_response, advance_channel_round, _redecide_remaining
  <2>2. /\ p \in Procs /\ own \in Ids /\ own # r /\ Opened(own) /\ act[p].emits = {} /\ TypeOK
        /\ act[p] \in Acts /\ act[p].agent \in Agents
    BY <1>2, <2>1, FinisherBound DEF On, Formed
  <2>3. /\ seat'[r] = seat[r] /\ round'[r] = round[r]
        /\ \E x \in Acts : /\ act' = [act EXCEPT ![p] = x] /\ x.round = own /\ x.at # "install"
                           /\ \A w \in x.emits : w.round = own
    <3>1. CASE finalize_channel_response(p)
      <4>1. seat'[r] = seat[r] /\ round'[r] = round[r]
        BY <2>2, <3>1, FinalizeRows
      <4>2. \/ \E a \in Agents :
                 act' = [act EXCEPT ![p].at = Ends(p), ![p].emits = {WakeOf(a, own, "response")}]
            \/ act' = [act EXCEPT ![p].at = "advance"]
        BY <3>1, FinalizeCases, Zenon DEF Goes
      <4>3. CASE act' = [act EXCEPT ![p].at = "advance"]
        <5> DEFINE x == [act[p] EXCEPT !.at = "advance"]
        <5>1. x \in Acts /\ x.round = own /\ x.at # "install" /\ x.emits = {}
          BY <2>2 DEF Acts
        <5>2. act' = [act EXCEPT ![p] = x]
          BY <4>3
        <5> QED
          BY <4>1, <5>1, <5>2, Zenon
      <4>4. ASSUME NEW a \in Agents,
                   act' = [act EXCEPT ![p].at = Ends(p), ![p].emits = {WakeOf(a, own, "response")}]
            PROVE \E x \in Acts : /\ act' = [act EXCEPT ![p] = x] /\ x.round = own /\ x.at # "install"
                                  /\ \A w \in x.emits : w.round = own
        <5> DEFINE w0 == WakeOf(a, own, "response")
                   x == [act[p] EXCEPT !.at = Ends(p), !.emits = {w0}]
        <5>1. w0 \in Wake /\ w0.round = own
          BY <2>2 DEF WakeOf, Wake
        <5>2. act' = [act EXCEPT ![p] = x]
          BY <4>4, Zenon
        <5>3. Ends(p) \in {"post", "file"}
          BY DEF Ends
        <5> HIDE DEF w0
        <5>4. x \in Acts /\ x.round = own /\ x.at # "install" /\ \A w \in x.emits : w.round = own
          BY <2>2, <5>1, <5>3, Zenon DEF Acts
        <5> QED
          BY <5>2, <5>4, Zenon
      <4> QED
        BY <4>1, <4>2, <4>3, <4>4
    <3>2. CASE advance_channel_round(p)
      <4>1. PICK x :
              /\ Onward(p, x)
              /\ x.at \in {"create", "post", "file", "reroute"}
              /\ x.emits = {} \/ \E a \in Agents : x.emits = {WakeOf(a, own, "message")}
              /\ \/ UNCHANGED seat
                 \/ \E a \in Agents : seat' = [seat EXCEPT ![own][a] = "queued"]
              /\ round' = round \/ round' = maybe_complete_round(seat, {own})
        <5>1. PICK x : /\ Onward(p, x)
                       /\ \/ /\ round[own].mode = "fanout" /\ UNCHANGED <<round, seat, halted>>
                             /\ x.at \in {"create", "post", "file"} /\ x.emits = {}
                          \/ /\ UNCHANGED seat
                             /\ round' = maybe_complete_round(seat, {own}) \/ round' = round
                             /\ x.at \in {"post", "file"} /\ x.emits = {}
                          \/ \E a \in Agents :
                               /\ seat' = [seat EXCEPT ![own][a] = "queued"] /\ UNCHANGED round
                               /\ x.at \in {"post", "file"} /\ x.emits = {WakeOf(a, own, "message")}
                          \/ /\ x.at = "reroute" /\ x.emits = {} /\ UNCHANGED <<round, seat>>
                          \/ /\ round' = maybe_complete_round(seat, {own}) /\ UNCHANGED seat
                             /\ x.at \in {"create", "post", "file"} /\ x.emits = {}
          BY <3>2, AdvanceCases, Zenon
        <5> QED
          BY <5>1, Zenon
      <4>2. seat'[r] = seat[r]
        BY <2>2, <4>1, Zenon DEF TypeOK
      <4>3. \A w \in x.emits : w.round = own
        BY <4>1 DEF WakeOf
      <4>4. round'[r] = round[r]
        BY <2>2, <4>1 DEF maybe_complete_round
      <4> QED
        BY <4>1, <4>2, <4>3, <4>4, Zenon DEF Onward
    <3>3. CASE _redecide_remaining(p)
      <4>1. PICK x, row : /\ Onward(p, x) /\ row \in [Agents -> Statuses]
                          /\ seat' = [seat EXCEPT ![own] = row]
                          /\ Requeues(p, x, row) \/ NobodyLeft(p, x, row)
        BY <3>3, RedecideCases
      <4>2. seat'[r] = seat[r]
        BY <2>2, <4>1 DEF TypeOK
      <4>3. round' = round \/ round' = maybe_complete_round(seat', {own})
        BY <4>1 DEF Requeues, NobodyLeft
      <4>4. round'[r] = round[r]
        BY <2>2, <4>3 DEF maybe_complete_round
      <4>5. x.at # "install" /\ \A w \in x.emits : w.round = own
        BY <4>1 DEF Requeues, NobodyLeft, WakeOf
      <4> QED
        BY <4>1, <4>2, <4>4, <4>5, Zenon DEF Onward
    <3> QED
      BY <3>1, <3>2, <3>3
  <2>4. /\ ~Holds(p, r) /\ ~Holds(p, r)' /\ \A q \in Procs : q # p => act'[q] = act[q]
    <3>1. PICK x \in Acts : /\ act' = [act EXCEPT ![p] = x] /\ x.round = own /\ x.at # "install"
                            /\ \A w \in x.emits : w.round = own
      BY <2>3, Zenon
    <3>2. act'[p] = x /\ \A q \in Procs : q # p => act'[q] = act[q]
      BY <2>2, <3>1, Moved, Zenon
    <3> QED
      BY <2>1, <2>2, <3>1, <3>2 DEF Holds, On, Mails, Installs
  <2>5. SameRound(r)
    BY <2>1, <2>3 DEF SameRound, SameQueue
  <2>6. {p} \in SUBSET Procs /\ \A q \in Procs \ {p} : act'[q] = act[q]
    BY <2>2, <2>4
  <2>7. \A q \in {p} : ~Holds(q, r) /\ ~Holds(q, r)'
    BY <2>4
  <2> QED
    BY <2>5, <2>6, <2>7, StepsAway, Zenon
<1> QED
  BY <1>1, <1>2

LEMMA SupersedeStep ==
  ASSUME Formed, TypeOK', NEW r \in Ids, Driven(r), r \notin halted', supersede_stale_thread_turn
  PROVE  Driven(r)'
<1> USE Numbers
<1>1. CASE On("turn", r)
  BY <1>1, SupersedeDriven
<1>2. CASE ~On("turn", r)
  <2>1. T.at = "skip" /\ UNCHANGED said /\ wakes' = {w \in wakes : w.round # T.round}
    BY DEF supersede_stale_thread_turn
  <2>2. TypeOK /\ T = act["turn"] /\ T' = act'["turn"] /\ T \in Acts /\ T.round \in Ids /\ T.round # r
    BY <1>2, <2>1, TurnBound DEF Formed, T, On
  <2>3. /\ T'.round = T.round /\ T'.emits = T.emits /\ T'.at # "install"
        /\ \A q \in Procs : q # "turn" => act'[q] = act[q]
    <3>1. \/ act' = [act EXCEPT !["turn"].at = "file"]
          \/ act' = [act EXCEPT !["turn"].at = "open", !["turn"].tip = tip]
      BY DEF supersede_stale_thread_turn
    <3>2. tip \in 0 .. LastTip
      BY <2>2 DEF TypeOK
    <3> QED
      BY <2>2, <3>1, <3>2, ActsTyped DEF T, Acts
  <2>4. seat'[r] = seat[r] /\ round'[r] = round[r]
    BY <2>2, SupersedeFacts
  <2>5. SameRound(r)
    BY <2>1, <2>2, <2>4 DEF SameRound, SameQueue
  <2> QED
    BY <1>2, <2>1, <2>2, <2>3, <2>5, AwayKept
<1> QED
  BY <1>1, <1>2

\* The operator resets the turn; the app goes on with its seat.
LEMMA ResetsStep == ASSUME Formed, TypeOK', NEW r \in Ids, Driven(r), Resets PROVE Driven(r)'
<1> USE Numbers
<1>1. T.at = "think" /\ act["reset"] = Idle /\ UNCHANGED <<round, seat, wakes, said>>
  BY DEF Resets
<1>2. T \in Acts /\ T = act["turn"] /\ T' = act'["turn"] /\ T.emits = {} /\ T.round \in Ids
  BY <1>1, TurnBound DEF TurnShape, T
<1>3. /\ act'["turn"] = Idle /\ \A q \in Posters : act'[q] = act[q]
      /\ IF seat[T.round][T.agent] \in OpenSeat
         THEN act'["reset"].at = "finish" /\ act'["reset"].round = T.round /\ act'["reset"].emits = {}
         ELSE act'["reset"] = Idle
  BY ResetsFacts
<1>4. CASE On("turn", r) /\ seat[r][T.agent] \in OpenSeat
  BY <1>4, ResetsDriven
<1>5. CASE On("turn", r) /\ seat[r][T.agent] \notin OpenSeat
  <2>1. T.round = r
    BY <1>2, <1>5 DEF On
  <2>2. round[r].mode = "rounds" => Closed(r)
    BY <1>1, <1>2, <1>5, <2>1 DEF Driven, Turns, TurnsTurns, TurnsTurn, Awaited, OpenSeat
  <2>3. \A q \in Procs : q # "turn" => act'[q] = act[q]
    BY <1>1, <1>3, <1>5, <2>1 DEF Procs
  <2> QED
    BY <1>1, <1>3, <1>5, <2>2, <2>3, LeavesDriven
<1>6. CASE ~On("turn", r)
  <2>1. {"turn", "reset"} \in SUBSET Procs /\ \A q \in Procs \ {"turn", "reset"} : act'[q] = act[q]
    BY <1>3 DEF Procs
  <2>2. SameRound(r)
    BY <1>1, SameTables
  <2>3. ~Holds("turn", r) /\ ~Holds("turn", r)'
    BY <1>1, <1>2, <1>3, <1>6, IdleFacts DEF Holds, On, Mails, Installs
  <2>4. ~Holds("reset", r) /\ ~Holds("reset", r)'
    BY <1>1, <1>2, <1>3, <1>6, IdleFacts DEF Holds, On, Mails, Installs
  <2>5. \A q \in {"turn", "reset"} : ~Holds(q, r) /\ ~Holds(q, r)'
    BY <2>3, <2>4
  <2> QED
    BY <2>1, <2>2, <2>5, StepsAway, Zenon
<1> QED
  BY <1>4, <1>5, <1>6

\* A turn that ends without a decision stops the queue, unless its round is closed.
LEMMA GivesUpStep ==
  ASSUME Formed, TypeOK', NEW r \in Ids, Driven(r), r \notin halted', TurnGivesUp PROVE Driven(r)'
<1> USE Numbers
<1>1. /\ T.at \in {"think", "finish"} /\ UNCHANGED <<round, seat, wakes, said>>
      /\ halted' = halted \cup Halts(T.round) /\ act' = [act EXCEPT !["turn"] = Idle]
  BY DEF TurnGivesUp
<1>2. TypeOK /\ T \in Acts /\ T = act["turn"] /\ T.emits = {} /\ T.round \in Ids /\ T.agent \in Agents
  BY <1>1, TurnBound DEF TurnShape, Formed, T
<1>3. act'["turn"] = Idle /\ \A q \in Procs : q # "turn" => act'[q] = act[q]
  BY <1>1, <1>2, ActsTyped
<1>4. CASE On("turn", r)
  <2>1. T.round = r
    BY <1>2, <1>4 DEF On
  <2>2. Closed(r)
    BY <1>1, <2>1 DEF Halts, Closed
  <2>3. seat[r][T.agent] \notin OpenSeat
    BY <1>2, <2>2 DEF Closed, In
  <2> QED
    BY <1>1, <1>3, <1>4, <2>2, <2>3, LeavesDriven
<1>5. CASE ~On("turn", r)
  <2>1. ~Holds("turn", r) /\ ~Holds("turn", r)'
    BY <1>1, <1>2, <1>3, <1>5, IdleFacts DEF Holds, On, Mails, Installs
  <2>2. Turn \in SUBSET Procs /\ \A q \in Procs \ Turn : act'[q] = act[q]
    BY <1>3 DEF Turn
  <2>3. SameRound(r)
    BY <1>1, SameTables
  <2> QED
    BY <2>1, <2>2, <2>3, StepsAway, Zenon DEF Turn
<1> QED
  BY <1>4, <1>5

\* A crash stops every round that the turn had moved; a turn that still thinks
\* is claimed again.
LEMMA CrashStep ==
  ASSUME Formed, TypeOK', NEW r \in Ids, Driven(r), r \notin halted', Crash PROVE Driven(r)'
<1> USE Numbers
<1>1. /\ act'["turn"].at = "down" /\ act'["turn"].round = 0 /\ act'["turn"].emits = {}
      /\ \A q \in Procs : q # "turn" => act'[q] = act[q]
      /\ \/ wakes' = wakes /\ (T = Idle \/ T.at = "file")
         \/ /\ wakes' = wakes \cup {WakeOf(T.agent, T.round, T.kind)}
            /\ T.at \notin {"idle", "down", "boot"}
  BY CrashFacts
<1>2. /\ UNCHANGED <<round, seat, said>>
      /\ T.at # "think" => halted' = halted \cup T.ids \cup ({T.round} \cap Ids) \cup {w.round : w \in T.emits}
  BY DEF Crash
<1>3. TypeOK /\ T \in Acts /\ T = act["turn"] /\ TurnShape
  BY ActsTyped DEF Formed, Shape, Local, T
<1>4. CASE On("turn", r) /\ T.at = "think"
  BY <1>4, ReturnsDriven
<1>5. CASE On("turn", r) /\ T.at # "think"
  BY <1>2, <1>3, <1>5 DEF On
<1>6. CASE ~On("turn", r)
  <2>1. ~Holds("turn", r)
    <3>1. CASE T.at = "think"
      BY <1>3, <1>6, <3>1 DEF TurnShape, Holds, Mails, Installs
    <3>2. CASE T.at # "think"
      BY <1>2, <1>3, <1>6, <3>2 DEF Holds, Mails, Installs
    <3> QED
      BY <3>1, <3>2
  <2>2. ~Holds("turn", r)'
    BY <1>1 DEF Holds, On, Mails, Installs
  <2>3. SameRound(r)
    BY <1>1, <1>2, <1>3, <1>6 DEF SameRound, SameQueue, On, WakeOf
  <2>4. Turn \in SUBSET Procs /\ \A q \in Procs \ Turn : act'[q] = act[q]
    BY <1>1 DEF Turn
  <2> QED
    BY <2>1, <2>2, <2>3, <2>4, StepsAway, Zenon DEF Turn
<1> QED
  BY <1>4, <1>5, <1>6

\* A message is stored, the host resumes, the restart reads the wakes.
LEMMA QuietStep ==
  ASSUME Formed, TypeOK', NEW r \in Ids, Driven(r),
         (\E p \in Posters : Says(p)) \/ ResumeButton \/ ReadsLive \/ UNCHANGED vars
  PROVE  Driven(r)'
<1> USE Numbers
<1>1. UNCHANGED <<round, seat, wakes, said>> /\ TypeOK
  BY DEF Says, ResumeButton, ReadsLive, vars, Formed
<1>2. SameRound(r)
  BY <1>1, SameTables
<1>3. ASSUME NEW p \in Posters, Says(p) PROVE Driven(r)'
  <2>1. p \in Procs /\ act[p] = Idle /\ act[p].round = 0 /\ act[p].emits = {} /\ act[p].at = "idle"
    BY <1>3, IdleFacts DEF Says
  <2>2. /\ act'[p].round = 0 /\ act'[p].emits = {} /\ act'[p].at = "hear"
        /\ \A q \in Procs : q # p => act'[q] = act[q]
    BY <1>1, <1>3, <2>1, ActsTyped DEF Says, Idle
  <2>3. ~On(p, r)
    BY <2>1 DEF On
  <2> QED
    BY <1>2, <2>1, <2>2, <2>3, AwayKept, Zenon
<1>4. CASE ReadsLive
  <2>1. T.at = "down" /\ T = act["turn"] /\ T.round = 0
    BY <1>4 DEF Formed, Shape, Local, TurnShape, ReadsLive, T
  <2>2. /\ act'["turn"].round = act["turn"].round /\ act'["turn"].emits = act["turn"].emits
        /\ act'["turn"].at = "boot" /\ \A q \in Procs : q # "turn" => act'[q] = act[q]
    BY <1>1, <1>4, ActsTyped DEF ReadsLive, Acts
  <2>3. ~On("turn", r)
    BY <2>1 DEF On
  <2> QED
    BY <1>2, <2>1, <2>2, <2>3, AwayKept
<1>5. CASE ResumeButton \/ UNCHANGED vars
  <2>1. \A q \in Procs : Rests(q, r)
    BY <1>5, OthersRest DEF ResumeButton, vars
  <2> QED
    BY <1>2, <2>1, DrivenKept
<1> QED
  BY <1>3, <1>4, <1>5

LEMMA HaltedStays == ASSUME [Next]_vars PROVE halted \subseteq halted'
<1>1. ASSUME NEW p, Finishes(p) PROVE halted \subseteq halted'
  BY <1>1, Zenon DEF Finishes, finalize_channel_response, advance_channel_round, _redecide_remaining,
     create_round, _install_round_queue, Files
<1>2. ASSUME NEW p, start_channel_peer_round(p) PROVE halted \subseteq halted'
  BY <1>2 DEF start_channel_peer_round, Cancels
<1>3. CASE TurnNext
  BY <1>1, <1>2, <1>3, Zenon
  DEF TurnNext, Claim, Answers, observe_channel_message, passes, release_channel_seat, reserve_slot,
      begin_channel_response, _persist_reply, supersede_stale_thread_turn, ReadsLive,
      close_orphaned_channel_rounds
<1>4. CASE \E p \in Posters : Says(p) \/ PosterNext(p)
  BY <1>2, <1>4, Zenon DEF PosterNext, Says, Hears, Cancels, create_round, _install_round_queue, Files
<1>5. CASE PauseButton \/ ResumeButton \/ Resets \/ TurnGivesUp \/ Crash \/ UNCHANGED vars
  BY <1>5 DEF PauseButton, Cancels, ResumeButton, Resets, TurnGivesUp, Crash, vars
<1> QED
  BY <1>1, <1>3, <1>4, <1>5 DEF Next

LEMMA DrivenStep ==
  ASSUME Formed, Formed', NEW r \in Ids, r \notin halted', Driven(r), [Next]_vars
  PROVE  Driven(r)'
<1> USE Numbers
<1>1. TypeOK'
  BY DEF Formed
<1>2. ASSUME NEW p \in Finishers, Finishes(p) PROVE Driven(r)'
  <2>1. p \in Procs
    BY DEF Finishers
  <2> QED
    BY <1>1, <1>2, <2>1, FinisherStep, CreateDriven, InstallDriven, FilesDriven DEF Finishes
<1>3. CASE TurnNext
  <2>1. CASE Finishes("turn")
    BY <1>2, <2>1 DEF Finishers
  <2>2. CASE start_channel_peer_round("turn")
    BY <1>1, <2>2, StartDriven
  <2>3. CASE Claim \/ Answers \/ passes \/ release_channel_seat
    BY <1>1, <2>3, ClaimStep, DecisionStep
  <2>4. CASE observe_channel_message \/ reserve_slot \/ begin_channel_response
    BY <1>1, <2>4, SeatStep
  <2>5. CASE _persist_reply \/ supersede_stale_thread_turn
    BY <1>1, <2>5, PersistDriven, SupersedeStep
  <2>6. CASE ReadsLive \/ close_orphaned_channel_rounds
    BY <1>1, <2>6, QuietStep, SweepDriven
  <2> QED
    BY <1>3, <2>1, <2>2, <2>3, <2>4, <2>5, <2>6 DEF TurnNext
<1>4. CASE Finishes("reset")
  BY <1>2, <1>4 DEF Finishers
<1>5. CASE \E p \in Posters : Says(p) \/ PosterNext(p)
  <2>1. PICK p \in Posters : Says(p) \/ PosterNext(p)
    BY <1>5
  <2>2. p \in Procs /\ p \in Posters
    BY <2>1
  <2>3. CASE Says(p)
    BY <1>1, <2>2, <2>3, QuietStep
  <2>4. CASE Hears(p)
    BY <1>1, <2>2, <2>4, HearsDriven
  <2>5. CASE start_channel_peer_round(p)
    BY <1>1, <2>2, <2>5, StartDriven
  <2>6. CASE create_round(p) \/ _install_round_queue(p) \/ Files(p)
    BY <1>1, <2>2, <2>6, CreateDriven, InstallDriven, FilesDriven
  <2> QED
    BY <2>1, <2>3, <2>4, <2>5, <2>6 DEF PosterNext
<1>6. CASE PauseButton \/ Resets \/ TurnGivesUp \/ Crash
  BY <1>1, <1>6, PauseDriven, ResetsStep, GivesUpStep, CrashStep
<1>7. CASE ResumeButton \/ UNCHANGED vars
  BY <1>1, <1>7, QuietStep
<1> QED
  BY <1>3, <1>4, <1>5, <1>6, <1>7 DEF Next

LEMMA InitDriven == ASSUME Init, NEW r \in Ids PROVE Driven(r)
<1> USE Numbers
<1>1. /\ \A p \in Procs : act[p].round = 0 /\ act[p].emits = {} /\ act[p].at = "idle"
      /\ \A a \in Agents : seat[r][a] = "none"
      /\ round[r].status = "none" /\ wakes = {} /\ said = {}
  BY IdleFacts DEF Init, NoRound
<1>2. \A p \in Procs : ~On(p, r) /\ ~Mails(p, r) /\ \A a \in Agents : ~Busy(p, r, a)
  BY <1>1 DEF On, Mails, Busy, At
<1>3. Letters = {} /\ ~Waits(r)
  BY <1>1 DEF Letters, Waits
<1>4. Unique(r) /\ Spent(r) /\ Unsaid(r) /\ EndsWithSeats(r)
  BY <1>1, <1>2 DEF Unique, Spent, Unsaid, EndsWithSeats
<1>5. Fanout(r)
  BY <1>1, <1>2, <1>3 DEF Fanout, FanoutWakes, FanoutTurns, FanoutTurn, FanoutSeats, FanoutSeat
<1>6. Turns(r)
  <2>1. OneHolder(r)
    BY <1>1, <1>2, <1>3 DEF OneHolder, Holds, Installs
  <2> QED
    BY <1>1, <1>2, <1>3, <2>1 DEF Turns, TurnsWakes, TurnsTurns, TurnsTurn, TurnsSeats, TurnsSeat
<1> QED
  BY <1>4, <1>5, <1>6 DEF Driven

LEMMA IInvInit == Init => IInv
<1>1. Init => OneResponds
  <2> SUFFICES ASSUME Init, NEW r \in Ids, NEW a \in Agents, seat[r][a] = "responding" PROVE FALSE
    BY DEF OneResponds
  <2> QED
    BY DEF Init
<1> QED
  BY <1>1, InitFormed, InitDriven DEF IInv

LEMMA IInvStep == IInv /\ [Next]_vars => IInv'
<1> SUFFICES ASSUME IInv, [Next]_vars PROVE IInv'
  OBVIOUS
<1>1. Formed /\ Formed' /\ OneResponds'
  BY FormedStep, RespondsStep DEF IInv
<1>2. ASSUME NEW r \in Ids, r \notin halted' PROVE Driven(r)'
  <2>1. Driven(r)
    BY <1>2, HaltedStays DEF IInv
  <2> QED
    BY <1>1, <1>2, <2>1, DrivenStep
<1> QED
  BY <1>1, <1>2 DEF IInv

-----------------------------------------------------------------------------
(* What follows from it.                                                    *)

\* A seat speaks once in a round: a turn that is about to post has closed its
\* seat, whoever asked the round's members again meanwhile, and no line of that
\* seat is there yet.  Only a round that a crash, Pause or a turn without a
\* decision stopped may see a second line (_persist_reply, requeue_all_claimed_triggers).
THEOREM SeatSpeaksOnce == Spec => []SpeaksOnce
<1>1. ASSUME IInv PROVE SpeaksOnce
  <2> SUFFICES ASSUME T.at = "post", T.round \notin halted PROVE <<T.round, T.agent>> \notin said
    BY DEF SpeaksOnce
  <2>1. Formed /\ T = act["turn"]
    BY <1>1 DEF IInv, T
  <2>2. T.round \in Ids /\ T.spoke /\ On("turn", T.round)
    BY <2>1, TurnBound DEF TurnShape
  <2>3. Unsaid(T.round)
    BY <1>1, <2>2 DEF IInv, Driven
  <2> QED
    BY <2>1, <2>2, <2>3 DEF Unsaid, Replying
<1> QED
  BY IInvInit, IInvStep, <1>1, PTL DEF Spec

\* When nobody is at work, every round that is not settled has a wake in the
\* queue, unless its queue was stopped in one of the known ways: no order of
\* posts, re-routes, promotions, resets, cancellations and restarts loses the
\* wake that a round lives from (advance_channel_round, finalize_shared_response,
\* cancel_queued_older_thread_rounds, close_orphaned_channel_rounds).
THEOREM NoRoundIsForgotten == Spec => []OnlyKnownStops
<1>1. ASSUME IInv PROVE OnlyKnownStops
  <2> SUFFICES ASSUME Quiet, NEW r \in Ids, r \notin halted, \A w \in wakes : w.round # r
               PROVE  Settled(r)
    BY DEF OnlyKnownStops
  <2>1. Driven(r) /\ TypeOK
    BY <1>1 DEF IInv, Formed
  <2>2. \A p \in Procs : ~On(p, r) /\ ~Installs(p, r) /\ act[p].emits = {}
    BY Numbers, IdleFacts DEF Quiet, On, Installs
  <2>3. \A w \in Letters : w.round # r
    BY <2>2 DEF Letters
  <2>4. Closed(r)
    <3> SUFFICES ASSUME NEW a \in Agents PROVE seat[r][a] \notin OpenSeat
      BY DEF Closed, In
    <3>1. CASE round[r].mode = "fanout"
      BY <2>1, <2>2, <2>3, <3>1, Numbers
      DEF Driven, Fanout, FanoutSeats, FanoutSeat, At, Letter, OpenSeat
    <3>2. CASE round[r].mode = "rounds"
      BY <2>1, <2>2, <2>3, <3>2 DEF Driven, Turns, TurnsSeats, TurnsSeat, At, Letter, OpenSeat
    <3>3. round[r].mode \in Modes
      BY <2>1 DEF TypeOK
    <3> QED
      BY <3>1, <3>2, <3>3 DEF Modes
  <2> QED
    BY <2>1, <2>2, <2>4 DEF Settled, Closed, Driven, EndsWithSeats
<1> QED
  BY IInvInit, IInvStep, <1>1, PTL DEF Spec
================================================================================
