----------------------------- MODULE RoundsProofs -----------------------------
(***************************************************************************)
(* Proofs about Rounds, for every number of members, handlers, messages and  *)
(* rounds: who refers to which round, what every step does to the rows, and  *)
(* that one seat responds at a time.                                         *)
(***************************************************************************)
EXTENDS Rounds, FiniteSetTheorems, TLAPS

-----------------------------------------------------------------------------
(* The shape of the state: who refers to which round, and what a process     *)
(* holds at each of its steps.                                               *)

Acts == [at : {"idle", "think", "join", "activate", "finish",
               "advance", "reroute", "post", "skip", "hear", "open",
               "create", "install", "file", "down", "boot"},
         tip : 0 .. LastTip, round : 0 .. MaxRounds, agent : Agents \cup {NoAgent},
         kind : {"none", "message", "response"},
         spoke : BOOLEAN, index : 0 .. Cap, mode : Modes,
         rest : SUBSET Agents, ids : SUBSET Ids, emits : SUBSET Wake]

Opened(r) == round[r].status # "none"
On(p, r) == act[p].round = r
Mails(p, r) == \E w \in act[p].emits : w.round = r
Installs(p, r) == act[p].at = "install" /\ r \in act[p].ids
Holds(p, r) == On(p, r) \/ Mails(p, r) \/ Installs(p, r)
Waits(r) == \E w \in wakes : w.round = r

\* Rounds are opened in their order, and only then referred to.
Gapless == \E k \in 0 .. MaxRounds : FreeIds = (k + 1) .. MaxRounds
RowsOk ==
  \A r \in Ids : IF Opened(r) THEN round[r].index > 0 ELSE \A a \in Agents : seat[r][a] = "none"
Referred ==
  /\ \A w \in wakes : Opened(w.round)
  /\ \A p \in Procs : /\ \A w \in act[p].emits : Opened(w.round)
                      /\ act[p].round \in Ids => Opened(act[p].round)
  /\ \A r \in Ids, a \in Agents : <<r, a>> \in said => Opened(r)

\* What a turn, a reset and a handler hold.
Bound(p) == act[p].agent \in Agents /\ act[p].round \in Ids /\ act[p].kind # "none"
TurnShape ==
  /\ T.at # "hear"
  /\ T.at \in {"down", "boot"} => T.round = 0 /\ T.emits = {}
  /\ T.at \notin {"idle", "down", "boot"} => Bound("turn")
  /\ T.at \in {"think", "join", "activate", "finish", "advance", "reroute"} => T.emits = {}
  /\ T.at \in {"join", "activate"} => T.kind = "message"
  /\ T.at \in {"join", "activate", "reroute", "post"} => T.spoke
  /\ T.at = "think" => ~T.spoke
ResetShape ==
  LET R == act["reset"]
  IN /\ R.at \in {"idle", "finish", "advance", "create", "install", "file"}
     /\ R.at # "idle" => Bound("reset") /\ ~R.spoke
     /\ R.at \in {"finish", "advance"} => R.emits = {}
     /\ R.at \in {"create", "install"} => R.index > 1
PosterShape(p) ==
  /\ act[p].at \in {"idle", "hear", "open", "create", "install", "file"}
  /\ act[p].round = 0
  /\ act[p].at # "file" => act[p].emits = {}
  /\ act[p].at \in {"create", "install"} => act[p].index = 1
Local(p) ==
  /\ p = "turn" => TurnShape
  /\ p = "reset" => ResetShape
  /\ p \in Posters => PosterShape(p)
  /\ act[p].at \in {"create", "install"} =>
       act[p].index > 0 /\ (act[p].index > 1 => act[p].emits = {})
  /\ act[p].at = "install" => \E r \in Ids : act[p].ids = {r} /\ round[r].mode = act[p].mode
  /\ act[p].at = "reroute" => round[act[p].round].mode = "rounds"

\* A round whose seats are about to be filled is in one process's hands.
Unfilled(r) == \A a \in Agents : seat[r][a] = "none" /\ <<r, a>> \notin said
Installing ==
  \A p \in Procs, r \in Ids :
    Installs(p, r) =>
      /\ Opened(r) /\ Unfilled(r) /\ ~Waits(r)
      /\ \A q \in Procs : Holds(q, r) => q = p /\ ~On(q, r) /\ ~Mails(q, r)

Shape == Gapless /\ RowsOk /\ Referred /\ (\A p \in Procs : Local(p)) /\ Installing
Formed == TypeOK /\ Shape

-----------------------------------------------------------------------------
(* What the statements do.                                                  *)

LEMMA Numbers ==
  /\ LastTip \in Nat /\ MaxRounds \in Nat /\ Cap \in Nat /\ Cap > 0 /\ MaxIncidents \in Nat
  /\ Ids \subseteq Nat /\ 0 \notin Ids /\ \A r \in Ids : r \in 0 .. MaxRounds
  /\ NoAgent \notin Agents
  /\ "turn" \in Procs /\ "reset" \in Procs /\ Posters \subseteq Procs
  /\ "turn" \notin Posters /\ "reset" \notin Posters
BY RoundAssumption DEF RoundAssumption, Ids, Procs

LEMMA ActsTyped == ASSUME TypeOK PROVE act \in [Procs -> Acts]
BY DEF TypeOK, Acts

LEMMA IdleFacts ==
  /\ Idle \in Acts /\ Idle.at = "idle" /\ Idle.tip = 0 /\ Idle.round = 0 /\ Idle.agent = NoAgent
  /\ Idle.kind = "none" /\ Idle.spoke = FALSE /\ Idle.index = 0 /\ Idle.mode = "rounds"
  /\ Idle.rest = {} /\ Idle.ids = {} /\ Idle.emits = {}
BY Numbers DEF Idle, Acts, Modes

\* One process moves.
LEMMA Moved ==
  ASSUME TypeOK, NEW p \in Procs, NEW x \in Acts, act' = [act EXCEPT ![p] = x]
  PROVE  /\ act' \in [Procs -> Acts] /\ act'[p] = x
         /\ \A q \in Procs : q # p => act'[q] = act[q]
BY ActsTyped

LEMMA GoesFacts ==
  ASSUME TypeOK, NEW p \in Procs, NEW at, Goes(p, at),
         at \in {"think", "join", "activate", "finish",
                 "advance", "reroute", "post", "skip", "hear", "open",
                 "create", "install", "file", "down", "boot"}
  PROVE  /\ act' \in [Procs -> Acts]
         /\ \A q \in Procs : q # p => act'[q] = act[q]
         /\ act'[p] = [act[p] EXCEPT !.at = at]
<1>1. act[p] \in Acts
  BY ActsTyped
<1>2. [act[p] EXCEPT !.at = at] \in Acts
  BY <1>1 DEF Acts
<1>3. act' = [act EXCEPT ![p] = [act[p] EXCEPT !.at = at]]
  BY DEF Goes
<1> QED
  BY <1>2, <1>3, Moved, Zenon

\* A count may complete rounds, and nothing else.
LEMMA CompleteFacts ==
  ASSUME TypeOK, NEW rows, NEW R \in SUBSET Ids, round' = maybe_complete_round(rows, R),
         \A r \in R : Opened(r)
  PROVE  /\ round' \in [Ids -> [status : {"none", "active", "completed"}, tip : 0 .. LastTip,
                                index : 0 .. Cap, mode : Modes]]
         /\ \A r \in Ids : /\ round'[r].tip = round[r].tip /\ round'[r].index = round[r].index
                           /\ round'[r].mode = round[r].mode
                           /\ Opened(r)' <=> Opened(r)
                           /\ round'[r].status \in {round[r].status, "completed"}
         /\ \A r \in Ids \ R : round'[r] = round[r]
         /\ \A r \in R : IF \A a \in Agents : rows[r][a] \notin OpenSeat
                         THEN round'[r].status = "completed" ELSE round'[r] = round[r]
         /\ \A r \in Ids : round'[r].status = "none" <=> round'[r] = NoRound
         /\ FreeIds' = FreeIds
<1> DEFINE Row == [status : {"none", "active", "completed"}, tip : 0 .. LastTip,
                   index : 0 .. Cap, mode : Modes]
           done(r) == [round[r] EXCEPT !.status = "completed"]
           closes(r) == r \in R /\ \A a \in Agents : rows[r][a] \notin OpenSeat
<1>1. round \in [Ids -> Row] /\ \A r \in Ids : round[r].status = "none" <=> round[r] = NoRound
  BY DEF TypeOK
<1>2. \A r \in Ids : round'[r] = IF closes(r) THEN done(r) ELSE round[r]
  BY DEF maybe_complete_round
<1>3. DOMAIN round' = Ids /\ round' = [r \in Ids |-> round'[r]]
  BY DEF maybe_complete_round
<1>4. \A r \in Ids : /\ done(r) \in Row /\ done(r).status = "completed" /\ done(r).tip = round[r].tip
                     /\ done(r).index = round[r].index /\ done(r).mode = round[r].mode
  BY <1>1
<1>5. NoRound.status = "none"
  BY DEF NoRound
<1> HIDE DEF Row, done, closes
<1>6. \A r \in Ids : round'[r] \in Row
  BY <1>1, <1>2, <1>4
<1>7. round' \in [Ids -> Row]
  BY <1>3, <1>6
<1>8. \A r \in Ids : /\ round'[r].tip = round[r].tip /\ round'[r].index = round[r].index
                     /\ round'[r].mode = round[r].mode
                     /\ round'[r].status \in {round[r].status, "completed"}
  BY <1>2, <1>4
<1>9. \A r \in Ids : Opened(r)' <=> Opened(r)
  BY <1>2, <1>4 DEF Opened, closes
<1>10. FreeIds' = FreeIds
  BY <1>9 DEF FreeIds, Opened
<1>11. \A r \in Ids : round'[r].status = "none" <=> round'[r] = NoRound
  BY <1>1, <1>2, <1>4, <1>5
<1>12. \A r \in Ids \ R : round'[r] = round[r]
  BY <1>2 DEF closes
<1>13. \A r \in R : IF \A a \in Agents : rows[r][a] \notin OpenSeat
                    THEN round'[r].status = "completed" ELSE round'[r] = round[r]
  BY <1>2, <1>4 DEF closes
<1> QED
  BY <1>7, <1>8, <1>9, <1>10, <1>11, <1>12, <1>13 DEF Row

-----------------------------------------------------------------------------
(* The types, part by part.                                                 *)

Statuses == OpenSeat \cup {"none", "responded", "observed"}
BossOk ==
  /\ tip \in 0 .. LastTip /\ phrases \subseteq 1 .. tip /\ paused \in BOOLEAN
  /\ incidents \in 0 .. MaxIncidents
RoundsOk ==
  /\ round \in [Ids -> [status : {"none", "active", "completed"}, tip : 0 .. LastTip,
                        index : 0 .. Cap, mode : Modes]]
  /\ \A r \in Ids : round[r].status = "none" <=> round[r] = NoRound
SeatsOk == seat \in [Ids -> [Agents -> Statuses]]
ActsOk == act \in [Procs -> Acts] /\ \A p \in Procs : act[p].at = "idle" => act[p] = Idle
HistoryOk == said \subseteq Ids \X Agents /\ halted \subseteq Ids
TypesOk == BossOk /\ RoundsOk /\ SeatsOk /\ wakes \subseteq Wake /\ ActsOk /\ HistoryOk

LEMMA TypeParts == (TypeOK <=> TypesOk) /\ (TypeOK' <=> TypesOk')
BY DEF TypeOK, TypesOk, BossOk, RoundsOk, SeatsOk, ActsOk, HistoryOk, Acts, Statuses

\* One seat changes.
LEMMA OneSeat ==
  ASSUME SeatsOk, NEW r \in Ids, NEW a \in Agents, NEW status \in Statuses,
         seat' = [seat EXCEPT ![r][a] = status]
  PROVE  /\ SeatsOk' /\ seat'[r][a] = status
         /\ \A q \in Ids : q # r => seat'[q] = seat[q]
         /\ \A b \in Agents : b # a => seat'[r][b] = seat[r][b]
BY DEF SeatsOk

\* The seats of one round change.
LEMMA OneRow ==
  ASSUME SeatsOk, NEW r \in Ids, NEW row \in [Agents -> Statuses],
         seat' = [seat EXCEPT ![r] = row]
  PROVE  SeatsOk' /\ seat'[r] = row /\ \A q \in Ids : q # r => seat'[q] = seat[q]
BY DEF SeatsOk

\* What may change while the processes P move, none of them to fill a round.
Moves(P) ==
  /\ \A q \in Procs \ P : act'[q] = act[q]
  /\ \A p \in P : act'[p].at # "install" /\ Local(p)'
  /\ \A r \in Ids :
       /\ Opened(r)' <=> Opened(r)
       /\ round'[r].index = round[r].index /\ round'[r].mode = round[r].mode
       /\ Waits(r)' => Waits(r) \/ \E q \in P : Holds(q, r)
       /\ \A p \in P : Holds(p, r)' => Waits(r) \/ \E q \in P : Holds(q, r)
       /\ \A a \in Agents : /\ <<r, a>> \in said' => <<r, a>> \in said \/ \E q \in P : On(q, r)
                            /\ seat[r][a] = "none" =>
                                 seat'[r][a] = "none" \/ (Opened(r) /\ \E q \in P : Holds(q, r))

LEMMA ShapeStep ==
  ASSUME Formed, TypeOK', NEW P \in SUBSET Procs, Moves(P)
  PROVE  Shape'
<1> USE Numbers
<1>1. Gapless'
  BY Zenon DEF Formed, Shape, Gapless, Moves, FreeIds, Opened
<1>2. RowsOk'
  BY Zenon DEF Formed, Shape, RowsOk, Moves
<1>3. \A r \in Ids : Waits(r) => Opened(r)
  BY DEF Formed, Shape, Referred, Waits
<1>4. \A p \in Procs, r \in Ids : Holds(p, r) => Opened(r)
  BY DEF Formed, Shape, Referred, Installing, Holds, On, Mails
<1>5. Referred'
  <2>1. \A w \in wakes' : w.round \in Ids /\ Waits(w.round)'
    BY DEF TypeOK, Wake, Waits
  <2>2. \A p \in Procs : \A w \in act'[p].emits : w.round \in Ids /\ Holds(p, w.round)'
    <3>1. \A p \in Procs : act'[p].emits \subseteq Wake
      BY DEF TypeOK
    <3> QED
      BY <3>1 DEF Wake, Holds, Mails
  <2>3. \A p \in Procs, r \in Ids : Holds(p, r)' => Opened(r)'
    <3> SUFFICES ASSUME NEW p \in Procs, NEW r \in Ids, Holds(p, r)' PROVE Opened(r)'
      OBVIOUS
    <3>1. CASE p \in P
      BY <1>3, <1>4, <3>1 DEF Moves
    <3>2. CASE p \notin P
      BY <1>4, <3>2 DEF Moves, Holds, On, Mails, Installs
    <3> QED
      BY <3>1, <3>2
  <2>4. \A r \in Ids : Waits(r)' => Opened(r)'
    BY <1>3, <1>4 DEF Moves
  <2>5. \A r \in Ids, a \in Agents : <<r, a>> \in said' => Opened(r)'
    BY <1>4 DEF Moves, Holds, Formed, Shape, Referred
  <2>6. \A w \in wakes' : Opened(w.round)'
    BY <2>1, <2>4, Zenon
  <2>7. \A p \in Procs : \A w \in act'[p].emits : Opened(w.round)'
    BY <2>2, <2>3, Zenon
  <2>8. \A p \in Procs, r \in Ids : act'[p].round = r => Opened(r)'
    BY <2>3 DEF Holds, On
  <2> QED
    BY <2>5, <2>6, <2>7, <2>8 DEF Referred
<1>6. \A p \in Procs : Local(p)'
  <2> SUFFICES ASSUME NEW p \in Procs, p \notin P PROVE Local(p)'
    BY DEF Moves
  <2>1. Local(p) /\ act'[p] = act[p] /\ \A r \in Ids : round'[r].mode = round[r].mode
    BY DEF Moves, Formed, Shape
  <2>2. p = "turn" => T' = T
    BY <2>1 DEF T
  <2>3. act[p].at = "reroute" => act[p].round \in Ids
    BY <2>1 DEF Local, TurnShape, T, ResetShape, PosterShape, Bound, Procs
  <2>4. act'[p].at = "reroute" => round'[act'[p].round].mode = "rounds"
    BY <2>1, <2>3, Zenon DEF Local
  <2> QED
    BY <2>1, <2>2, <2>4 DEF Local, TurnShape, T, ResetShape, PosterShape, Bound
<1>7. Installing'
  <2> SUFFICES ASSUME NEW p \in Procs, NEW r \in Ids, Installs(p, r)'
               PROVE  /\ Opened(r)' /\ Unfilled(r)' /\ ~Waits(r)'
                      /\ \A q \in Procs : Holds(q, r)' => q = p /\ ~On(q, r)' /\ ~Mails(q, r)'
    BY DEF Installing
  <2>1. p \notin P /\ Installs(p, r) /\ Holds(p, r) /\ act'[p] = act[p]
    BY DEF Moves, Installs, Holds
  <2>2. /\ Opened(r) /\ Unfilled(r) /\ ~Waits(r)
        /\ \A q \in Procs : Holds(q, r) => q = p /\ ~On(q, r) /\ ~Mails(q, r)
    BY <2>1 DEF Formed, Shape, Installing
  <2>3. \A q \in P : ~Holds(q, r) /\ ~Holds(q, r)' /\ ~On(q, r) /\ ~Installs(q, r)
    BY <2>1, <2>2, Zenon DEF Moves, Holds
  <2>4. Opened(r)' /\ ~Waits(r)' /\ Unfilled(r)'
    BY <2>2, <2>3 DEF Moves, Unfilled
  <2>5. \A q \in Procs : Holds(q, r)' => q = p /\ ~On(q, r)' /\ ~Mails(q, r)'
    BY <2>1, <2>2, <2>3 DEF Moves, Holds, On, Mails, Installs
  <2> QED
    BY <2>4, <2>5
<1> QED
  BY <1>1, <1>2, <1>5, <1>6, <1>7 DEF Shape

-----------------------------------------------------------------------------
(* What each step does to the process that takes it.                        *)

Turn == {"turn"}

LEMMA Becomes ==
  ASSUME TypeOK, NEW p \in Procs, NEW x \in Acts, act' = [act EXCEPT ![p] = x],
         x.at = "idle" => x = Idle
  PROVE  ActsOk' /\ act'[p] = x /\ \A q \in Procs : q # p => act'[q] = act[q]
BY Moved, Zenon DEF ActsOk, TypeOK

LEMMA GoesTo ==
  ASSUME TypeOK, NEW p \in Procs, NEW at, Goes(p, at),
         at \in {"think", "join", "activate", "finish",
                 "advance", "reroute", "post", "skip", "hear", "open",
                 "create", "install", "file", "down", "boot"}
  PROVE  ActsOk' /\ act'[p] = [act[p] EXCEPT !.at = at] /\ \A q \in Procs : q # p => act'[q] = act[q]
BY GoesFacts, ActsTyped DEF ActsOk, TypeOK, Acts

\* Seats and rounds that stay, or change by one seat and a count.
LEMMA SameRows ==
  ASSUME TypeOK, UNCHANGED <<round, seat>>
  PROVE  /\ RoundsOk' /\ SeatsOk'
         /\ \A r \in Ids : /\ Opened(r)' <=> Opened(r)
                           /\ round'[r].index = round[r].index /\ round'[r].mode = round[r].mode
BY TypeParts DEF TypesOk, RoundsOk, SeatsOk, Opened

LEMMA ClaimTypes == ASSUME Formed, Claim PROVE TypeOK' /\ Shape'
<1> USE Numbers
<1>1. PICK w \in wakes :
        /\ wakes' = wakes \ {w}
        /\ act' = [act EXCEPT !["turn"] = [Idle EXCEPT !.at = "think", !.round = w.round, !.agent = w.agent,
                                                       !.kind = w.kind, !.tip = round[w.round].tip]]
  BY Zenon DEF Claim
<1> DEFINE x == [Idle EXCEPT !.at = "think", !.round = w.round, !.agent = w.agent,
                             !.kind = w.kind, !.tip = round[w.round].tip]
<1>2. TypeOK /\ TypesOk /\ act["turn"] = Idle /\ w \in Wake
  BY TypeParts DEF Formed, TypesOk, Claim
<1>3. /\ w.round \in Ids /\ w.agent \in Agents /\ w.kind \in {"message", "response"}
      /\ round[w.round].tip \in 0 .. LastTip
  BY <1>2, Zenon DEF Wake, TypesOk, RoundsOk
<1>4. x \in Acts
  BY <1>3, IdleFacts, Zenon DEF Acts
<1>5. x \in Acts /\ x.at = "think" /\ x.round = w.round /\ x.agent = w.agent /\ x.kind = w.kind
      /\ x.spoke = FALSE /\ x.emits = {} /\ x.ids = {}
  BY <1>4, IdleFacts DEF Acts
<1> HIDE DEF x
<1>6. ActsOk' /\ act'["turn"] = x /\ \A q \in Procs : q # "turn" => act'[q] = act[q]
  BY <1>1, <1>2, <1>5, Becomes, Zenon DEF x
<1>7. RoundsOk' /\ SeatsOk' /\ \A r \in Ids : /\ Opened(r)' <=> Opened(r)
                           /\ round'[r].index = round[r].index /\ round'[r].mode = round[r].mode
  BY <1>2, SameRows DEF Claim
<1>8. TypeOK'
  BY <1>1, <1>2, <1>6, <1>7, TypeParts DEF Claim, TypesOk, BossOk, HistoryOk, boss
<1>9. Local("turn")'
  BY <1>3, <1>5, <1>6 DEF Local, TurnShape, T, Bound
<1>10. \A r \in Ids : /\ Waits(r)' => Waits(r)
                      /\ Holds("turn", r)' => Waits(r)
  BY <1>1, <1>5, <1>6, Zenon DEF Waits, Holds, On, Mails, Installs
<1>11. Moves(Turn)
  BY <1>5, <1>6, <1>7, <1>9, <1>10 DEF Moves, Claim, Turn
<1> QED
  BY <1>8, <1>11, ShapeStep DEF Turn

\* A turn that has a seat goes to another of its steps.
LEMMA TurnMoves ==
  ASSUME Formed, ActsOk', \A q \in Procs : q # "turn" => act'[q] = act[q],
         NEW x, T' = x, x.at \in {"join", "activate", "finish", "advance", "post", "skip", "file"},
         x.round = T.round, x.agent = T.agent, x.kind = T.kind, x.emits = {},
         T.at \notin {"idle", "down", "boot"},
         x.at \in {"join", "activate"} => x.kind = "message",
         x.at \in {"join", "activate", "post"} => x.spoke,
         \A r \in Ids : /\ Opened(r)' <=> Opened(r)
                        /\ round'[r].index = round[r].index /\ round'[r].mode = round[r].mode,
         wakes' \subseteq wakes, said' \subseteq said \cup {<<T.round, T.agent>>},
         \A r \in Ids, a \in Agents : seat[r][a] = "none" => r = T.round \/ seat'[r][a] = "none"
  PROVE  Moves(Turn) /\ T.round \in Ids /\ Opened(T.round) /\ T.agent \in Agents
<1> USE Numbers
<1>1. TurnShape /\ Bound("turn")
  BY DEF Formed, Shape, Local, TurnShape
<1>2. Local("turn")'
  BY <1>1 DEF Local, TurnShape, T, Bound
<1>3. \A r \in Ids : /\ Waits(r)' => Waits(r)
                     /\ Holds("turn", r)' => On("turn", r)
                     /\ \A a \in Agents : <<r, a>> \in said' => <<r, a>> \in said \/ On("turn", r)
  BY DEF Waits, Holds, On, Mails, Installs, T
<1>4. T.round \in Ids /\ Opened(T.round) /\ T.agent \in Agents /\ On("turn", T.round)
  BY <1>1 DEF Bound, Formed, Shape, Referred, T, On
<1>5. Moves(Turn)
  BY <1>2, <1>3, <1>4 DEF Moves, Turn, T, Holds
<1> QED
  BY <1>4, <1>5

LEMMA TurnBound ==
  ASSUME Formed, T.at \notin {"idle", "down", "boot"}
  PROVE  /\ T \in Acts /\ T.round \in Ids /\ T.agent \in Agents /\ T.kind \in {"message", "response"}
         /\ Opened(T.round) /\ On("turn", T.round) /\ TurnShape
<1>1. T \in Acts /\ TurnShape /\ Bound("turn")
  BY ActsTyped, Numbers DEF T, Formed, Shape, Local, TurnShape
<1>2. T.kind \in {"message", "response"}
  BY <1>1 DEF Acts, Bound, T
<1> QED
  BY <1>1, <1>2, Numbers DEF Bound, Formed, Shape, Referred, T, On

\* One seat of a round, and the count that may complete it.
LEMMA MarksRows ==
  ASSUME TypeOK, NEW r \in Ids, NEW a \in Agents, NEW status \in Statuses, Opened(r),
         seat' = [seat EXCEPT ![r][a] = status], round' = maybe_complete_round(seat', {r})
  PROVE  /\ RoundsOk' /\ SeatsOk' /\ seat'[r][a] = status
         /\ \A q \in Ids : q # r => seat'[q] = seat[q] /\ round'[q] = round[q]
         /\ \A b \in Agents : b # a => seat'[r][b] = seat[r][b]
         /\ \A q \in Ids : /\ Opened(q)' <=> Opened(q)
                           /\ round'[q].index = round[q].index /\ round'[q].mode = round[q].mode
                           /\ round'[q].tip = round[q].tip
         /\ IF \A b \in Agents : seat'[r][b] \notin OpenSeat
            THEN round'[r].status = "completed" ELSE round'[r] = round[r]
<1>1. SeatsOk
  BY TypeParts DEF TypesOk
<1>2. {r} \in SUBSET Ids /\ \A q \in {r} : Opened(q)
  OBVIOUS
<1>3. /\ SeatsOk' /\ seat'[r][a] = status
      /\ \A q \in Ids : q # r => seat'[q] = seat[q]
      /\ \A b \in Agents : b # a => seat'[r][b] = seat[r][b]
  BY <1>1, OneSeat, Zenon
<1>4. /\ RoundsOk'
      /\ \A q \in Ids : q # r => round'[q] = round[q]
      /\ \A q \in Ids : /\ Opened(q)' <=> Opened(q)
                        /\ round'[q].index = round[q].index /\ round'[q].mode = round[q].mode
                        /\ round'[q].tip = round[q].tip
  BY <1>2, CompleteFacts, ZenonT(40) DEF RoundsOk
<1>5. IF \A b \in Agents : seat'[r][b] \notin OpenSeat
      THEN round'[r].status = "completed" ELSE round'[r] = round[r]
  BY <1>2, CompleteFacts, Zenon
<1> QED
  BY <1>3, <1>4, <1>5, Zenon

LEMMA AnswersTypes == ASSUME Formed, Answers PROVE TypeOK' /\ Shape' /\ Moves(Turn)
<1> USE Numbers
<1> DEFINE x == [T EXCEPT !.spoke = TRUE,
                          !.at = IF Stale(T.tip) THEN "skip"
                                 ELSE IF T.kind = "message" THEN "join" ELSE "finish"]
<1>1. TypeOK /\ TypesOk /\ T \in Acts /\ T.round \in Ids /\ T.agent \in Agents /\ TurnShape
  BY TurnBound, TypeParts DEF Formed, Answers
<1>2. x \in Acts /\ act' = [act EXCEPT !["turn"] = x]
  BY <1>1 DEF Acts, Answers, T, TypesOk, ActsOk
<1>3. /\ x.at \in {"skip", "join", "finish"} /\ (x.at = "join" => T.kind = "message")
      /\ x.spoke /\ x.round = T.round /\ x.agent = T.agent /\ x.kind = T.kind /\ x.emits = {}
  BY <1>1 DEF Acts, TurnShape, Answers
<1> HIDE DEF x
<1>4. ActsOk' /\ T' = x /\ \A q \in Procs : q # "turn" => act'[q] = act[q]
  BY <1>1, <1>2, <1>3, Becomes, Zenon DEF T
<1>5. RoundsOk' /\ SeatsOk' /\ \A r \in Ids : /\ Opened(r)' <=> Opened(r)
                           /\ round'[r].index = round[r].index /\ round'[r].mode = round[r].mode
  BY <1>1, SameRows DEF Answers
<1>6. TypeOK'
  BY <1>1, <1>4, <1>5, TypeParts DEF Answers, TypesOk, BossOk, HistoryOk, boss
<1>7. Moves(Turn)
  BY <1>1, <1>3, <1>4, <1>5, TurnMoves, Zenon DEF Answers
<1> QED
  BY <1>6, <1>7, ShapeStep DEF Turn

LEMMA ObserveTypes ==
  ASSUME Formed, observe_channel_message PROVE TypeOK' /\ Shape' /\ Moves(Turn)
<1> USE Numbers
<1> DEFINE x == [T EXCEPT !.at = "advance"]
<1>1. TypeOK /\ TypesOk /\ T \in Acts /\ T.round \in Ids /\ T.agent \in Agents /\ TurnShape
      /\ Opened(T.round)
  BY TurnBound, TypeParts DEF Formed, observe_channel_message
<1>2. /\ x.at = "advance" /\ x.round = T.round /\ x.agent = T.agent /\ x.kind = T.kind
      /\ x.emits = {}
  BY <1>1 DEF Acts, TurnShape, observe_channel_message
<1>3. ActsOk' /\ T' = x /\ \A q \in Procs : q # "turn" => act'[q] = act[q]
  BY <1>1, GoesTo DEF T, observe_channel_message
<1>4. /\ RoundsOk' /\ SeatsOk'
      /\ \A r \in Ids : /\ r # T.round => seat'[r] = seat[r]
                        /\ Opened(r)' <=> Opened(r)
                        /\ round'[r].index = round[r].index /\ round'[r].mode = round[r].mode
  BY <1>1, MarksRows, Zenon DEF observe_channel_message, Marks, Statuses
<1>5. TypeOK'
  BY <1>1, <1>3, <1>4, TypeParts DEF observe_channel_message, TypesOk, BossOk, HistoryOk, boss
<1> HIDE DEF x
<1>6. Moves(Turn)
  BY <1>1, <1>2, <1>3, <1>4, TurnMoves DEF observe_channel_message
<1> QED
  BY <1>5, <1>6, ShapeStep DEF Turn

LEMMA PassesTypes == ASSUME Formed, passes PROVE TypeOK' /\ Shape' /\ Moves(Turn)
<1> USE Numbers
<1> DEFINE x == [T EXCEPT !.at = "finish"]
<1>1. TypeOK /\ TypesOk /\ T \in Acts /\ TurnShape
  BY TurnBound, TypeParts DEF Formed, passes
<1>2. /\ x.at = "finish" /\ x.round = T.round /\ x.agent = T.agent /\ x.kind = T.kind
      /\ x.emits = {}
  BY <1>1 DEF Acts, TurnShape, passes
<1>3. ActsOk' /\ T' = x /\ \A q \in Procs : q # "turn" => act'[q] = act[q]
  BY <1>1, GoesTo DEF T, passes
<1>4. RoundsOk' /\ SeatsOk' /\ \A r \in Ids : /\ Opened(r)' <=> Opened(r)
                           /\ round'[r].index = round[r].index /\ round'[r].mode = round[r].mode
  BY <1>1, SameRows DEF passes
<1>5. TypeOK'
  BY <1>1, <1>3, <1>4, TypeParts DEF passes, TypesOk, BossOk, HistoryOk, boss
<1> HIDE DEF x
<1>6. Moves(Turn)
  BY <1>1, <1>2, <1>3, <1>4, TurnMoves DEF passes
<1> QED
  BY <1>5, <1>6, ShapeStep DEF Turn

LEMMA ReserveTypes == ASSUME Formed, reserve_slot PROVE TypeOK' /\ Shape' /\ Moves(Turn)
<1> USE Numbers
<1> DEFINE x == [T EXCEPT !.at = "activate"]
           status == IF seat[T.round][T.agent] = "pending" THEN "queued" ELSE seat[T.round][T.agent]
<1>1. TypeOK /\ TypesOk /\ T \in Acts /\ T.round \in Ids /\ T.agent \in Agents /\ TurnShape
  BY TurnBound, TypeParts DEF Formed, reserve_slot
<1>2. /\ x.at = "activate" /\ x.round = T.round /\ x.agent = T.agent /\ x.kind = T.kind
      /\ x.emits = {} /\ x.kind = "message" /\ x.spoke
  BY <1>1 DEF Acts, TurnShape, reserve_slot
<1>3. ActsOk' /\ T' = x /\ \A q \in Procs : q # "turn" => act'[q] = act[q]
  BY <1>1, GoesTo DEF T, reserve_slot
<1>4. status \in Statuses /\ seat' = [seat EXCEPT ![T.round][T.agent] = status]
  BY <1>1, Zenon DEF TypesOk, SeatsOk, reserve_slot, Statuses, OpenSeat
<1> HIDE DEF x, status
<1>5. SeatsOk' /\ \A r \in Ids : r # T.round => seat'[r] = seat[r]
  BY <1>1, <1>4, OneSeat, Zenon DEF TypesOk
<1>6. RoundsOk' /\ \A r \in Ids : /\ Opened(r)' <=> Opened(r)
                           /\ round'[r].index = round[r].index /\ round'[r].mode = round[r].mode
  BY <1>1 DEF reserve_slot, TypesOk, RoundsOk, Opened
<1>7. TypeOK'
  BY <1>1, <1>3, <1>5, <1>6, TypeParts DEF reserve_slot, TypesOk, BossOk, HistoryOk, boss
<1>8. Moves(Turn)
  BY <1>1, <1>2, <1>3, <1>5, <1>6, TurnMoves DEF reserve_slot
<1> QED
  BY <1>7, <1>8, ShapeStep DEF Turn

LEMMA BeginTypes == ASSUME Formed, begin_channel_response PROVE TypeOK' /\ Shape' /\ Moves(Turn)
<1> USE Numbers
<1>1. TypeOK /\ TypesOk /\ T \in Acts /\ T.round \in Ids /\ T.agent \in Agents /\ TurnShape
  BY TurnBound, TypeParts DEF Formed, begin_channel_response
<1>2. PICK at \in {"file", "skip", "finish"} : Goes("turn", at)
  BY Zenon DEF begin_channel_response
<1> DEFINE x == [T EXCEPT !.at = at]
<1>3. /\ x.at = at /\ x.round = T.round /\ x.agent = T.agent /\ x.kind = T.kind
      /\ x.emits = {}
  BY <1>1 DEF Acts, TurnShape, begin_channel_response
<1>4. ActsOk' /\ T' = x /\ \A q \in Procs : q # "turn" => act'[q] = act[q]
  BY <1>1, <1>2, GoesTo DEF T
<1> HIDE DEF x
<1>5. SeatsOk' /\ \A r \in Ids : r # T.round => seat'[r] = seat[r]
  <2>1. CASE UNCHANGED seat
    BY <2>1, <1>1 DEF TypesOk, SeatsOk
  <2>2. CASE \E a \in next_candidate(T.round) : seat' = [seat EXCEPT ![T.round][a] = "responding"]
    <3>1. PICK a \in Agents : seat' = [seat EXCEPT ![T.round][a] = "responding"]
      BY <2>2, Zenon DEF next_candidate, In
    <3> QED
      BY <3>1, <1>1, OneSeat, Zenon DEF TypesOk, Statuses, OpenSeat
  <2> QED
    BY <2>1, <2>2 DEF begin_channel_response
<1>6. RoundsOk' /\ \A r \in Ids : /\ Opened(r)' <=> Opened(r)
                           /\ round'[r].index = round[r].index /\ round'[r].mode = round[r].mode
  BY <1>1 DEF begin_channel_response, TypesOk, RoundsOk, Opened
<1>7. TypeOK'
  BY <1>1, <1>4, <1>5, <1>6, TypeParts DEF begin_channel_response, TypesOk, BossOk, HistoryOk, boss
<1>8. Moves(Turn)
  BY <1>1, <1>2, <1>3, <1>4, <1>5, <1>6, TurnMoves DEF begin_channel_response
<1> QED
  BY <1>7, <1>8, ShapeStep DEF Turn

\* A process that is idle holds nothing.
LEMMA IdleLocal ==
  ASSUME NEW p \in Procs, act'[p] = Idle
  PROVE  Local(p)' /\ act'[p].at # "install" /\ \A r \in Ids : ~Holds(p, r)'
BY IdleFacts, Numbers DEF Local, TurnShape, ResetShape, PosterShape, T, Bound,
                          Holds, On, Mails, Installs

LEMMA ReleaseTypes ==
  ASSUME Formed, release_channel_seat PROVE TypeOK' /\ Shape' /\ Moves(Turn)
<1> USE Numbers
<1>1. TypeOK /\ TypesOk /\ T \in Acts /\ T.round \in Ids /\ T.agent \in Agents /\ TurnShape
  BY TurnBound, TypeParts DEF Formed, release_channel_seat
<1>2. RoundsOk' /\ SeatsOk' /\ \A r \in Ids : /\ Opened(r)' <=> Opened(r)
                           /\ round'[r].index = round[r].index /\ round'[r].mode = round[r].mode
  BY <1>1, SameRows DEF release_channel_seat
<1>3. CASE seat[T.round][T.agent] \in OpenSeat
  <2> DEFINE x == [T EXCEPT !.at = "finish"]
  <2>1. /\ x.at = "finish" /\ x.round = T.round /\ x.agent = T.agent /\ x.kind = T.kind
        /\ x.emits = {} /\ x \in Acts
    BY <1>1 DEF Acts, TurnShape, release_channel_seat
  <2>2. act' = [act EXCEPT !["turn"] = x]
    BY <1>3 DEF release_channel_seat
  <2> HIDE DEF x
  <2>3. ActsOk' /\ T' = x /\ \A q \in Procs : q # "turn" => act'[q] = act[q]
    BY <1>1, <2>1, <2>2, Becomes, Zenon DEF T
  <2>4. TypeOK'
    BY <1>1, <1>2, <2>3, TypeParts DEF release_channel_seat, TypesOk, BossOk, HistoryOk, boss
  <2>5. Moves(Turn)
    BY <1>1, <1>2, <2>1, <2>3, TurnMoves DEF release_channel_seat
  <2> QED
    BY <2>4, <2>5, ShapeStep DEF Turn
<1>4. CASE seat[T.round][T.agent] \notin OpenSeat
  <2>1. act' = [act EXCEPT !["turn"] = Idle]
    BY <1>4 DEF release_channel_seat
  <2>2. ActsOk' /\ act'["turn"] = Idle /\ \A q \in Procs : q # "turn" => act'[q] = act[q]
    BY <1>1, <2>1, Becomes, IdleFacts, Zenon
  <2>3. TypeOK'
    BY <1>1, <1>2, <2>2, TypeParts DEF release_channel_seat, TypesOk, BossOk, HistoryOk, boss
  <2>4. Moves(Turn)
    BY <1>2, <2>2, IdleLocal DEF Moves, Turn, Waits, release_channel_seat
  <2> QED
    BY <2>3, <2>4, ShapeStep DEF Turn
<1> QED
  BY <1>3, <1>4

LEMMA GivesUpTypes == ASSUME Formed, TurnGivesUp PROVE TypeOK' /\ Shape' /\ Moves(Turn)
<1> USE Numbers
<1>1. TypeOK /\ TypesOk /\ T \in Acts /\ T.round \in Ids /\ T.agent \in Agents /\ TurnShape
  BY TurnBound, TypeParts DEF Formed, TurnGivesUp
<1>2. RoundsOk' /\ SeatsOk' /\ \A r \in Ids : /\ Opened(r)' <=> Opened(r)
                           /\ round'[r].index = round[r].index /\ round'[r].mode = round[r].mode
  BY <1>1, SameRows DEF TurnGivesUp
<1>3. ActsOk' /\ act'["turn"] = Idle /\ \A q \in Procs : q # "turn" => act'[q] = act[q]
  BY <1>1, Becomes, IdleFacts, Zenon DEF TurnGivesUp
<1>4. BossOk'
  BY <1>1 DEF TurnGivesUp, Happens, TypesOk, BossOk, boss
<1>5. HistoryOk' /\ wakes' \subseteq Wake
  BY <1>1, Zenon DEF TurnGivesUp, TypesOk, HistoryOk, Halts
<1>6. TypeOK'
  BY <1>2, <1>3, <1>4, <1>5, TypeParts DEF TypesOk
<1>7. Moves(Turn)
  BY <1>2, <1>3, IdleLocal DEF Moves, Turn, Waits, TurnGivesUp
<1> QED
  BY <1>6, <1>7, ShapeStep DEF Turn

LEMMA PersistTypes == ASSUME Formed, _persist_reply PROVE TypeOK' /\ Shape' /\ Moves(Turn)
<1> USE Numbers
<1>1. TypeOK /\ TypesOk /\ T \in Acts /\ T.round \in Ids /\ T.agent \in Agents /\ TurnShape
      /\ Opened(T.round) /\ On("turn", T.round)
  BY TurnBound, TypeParts DEF Formed, _persist_reply
<1>2. RoundsOk' /\ SeatsOk' /\ \A r \in Ids : /\ Opened(r)' <=> Opened(r)
                           /\ round'[r].index = round[r].index /\ round'[r].mode = round[r].mode
  BY <1>1, SameRows DEF _persist_reply
<1>3. PICK at \in {"skip", "file"} : Goes("turn", at)
  BY DEF _persist_reply
<1>4. ActsOk' /\ T' = [T EXCEPT !.at = at] /\ \A q \in Procs : q # "turn" => act'[q] = act[q]
  BY <1>1, <1>3, GoesTo DEF T
<1>5. /\ T'.at = at /\ T'.round = T.round /\ T'.agent = T.agent /\ T'.kind = T.kind
      /\ T'.emits = T.emits
  BY <1>1, <1>4 DEF Acts
<1>6. HistoryOk'
  BY <1>1 DEF _persist_reply, TypesOk, HistoryOk
<1>7. TypeOK'
  BY <1>1, <1>2, <1>4, <1>6, TypeParts DEF _persist_reply, TypesOk, BossOk, boss
<1>8. Local("turn")' /\ act'["turn"].at # "install"
  BY <1>1, <1>3, <1>5 DEF Local, TurnShape, T, Bound, _persist_reply
<1>9. \A r \in Ids : /\ Waits(r)' => Waits(r)
                     /\ Holds("turn", r)' => Holds("turn", r)
                     /\ \A a \in Agents : <<r, a>> \in said' => <<r, a>> \in said \/ On("turn", r)
  BY <1>1, <1>3, <1>5 DEF Waits, Holds, On, Mails, Installs, T, _persist_reply
<1>10. Moves(Turn)
  BY <1>2, <1>4, <1>8, <1>9 DEF Moves, Turn, _persist_reply
<1> QED
  BY <1>7, <1>10, ShapeStep DEF Turn

-----------------------------------------------------------------------------
(* The end of a seat: a turn's, or the app's for a turn it reset.            *)

LEMMA FinisherBound ==
  ASSUME Formed, NEW p \in Finishers, act[p].at \in {"finish", "advance", "reroute", "create"},
         act[p].round \in Ids \/ act[p].at # "create"
  PROVE  /\ p \in Procs /\ p \notin Posters /\ act[p] \in Acts /\ act[p].round \in Ids
         /\ act[p].agent \in Agents /\ Opened(act[p].round) /\ On(p, act[p].round) /\ Local(p)
         /\ act[p].at \in {"finish", "advance", "reroute"} => act[p].emits = {}
         /\ act[p].at = "reroute" => act[p].spoke
         /\ p = "reset" => ~act[p].spoke
<1> USE Numbers
<1>1. p \in Procs /\ p \notin Posters /\ act[p] \in Acts /\ Local(p)
  BY ActsTyped DEF Formed, Shape, Finishers
<1>2. CASE p = "turn"
  BY <1>1, <1>2, TurnBound DEF T, TurnShape, On
<1>3. CASE p = "reset"
  BY <1>1, <1>3 DEF Local, ResetShape, Bound, Formed, Shape, Referred, On
<1> QED
  BY <1>1, <1>2, <1>3 DEF Finishers

\* A finisher goes on with its round.
LEMMA FinisherMoves ==
  ASSUME Formed, NEW p \in Finishers, act[p].at \in {"finish", "advance", "reroute"},
         ActsOk', \A q \in Procs : q # p => act'[q] = act[q],
         NEW x, act'[p] = x, x.at \in {"advance", "reroute", "create", "post", "file"},
         x.round = act[p].round, x.agent = act[p].agent, x.kind = act[p].kind,
         x.spoke = act[p].spoke, x.at \in {"reroute", "post"} => x.spoke,
         x.at = "create" => x.index > 1, x.at \notin {"post", "file"} => x.emits = {},
         x.at = "reroute" => round[act[p].round].mode = "rounds",
         \A w \in x.emits : w.round = act[p].round,
         \A r \in Ids : /\ Opened(r)' <=> Opened(r)
                        /\ round'[r].index = round[r].index /\ round'[r].mode = round[r].mode,
         wakes' = wakes, said' = said,
         \A r \in Ids, a \in Agents : seat[r][a] = "none" => r = act[p].round \/ seat'[r][a] = "none"
  PROVE  Moves({p})
<1> USE Numbers
<1>1. p \in Procs /\ p \notin Posters /\ act[p].round \in Ids /\ act[p].agent \in Agents
      /\ Opened(act[p].round) /\ On(p, act[p].round) /\ Local(p)
      /\ (p = "reset" => ~act[p].spoke) /\ Bound(p)
  BY FinisherBound DEF Finishers, Local, TurnShape, ResetShape, T
<1>2. x.index > 1 => x.index > 0
  <2>1. x \in Acts
    BY <1>1 DEF ActsOk
  <2>2. x.index \in 0 .. Cap
    BY <2>1 DEF Acts
  <2> QED
    BY <2>2
<1>3. p = "turn" => TurnShape'
  BY <1>1 DEF TurnShape, T, Bound
<1>4. p = "reset" => ResetShape'
  BY <1>1 DEF ResetShape, Bound
<1>5. x.at = "reroute" => round'[x.round].mode = "rounds"
  <2>1. round'[act[p].round].mode = round[act[p].round].mode
    BY <1>1, Zenon
  <2> QED
    BY <2>1
<1>6. Local(p)' /\ x.at # "install"
  BY <1>1, <1>2, <1>3, <1>4, <1>5 DEF Local
<1>7. \A r \in Ids : /\ Waits(r)' <=> Waits(r)
                     /\ Holds(p, r)' => On(p, r)
  BY DEF Waits, Holds, On, Mails, Installs
<1> QED
  BY <1>1, <1>6, <1>7 DEF Moves, Holds

\* What finalize_shared_response does to the seats: the own seat closes, and one
\* that is queued is promoted when nobody responds.
Closing(p) == IF act[p].spoke THEN "responded" ELSE "observed"
Promoted(p, a) ==
  seat' = [[seat EXCEPT ![act[p].round][act[p].agent] = Closing(p)] EXCEPT ![act[p].round][a] = "responding"]
NobodyPromoted(p) == seat' = [seat EXCEPT ![act[p].round][act[p].agent] = Closing(p)]

LEMMA FinalizeCases ==
  ASSUME Formed, NEW p \in Finishers, finalize_channel_response(p)
  PROVE  LET r == act[p].round
             own == act[p].agent
         IN /\ round' = maybe_complete_round(seat', {r})
            /\ \/ \E a \in Agents :
                    /\ a # own /\ seat[r][a] = "queued" /\ Promoted(p, a)
                    /\ \A b \in Agents : b # own => seat[r][b] # "responding"
                    /\ \/ /\ round[r].mode = "rounds"
                          /\ act' = [act EXCEPT ![p].at = "advance"]
                       \/ /\ round[r].mode # "rounds"
                          /\ act' = [act EXCEPT ![p].at = Ends(p),
                                                ![p].emits = {WakeOf(a, r, "response")}]
               \/ /\ NobodyPromoted(p)
                  /\ \/ \E b \in Agents : b # own /\ seat[r][b] = "responding"
                     \/ \A b \in Agents : b # own => seat[r][b] # "queued"
                  /\ Goes(p, "advance")
<1> DEFINE r == act[p].round
           own == act[p].agent
           marked == [seat EXCEPT ![r][own] = Closing(p)]
           queued == {a \in Agents : marked[r][a] = "queued"}
           next == IF \E a \in Agents : marked[r][a] = "responding" THEN {} ELSE queued
<1>1. r \in Ids /\ own \in Agents /\ SeatsOk
  BY FinisherBound, TypeParts DEF finalize_channel_response, Formed, TypesOk
<1>2. /\ round' = maybe_complete_round(seat', {r})
      /\ \/ \E a \in next :
              /\ seat' = [marked EXCEPT ![r][a] = "responding"]
              /\ act' = IF round[r].mode = "rounds"
                        THEN [act EXCEPT ![p].at = "advance"]
                        ELSE [act EXCEPT ![p].at = Ends(p), ![p].emits = {WakeOf(a, r, "response")}]
         \/ next = {} /\ seat' = marked /\ Goes(p, "advance")
  BY Zenon DEF finalize_channel_response, Closing
<1>3. /\ marked[r][own] = Closing(p)
      /\ \A b \in Agents : b # own => marked[r][b] = seat[r][b]
  BY <1>1 DEF SeatsOk
<1>4. Closing(p) \notin {"queued", "responding"}
  BY DEF Closing
<1> HIDE DEF marked
<1>5. \A a \in next : /\ a \in Agents /\ a # own /\ seat[r][a] = "queued"
                      /\ \A b \in Agents : b # own => seat[r][b] # "responding"
  BY <1>3, <1>4
<1>6. next = {} => \/ \E b \in Agents : b # own /\ seat[r][b] = "responding"
                   \/ \A b \in Agents : b # own => seat[r][b] # "queued"
  BY <1>3, <1>4
<1> HIDE DEF next
<1>7. CASE \E a \in next :
              /\ seat' = [marked EXCEPT ![r][a] = "responding"]
              /\ act' = IF round[r].mode = "rounds"
                        THEN [act EXCEPT ![p].at = "advance"]
                        ELSE [act EXCEPT ![p].at = Ends(p), ![p].emits = {WakeOf(a, r, "response")}]
  <2>1. PICK a \in next :
              /\ seat' = [marked EXCEPT ![r][a] = "responding"]
              /\ act' = IF round[r].mode = "rounds"
                        THEN [act EXCEPT ![p].at = "advance"]
                        ELSE [act EXCEPT ![p].at = Ends(p), ![p].emits = {WakeOf(a, r, "response")}]
    BY <1>7, Zenon
  <2>2. Promoted(p, a)
    BY <2>1 DEF Promoted, marked
  <2> QED
    BY <1>2, <1>5, <2>1, <2>2, Zenon
<1>8. CASE next = {} /\ seat' = marked /\ Goes(p, "advance")
  <2>1. NobodyPromoted(p)
    BY <1>8 DEF NobodyPromoted, marked
  <2> QED
    BY <1>2, <1>6, <1>8, <2>1
<1> QED
  BY <1>2, <1>7, <1>8, Zenon

LEMMA FinalizeRows ==
  ASSUME Formed, NEW p \in Finishers, finalize_channel_response(p)
  PROVE  /\ RoundsOk' /\ SeatsOk'
         /\ \A q \in Ids : q # act[p].round => seat'[q] = seat[q] /\ round'[q] = round[q]
         /\ \A q \in Ids : /\ Opened(q)' <=> Opened(q)
                           /\ round'[q].index = round[q].index /\ round'[q].mode = round[q].mode
         /\ IF \A b \in Agents : seat'[act[p].round][b] \notin OpenSeat
            THEN round'[act[p].round].status = "completed"
            ELSE round'[act[p].round] = round[act[p].round]
         /\ seat'[act[p].round][act[p].agent] = Closing(p)
         /\ \A a \in Agents : a # act[p].agent /\ ~Promoted(p, a) =>
              seat'[act[p].round][a] = seat[act[p].round][a]
<1> DEFINE r == act[p].round
           own == act[p].agent
           marked == [seat EXCEPT ![r][own] = Closing(p)]
<1>1. r \in Ids /\ own \in Agents /\ SeatsOk /\ Opened(r) /\ TypeOK
  BY FinisherBound, TypeParts DEF finalize_channel_response, Formed, TypesOk
<1>2. /\ marked \in [Ids -> [Agents -> Statuses]] /\ marked[r][own] = Closing(p)
      /\ \A q \in Ids : q # r => marked[q] = seat[q]
      /\ \A b \in Agents : b # own => marked[r][b] = seat[r][b]
  BY <1>1 DEF SeatsOk, Statuses, Closing
<1>3. \/ \E a \in Agents : a # own /\ Promoted(p, a)
      \/ seat' = marked
  BY FinalizeCases, Zenon DEF NobodyPromoted
<1> HIDE DEF marked
<1>4. /\ SeatsOk' /\ seat'[r][own] = Closing(p)
      /\ \A q \in Ids : q # r => seat'[q] = seat[q]
      /\ \A a \in Agents : a # own /\ ~Promoted(p, a) => seat'[r][a] = seat[r][a]
  <2>1. CASE seat' = marked
    BY <1>2, <2>1 DEF SeatsOk
  <2>2. CASE \E a \in Agents : a # own /\ Promoted(p, a)
    <3>1. PICK a \in Agents : a # own /\ Promoted(p, a)
      BY <2>2
    <3>2. seat' = [marked EXCEPT ![r][a] = "responding"]
      BY <3>1 DEF Promoted, marked
    <3>3. /\ SeatsOk' /\ \A b \in Agents : b # a => seat'[r][b] = marked[r][b]
          /\ \A q \in Ids : q # r => seat'[q] = seat[q]
      BY <1>1, <1>2, <3>2 DEF SeatsOk, Statuses, OpenSeat
    <3> QED
      BY <1>1, <1>2, <3>1, <3>3
  <2> QED
    BY <1>3, <2>1, <2>2
<1>5. round' = maybe_complete_round(seat', {r}) /\ {r} \in SUBSET Ids /\ \A q \in {r} : Opened(q)
  BY <1>1, FinalizeCases, Zenon
<1>6. /\ RoundsOk' /\ \A q \in Ids : q # r => round'[q] = round[q]
      /\ \A q \in Ids : /\ Opened(q)' <=> Opened(q)
                        /\ round'[q].index = round[q].index /\ round'[q].mode = round[q].mode
  BY <1>1, <1>5, CompleteFacts, Zenon DEF RoundsOk
<1>7. IF \A b \in Agents : seat'[r][b] \notin OpenSeat
      THEN round'[r].status = "completed" ELSE round'[r] = round[r]
  BY <1>1, <1>5, CompleteFacts, Zenon
<1> QED
  BY <1>4, <1>6, <1>7

LEMMA FinalizeTypes ==
  ASSUME Formed, NEW p \in Finishers, finalize_channel_response(p)
  PROVE  TypeOK' /\ Shape' /\ Moves({p})
<1> USE Numbers
<1> DEFINE r == act[p].round
<1>1. /\ p \in Procs /\ act[p] \in Acts /\ r \in Ids /\ act[p].emits = {} /\ act[p].at = "finish"
      /\ TypeOK /\ TypesOk
  BY FinisherBound, TypeParts DEF finalize_channel_response, Formed
<1>2. PICK x \in Acts :
        /\ act' = [act EXCEPT ![p] = x] /\ x.at \in {"advance", "post", "file"}
        /\ x.round = r /\ x.agent = act[p].agent /\ x.kind = act[p].kind /\ x.spoke = act[p].spoke
        /\ (x.at = "post" => x.spoke) /\ (x.at = "advance" => x.emits = {})
        /\ \A w \in x.emits : w.round = r
  <2>1. CASE act' = [act EXCEPT ![p].at = "advance"]
    <3> DEFINE x == [act[p] EXCEPT !.at = "advance"]
    <3>1. act' = [act EXCEPT ![p] = x]
      BY <2>1
    <3>2. x \in Acts /\ x.at = "advance"
        /\ x.round = r /\ x.agent = act[p].agent /\ x.kind = act[p].kind /\ x.spoke = act[p].spoke
        /\ x.emits = {}
      BY <1>1 DEF Acts
    <3> QED
      BY <3>1, <3>2, Zenon
  <2>2. CASE \E a \in Agents : act' = [act EXCEPT ![p].at = Ends(p),
                                                  ![p].emits = {WakeOf(a, r, "response")}]
    <3>1. PICK a \in Agents : act' = [act EXCEPT ![p].at = Ends(p),
                                                 ![p].emits = {WakeOf(a, r, "response")}]
      BY <2>2, Zenon
    <3> DEFINE w == WakeOf(a, r, "response")
               x == [act[p] EXCEPT !.at = Ends(p), !.emits = {w}]
    <3>2. w \in Wake /\ w.round = r
      BY <1>1 DEF Wake, WakeOf
    <3> HIDE DEF w
    <3>3. Ends(p) \in {"post", "file"} /\ (Ends(p) = "post" => act[p].spoke)
      BY DEF Ends
    <3>4. x \in Acts /\ x.at = Ends(p)
        /\ x.round = r /\ x.agent = act[p].agent /\ x.kind = act[p].kind /\ x.spoke = act[p].spoke
        /\ x.emits = {w}
      BY <1>1, <3>2, <3>3, Zenon DEF Acts
    <3>5. act' = [act EXCEPT ![p] = x]
      BY <3>1, <1>1, Zenon DEF TypesOk, ActsOk, w
    <3> QED
      BY <3>2, <3>3, <3>4, <3>5, Zenon
  <2> QED
    BY <2>1, <2>2, FinalizeCases, Zenon DEF Goes
<1>3. ActsOk' /\ act'[p] = x /\ \A q \in Procs : q # p => act'[q] = act[q]
  BY <1>1, <1>2, Becomes, Zenon
<1>4. RoundsOk' /\ SeatsOk'
  BY FinalizeRows
<1>5. TypeOK'
  BY <1>1, <1>3, <1>4, TypeParts DEF finalize_channel_response, TypesOk, BossOk, HistoryOk, boss
<1>6. /\ \A q \in Ids : /\ Opened(q)' <=> Opened(q)
                        /\ round'[q].index = round[q].index /\ round'[q].mode = round[q].mode
      /\ \A q \in Ids : q # r => seat'[q] = seat[q]
  BY FinalizeRows
<1>7. wakes' = wakes /\ said' = said
  BY DEF finalize_channel_response
<1>8. Moves({p})
  BY <1>1, <1>2, <1>3, <1>6, <1>7, FinisherMoves
<1> QED
  BY <1>1, <1>5, <1>8, ShapeStep

\* The follow-up round is asked for, or the turn ends.
LEMMA FollowUp ==
  ASSUME Formed, NEW p \in Finishers, act[p].at \in {"advance", "reroute"}, _open_follow_up_round(p)
  PROVE  \E x \in Acts :
           /\ act' = [act EXCEPT ![p] = x] /\ x.at \in {"create", "post", "file"}
           /\ x.round = act[p].round /\ x.agent = act[p].agent /\ x.kind = act[p].kind
           /\ x.spoke = act[p].spoke /\ x.emits = {}
           /\ (x.at = "post" => x.spoke) /\ (x.at = "file" => ~x.spoke) /\ (x.at = "create" => x.index > 1)
<1> USE Numbers
<1> DEFINE r == act[p].round
           index == round[r].index + 1
<1>1. /\ p \in Procs /\ act[p] \in Acts /\ r \in Ids /\ act[p].emits = {} /\ TypeOK /\ TypesOk
      /\ Opened(r)
  BY FinisherBound, TypeParts DEF Formed
<1>2. round[r].index \in 0 .. Cap /\ round[r].index > 0
  BY <1>1, Zenon DEF Formed, Shape, RowsOk, TypesOk, RoundsOk
<1>3. CASE act' = [act EXCEPT ![p].at = "create", ![p].index = index, ![p].rest = {}] /\ index <= Cap
  <2> DEFINE x == [act[p] EXCEPT !.at = "create", !.index = index, !.rest = {}]
  <2>1. index \in 0 .. Cap /\ index > 1
    BY <1>2, <1>3
  <2> HIDE DEF index
  <2>2. x \in Acts /\ x.at = "create"
        /\ x.round = r /\ x.agent = act[p].agent /\ x.kind = act[p].kind /\ x.spoke = act[p].spoke
        /\ x.emits = {} /\ x.index > 1
    BY <1>1, <2>1, Zenon DEF Acts
  <2>3. act' = [act EXCEPT ![p] = x]
    BY <1>1, <1>3, Zenon DEF TypesOk, ActsOk
  <2> QED
    BY <2>2, <2>3, Zenon
<1>4. CASE act' = [act EXCEPT ![p].at = Ends(p), ![p].rest = {}]
  <2> DEFINE x == [act[p] EXCEPT !.at = Ends(p), !.rest = {}]
  <2>1. Ends(p) \in {"post", "file"} /\ (Ends(p) = "post" <=> act[p].spoke)
    BY <1>1 DEF Ends, Acts
  <2>2. x \in Acts /\ x.at = Ends(p)
        /\ x.round = r /\ x.agent = act[p].agent /\ x.kind = act[p].kind /\ x.spoke = act[p].spoke
        /\ x.emits = {}
    BY <1>1, <2>1, Zenon DEF Acts
  <2>3. act' = [act EXCEPT ![p] = x]
    BY <1>1, <1>4, Zenon DEF TypesOk, ActsOk
  <2> QED
    BY <2>1, <2>2, <2>3, Zenon
<1> QED
  BY <1>3, <1>4, Zenon DEF _open_follow_up_round

\* A finisher keeps its seat, and a turn that spoke has its line to post.
Onward(p, x) ==
  /\ x \in Acts /\ act' = [act EXCEPT ![p] = x]
  /\ x.round = act[p].round /\ x.agent = act[p].agent /\ x.kind = act[p].kind
  /\ x.spoke = act[p].spoke
  /\ (x.at \in {"post", "reroute"} => x.spoke) /\ (x.at = "file" => ~x.spoke)
  /\ (x.at = "create" => x.index > 1)

LEMMA AdvanceCases ==
  ASSUME Formed, NEW p \in Finishers, advance_channel_round(p)
  PROVE  LET r == act[p].round
             stops == Stale(act[p].tip) \/ paused
         IN \E x : /\ Onward(p, x)
                   /\ \/ /\ round[r].mode = "fanout" /\ UNCHANGED <<round, seat, halted>>
                         /\ x.at \in {"create", "post", "file"} /\ x.emits = {}
                      \/ /\ round[r].mode = "rounds" /\ (stops \/ In(r, {"queued", "responding"}) # {})
                         /\ UNCHANGED seat
                         /\ round' = maybe_complete_round(seat, {r}) \/ round' = round
                         /\ halted' = IF stops THEN halted \cup Halts(r) ELSE halted
                         /\ x.at \in {"post", "file"} /\ x.emits = {}
                      \/ /\ round[r].mode = "rounds" /\ ~stops /\ In(r, {"queued", "responding"}) = {}
                         /\ UNCHANGED halted
                         /\ \/ \E a \in Agents :
                                 /\ seat[r][a] = "pending" /\ seat' = [seat EXCEPT ![r][a] = "queued"]
                                 /\ UNCHANGED round
                                 /\ x.at \in {"post", "file"} /\ x.emits = {WakeOf(a, r, "message")}
                            \/ /\ In(r, {"pending"}) # {} /\ x.at = "reroute"
                               /\ x.rest = In(r, {"pending"}) /\ x.emits = {}
                               /\ UNCHANGED <<round, seat>>
                            \/ /\ In(r, {"pending"}) = {}
                               /\ round' = maybe_complete_round(seat, {r})
                               /\ UNCHANGED seat
                               /\ x.at \in {"create", "post", "file"} /\ x.emits = {}
<1> USE Numbers
<1> DEFINE r == act[p].round
           stops == Stale(act[p].tip) \/ paused
           pending == In(r, {"pending"})
           E == [act[p] EXCEPT !.at = Ends(p)]
<1>1. /\ p \in Procs /\ act[p] \in Acts /\ r \in Ids /\ act[p].emits = {} /\ act[p].at = "advance"
      /\ TypeOK /\ TypesOk
  BY FinisherBound, TypeParts DEF advance_channel_round, Formed
<1>2. Ends(p) \in {"post", "file"} /\ (Ends(p) = "post" <=> act[p].spoke)
  BY <1>1 DEF Ends, Acts
<1>3. /\ E \in Acts /\ E.at = Ends(p) /\ E.emits = {} /\ E.round = r /\ E.agent = act[p].agent
      /\ E.kind = act[p].kind /\ E.spoke = act[p].spoke
  BY <1>1, <1>2 DEF Acts
<1> HIDE DEF E
<1>4. Goes(p, Ends(p)) => Onward(p, E) /\ E.at \in {"post", "file"} /\ E.emits = {}
  BY <1>2, <1>3 DEF Goes, Onward, E
<1>5. ASSUME _open_follow_up_round(p)
      PROVE  \E x : Onward(p, x) /\ x.at \in {"create", "post", "file"} /\ x.emits = {}
  <2>1. PICK x \in Acts :
           /\ act' = [act EXCEPT ![p] = x] /\ x.at \in {"create", "post", "file"}
           /\ x.round = act[p].round /\ x.agent = act[p].agent /\ x.kind = act[p].kind
           /\ x.spoke = act[p].spoke /\ x.emits = {}
           /\ (x.at = "post" => x.spoke) /\ (x.at = "file" => ~x.spoke) /\ (x.at = "create" => x.index > 1)
    BY <1>1, <1>5, FollowUp
  <2>2. Onward(p, x)
    BY <2>1 DEF Onward
  <2> QED
    BY <2>1, <2>2
<1>6. CASE /\ round[r].mode = "fanout" /\ UNCHANGED <<round, seat, halted>>
           /\ _open_follow_up_round(p) \/ Goes(p, Ends(p))
  <2>1. \E x : Onward(p, x) /\ x.at \in {"create", "post", "file"} /\ x.emits = {}
    BY <1>4, <1>5, <1>6
  <2> QED
    BY <1>6, <2>1
<1>7. CASE /\ round[r].mode = "rounds" /\ (stops \/ In(r, {"queued", "responding"}) # {})
           /\ round' = maybe_complete_round(seat, {r}) \/ round' = round
           /\ Goes(p, Ends(p)) /\ UNCHANGED seat
           /\ halted' = IF stops THEN halted \cup Halts(r) ELSE halted
  BY <1>4, <1>7
<1>8. CASE /\ round[r].mode = "rounds" /\ ~stops /\ In(r, {"queued", "responding"}) = {}
           /\ UNCHANGED <<halted, round>>
           /\ \E a \in pending :
                /\ seat' = [seat EXCEPT ![r][a] = "queued"]
                /\ act' = [act EXCEPT ![p].at = Ends(p), ![p].emits = {WakeOf(a, r, "message")}]
  <2>1. PICK a \in pending :
                /\ seat' = [seat EXCEPT ![r][a] = "queued"]
                /\ act' = [act EXCEPT ![p].at = Ends(p), ![p].emits = {WakeOf(a, r, "message")}]
    BY <1>8, Zenon
  <2> DEFINE w == WakeOf(a, r, "message")
             x == [act[p] EXCEPT !.at = Ends(p), !.emits = {w}]
  <2>2. a \in Agents /\ seat[r][a] = "pending"
    BY <2>1 DEF In
  <2>3. w \in Wake
    BY <1>1, <2>2 DEF Wake, WakeOf
  <2>4. act' = [act EXCEPT ![p] = x]
    BY <1>1, <2>1, Zenon DEF TypesOk, ActsOk
  <2> HIDE DEF w
  <2>5. /\ x \in Acts /\ x.at = Ends(p) /\ x.emits = {w} /\ x.round = r /\ x.agent = act[p].agent
        /\ x.kind = act[p].kind /\ x.spoke = act[p].spoke
    BY <1>1, <1>2, <2>3, Zenon DEF Acts
  <2>6. Onward(p, x) /\ x.at \in {"post", "file"} /\ x.emits = {WakeOf(a, r, "message")}
    BY <1>2, <2>4, <2>5 DEF Onward, w
  <2> QED
    BY <1>8, <2>1, <2>2, <2>6, Zenon
<1>9. CASE /\ round[r].mode = "rounds" /\ ~stops /\ In(r, {"queued", "responding"}) = {}
           /\ UNCHANGED <<halted, round, seat>> /\ pending # {} /\ act[p].spoke
           /\ act' = [act EXCEPT ![p].at = "reroute", ![p].rest = pending]
  <2> DEFINE x == [act[p] EXCEPT !.at = "reroute", !.rest = pending]
  <2>1. pending \in SUBSET Agents
    BY DEF In
  <2>2. act' = [act EXCEPT ![p] = x]
    BY <1>1, <1>9, Zenon DEF TypesOk, ActsOk
  <2>3. /\ x \in Acts /\ x.at = "reroute" /\ x.emits = {} /\ x.round = r /\ x.agent = act[p].agent
        /\ x.kind = act[p].kind /\ x.spoke = act[p].spoke /\ x.rest = pending
    BY <1>1, <2>1, Zenon DEF Acts
  <2>4. Onward(p, x)
    BY <1>9, <2>2, <2>3, Zenon DEF Onward
  <2> QED
    BY <1>9, <2>3, <2>4, Zenon
<1>10. CASE /\ round[r].mode = "rounds" /\ ~stops /\ In(r, {"queued", "responding"}) = {}
            /\ UNCHANGED <<halted, seat>> /\ pending = {}
            /\ round' = maybe_complete_round(seat, {r}) /\ _open_follow_up_round(p)
  <2>1. PICK x : Onward(p, x) /\ x.at \in {"create", "post", "file"} /\ x.emits = {}
    BY <1>5, <1>10
  <2> QED
    BY <1>10, <2>1
<1>11. \/ /\ round[r].mode = "fanout" /\ UNCHANGED <<round, seat, halted>>
          /\ _open_follow_up_round(p) \/ Goes(p, Ends(p))
       \/ /\ round[r].mode = "rounds" /\ (stops \/ In(r, {"queued", "responding"}) # {})
          /\ round' = maybe_complete_round(seat, {r}) \/ round' = round
          /\ Goes(p, Ends(p)) /\ UNCHANGED seat
          /\ halted' = IF stops THEN halted \cup Halts(r) ELSE halted
       \/ /\ round[r].mode = "rounds" /\ ~stops /\ In(r, {"queued", "responding"}) = {}
          /\ UNCHANGED halted
          /\ \/ \E a \in pending :
                  /\ seat' = [seat EXCEPT ![r][a] = "queued"]
                  /\ act' = [act EXCEPT ![p].at = Ends(p), ![p].emits = {WakeOf(a, r, "message")}]
                  /\ UNCHANGED round
             \/ /\ UNCHANGED <<round, seat>> /\ pending # {} /\ act[p].spoke
                /\ act' = [act EXCEPT ![p].at = "reroute", ![p].rest = pending]
             \/ /\ UNCHANGED seat /\ pending = {}
                /\ round' = maybe_complete_round(seat, {r}) /\ _open_follow_up_round(p)
  BY Zenon DEF advance_channel_round
<1> HIDE DEF stops, pending, r
<1> QED
  BY <1>6, <1>7, <1>8, <1>9, <1>10, <1>11, Zenon

\* A finisher goes on, and the types and the shape with it.
LEMMA OnwardTypes ==
  ASSUME Formed, NEW p \in Finishers, act[p].at \in {"finish", "advance", "reroute"},
         NEW x, Onward(p, x), x.at \in {"advance", "reroute", "create", "post", "file"},
         x.at \notin {"post", "file"} => x.emits = {},
         x.at = "reroute" => round[act[p].round].mode = "rounds",
         \A w \in x.emits : w.round = act[p].round,
         UNCHANGED <<boss, incidents, wakes, said>>, halted' \subseteq Ids, RoundsOk', SeatsOk',
         \A q \in Ids : /\ Opened(q)' <=> Opened(q)
                        /\ round'[q].index = round[q].index /\ round'[q].mode = round[q].mode,
         \A q \in Ids : q # act[p].round => seat'[q] = seat[q]
  PROVE  TypeOK' /\ Shape' /\ Moves({p}) /\ ActsOk' /\ act'[p] = x
         /\ \A q \in Procs : q # p => act'[q] = act[q]
<1>1. p \in Procs /\ TypeOK /\ TypesOk
  BY FinisherBound, TypeParts DEF Formed
<1>2. x \in Acts /\ act' = [act EXCEPT ![p] = x] /\ x.at # "idle"
  BY DEF Onward
<1>3. ActsOk' /\ act'[p] = x /\ \A q \in Procs : q # p => act'[q] = act[q]
  BY <1>1, <1>2, Becomes, Zenon
<1>4. TypeOK'
  BY <1>1, <1>3, TypeParts DEF TypesOk, BossOk, HistoryOk, boss
<1>5. Moves({p})
  BY <1>1, <1>3, FinisherMoves DEF Onward
<1> QED
  BY <1>1, <1>3, <1>4, <1>5, ShapeStep

LEMMA AdvanceTypes ==
  ASSUME Formed, NEW p \in Finishers, advance_channel_round(p)
  PROVE  TypeOK' /\ Shape' /\ Moves({p})
<1> DEFINE r == act[p].round
           stops == Stale(act[p].tip) \/ paused
<1>1. /\ r \in Ids /\ act[p].at = "advance" /\ TypeOK /\ TypesOk /\ Opened(r)
  BY FinisherBound, TypeParts DEF advance_channel_round, Formed
<1>2. PICK x : /\ Onward(p, x) /\ x.at \in {"create", "reroute", "post", "file"}
               /\ x.at \notin {"post", "file"} => x.emits = {}
               /\ x.at = "reroute" => round[r].mode = "rounds"
               /\ x.emits = {} \/ \E a \in Agents : x.emits = {WakeOf(a, r, "message")}
               /\ halted' \subseteq halted \cup Halts(r)
               /\ round' = round \/ round' = maybe_complete_round(seat, {r})
               /\ seat' = seat \/ \E a \in Agents : seat' = [seat EXCEPT ![r][a] = "queued"]
  BY AdvanceCases, Zenon
<1>3. \A w \in x.emits : w.round = r
  BY <1>2 DEF WakeOf
<1>4. RoundsOk' /\ \A q \in Ids : /\ Opened(q)' <=> Opened(q)
                        /\ round'[q].index = round[q].index /\ round'[q].mode = round[q].mode
  <2>1. CASE round' = round
    BY <1>1, <2>1 DEF TypesOk, RoundsOk, Opened
  <2>2. CASE round' = maybe_complete_round(seat, {r})
    <3>1. {r} \in SUBSET Ids /\ \A q \in {r} : Opened(q)
      BY <1>1
    <3> QED
      BY <1>1, <2>2, <3>1, CompleteFacts, Zenon DEF RoundsOk
  <2> QED
    BY <1>2, <2>1, <2>2
<1>5. SeatsOk' /\ \A q \in Ids : q # r => seat'[q] = seat[q]
  <2>1. CASE seat' = seat
    BY <1>1, <2>1 DEF TypesOk, SeatsOk
  <2>2. CASE \E a \in Agents : seat' = [seat EXCEPT ![r][a] = "queued"]
    BY <1>1, <2>2, OneSeat, ZenonT(40) DEF TypesOk, Statuses, OpenSeat
  <2> QED
    BY <1>2, <2>1, <2>2
<1>6. UNCHANGED <<boss, incidents, wakes, said>> /\ halted' \subseteq Ids
  BY <1>1, <1>2 DEF advance_channel_round, Halts, TypesOk, HistoryOk
<1> QED
  BY <1>1, <1>2, <1>3, <1>4, <1>5, <1>6, OnwardTypes

\* A re-route queues one seat, of those it may ask again, or leaves nobody pending.
Requeues(p, x, row) ==
  LET r == act[p].round
      rest == act[p].rest
  IN /\ UNCHANGED round /\ x.at = "post"
     /\ \E a \in Agents :
          /\ row[a] = "queued" /\ (a \in eligible(r, rest) \/ seat[r][a] = "pending")
          /\ x.emits = {WakeOf(a, r, "message")}
          /\ \/ \A b \in Agents : b # a => row[b] = seat[r][b]
             \/ \E speak \in SUBSET eligible(r, rest) :
                  \A b \in Agents : b # a =>
                    row[b] = IF b \in speak THEN "pending"
                             ELSE IF b \in rest THEN "observed" ELSE seat[r][b]
NobodyLeft(p, x, row) ==
  /\ round' = maybe_complete_round(seat', {act[p].round})
  /\ \A b \in Agents : /\ row[b] # "pending"
                       /\ row[b] = IF b \in act[p].rest THEN "observed" ELSE seat[act[p].round][b]
  /\ x.at \in {"create", "post"} /\ x.emits = {}

LEMMA RedecideCases ==
  ASSUME Formed, NEW p \in Finishers, _redecide_remaining(p)
  PROVE  \E x, row : /\ Onward(p, x) /\ row \in [Agents -> Statuses]
                     /\ seat' = [seat EXCEPT ![act[p].round] = row]
                     /\ Requeues(p, x, row) \/ NobodyLeft(p, x, row)
<1> USE Numbers
<1> DEFINE r == act[p].round
           rest == act[p].rest
           Queues(rows, a) ==
             /\ seat' = [rows EXCEPT ![r][a] = "queued"]
             /\ act' = [act EXCEPT ![p].at = Ends(p), ![p].rest = {},
                                   ![p].emits = {WakeOf(a, r, "message")}]
             /\ UNCHANGED round
           Asked(speak) == [a \in Agents |->
                              IF a \in speak THEN "pending"
                              ELSE IF a \in rest THEN "observed" ELSE seat[r][a]]
<1>1. /\ p \in Procs /\ act[p] \in Acts /\ r \in Ids /\ act[p].emits = {} /\ act[p].at = "reroute"
      /\ act[p].spoke /\ TypeOK /\ TypesOk /\ rest \subseteq Agents
  BY FinisherBound, TypeParts DEF _redecide_remaining, Formed, Acts
<1>2. Ends(p) = "post" /\ seat[r] \in [Agents -> Statuses]
  BY <1>1, Zenon DEF Ends, TypesOk, SeatsOk
<1>3. ASSUME NEW a \in Agents, NEW rows, Queues(rows, a)
      PROVE  \E x : Onward(p, x) /\ x.at = "post" /\ x.emits = {WakeOf(a, r, "message")}
  <2> DEFINE w == WakeOf(a, r, "message")
             x == [act[p] EXCEPT !.at = "post", !.rest = {}, !.emits = {w}]
  <2>1. w \in Wake
    BY <1>1 DEF Wake, WakeOf
  <2>2. act' = [act EXCEPT ![p] = x]
    BY <1>1, <1>2, <1>3, Zenon DEF TypesOk, ActsOk
  <2> HIDE DEF w
  <2>3. /\ x \in Acts /\ x.at = "post" /\ x.emits = {w} /\ x.round = r /\ x.agent = act[p].agent
        /\ x.kind = act[p].kind /\ x.spoke = act[p].spoke
    BY <1>1, <2>1, Zenon DEF Acts
  <2>4. Onward(p, x)
    BY <1>1, <2>2, <2>3, Zenon DEF Onward
  <2> QED
    BY <2>3, <2>4, Zenon DEF w
<1>4. eligible(r, rest) \subseteq Agents /\ \A speak \in SUBSET eligible(r, rest) : Asked(speak) \in [Agents -> Statuses]
  BY <1>1, <1>2 DEF eligible, In, Statuses, OpenSeat
<1>5. CASE \E a \in rest : Queues(seat, a)
  <2>1. PICK a \in rest : Queues(seat, a)
    BY <1>5, Zenon
  <2>2. PICK x : Onward(p, x) /\ x.at = "post" /\ x.emits = {WakeOf(a, r, "message")}
    BY <1>1, <1>3, <2>1, Zenon
  <2> DEFINE row == [seat[r] EXCEPT ![a] = "queued"]
  <2>3. /\ row \in [Agents -> Statuses] /\ row[a] = "queued"
        /\ \A b \in Agents : b # a => row[b] = seat[r][b]
    BY <1>1, <1>2, <2>1 DEF Statuses, OpenSeat
  <2>4. seat' = [seat EXCEPT ![r] = row]
    BY <2>1
  <2>5. a \in eligible(r, rest) /\ a \in Agents /\ UNCHANGED round
    BY <1>1, <2>1 DEF eligible
  <2> HIDE DEF row
  <2>6. Requeues(p, x, row)
    BY <2>2, <2>3, <2>5 DEF Requeues
  <2> QED
    BY <2>2, <2>3, <2>4, <2>6, Zenon
<1>6. CASE \E speak \in SUBSET eligible(r, rest) :
             \/ \E a \in Agents : Asked(speak)[a] = "pending" /\ Queues([seat EXCEPT ![r] = Asked(speak)], a)
             \/ /\ \A a \in Agents : Asked(speak)[a] # "pending"
                /\ seat' = [seat EXCEPT ![r] = Asked(speak)]
                /\ round' = maybe_complete_round(seat', {r})
                /\ _open_follow_up_round(p)
  <2>1. PICK speak \in SUBSET eligible(r, rest) :
             \/ \E a \in Agents : Asked(speak)[a] = "pending" /\ Queues([seat EXCEPT ![r] = Asked(speak)], a)
             \/ /\ \A a \in Agents : Asked(speak)[a] # "pending"
                /\ seat' = [seat EXCEPT ![r] = Asked(speak)]
                /\ round' = maybe_complete_round(seat', {r})
                /\ _open_follow_up_round(p)
    BY <1>6, Zenon
  <2>2. CASE \E a \in Agents : Asked(speak)[a] = "pending" /\ Queues([seat EXCEPT ![r] = Asked(speak)], a)
    <3>1. PICK a \in Agents : Asked(speak)[a] = "pending" /\ Queues([seat EXCEPT ![r] = Asked(speak)], a)
      BY <2>2, Zenon
    <3>2. PICK x : Onward(p, x) /\ x.at = "post" /\ x.emits = {WakeOf(a, r, "message")}
      BY <1>3, <3>1, Zenon
    <3> DEFINE row == [Asked(speak) EXCEPT ![a] = "queued"]
    <3>3. /\ row \in [Agents -> Statuses] /\ row[a] = "queued"
          /\ \A b \in Agents : b # a => row[b] = IF b \in speak THEN "pending"
                                            ELSE IF b \in rest THEN "observed" ELSE seat[r][b]
      BY <1>4, <2>1 DEF Statuses, OpenSeat
    <3>4. seat' = [seat EXCEPT ![r] = row]
      BY <1>1, <3>1 DEF TypesOk, SeatsOk
    <3>5. (a \in eligible(r, rest) \/ seat[r][a] = "pending") /\ UNCHANGED round
      BY <2>1, <3>1, Zenon
    <3> HIDE DEF row
    <3>6. Requeues(p, x, row)
      BY <2>1, <3>2, <3>3, <3>5, SMTT(30) DEF Requeues
    <3> QED
      BY <3>2, <3>3, <3>4, <3>6, Zenon
  <2>3. CASE /\ \A a \in Agents : Asked(speak)[a] # "pending"
             /\ seat' = [seat EXCEPT ![r] = Asked(speak)]
             /\ round' = maybe_complete_round(seat', {r})
             /\ _open_follow_up_round(p)
    <3>1. PICK x \in Acts :
           /\ act' = [act EXCEPT ![p] = x] /\ x.at \in {"create", "post", "file"}
           /\ x.round = act[p].round /\ x.agent = act[p].agent /\ x.kind = act[p].kind
           /\ x.spoke = act[p].spoke /\ x.emits = {}
           /\ (x.at = "post" => x.spoke) /\ (x.at = "file" => ~x.spoke) /\ (x.at = "create" => x.index > 1)
      BY <1>1, <2>3, FollowUp, Zenon
    <3>2. Onward(p, x) /\ x.at \in {"create", "post"}
      BY <1>1, <3>1 DEF Onward
    <3> DEFINE row == Asked(speak)
    <3>3. row \in [Agents -> Statuses] /\ seat' = [seat EXCEPT ![r] = row]
      BY <1>4, <2>1, <2>3
    <3>4. \A b \in Agents : row[b] # "pending" /\ row[b] = IF b \in rest THEN "observed" ELSE seat[r][b]
      BY <2>3
    <3> HIDE DEF row
    <3>5. NobodyLeft(p, x, row)
      BY <2>3, <3>1, <3>2, <3>4 DEF NobodyLeft
    <3> QED
      BY <3>2, <3>3, <3>5, Zenon
  <2> QED
    BY <2>1, <2>2, <2>3, Zenon
<1>7. \/ \E a \in rest : Queues(seat, a)
      \/ \E speak \in SUBSET eligible(r, rest) :
           LET rows == [seat EXCEPT ![r] = Asked(speak)]
               pending == {a \in Agents : rows[r][a] = "pending"}
           IN \/ \E a \in pending : Queues(rows, a)
              \/ /\ pending = {}
                 /\ seat' = rows
                 /\ round' = maybe_complete_round(rows, {r})
                 /\ _open_follow_up_round(p)
  BY Zenon DEF _redecide_remaining
<1>8. \A speak \in SUBSET eligible(r, rest) : [seat EXCEPT ![r] = Asked(speak)][r] = Asked(speak)
  BY <1>1 DEF TypesOk, SeatsOk
<1>9. ASSUME NEW speak \in SUBSET eligible(r, rest),
             LET rows == [seat EXCEPT ![r] = Asked(speak)]
                 pending == {a \in Agents : rows[r][a] = "pending"}
             IN \/ \E a \in pending : Queues(rows, a)
                \/ /\ pending = {}
                   /\ seat' = rows
                   /\ round' = maybe_complete_round(rows, {r})
                   /\ _open_follow_up_round(p)
      PROVE  \/ \E a \in Agents : Asked(speak)[a] = "pending" /\ Queues([seat EXCEPT ![r] = Asked(speak)], a)
             \/ /\ \A a \in Agents : Asked(speak)[a] # "pending"
                /\ seat' = [seat EXCEPT ![r] = Asked(speak)]
                /\ round' = maybe_complete_round(seat', {r})
                /\ _open_follow_up_round(p)
  <2> HIDE DEF Asked, Queues
  <2> QED
    BY <1>8, <1>9, Zenon
<1> HIDE DEF Asked, Queues
<1>10. CASE \E a \in rest : Queues(seat, a)
  BY <1>5, <1>10
<1>11. CASE \E speak \in SUBSET eligible(r, rest) :
           LET rows == [seat EXCEPT ![r] = Asked(speak)]
               pending == {a \in Agents : rows[r][a] = "pending"}
           IN \/ \E a \in pending : Queues(rows, a)
              \/ /\ pending = {}
                 /\ seat' = rows
                 /\ round' = maybe_complete_round(rows, {r})
                 /\ _open_follow_up_round(p)
  BY <1>6, <1>9, <1>11, Zenon
<1> QED
  BY <1>7, <1>10, <1>11

LEMMA RedecideTypes ==
  ASSUME Formed, NEW p \in Finishers, _redecide_remaining(p)
  PROVE  TypeOK' /\ Shape' /\ Moves({p})
<1> DEFINE r == act[p].round
<1>1. /\ r \in Ids /\ act[p].at = "reroute" /\ TypeOK /\ TypesOk /\ Opened(r)
  BY FinisherBound, TypeParts DEF _redecide_remaining, Formed
<1>2. PICK x, row : /\ Onward(p, x) /\ row \in [Agents -> Statuses]
                    /\ seat' = [seat EXCEPT ![act[p].round] = row]
                    /\ Requeues(p, x, row) \/ NobodyLeft(p, x, row)
  BY RedecideCases
<1>3. /\ x.at \in {"create", "post"} /\ (x.at # "post" => x.emits = {})
      /\ \A w \in x.emits : w.round = r
      /\ round' = round \/ round' = maybe_complete_round(seat', {r})
  BY <1>2 DEF Requeues, NobodyLeft, WakeOf
<1>4. RoundsOk' /\ \A q \in Ids : /\ Opened(q)' <=> Opened(q)
                        /\ round'[q].index = round[q].index /\ round'[q].mode = round[q].mode
  <2>1. CASE round' = round
    BY <1>1, <2>1 DEF TypesOk, RoundsOk, Opened
  <2>2. CASE round' = maybe_complete_round(seat', {r})
    <3>1. {r} \in SUBSET Ids /\ \A q \in {r} : Opened(q)
      BY <1>1
    <3> QED
      BY <1>1, <2>2, <3>1, CompleteFacts, Zenon DEF RoundsOk
  <2> QED
    BY <1>3, <2>1, <2>2
<1>5. SeatsOk' /\ \A q \in Ids : q # r => seat'[q] = seat[q]
  BY <1>1, <1>2, OneRow, Zenon DEF TypesOk
<1>6. UNCHANGED <<boss, incidents, wakes, said>> /\ halted' \subseteq Ids
  BY <1>1 DEF _redecide_remaining, TypesOk, HistoryOk
<1> QED
  BY <1>1, <1>2, <1>3, <1>4, <1>5, <1>6, OnwardTypes

-----------------------------------------------------------------------------
(* Rounds are opened and filled, and wakes are filed.                       *)

\* The next round, and no other, is free.
LEMMA NextFree ==
  ASSUME Formed, FreeIds # {}
  PROVE  LET r == MaxRounds + 1 - Cardinality(FreeIds)
         IN r \in Ids /\ ~Opened(r) /\ FreeIds \ {r} = (r + 1) .. MaxRounds
<1> USE Numbers
<1>1. PICK k \in 0 .. MaxRounds : FreeIds = (k + 1) .. MaxRounds
  BY DEF Formed, Shape, Gapless
<1>2. k < MaxRounds /\ k \in Nat /\ k + 1 \in Nat
  BY <1>1
<1>3. Cardinality(FreeIds) = MaxRounds - k
  <2>1. Cardinality((k + 1) .. MaxRounds) = MaxRounds - (k + 1) + 1
    BY <1>2, FS_Interval
  <2> QED
    BY <1>1, <1>2, <2>1
<1>4. MaxRounds + 1 - Cardinality(FreeIds) = k + 1
  BY <1>2, <1>3
<1>5. k + 1 \in Ids /\ k + 1 \in FreeIds
  BY <1>1, <1>2 DEF Ids
<1>6. ~Opened(k + 1)
  BY <1>5 DEF FreeIds, Opened
<1>7. FreeIds \ {k + 1} = (k + 2) .. MaxRounds
  BY <1>1, <1>2
<1> QED
  BY <1>2, <1>4, <1>5, <1>6, <1>7

\* What a process that opens a round holds.
LEMMA CreatorBound ==
  ASSUME Formed, NEW p \in Procs, act[p].at \in {"create", "install"}
  PROVE  /\ act[p] \in Acts /\ Local(p) /\ act[p].index \in 1 .. Cap
         /\ p \in Posters => act[p].index = 1 /\ act[p].round = 0 /\ act[p].emits = {}
         /\ p = "reset" => act[p].index > 1
         /\ act[p].index > 1 => act[p].emits = {}
<1> USE Numbers
<1>1. act[p] \in Acts /\ Local(p)
  BY ActsTyped DEF Formed, Shape
<1>2. act[p].index \in 0 .. Cap /\ act[p].index > 0
  BY <1>1 DEF Local, Acts
<1>3. /\ p \in Posters => act[p].index = 1 /\ act[p].round = 0 /\ act[p].emits = {}
      /\ p = "reset" => act[p].index > 1
      /\ act[p].index > 1 => act[p].emits = {}
  BY <1>1 DEF Local, PosterShape, ResetShape
<1> QED
  BY <1>1, <1>2, <1>3

\* A process that ends its opening has its own seat's line to post, or none.
LEMMA EndsMoves ==
  ASSUME Formed, NEW p \in Procs, act[p].at \in {"create", "install"},
         act'[p].at = IF act[p].index > 1 THEN Ends(p) ELSE "file",
         act'[p].round = act[p].round, act'[p].agent = act[p].agent, act'[p].kind = act[p].kind,
         act'[p].spoke = act[p].spoke
  PROVE  Local(p)' /\ act'[p].at \in {"post", "file"} /\ (act'[p].at = "post" => act[p].spoke)
<1> USE Numbers
<1>1. act'[p].at \in {"post", "file"} /\ (act'[p].at = "post" => act[p].spoke)
  BY DEF Ends
<1>2. Local(p)
  BY DEF Formed, Shape
<1>3. p = "turn" => TurnShape'
  BY <1>1, <1>2 DEF Local, TurnShape, T, Bound
<1>4. p = "reset" => ResetShape'
  BY <1>1, <1>2 DEF Local, ResetShape, Bound
<1>5. p \in Posters => PosterShape(p)'
  BY <1>1, <1>2, CreatorBound DEF Local, PosterShape
<1> QED
  BY <1>1, <1>3, <1>4, <1>5 DEF Local

\* A round is opened, with the number of the next free row.
Opens(p, r) ==
  /\ r \in Ids /\ ~Opened(r) /\ act[p].at = "create"
  /\ round' = [round EXCEPT ![r] = [status |-> "active", tip |-> act[p].tip,
                                    index |-> act[p].index, mode |-> act[p].mode]]
  /\ act' = [act EXCEPT ![p].at = "install", ![p].ids = {r}]
  /\ FreeIds \ {r} = (r + 1) .. MaxRounds

LEMMA CreateCases ==
  ASSUME Formed, NEW p \in Procs, create_round(p)
  PROVE  /\ UNCHANGED <<boss, incidents, seat, wakes, said, halted>> /\ act[p].at = "create"
         /\ \/ \E r \in Ids : Opens(p, r)
            \/ UNCHANGED round /\ Goes(p, IF act[p].index > 1 THEN Ends(p) ELSE "file")
BY NextFree DEF create_round, Opens

LEMMA OpensFacts ==
  ASSUME Formed, NEW p \in Procs, NEW r \in Ids, Opens(p, r)
  PROVE  /\ RoundsOk' /\ ActsOk'
         /\ round'[r] = [status |-> "active", tip |-> act[p].tip,
                         index |-> act[p].index, mode |-> act[p].mode]
         /\ \A q \in Ids : q # r => round'[q] = round[q]
         /\ act'[p] = [act[p] EXCEPT !.at = "install", !.ids = {r}]
         /\ \A q \in Procs : q # p => act'[q] = act[q]
<1> USE Numbers
<1>1. TypeOK /\ TypesOk /\ act[p] \in Acts /\ act[p].index \in 1 .. Cap
  BY TypeParts, CreatorBound DEF Formed, Opens
<1> DEFINE x == [act[p] EXCEPT !.at = "install", !.ids = {r}]
           row == [status |-> "active", tip |-> act[p].tip,
                   index |-> act[p].index, mode |-> act[p].mode]
<1>2. x \in Acts /\ x.at = "install"
  BY <1>1, Zenon DEF Acts
<1>3. act' = [act EXCEPT ![p] = x]
  BY <1>1, Zenon DEF Opens, TypesOk, ActsOk
<1>4. ActsOk' /\ act'[p] = x /\ \A q \in Procs : q # p => act'[q] = act[q]
  BY <1>1, <1>2, <1>3, Becomes, Zenon
<1>5. /\ row \in [status : {"none", "active", "completed"}, tip : 0 .. LastTip,
                        index : 0 .. Cap, mode : Modes]
      /\ row.status = "active" /\ row # NoRound
  BY <1>1 DEF Acts, NoRound
<1>6. round' = [round EXCEPT ![r] = row]
  BY DEF Opens
<1> HIDE DEF row
<1>7. RoundsOk' /\ round'[r] = row /\ \A q \in Ids : q # r => round'[q] = round[q]
  BY <1>1, <1>5, <1>6 DEF TypesOk, RoundsOk
<1> QED
  BY <1>4, <1>7 DEF row

LEMMA CreateTypes == ASSUME Formed, NEW p \in Procs, create_round(p) PROVE TypeOK' /\ Shape'
<1> USE Numbers
<1>1. /\ UNCHANGED <<boss, incidents, seat, wakes, said, halted>> /\ act[p].at = "create"
      /\ TypeOK /\ TypesOk /\ act[p] \in Acts /\ act[p].index \in 1 .. Cap
      /\ (act[p].index > 1 => act[p].emits = {})
  BY TypeParts, CreateCases, CreatorBound DEF Formed
<1>2. CASE UNCHANGED round /\ Goes(p, IF act[p].index > 1 THEN Ends(p) ELSE "file")
  <2> DEFINE at == IF act[p].index > 1 THEN Ends(p) ELSE "file"
  <2>1. at \in {"post", "file"}
    BY DEF Ends
  <2> HIDE DEF at
  <2>2. ActsOk' /\ act'[p] = [act[p] EXCEPT !.at = at] /\ \A q \in Procs : q # p => act'[q] = act[q]
    BY <1>1, <1>2, <2>1, GoesTo DEF at
  <2>3. RoundsOk' /\ SeatsOk' /\ \A r \in Ids : /\ Opened(r)' <=> Opened(r)
                           /\ round'[r].index = round[r].index /\ round'[r].mode = round[r].mode
    BY <1>1, <1>2, SameRows
  <2>4. TypeOK'
    BY <1>1, <2>2, <2>3, TypeParts DEF TypesOk, BossOk, HistoryOk, boss
  <2>5. /\ act'[p].at = at /\ act'[p].round = act[p].round /\ act'[p].agent = act[p].agent
        /\ act'[p].kind = act[p].kind /\ act'[p].spoke = act[p].spoke /\ act'[p].emits = act[p].emits
    BY <1>1, <2>2 DEF Acts
  <2>6. Local(p)' /\ act'[p].at # "install"
    BY <1>1, <2>1, <2>5, EndsMoves DEF at
  <2>7. \A r \in Ids : (Waits(r)' <=> Waits(r)) /\ (Holds(p, r)' => Holds(p, r))
    BY <1>1, <2>5, <2>6 DEF Waits, Holds, On, Mails, Installs
  <2>8. Moves({p})
    BY <1>1, <2>2, <2>3, <2>6, <2>7, Zenon DEF Moves
  <2> QED
    BY <2>4, <2>8, ShapeStep
<1>3. CASE \E r \in Ids : Opens(p, r)
  <2>1. PICK r \in Ids : Opens(p, r)
    BY <1>3
  <2>2. /\ RoundsOk' /\ ActsOk'
        /\ round'[r] = [status |-> "active", tip |-> act[p].tip,
                         index |-> act[p].index, mode |-> act[p].mode]
        /\ \A q \in Ids : q # r => round'[q] = round[q]
        /\ act'[p] = [act[p] EXCEPT !.at = "install", !.ids = {r}]
        /\ \A q \in Procs : q # p => act'[q] = act[q]
    BY <2>1, OpensFacts, Zenon
  <2>3. TypeOK'
    BY <1>1, <2>2, TypeParts DEF TypesOk, BossOk, HistoryOk, SeatsOk, boss
  <2>4. /\ act'[p].at = "install" /\ act'[p].ids = {r} /\ act'[p].round = act[p].round
        /\ act'[p].agent = act[p].agent /\ act'[p].kind = act[p].kind /\ act'[p].spoke = act[p].spoke
        /\ act'[p].emits = act[p].emits /\ act'[p].index = act[p].index /\ act'[p].mode = act[p].mode
    BY <1>1, <2>2 DEF Acts
  <2>5. ~Opened(r) /\ Opened(r)' /\ \A q \in Ids : q # r => (Opened(q)' <=> Opened(q))
    BY <2>1, <2>2 DEF Opens, Opened
  <2>6. FreeIds' = FreeIds \ {r}
    BY <2>5, Zenon DEF FreeIds, Opened
  <2>7. Gapless'
    BY <2>1, <2>6 DEF Gapless, Opens
  <2>8. RowsOk'
    BY <1>1, <2>2, <2>5 DEF RowsOk, Formed, Shape
  <2>9. /\ \A q \in Procs, s \in Ids : Holds(q, s) => Opened(s)
        /\ \A s \in Ids : Waits(s) => Opened(s)
    BY DEF Formed, Shape, Referred, Installing, Holds, On, Mails, Waits
  <2>10. \A q \in Procs : On(q, r)' = On(q, r) /\ Mails(q, r)' = Mails(q, r)
    BY <2>2, <2>4, Zenon DEF On, Mails
  <2>11. Referred'
    <3>1. \A q \in Procs : act'[q].emits = act[q].emits /\ act'[q].round = act[q].round
      BY <2>2, <2>4, Zenon
    <3>2. \A q \in Ids : Opened(q) => Opened(q)'
      BY <2>5
    <3>3. \A w \in wakes : w.round \in Ids
      BY <1>1 DEF TypesOk, Wake
    <3>4. \A q \in Procs : \A w \in act[q].emits : w.round \in Ids
      BY <1>1 DEF TypeOK, Wake
    <3> QED
      BY <1>1, <3>1, <3>2, <3>3, <3>4, Zenon DEF Referred, Formed, Shape
  <2>12. \A q \in Procs : Local(q)'
    <3>1. Local(p)'
      <4>1. Local(p)
        BY DEF Formed, Shape
      <4>2. p = "turn" => TurnShape'
        BY <1>1, <2>4, <4>1 DEF Local, TurnShape, T, Bound
      <4>3. p = "reset" => ResetShape'
        BY <1>1, <2>4, <4>1 DEF Local, ResetShape, Bound
      <4>4. p \in Posters => PosterShape(p)'
        BY <1>1, <2>4, <4>1 DEF Local, PosterShape
      <4> QED
        BY <1>1, <2>2, <2>4, <4>2, <4>3, <4>4 DEF Local
    <3>2. ASSUME NEW q \in Procs, q # p PROVE Local(q)'
      <4>1. Local(q) /\ act'[q] = act[q]
        BY <2>2, <3>2 DEF Formed, Shape
      <4>2. q = "turn" => T' = T
        BY <4>1 DEF T
      <4>3. act[q].at = "reroute" => act[q].round \in Ids
        BY <4>1 DEF Local, TurnShape, T, ResetShape, PosterShape, Bound, Procs
      <4>4. act'[q].at = "reroute" => round'[act'[q].round].mode = "rounds"
        BY <2>2, <2>5, <2>9, <4>1, <4>3 DEF Local, Holds, On
      <4>5. act'[q].at = "install" => \E s \in Ids : act'[q].ids = {s} /\ round'[s].mode = act'[q].mode
        BY <2>2, <2>5, <2>9, <4>1 DEF Local, Holds, Installs
      <4> QED
        BY <4>1, <4>2, <4>4, <4>5 DEF Local, TurnShape, T, ResetShape, PosterShape, Bound
    <3> QED
      BY <3>1, <3>2
  <2>13. Installing'
    <3>1. \A q \in Procs, s \in Ids : Installs(q, s)' <=> IF q = p THEN s = r ELSE Installs(q, s)
      BY <2>2, <2>4, Zenon DEF Installs
    <3>2. \A q \in Procs, s \in Ids : On(q, s)' = On(q, s) /\ Mails(q, s)' = Mails(q, s)
      BY <2>2, <2>4, Zenon DEF On, Mails
    <3>3. Unfilled(r)' /\ ~Waits(r)' /\ \A q \in Procs : ~Holds(q, r)
      <4>1. \A a \in Agents : seat[r][a] = "none" /\ <<r, a>> \notin said
        BY <2>5, Zenon DEF Formed, Shape, RowsOk, Referred
      <4> QED
        BY <1>1, <2>5, <2>9, <4>1 DEF Unfilled, Waits
    <3>4. ASSUME NEW q \in Procs, NEW s \in Ids, Installs(q, s)'
          PROVE  /\ Opened(s)' /\ Unfilled(s)' /\ ~Waits(s)'
                 /\ \A o \in Procs : Holds(o, s)' => o = q /\ ~On(o, s)' /\ ~Mails(o, s)'
      <4>1. CASE q = p
        <5>1. s = r
          BY <3>1, <3>4, <4>1
        <5> QED
          BY <2>5, <3>1, <3>2, <3>3, <4>1, <5>1 DEF Holds
      <4>2. CASE q # p
        <5>1. Installs(q, s) /\ s # r
          BY <3>1, <3>3, <3>4, <4>2 DEF Holds
        <5>2. /\ Opened(s) /\ Unfilled(s) /\ ~Waits(s)
              /\ \A o \in Procs : Holds(o, s) => o = q /\ ~On(o, s) /\ ~Mails(o, s)
          BY <5>1 DEF Formed, Shape, Installing
        <5>3. Opened(s)' /\ Unfilled(s)' /\ ~Waits(s)'
          BY <1>1, <2>5, <5>1, <5>2 DEF Unfilled, Waits
        <5>4. \A o \in Procs : Holds(o, s)' => Holds(o, s)
          BY <3>1, <3>2, <5>1 DEF Holds
        <5> QED
          BY <3>2, <5>2, <5>3, <5>4
      <4> QED
        BY <4>1, <4>2
    <3> QED
      BY <3>4 DEF Installing
  <2> QED
    BY <2>3, <2>7, <2>8, <2>11, <2>12, <2>13 DEF Shape
<1> QED
  BY <1>2, <1>3, CreateCases

\* Who is waked first, and the seats a round gets.
Filed(p, r, speak, first) ==
  {WakeOf(a, r, "message") : a \in IF act[p].mode = "fanout" THEN speak ELSE {first} \cap Agents}
Fills(p, r, speak, first) ==
  LET woken == IF act[p].mode = "fanout" THEN speak ELSE {first} \cap Agents
      row == [a \in Agents |-> IF a = first THEN "queued" ELSE IF a \in speak THEN "pending"
                               ELSE "observed"]
  IN /\ act[p].mode = "fanout" => speak = Agents /\ first = NoAgent
     /\ act[p].mode = "rounds" => IF speak = {} THEN first = NoAgent ELSE first \in speak
     /\ act[p].index > 1 => speak # {}
     /\ seat' = [seat EXCEPT ![r] = row]
     /\ round' = IF speak = {} THEN maybe_complete_round(seat', {r}) ELSE round
     /\ act' = [act EXCEPT
                  ![p].at = IF act[p].index > 1 THEN Ends(p) ELSE "file",
                  ![p].emits = @ \cup {WakeOf(a, r, "message") : a \in woken}]

LEMMA InstallCases ==
  ASSUME Formed, NEW p \in Procs, _install_round_queue(p)
  PROVE  /\ UNCHANGED <<boss, incidents, wakes, said, halted>> /\ act[p].at = "install"
         /\ \E r \in Ids, speak \in SUBSET Agents, first \in Agents \cup {NoAgent} :
              Installs(p, r) /\ act[p].ids = {r} /\ Fills(p, r, speak, first)
<1> USE Numbers
<1>1. /\ UNCHANGED <<boss, incidents, wakes, said, halted>> /\ act[p].at = "install"
  BY DEF _install_round_queue
<1>2. act[p] \in Acts /\ Local(p)
  BY <1>1, CreatorBound
<1>3. PICK r \in Ids : act[p].ids = {r}
  BY <1>1, <1>2 DEF Local
<1>4. PICK q \in act[p].ids, speak \in SUBSET Agents :
          /\ act[p].mode = "fanout" => speak = Agents
          /\ act[p].index > 1 => speak # {}
          /\ \E first \in IF act[p].mode = "rounds" /\ speak # {} THEN speak ELSE {NoAgent} :
            LET woken == IF act[p].mode = "fanout" THEN speak ELSE {first} \cap Agents
            IN /\ seat' = [seat EXCEPT ![q] = [a \in Agents |->
                             IF a = first THEN "queued" ELSE IF a \in speak THEN "pending"
                             ELSE "observed"]]
               /\ round' = IF speak = {} THEN maybe_complete_round(seat', {q}) ELSE round
               /\ act' = [act EXCEPT
                            ![p].at = IF act[p].index > 1 THEN Ends(p) ELSE "file",
                            ![p].emits = @ \cup {WakeOf(a, q, "message") : a \in woken}]
  BY Zenon DEF _install_round_queue
<1>5. q \in Ids /\ act[p].ids = {q}
  BY <1>3
<1>6. PICK first \in IF act[p].mode = "rounds" /\ speak # {} THEN speak ELSE {NoAgent} :
            LET woken == IF act[p].mode = "fanout" THEN speak ELSE {first} \cap Agents
            IN /\ seat' = [seat EXCEPT ![q] = [a \in Agents |->
                             IF a = first THEN "queued" ELSE IF a \in speak THEN "pending"
                             ELSE "observed"]]
               /\ round' = IF speak = {} THEN maybe_complete_round(seat', {q}) ELSE round
               /\ act' = [act EXCEPT
                            ![p].at = IF act[p].index > 1 THEN Ends(p) ELSE "file",
                            ![p].emits = @ \cup {WakeOf(a, q, "message") : a \in woken}]
  BY <1>4, Zenon
<1>7. act[p].mode \in {"rounds", "fanout"}
  BY <1>2 DEF Acts, Modes
<1>8. /\ act[p].mode = "fanout" => speak = Agents /\ first = NoAgent
      /\ act[p].mode = "rounds" => IF speak = {} THEN first = NoAgent ELSE first \in speak
      /\ first \in Agents \cup {NoAgent} /\ speak \in SUBSET Agents
  BY <1>4, <1>6, <1>7
<1>9. Fills(p, q, speak, first)
  BY <1>4, <1>6, <1>8, Zenon DEF Fills
<1>10. Installs(p, q)
  BY <1>1, <1>5 DEF Installs
<1> QED
  BY <1>1, <1>5, <1>8, <1>9, <1>10

\* What it fills.
Filled(p, r, speak, first) ==
  /\ RoundsOk' /\ SeatsOk' /\ ActsOk'
  /\ \A q \in Ids : /\ Opened(q)' <=> Opened(q)
                    /\ round'[q].index = round[q].index /\ round'[q].mode = round[q].mode
                    /\ q # r => seat'[q] = seat[q] /\ round'[q] = round[q]
  /\ \A a \in Agents : seat'[r][a] = IF a = first THEN "queued"
                                     ELSE IF a \in speak THEN "pending" ELSE "observed"
  /\ IF speak = {} THEN round'[r].status = "completed" ELSE round'[r] = round[r]
  /\ act'[p].at = IF act[p].index > 1 THEN Ends(p) ELSE "file"
  /\ act'[p].round = act[p].round /\ act'[p].agent = act[p].agent
  /\ act'[p].kind = act[p].kind /\ act'[p].spoke = act[p].spoke
  /\ act'[p].emits = act[p].emits \cup Filed(p, r, speak, first)
  /\ \A q \in Procs : q # p => act'[q] = act[q]
  /\ Opened(r)

LEMMA FillsFacts ==
  ASSUME Formed, NEW p \in Procs, NEW r \in Ids, Installs(p, r), act[p].ids = {r},
         NEW speak \in SUBSET Agents, NEW first \in Agents \cup {NoAgent}, Fills(p, r, speak, first)
  PROVE  Filled(p, r, speak, first)
<1> USE Numbers
<1> DEFINE woken == IF act[p].mode = "fanout" THEN speak ELSE {first} \cap Agents
           filed == {WakeOf(a, r, "message") : a \in woken}
           row == [a \in Agents |-> IF a = first THEN "queued" ELSE IF a \in speak THEN "pending"
                               ELSE "observed"]
           at == IF act[p].index > 1 THEN Ends(p) ELSE "file"
           x == [act[p] EXCEPT !.at = at, !.emits = act[p].emits \cup filed]
<1>1. TypeOK /\ TypesOk /\ act[p] \in Acts /\ Opened(r) /\ Unfilled(r)
  BY TypeParts, CreatorBound DEF Formed, Installs, Shape, Installing
<1>2. at \in {"post", "file"}
  BY DEF Ends
<1>3. filed \subseteq Wake /\ filed = Filed(p, r, speak, first)
  BY DEF Wake, WakeOf, Filed
<1>4. act' = [act EXCEPT ![p].at = at, ![p].emits = @ \cup filed]
  BY DEF Fills
<1> HIDE DEF at, filed
<1>5. x \in Acts /\ x.at = at /\ x.emits = act[p].emits \cup filed /\ x.round = act[p].round
      /\ x.agent = act[p].agent /\ x.kind = act[p].kind /\ x.spoke = act[p].spoke
  BY <1>1, <1>2, <1>3, Zenon DEF Acts
<1>6. act' = [act EXCEPT ![p] = x]
  BY <1>1, <1>4, Zenon DEF TypesOk, ActsOk
<1> HIDE DEF x
<1>7. ActsOk' /\ act'[p] = x /\ \A q \in Procs : q # p => act'[q] = act[q]
  BY <1>1, <1>2, <1>5, <1>6, Becomes, Zenon
<1>8. row \in [Agents -> Statuses] /\ seat' = [seat EXCEPT ![r] = row]
  BY DEF Fills, Statuses, OpenSeat
<1>9. SeatsOk' /\ seat'[r] = row /\ \A q \in Ids : q # r => seat'[q] = seat[q]
  BY <1>1, <1>8, OneRow DEF TypesOk
<1>10. {r} \in SUBSET Ids /\ \A q \in {r} : Opened(q)
  BY <1>1
<1>11. CASE speak = {}
  <2>1. round' = maybe_complete_round(seat', {r})
    BY <1>11 DEF Fills
  <2>2. first = NoAgent
    BY <1>1, <1>11 DEF Fills, Acts, Modes
  <2>3. \A a \in Agents : seat'[r][a] = "observed"
    BY <1>9, <1>11, <2>2
  <2>4. /\ RoundsOk' /\ \A q \in Ids : q # r => round'[q] = round[q]
        /\ \A q \in Ids : /\ Opened(q)' <=> Opened(q)
                          /\ round'[q].index = round[q].index /\ round'[q].mode = round[q].mode
    BY <1>1, <1>10, <2>1, CompleteFacts, ZenonT(40) DEF RoundsOk
  <2>5. round'[r].status = "completed"
    BY <1>1, <1>10, <2>1, <2>3, CompleteFacts, Zenon DEF OpenSeat
  <2> QED
    BY <1>1, <1>5, <1>7, <1>9, <1>11, <2>4, <2>5, <1>3 DEF at, Filled
<1>12. CASE speak # {}
  <2>1. round' = round
    BY <1>12 DEF Fills
  <2>2. RoundsOk' /\ \A q \in Ids : Opened(q)' <=> Opened(q)
    BY <1>1, <2>1 DEF TypesOk, RoundsOk, Opened
  <2> QED
    BY <1>1, <1>5, <1>7, <1>9, <1>12, <2>1, <2>2, <1>3 DEF at, Filled
<1> QED
  BY <1>11, <1>12

LEMMA InstallTypes ==
  ASSUME Formed, NEW p \in Procs, _install_round_queue(p) PROVE TypeOK' /\ Shape'
<1> USE Numbers
<1>1. PICK r \in Ids, speak \in SUBSET Agents, first \in Agents \cup {NoAgent} :
        Installs(p, r) /\ act[p].ids = {r} /\ Fills(p, r, speak, first)
  BY InstallCases
<1> DEFINE filed == Filed(p, r, speak, first)
<1>2. /\ RoundsOk' /\ SeatsOk' /\ ActsOk'
      /\ \A q \in Ids : /\ Opened(q)' <=> Opened(q)
                        /\ round'[q].index = round[q].index /\ round'[q].mode = round[q].mode
                        /\ q # r => seat'[q] = seat[q]
      /\ act'[p].at = IF act[p].index > 1 THEN Ends(p) ELSE "file"
      /\ act'[p].round = act[p].round /\ act'[p].agent = act[p].agent
      /\ act'[p].kind = act[p].kind /\ act'[p].spoke = act[p].spoke
      /\ act'[p].emits = act[p].emits \cup filed
      /\ \A q \in Procs : q # p => act'[q] = act[q]
      /\ Opened(r)
  <2>1. Filled(p, r, speak, first)
    BY <1>1, FillsFacts
  <2> QED
    BY <2>1 DEF Filled
<1>3. \A w \in filed : w.round = r
  BY DEF Filed, WakeOf
<1> HIDE DEF filed
<1>4. /\ UNCHANGED <<boss, incidents, wakes, said, halted>> /\ act[p].at = "install"
      /\ TypesOk
  BY InstallCases, TypeParts DEF Formed
<1>5. TypeOK'
  BY <1>2, <1>4, TypeParts DEF TypesOk, BossOk, HistoryOk, boss
<1>6. Local(p)' /\ act'[p].at # "install"
  BY <1>2, <1>4, EndsMoves
<1>7. \A q \in Ids : (Waits(q)' <=> Waits(q)) /\ (Holds(p, q)' => Holds(p, q))
  BY <1>1, <1>2, <1>3, <1>4, <1>6 DEF Waits, Holds, On, Mails, Installs
<1>8. Holds(p, r)
  BY <1>1 DEF Holds
<1>9. Moves({p})
  BY <1>2, <1>4, <1>6, <1>7, <1>8 DEF Moves
<1> QED
  BY <1>5, <1>9, ShapeStep

LEMMA FilesTypes == ASSUME Formed, NEW p \in Procs, Files(p) PROVE TypeOK' /\ Shape'
<1> USE Numbers
<1>1. TypeOK /\ TypesOk /\ act[p] \in Acts
  BY TypeParts, ActsTyped DEF Formed
<1>2. RoundsOk' /\ SeatsOk' /\ \A r \in Ids : /\ Opened(r)' <=> Opened(r)
                           /\ round'[r].index = round[r].index /\ round'[r].mode = round[r].mode
  BY <1>1, SameRows DEF Files
<1>3. ActsOk' /\ act'[p] = Idle /\ \A q \in Procs : q # p => act'[q] = act[q]
  BY <1>1, Becomes, IdleFacts, Zenon DEF Files
<1>4. wakes' \subseteq Wake
  BY <1>1 DEF Files, TypesOk, Acts
<1>5. TypeOK'
  BY <1>1, <1>2, <1>3, <1>4, TypeParts DEF Files, TypesOk, BossOk, HistoryOk, boss
<1>6. \A r \in Ids : Waits(r)' => Waits(r) \/ Holds(p, r)
  BY DEF Files, Waits, Holds, Mails
<1>7. Moves({p})
  BY <1>2, <1>3, <1>6, IdleLocal, Zenon DEF Moves, Files
<1> QED
  BY <1>5, <1>7, ShapeStep

-----------------------------------------------------------------------------
(* Rounds are cancelled, superseded and swept.                              *)

\* Every opened round is active or completed.
LEMMA ActiveOpened == Active \subseteq Ids /\ \A r \in Active : Opened(r)
BY DEF Active, Opened

\* A seat that has not started, and is not being decided on.
Dropped(R, spared, r, a) ==
  r \in R /\ seat[r][a] \in {"pending", "queued"} /\ <<r, a>> \notin spared

LEMMA CancelsFacts ==
  ASSUME TypeOK, NEW R \in SUBSET Ids, \A r \in R : Opened(r), NEW spared, Cancels(R, spared)
  PROVE  /\ RoundsOk' /\ SeatsOk' /\ halted' = halted \cup Stranded(R) /\ Stranded(R) \subseteq R
         /\ (\A w : w \in wakes' <=> w \in wakes /\ w.round \notin R)
         /\ \A r \in Ids : /\ Opened(r)' <=> Opened(r)
                           /\ round'[r].index = round[r].index /\ round'[r].mode = round[r].mode
                           /\ r \notin R => seat'[r] = seat[r] /\ round'[r] = round[r]
         /\ \A r \in Ids, a \in Agents : seat'[r][a] =
                IF Dropped(R, spared, r, a) THEN "observed" ELSE seat[r][a]
         /\ \A r \in R : IF \A a \in Agents : seat'[r][a] \notin OpenSeat
                         THEN round'[r].status = "completed" ELSE round'[r] = round[r]
<1>1. SeatsOk
  BY TypeParts DEF TypesOk
<1>2. seat' = [r \in Ids |-> [a \in Agents |->
                IF r \in R /\ seat[r][a] \in {"pending", "queued"} /\ <<r, a>> \notin spared
                THEN "observed" ELSE seat[r][a]]]
  BY DEF Cancels
<1>3. SeatsOk' /\ \A r \in Ids, a \in Agents : seat'[r][a] =
                IF Dropped(R, spared, r, a) THEN "observed" ELSE seat[r][a]
  BY <1>1, <1>2 DEF SeatsOk, Statuses, Dropped
<1>4. \A r \in Ids : r \notin R => seat'[r] = seat[r]
  BY <1>1, <1>2 DEF SeatsOk
<1>5. round' = maybe_complete_round(seat', R)
  BY DEF Cancels
<1>6. /\ RoundsOk'
      /\ \A r \in Ids : /\ Opened(r)' <=> Opened(r)
                        /\ round'[r].index = round[r].index /\ round'[r].mode = round[r].mode
                        /\ r \notin R => round'[r] = round[r]
  BY <1>5, CompleteFacts DEF RoundsOk
<1>7. \A r \in R : IF \A a \in Agents : seat'[r][a] \notin OpenSeat
                   THEN round'[r].status = "completed" ELSE round'[r] = round[r]
  BY <1>5, CompleteFacts
<1>8. Stranded(R) \subseteq R /\ halted' = halted \cup Stranded(R) /\ (\A w : w \in wakes' <=> w \in wakes /\ w.round \notin R)
  BY DEF Cancels, Stranded
<1>9. \A r \in Ids : /\ Opened(r)' <=> Opened(r)
                     /\ round'[r].index = round[r].index /\ round'[r].mode = round[r].mode
                     /\ r \notin R => seat'[r] = seat[r] /\ round'[r] = round[r]
  BY <1>4, <1>6
<1> QED
  BY <1>3, <1>6, <1>7, <1>8, <1>9

\* Rounds are cancelled while the processes P move.
LEMMA CancelsMoves ==
  ASSUME Formed, NEW P \in SUBSET Procs, NEW R \in SUBSET Ids, \A r \in R : Opened(r),
         NEW spared, Cancels(R, spared), UNCHANGED said,
         \A q \in Procs \ P : act'[q] = act[q],
         \A p \in P : /\ act'[p].at # "install" /\ Local(p)'
                      /\ \A r \in Ids : Holds(p, r)' => Holds(p, r)
  PROVE  Moves(P)
<1>1. TypeOK
  BY DEF Formed
<1>2. /\ (\A w : w \in wakes' <=> w \in wakes /\ w.round \notin R)
      /\ \A r \in Ids : /\ Opened(r)' <=> Opened(r)
                        /\ round'[r].index = round[r].index /\ round'[r].mode = round[r].mode
      /\ \A r \in Ids, a \in Agents : seat'[r][a] =
                IF Dropped(R, spared, r, a) THEN "observed" ELSE seat[r][a]
  BY <1>1, CancelsFacts
<1>3. \A r \in Ids, a \in Agents : seat[r][a] = "none" => seat'[r][a] = "none"
  BY <1>2, Zenon DEF Dropped
<1>4. \A r \in Ids : Waits(r)' => Waits(r)
  BY <1>2 DEF Waits
<1>5. \A r \in Ids : \A p \in P : Holds(p, r)' => \E q \in P : Holds(q, r)
  OBVIOUS
<1>6. \A p \in P : act'[p].at # "install" /\ Local(p)'
  OBVIOUS
<1>7. ASSUME NEW r \in Ids
      PROVE  /\ Opened(r)' <=> Opened(r)
             /\ round'[r].index = round[r].index /\ round'[r].mode = round[r].mode
             /\ Waits(r)' => Waits(r) \/ \E q \in P : Holds(q, r)
             /\ \A p \in P : Holds(p, r)' => Waits(r) \/ \E q \in P : Holds(q, r)
             /\ \A a \in Agents : /\ <<r, a>> \in said' => <<r, a>> \in said \/ \E q \in P : On(q, r)
                                  /\ seat[r][a] = "none" =>
                                       seat'[r][a] = "none" \/ (Opened(r) /\ \E q \in P : Holds(q, r))
  BY <1>2, <1>3, <1>4, <1>5
<1> QED
  BY <1>6, <1>7 DEF Moves

LEMMA SaysTypes == ASSUME Formed, NEW p \in Posters, Says(p) PROVE TypeOK' /\ Shape'
<1> USE Numbers
<1> DEFINE x == [Idle EXCEPT !.at = "hear", !.tip = tip + 1]
<1>1. TypeOK /\ TypesOk /\ act[p] = Idle /\ p \in Procs /\ p # "turn" /\ p # "reset"
  BY TypeParts DEF Formed, Says
<1>2. tip + 1 \in 0 .. LastTip /\ tip \in Nat
  BY <1>1 DEF Says, TypesOk, BossOk
<1>3. x \in Acts /\ x.at = "hear" /\ x.round = 0 /\ x.emits = {}
  BY <1>2, IdleFacts, Zenon DEF Acts
<1>4. act' = [act EXCEPT ![p] = x]
  BY DEF Says
<1> HIDE DEF x
<1>5. ActsOk' /\ act'[p] = x /\ \A q \in Procs : q # p => act'[q] = act[q]
  BY <1>1, <1>3, <1>4, Becomes, Zenon
<1>6. RoundsOk' /\ SeatsOk' /\ \A r \in Ids : /\ Opened(r)' <=> Opened(r)
                           /\ round'[r].index = round[r].index /\ round'[r].mode = round[r].mode
  BY <1>1, SameRows DEF Says
<1>7. BossOk'
  BY <1>1, <1>2 DEF Says, TypesOk, BossOk
<1>8. TypeOK'
  BY <1>1, <1>5, <1>6, <1>7, TypeParts DEF Says, TypesOk, HistoryOk
<1>9. Local(p)' /\ \A r \in Ids : (Waits(r)' <=> Waits(r)) /\ (Holds(p, r)' => Holds(p, r))
  BY <1>1, <1>3, <1>5, Zenon DEF Local, PosterShape, Waits, Holds, On, Mails, Installs, Says
<1>10. Moves({p})
  BY <1>1, <1>3, <1>5, <1>6, <1>9 DEF Moves, Says
<1> QED
  BY <1>1, <1>8, <1>10, ShapeStep

\* The rounds of other messages, and the messages a phrase pauses.
HearsOf(p) ==
  IF act[p].tip \in phrases /\ ~paused THEN Active ELSE {r \in Active : round[r].tip # act[p].tip}
HearsSpared(p) ==
  IF act[p].tip \in phrases /\ ~paused THEN {} ELSE in_flight

LEMMA HearsTypes ==
  ASSUME Formed, NEW p \in Posters, Hears(p)
  PROVE  TypeOK' /\ Shape' /\ Moves({p}) /\ Cancels(HearsOf(p), HearsSpared(p))
<1> USE Numbers
<1> DEFINE x == IF act[p].tip \in phrases THEN Idle ELSE [act[p] EXCEPT !.at = "open"]
<1>1. TypeOK /\ TypesOk /\ p \in Procs /\ p # "turn" /\ p # "reset" /\ act[p] \in Acts
      /\ act[p].at = "hear" /\ Local(p)
  BY TypeParts, ActsTyped DEF Formed, Hears, Shape
<1>2. /\ x \in Acts /\ x.at \in {"idle", "open"} /\ (x.at = "idle" => x = Idle)
      /\ x.round = 0 /\ x.emits = {}
  BY <1>1, IdleFacts DEF Acts, Local, PosterShape
<1>3. act' = [act EXCEPT ![p] = x]
  BY DEF Hears
<1> HIDE DEF x
<1>4. ActsOk' /\ act'[p] = x /\ \A q \in Procs : q # p => act'[q] = act[q]
  BY <1>1, <1>2, <1>3, Becomes, Zenon
<1>5. Cancels(HearsOf(p), HearsSpared(p))
  BY DEF Hears, HearsOf, HearsSpared
<1>6. HearsOf(p) \in SUBSET Ids /\ \A r \in HearsOf(p) : Opened(r)
  BY ActiveOpened, Zenon DEF HearsOf
<1>7. RoundsOk' /\ SeatsOk' /\ wakes' \subseteq wakes /\ halted' \subseteq Ids
  <2>1. RoundsOk' /\ SeatsOk' /\ halted' = halted \cup Stranded(HearsOf(p)) /\ Stranded(HearsOf(p)) \subseteq HearsOf(p)
         /\ \A w : w \in wakes' <=> w \in wakes /\ w.round \notin HearsOf(p)
    BY <1>1, <1>5, <1>6, CancelsFacts
  <2> QED
    BY <1>1, <1>6, <2>1, Zenon DEF TypesOk, HistoryOk
<1>8. BossOk' /\ said' = said
  BY <1>1 DEF Hears, TypesOk, BossOk
<1>9. TypeOK'
  BY <1>1, <1>4, <1>7, <1>8, TypeParts DEF TypesOk, HistoryOk
<1>10. Local(p)' /\ act'[p].at # "install" /\ \A r \in Ids : Holds(p, r)' => Holds(p, r)
  BY <1>1, <1>2, <1>4 DEF Local, PosterShape, Holds, On, Mails, Installs
<1>11. Moves({p})
  BY <1>1, <1>4, <1>5, <1>6, <1>8, <1>10, CancelsMoves
<1> QED
  BY <1>1, <1>5, <1>9, <1>11, ShapeStep

\* A newer message closes the round of the turn that meets it.
LEMMA SupersedeFacts ==
  ASSUME Formed, supersede_stale_thread_turn
  PROVE  /\ RoundsOk' /\ SeatsOk' /\ Stranded({T.round}) \subseteq {T.round}
         /\ \A r \in Ids : /\ Opened(r)' <=> Opened(r)
                           /\ round'[r].index = round[r].index /\ round'[r].mode = round[r].mode
                           /\ r # T.round => seat'[r] = seat[r] /\ round'[r] = round[r]
         /\ \A a \in Agents : seat'[T.round][a] =
              IF seat[T.round][a] \in {"pending", "queued"} \/ (a = T.agent /\ seat[T.round][a] \in OpenSeat)
              THEN "observed" ELSE seat[T.round][a]
         /\ IF \A a \in Agents : seat'[T.round][a] \notin OpenSeat
            THEN round'[T.round].status = "completed" ELSE round'[T.round] = round[T.round]
<1> USE Numbers
<1> DEFINE r == T.round
           own == [seat EXCEPT ![r][T.agent] = IF @ \in OpenSeat THEN "observed" ELSE @]
           row == [a \in Agents |-> IF own[r][a] \in {"pending", "queued"} THEN "observed" ELSE own[r][a]]
<1>1. TypeOK /\ TypesOk /\ r \in Ids /\ T.agent \in Agents /\ Opened(r)
  BY TurnBound, TypeParts DEF Formed, supersede_stale_thread_turn
<1>2. /\ own \in [Ids -> [Agents -> Statuses]] /\ \A q \in Ids : q # r => own[q] = seat[q]
      /\ own[r][T.agent] = IF seat[r][T.agent] \in OpenSeat THEN "observed" ELSE seat[r][T.agent]
      /\ \A a \in Agents : a # T.agent => own[r][a] = seat[r][a]
  BY <1>1, Zenon DEF TypesOk, SeatsOk, Statuses
<1>3. seat' = [own EXCEPT ![r] = row] /\ round' = maybe_complete_round(seat', {r})
  BY DEF supersede_stale_thread_turn
<1> HIDE DEF own
<1>4. row \in [Agents -> Statuses]
  BY <1>1, <1>2, Zenon DEF Statuses
<1> HIDE DEF row
<1>5. SeatsOk' /\ seat'[r] = row /\ \A q \in Ids : q # r => seat'[q] = seat[q]
  BY <1>1, <1>2, <1>3, <1>4 DEF SeatsOk
<1>6. \A a \in Agents : seat'[r][a] =
              IF seat[r][a] \in {"pending", "queued"} \/ (a = T.agent /\ seat[r][a] \in OpenSeat)
              THEN "observed" ELSE seat[r][a]
  BY <1>1, <1>2, <1>5 DEF row, OpenSeat
<1>7. {r} \in SUBSET Ids /\ \A q \in {r} : Opened(q)
  BY <1>1
<1>8. /\ RoundsOk'
      /\ \A q \in Ids : /\ Opened(q)' <=> Opened(q)
                        /\ round'[q].index = round[q].index /\ round'[q].mode = round[q].mode
      /\ \A q \in Ids \ {r} : round'[q] = round[q]
  <2> HIDE DEF r
  <2> QED
    BY <1>1, <1>3, <1>7, CompleteFacts, Zenon DEF RoundsOk
<1>9. IF \A a \in Agents : seat'[r][a] \notin OpenSeat
      THEN round'[r].status = "completed" ELSE round'[r] = round[r]
  BY <1>1, <1>3, <1>7, CompleteFacts, Zenon
<1>10. Stranded({r}) \subseteq {r}
  BY DEF Stranded
<1> QED
  BY <1>5, <1>6, <1>8, <1>9, <1>10

LEMMA SupersedeTypes ==
  ASSUME Formed, supersede_stale_thread_turn
  PROVE  /\ TypeOK' /\ Shape' /\ Moves(Turn)
         /\ T'.at \in {"file", "open"} /\ T'.round = T.round /\ T'.agent = T.agent
         /\ T'.kind = T.kind /\ T'.spoke = T.spoke /\ T'.emits = T.emits
         /\ \A q \in Procs : q # "turn" => act'[q] = act[q]
<1> USE Numbers
<1>1. TypeOK /\ TypesOk /\ T \in Acts /\ T.round \in Ids /\ T.agent \in Agents /\ TurnShape
      /\ Opened(T.round) /\ On("turn", T.round) /\ T.at = "skip"
  BY TurnBound, TypeParts DEF Formed, supersede_stale_thread_turn
<1>2. tip \in 0 .. LastTip
  BY <1>1 DEF TypesOk, BossOk
<1>3. PICK x \in Acts : /\ act' = [act EXCEPT !["turn"] = x] /\ x.at \in {"file", "open"}
                        /\ x.round = T.round /\ x.agent = T.agent /\ x.kind = T.kind
                        /\ x.spoke = T.spoke /\ x.emits = T.emits
  <2>1. CASE act' = [act EXCEPT !["turn"].at = "file"]
    <3> DEFINE x == [T EXCEPT !.at = "file"]
    <3>1. act' = [act EXCEPT !["turn"] = x]
      BY <2>1 DEF T
    <3>2. /\ x \in Acts /\ x.at = "file" /\ x.round = T.round /\ x.agent = T.agent /\ x.kind = T.kind
          /\ x.spoke = T.spoke /\ x.emits = T.emits
      BY <1>1 DEF Acts
    <3> QED
      BY <3>1, <3>2, Zenon
  <2>2. CASE act' = [act EXCEPT !["turn"].at = "open", !["turn"].tip = tip]
    <3> DEFINE x == [T EXCEPT !.at = "open", !.tip = tip]
    <3>1. act' = [act EXCEPT !["turn"] = x]
      BY <1>1, <2>2, Zenon DEF T, TypesOk, ActsOk
    <3>2. /\ x \in Acts /\ x.at = "open" /\ x.round = T.round /\ x.agent = T.agent /\ x.kind = T.kind
          /\ x.spoke = T.spoke /\ x.emits = T.emits
      BY <1>1, <1>2, Zenon DEF Acts
    <3> QED
      BY <3>1, <3>2, Zenon
  <2> QED
    BY <2>1, <2>2, Zenon DEF supersede_stale_thread_turn
<1>4. ActsOk' /\ act'["turn"] = x /\ \A q \in Procs : q # "turn" => act'[q] = act[q]
  BY <1>1, <1>3, Becomes, Zenon
<1>5. /\ RoundsOk' /\ SeatsOk' /\ Stranded({T.round}) \subseteq {T.round}
      /\ \A r \in Ids : /\ Opened(r)' <=> Opened(r)
                        /\ round'[r].index = round[r].index /\ round'[r].mode = round[r].mode
                        /\ r # T.round => seat'[r] = seat[r] /\ round'[r] = round[r]
  BY SupersedeFacts
<1>6. /\ UNCHANGED <<boss, incidents, said>> /\ halted' = halted \cup Stranded({T.round})
      /\ wakes' \subseteq wakes
  BY DEF supersede_stale_thread_turn
<1>7. TypeOK'
  BY <1>1, <1>4, <1>5, <1>6, TypeParts, Zenon DEF TypesOk, BossOk, HistoryOk, boss
<1>8. Local("turn")'
  BY <1>1, <1>3, <1>4 DEF Local, TurnShape, T, Bound
<1>9. \A r \in Ids : (Waits(r)' => Waits(r)) /\ (Holds("turn", r)' => Holds("turn", r))
  BY <1>3, <1>4, <1>6 DEF Waits, Holds, On, Mails, Installs, T
<1>10. Moves(Turn)
  BY <1>1, <1>3, <1>4, <1>5, <1>6, <1>8, <1>9, Zenon DEF Moves, Turn, Holds
<1> QED
  BY <1>3, <1>4, <1>7, <1>10, ShapeStep DEF Turn, T

\* Opening asks the model who speaks, or pauses, or finds the thread paused.
LEMMA StartCases ==
  ASSUME Formed, NEW p \in Procs, start_channel_peer_round(p)
  PROVE  \E x \in Acts :
           /\ act' = [act EXCEPT ![p] = x]
           /\ x.round = act[p].round /\ x.agent = act[p].agent /\ x.kind = act[p].kind
           /\ x.spoke = act[p].spoke /\ x.emits = act[p].emits
           /\ \/ Cancels(Active, {}) /\ x.at = "file"
              \/ UNCHANGED <<round, seat, wakes, halted>> /\ (x.at = "file" \/ (x.at = "create" /\ x.index = 1))
<1> USE Numbers
<1>1. TypeOK /\ TypesOk /\ act[p] \in Acts
  BY TypeParts, ActsTyped DEF Formed
<1>2. CASE Goes(p, "file") /\ (Cancels(Active, {}) \/ UNCHANGED <<round, seat, wakes, halted>>)
  <2> DEFINE x == [act[p] EXCEPT !.at = "file"]
  <2>1. act' = [act EXCEPT ![p] = x]
    BY <1>2 DEF Goes
  <2>2. /\ x \in Acts /\ x.at = "file" /\ x.round = act[p].round /\ x.agent = act[p].agent
        /\ x.kind = act[p].kind /\ x.spoke = act[p].spoke /\ x.emits = act[p].emits
    BY <1>1 DEF Acts
  <2> HIDE DEF x
  <2> QED
    BY <1>2, <2>1, <2>2, Zenon
<1>3. CASE /\ \E mode \in Modes :
                act' = [act EXCEPT ![p].at = "create", ![p].index = 1, ![p].mode = mode]
           /\ UNCHANGED <<round, seat, wakes, halted>>
  <2>1. PICK mode \in Modes :
               act' = [act EXCEPT ![p].at = "create", ![p].index = 1, ![p].mode = mode]
    BY <1>3, Zenon
  <2> DEFINE x == [act[p] EXCEPT !.at = "create", !.index = 1, !.mode = mode]
  <2>2. act' = [act EXCEPT ![p] = x]
    BY <1>1, <2>1, Zenon DEF TypesOk, ActsOk
  <2>3. 1 \in 0 .. Cap
    OBVIOUS
  <2>4. /\ x \in Acts /\ x.at = "create" /\ x.round = act[p].round /\ x.agent = act[p].agent
        /\ x.kind = act[p].kind /\ x.spoke = act[p].spoke /\ x.emits = act[p].emits /\ x.index = 1
    BY <1>1, <2>3, Zenon DEF Acts
  <2> HIDE DEF x
  <2> QED
    BY <1>3, <2>2, <2>4, Zenon
<1> QED
  BY <1>2, <1>3 DEF start_channel_peer_round

LEMMA StartTypes ==
  ASSUME Formed, NEW p \in Procs, p # "reset", start_channel_peer_round(p)
  PROVE  TypeOK' /\ Shape' /\ Moves({p})
<1> USE Numbers
<1>1. TypeOK /\ TypesOk /\ act[p] \in Acts /\ act[p].at = "open" /\ Local(p)
  BY TypeParts, ActsTyped DEF Formed, Shape, start_channel_peer_round
<1>2. PICK x \in Acts :
           /\ act' = [act EXCEPT ![p] = x]
           /\ x.round = act[p].round /\ x.agent = act[p].agent /\ x.kind = act[p].kind
           /\ x.spoke = act[p].spoke /\ x.emits = act[p].emits
           /\ \/ Cancels(Active, {}) /\ x.at = "file"
              \/ UNCHANGED <<round, seat, wakes, halted>> /\ (x.at = "file" \/ (x.at = "create" /\ x.index = 1))
  BY StartCases
<1>3. ActsOk' /\ act'[p] = x /\ \A q \in Procs : q # p => act'[q] = act[q]
  BY <1>1, <1>2, Becomes, Zenon
<1>4. BossOk' /\ said' = said
  BY <1>1, Zenon DEF start_channel_peer_round, TypesOk, BossOk
<1>5. Local(p)' /\ act'[p].at # "install" /\ \A r \in Ids : Holds(p, r)' => Holds(p, r)
  <2>1. p = "turn" => TurnShape'
    BY <1>1, <1>2, <1>3 DEF Local, TurnShape, T, Bound
  <2>2. p \in Posters => PosterShape(p)'
    BY <1>1, <1>2, <1>3 DEF Local, PosterShape
  <2>3. Local(p)'
    BY <1>2, <1>3, <2>1, <2>2 DEF Local
  <2> QED
    BY <1>2, <1>3, <2>3 DEF Holds, On, Mails, Installs
<1>6. CASE Cancels(Active, {})
  <2>1. RoundsOk' /\ SeatsOk' /\ halted' = halted \cup Stranded(Active) /\ Stranded(Active) \subseteq Active
        /\ \A w : w \in wakes' <=> w \in wakes /\ w.round \notin Active
    BY <1>1, <1>6, ActiveOpened, CancelsFacts
  <2>2. TypeOK'
    BY <1>1, <1>3, <1>4, <2>1, ActiveOpened, TypeParts, Zenon DEF TypesOk, HistoryOk
  <2>3. Moves({p})
    BY <1>3, <1>4, <1>5, <1>6, ActiveOpened, CancelsMoves
  <2> QED
    BY <2>2, <2>3, ShapeStep
<1>7. CASE UNCHANGED <<round, seat, wakes, halted>>
  <2>1. RoundsOk' /\ SeatsOk'
        /\ \A r \in Ids : /\ Opened(r)' <=> Opened(r)
                           /\ round'[r].index = round[r].index /\ round'[r].mode = round[r].mode
    BY <1>1, <1>7, SameRows
  <2>2. TypeOK'
    BY <1>1, <1>3, <1>4, <1>7, <2>1, TypeParts DEF TypesOk, HistoryOk
  <2>3. \A r \in Ids : Waits(r)' <=> Waits(r)
    BY <1>7 DEF Waits
  <2>4. Moves({p})
    BY <1>3, <1>4, <1>5, <1>7, <2>1, <2>3 DEF Moves
  <2> QED
    BY <2>2, <2>4, ShapeStep
<1> QED
  BY <1>2, <1>6, <1>7

LEMMA PauseTypes == ASSUME Formed, PauseButton PROVE TypeOK' /\ Shape' /\ Moves({})
<1>1. TypeOK /\ TypesOk /\ Cancels(Active, {}) /\ act' = act /\ said' = said
  BY TypeParts DEF Formed, PauseButton
<1>2. RoundsOk' /\ SeatsOk' /\ halted' = halted \cup Stranded(Active) /\ Stranded(Active) \subseteq Active
      /\ \A w : w \in wakes' <=> w \in wakes /\ w.round \notin Active
  BY <1>1, ActiveOpened, CancelsFacts
<1>3. BossOk' /\ ActsOk'
  BY <1>1, Numbers DEF PauseButton, Happens, TypesOk, BossOk, ActsOk
<1>4. TypeOK'
  BY <1>1, <1>2, <1>3, ActiveOpened, TypeParts DEF TypesOk, HistoryOk
<1>5. Moves({})
  BY <1>1, ActiveOpened, CancelsMoves
<1> QED
  BY <1>4, <1>5, ShapeStep

LEMMA ResumeTypes == ASSUME Formed, ResumeButton PROVE TypeOK' /\ Shape' /\ Moves({})
<1>1. TypeOK /\ TypesOk /\ UNCHANGED <<tip, phrases, round, seat, wakes, act, said, halted>>
  BY TypeParts DEF Formed, ResumeButton
<1>2. BossOk'
  <2>1. incidents' \in 0 .. MaxIncidents
    BY <1>1, Numbers DEF ResumeButton, Happens, TypesOk, BossOk
  <2>2. paused' \in BOOLEAN
    BY Zenon DEF ResumeButton
  <2>3. tip' \in 0 .. LastTip /\ phrases' \subseteq 1 .. tip'
    BY <1>1 DEF TypesOk, BossOk
  <2> QED
    BY <2>1, <2>2, <2>3 DEF BossOk
<1>3. RoundsOk' /\ SeatsOk' /\ ActsOk' /\ HistoryOk' /\ wakes' \subseteq Wake
  BY <1>1 DEF TypesOk, RoundsOk, SeatsOk, ActsOk, HistoryOk
<1>4. TypeOK'
  BY <1>2, <1>3, TypeParts DEF TypesOk
<1>5. \A r \in Ids : (Opened(r)' <=> Opened(r)) /\ (Waits(r)' <=> Waits(r))
  BY <1>1 DEF Opened, Waits
<1>6. Moves({})
  BY <1>1, <1>5 DEF Moves
<1> QED
  BY <1>4, <1>6, ShapeStep

\* A reset takes the turn's seat over.
LEMMA ResetsFacts ==
  ASSUME Formed, Resets
  PROVE  /\ ActsOk' /\ act'["turn"] = Idle /\ \A q \in Posters : act'[q] = act[q]
         /\ IF seat[T.round][T.agent] \in OpenSeat
            THEN /\ act'["reset"].at = "finish" /\ act'["reset"].round = T.round
                 /\ act'["reset"].agent = T.agent /\ act'["reset"].kind = T.kind
                 /\ ~act'["reset"].spoke /\ act'["reset"].emits = {}
            ELSE act'["reset"] = Idle
<1> USE Numbers
<1> DEFINE open == seat[T.round][T.agent] \in OpenSeat
           y == IF open THEN [T EXCEPT !.at = "finish"] ELSE Idle
<1>1. TypeOK /\ TypesOk /\ T \in Acts /\ TurnShape /\ T.at = "think"
  BY TurnBound, TypeParts DEF Formed, Resets
<1>2. y \in Acts /\ (y.at = "idle" => y = Idle)
  BY <1>1, IdleFacts DEF Acts
<1>3. IF open THEN /\ y.at = "finish" /\ y.round = T.round /\ y.agent = T.agent /\ y.kind = T.kind
                   /\ ~y.spoke /\ y.emits = {}
      ELSE y = Idle
  BY <1>1 DEF Acts, TurnShape
<1>4. act' = [act EXCEPT !["turn"] = Idle, !["reset"] = y]
  BY DEF Resets
<1> HIDE DEF y, open
<1>5. act' \in [Procs -> Acts] /\ act'["turn"] = Idle /\ act'["reset"] = y
      /\ \A q \in Procs : q # "turn" /\ q # "reset" => act'[q] = act[q]
  BY <1>1, <1>2, <1>4, IdleFacts DEF TypesOk, ActsOk
<1>6. ActsOk'
  BY <1>1, <1>2, <1>5 DEF ActsOk, TypesOk
<1> QED
  BY <1>3, <1>5, <1>6 DEF open

LEMMA ResetsTypes ==
  ASSUME Formed, Resets PROVE TypeOK' /\ Shape' /\ Moves({"turn", "reset"})
<1> USE Numbers
<1>1. TypeOK /\ TypesOk /\ T \in Acts /\ T.round \in Ids /\ T.agent \in Agents /\ Bound("turn")
      /\ UNCHANGED <<boss, round, seat, wakes, said, halted>> /\ act["turn"].at = "think"
  BY TurnBound, TypeParts DEF Formed, Resets, TurnShape, T
<1>2. /\ ActsOk' /\ act'["turn"] = Idle /\ \A q \in Posters : act'[q] = act[q]
      /\ IF seat[T.round][T.agent] \in OpenSeat
         THEN /\ act'["reset"].at = "finish" /\ act'["reset"].round = T.round
              /\ act'["reset"].agent = T.agent /\ act'["reset"].kind = T.kind
              /\ ~act'["reset"].spoke /\ act'["reset"].emits = {}
         ELSE act'["reset"] = Idle
  BY ResetsFacts
<1>3. RoundsOk' /\ SeatsOk'
      /\ \A r \in Ids : /\ Opened(r)' <=> Opened(r)
                         /\ round'[r].index = round[r].index /\ round'[r].mode = round[r].mode
  BY <1>1, SameRows
<1>4. BossOk'
  BY <1>1 DEF Resets, Happens, TypesOk, BossOk, boss
<1>5. TypeOK'
  BY <1>1, <1>2, <1>3, <1>4, TypeParts DEF TypesOk, HistoryOk
<1>6. Local("turn")' /\ act'["turn"].at # "install" /\ \A r \in Ids : ~Holds("turn", r)'
  BY <1>2, IdleLocal
<1>7. Local("reset")' /\ act'["reset"].at # "install"
      /\ \A r \in Ids : Holds("reset", r)' => Holds("turn", r)
  <2>1. CASE act'["reset"] = Idle
    BY <2>1, IdleLocal
  <2>2. CASE seat[T.round][T.agent] \in OpenSeat
    <3>1. ResetShape'
      BY <1>1, <1>2, <2>2 DEF ResetShape, Bound, T
    <3>2. Local("reset")'
      BY <1>2, <2>2, <3>1 DEF Local
    <3> QED
      BY <1>2, <2>2, <3>2 DEF Holds, On, Mails, Installs, T
  <2> QED
    BY <1>2, <2>1, <2>2, Zenon
<1>8. \A r \in Ids : Waits(r)' <=> Waits(r)
  BY <1>1 DEF Waits
<1>9. \A q \in Procs \ {"turn", "reset"} : act'[q] = act[q]
  BY <1>2 DEF Procs
<1>10. Moves({"turn", "reset"})
  BY <1>1, <1>3, <1>6, <1>7, <1>8, <1>9 DEF Moves
<1> QED
  BY <1>5, <1>10, ShapeStep

\* A crash drops the turn: its wake comes back, unless the turn was idle or filing.
LEMMA CrashFacts ==
  ASSUME Formed, Crash
  PROVE  /\ ActsOk' /\ act'["turn"].at = "down" /\ act'["turn"].round = 0
         /\ act'["turn"].emits = {} /\ act'["turn"].agent = NoAgent /\ ~act'["turn"].spoke
         /\ \A q \in Procs : q # "turn" => act'[q] = act[q]
         /\ halted' \subseteq Ids
         /\ \/ wakes' = wakes /\ (T = Idle \/ T.at = "file")
            \/ /\ wakes' = wakes \cup {WakeOf(T.agent, T.round, T.kind)}
               /\ T.at \notin {"idle", "down", "boot"}
<1> USE Numbers
<1>1. TypeOK /\ TypesOk /\ T \in Acts /\ (T.at = "idle" => T = Idle)
  BY TypeParts DEF Formed, T, TypesOk, ActsOk
<1> DEFINE x == [Idle EXCEPT !.at = "down"]
<1>2. /\ x \in Acts /\ x.at = "down" /\ x.round = 0 /\ x.emits = {} /\ x.agent = NoAgent /\ ~x.spoke
  BY IdleFacts DEF Acts
<1>3. act' = [act EXCEPT !["turn"] = x]
  BY DEF Crash
<1> HIDE DEF x
<1>4. ActsOk' /\ act'["turn"] = x /\ \A q \in Procs : q # "turn" => act'[q] = act[q]
  BY <1>1, <1>2, <1>3, Becomes, Zenon
<1>5. T.ids \subseteq Ids /\ T.emits \subseteq Wake
  BY <1>1 DEF Acts
<1>6. halted' \subseteq Ids
  <2>1. {w.round : w \in T.emits} \subseteq Ids
    BY <1>5 DEF Wake
  <2> QED
    BY <1>1, <1>5, <2>1 DEF Crash, TypesOk, HistoryOk
<1>7. \/ wakes' = wakes /\ (T = Idle \/ T.at = "file")
      \/ wakes' = wakes \cup {WakeOf(T.agent, T.round, T.kind)} /\ T # Idle
  BY DEF Crash
<1>8. T.at \notin {"down", "boot"}
  BY DEF Crash
<1> QED
  BY <1>1, <1>2, <1>4, <1>6, <1>7, <1>8

LEMMA CrashTypes == ASSUME Formed, Crash PROVE TypeOK' /\ Shape' /\ Moves(Turn)
<1> USE Numbers
<1>1. TypeOK /\ TypesOk /\ UNCHANGED <<boss, round, seat, said>>
  BY TypeParts DEF Formed, Crash
<1>2. /\ ActsOk' /\ act'["turn"].at = "down" /\ act'["turn"].round = 0
      /\ act'["turn"].emits = {}
      /\ \A q \in Procs : q # "turn" => act'[q] = act[q]
      /\ halted' \subseteq Ids
      /\ \/ wakes' = wakes
         \/ /\ wakes' = wakes \cup {WakeOf(T.agent, T.round, T.kind)}
            /\ T.at \notin {"idle", "down", "boot"}
  BY CrashFacts
<1>3. RoundsOk' /\ SeatsOk'
      /\ \A r \in Ids : /\ Opened(r)' <=> Opened(r)
                         /\ round'[r].index = round[r].index /\ round'[r].mode = round[r].mode
  BY <1>1, SameRows
<1>4. BossOk'
  BY <1>1 DEF Crash, Happens, TypesOk, BossOk, boss
<1>5. wakes' \subseteq Wake /\ \A r \in Ids : Waits(r)' => Waits(r) \/ Holds("turn", r)
  <2>1. CASE wakes' = wakes
    BY <1>1, <2>1 DEF TypesOk, Waits
  <2>2. CASE /\ wakes' = wakes \cup {WakeOf(T.agent, T.round, T.kind)}
             /\ T.at \notin {"idle", "down", "boot"}
    <3> DEFINE w == WakeOf(T.agent, T.round, T.kind)
    <3>1. T.round \in Ids /\ T.agent \in Agents /\ T.kind \in {"message", "response"} /\ On("turn", T.round)
      BY <2>2, TurnBound
    <3>2. w \in Wake /\ w.round = T.round
      BY <3>1 DEF Wake, WakeOf
    <3>3. wakes' = wakes \cup {w}
      BY <2>2
    <3> HIDE DEF w
    <3> QED
      BY <1>1, <3>1, <3>2, <3>3 DEF TypesOk, Waits, Holds, On, T
  <2> QED
    BY <1>2, <2>1, <2>2
<1>6. TypeOK'
  BY <1>1, <1>2, <1>3, <1>4, <1>5, TypeParts DEF TypesOk, HistoryOk
<1>7. Local("turn")' /\ \A r \in Ids : ~Holds("turn", r)'
  BY <1>2 DEF Local, TurnShape, T, Holds, On, Mails, Installs
<1>8. Moves(Turn)
  BY <1>1, <1>2, <1>3, <1>5, <1>7, Zenon DEF Moves, Turn
<1> QED
  BY <1>6, <1>8, ShapeStep DEF Turn

LEMMA ReadsTypes == ASSUME Formed, ReadsLive PROVE TypeOK' /\ Shape' /\ Moves(Turn)
<1> USE Numbers
<1> DEFINE live == {w.round : w \in wakes}
           x == [T EXCEPT !.at = "boot", !.ids = live]
<1>1. TypeOK /\ TypesOk /\ T \in Acts /\ T.at = "down" /\ TurnShape
      /\ UNCHANGED <<boss, incidents, round, seat, wakes, said, halted>>
  BY TypeParts, ActsTyped DEF Formed, ReadsLive, T, Shape, Local
<1>2. live \in SUBSET Ids
  BY <1>1 DEF TypesOk, Wake
<1>3. act' = [act EXCEPT !["turn"].at = "boot", !["turn"].ids = live]
  BY DEF ReadsLive
<1> HIDE DEF live
<1>4. x \in Acts /\ x.at = "boot" /\ x.round = 0 /\ x.emits = {}
  BY <1>1, <1>2, Zenon DEF Acts, TurnShape
<1>5. act' = [act EXCEPT !["turn"] = x]
  BY <1>1, <1>3, Zenon DEF T, TypesOk, ActsOk
<1> HIDE DEF x
<1>6. ActsOk' /\ act'["turn"] = x /\ \A q \in Procs : q # "turn" => act'[q] = act[q]
  BY <1>1, <1>4, <1>5, Becomes, Zenon
<1>7. RoundsOk' /\ SeatsOk'
      /\ \A r \in Ids : /\ Opened(r)' <=> Opened(r)
                         /\ round'[r].index = round[r].index /\ round'[r].mode = round[r].mode
  BY <1>1, SameRows
<1>8. TypeOK'
  BY <1>1, <1>6, <1>7, TypeParts DEF TypesOk, BossOk, HistoryOk, boss
<1>9. Local("turn")' /\ \A r \in Ids : ~Holds("turn", r)' /\ (Waits(r)' <=> Waits(r))
  BY <1>1, <1>4, <1>6 DEF Local, TurnShape, T, Holds, On, Mails, Installs, Waits
<1>10. Moves(Turn)
  BY <1>1, <1>4, <1>6, <1>7, <1>9, Zenon DEF Moves, Turn
<1> QED
  BY <1>8, <1>10, ShapeStep DEF Turn

\* The rounds the sweep of a restart may close.
Swept(youngest) ==
  {r \in Active : r < youngest /\ r \notin T.ids \cup
     UNION {act[p].ids \cup {w.round : w \in act[p].emits} : p \in Posters}}

LEMMA SweepFacts ==
  ASSUME Formed, close_orphaned_channel_rounds
  PROVE  /\ ActsOk' /\ act'["turn"] = Idle /\ \A q \in Procs : q # "turn" => act'[q] = act[q]
         /\ RoundsOk' /\ SeatsOk'
         /\ \E youngest \in 1 .. MaxRounds + 1 :
              \A r \in Ids :
                IF r \in Swept(youngest)
                THEN /\ round'[r].status = "completed" /\ round'[r].mode = round[r].mode
                     /\ round'[r].index = round[r].index /\ Opened(r)
                     /\ \A a \in Agents : seat'[r][a] = IF seat[r][a] \in OpenSeat THEN "observed" ELSE seat[r][a]
                ELSE round'[r] = round[r] /\ seat'[r] = seat[r]
<1> USE Numbers
<1>1. TypeOK /\ TypesOk
  BY TypeParts DEF Formed
<1>2. act' = [act EXCEPT !["turn"] = Idle]
  BY DEF close_orphaned_channel_rounds
<1>3. ActsOk' /\ act'["turn"] = Idle /\ \A q \in Procs : q # "turn" => act'[q] = act[q]
  BY <1>1, <1>2, Becomes, IdleFacts, Zenon
<1>4. PICK youngest \in 1 .. MaxRounds + 1 :
        /\ seat' = [r \in Ids |-> [a \in Agents |->
                           IF r \in Swept(youngest) /\ seat[r][a] \in OpenSeat THEN "observed"
                           ELSE seat[r][a]]]
        /\ round' = [r \in Ids |-> IF r \in Swept(youngest)
                            THEN [round[r] EXCEPT !.status = "completed"] ELSE round[r]]
  BY DEF close_orphaned_channel_rounds, Swept
<1>5. Swept(youngest) \subseteq Active
  BY DEF Swept
<1> DEFINE dead == Swept(youngest)
<1> HIDE DEF dead
<1>6. SeatsOk'
  BY <1>1, <1>4 DEF TypesOk, SeatsOk, Statuses, dead
<1>7. \A r \in Ids : IF r \in dead
                     THEN \A a \in Agents : seat'[r][a] = IF seat[r][a] \in OpenSeat THEN "observed" ELSE seat[r][a]
                     ELSE seat'[r] = seat[r]
  BY <1>1, <1>4 DEF TypesOk, SeatsOk, dead
<1>8. \A r \in Ids : IF r \in dead
                     THEN /\ round'[r].status = "completed" /\ round'[r].mode = round[r].mode
                          /\ round'[r].index = round[r].index /\ Opened(r)
                          /\ round'[r] \in [status : {"none", "active", "completed"}, tip : 0 .. LastTip,
                                            index : 0 .. Cap, mode : Modes]
                     ELSE round'[r] = round[r]
  BY <1>1, <1>4, <1>5, ActiveOpened DEF TypesOk, RoundsOk, dead
<1>9. NoRound.status = "none"
  BY DEF NoRound
<1>10. RoundsOk'
  <2>1. \A r \in Ids : round'[r] \in [status : {"none", "active", "completed"}, tip : 0 .. LastTip,
                                      index : 0 .. Cap, mode : Modes]
    BY <1>1, <1>8 DEF TypesOk, RoundsOk
  <2>2. round' = [r \in Ids |-> round'[r]]
    BY <1>4
  <2>3. \A r \in Ids : round'[r].status = "none" <=> round'[r] = NoRound
    BY <1>1, <1>8, <1>9 DEF TypesOk, RoundsOk
  <2> QED
    BY <2>1, <2>2, <2>3 DEF RoundsOk
<1> QED
  BY <1>3, <1>6, <1>7, <1>8, <1>10 DEF dead

LEMMA SweepTypes ==
  ASSUME Formed, close_orphaned_channel_rounds PROVE TypeOK' /\ Shape' /\ Moves(Turn)
<1> USE Numbers
<1>1. TypeOK /\ TypesOk /\ UNCHANGED <<boss, incidents, wakes, said, halted>>
  BY TypeParts DEF Formed, close_orphaned_channel_rounds
<1>2. /\ ActsOk' /\ act'["turn"] = Idle /\ \A q \in Procs : q # "turn" => act'[q] = act[q]
      /\ RoundsOk' /\ SeatsOk'
  BY SweepFacts
<1>3. PICK youngest \in 1 .. MaxRounds + 1 :
              \A r \in Ids :
                IF r \in Swept(youngest)
                THEN /\ round'[r].status = "completed" /\ round'[r].mode = round[r].mode
                     /\ round'[r].index = round[r].index /\ Opened(r)
                     /\ \A a \in Agents : seat'[r][a] = IF seat[r][a] \in OpenSeat THEN "observed" ELSE seat[r][a]
                ELSE round'[r] = round[r] /\ seat'[r] = seat[r]
  BY SweepFacts, Zenon
<1>4. \A r \in Ids : /\ Opened(r)' <=> Opened(r)
                     /\ round'[r].index = round[r].index /\ round'[r].mode = round[r].mode
  BY <1>3 DEF Opened
<1>5. \A r \in Ids, a \in Agents : seat[r][a] = "none" => seat'[r][a] = "none"
  BY <1>3 DEF OpenSeat
<1>6. TypeOK'
  BY <1>1, <1>2, TypeParts DEF TypesOk, BossOk, HistoryOk, boss
<1>7. \A r \in Ids : Waits(r)' <=> Waits(r)
  BY <1>1 DEF Waits
<1>8. Moves(Turn)
  BY <1>1, <1>2, <1>4, <1>5, <1>7, IdleLocal DEF Moves, Turn
<1> QED
  BY <1>6, <1>8, ShapeStep DEF Turn

-----------------------------------------------------------------------------
(* The first theorem: types and shape.                                      *)

LEMMA InitFormed == Init => Formed
<1> SUFFICES ASSUME Init PROVE Formed
  OBVIOUS
<1> USE Numbers
<1>1. \A p \in Procs : act[p] = Idle
  BY DEF Init
<1>2. NoRound \in [status : {"none", "active", "completed"}, tip : 0 .. LastTip,
                   index : 0 .. Cap, mode : Modes] /\ NoRound.status = "none"
  BY DEF NoRound, Modes
<1>3. RoundsOk /\ SeatsOk /\ ActsOk
  BY <1>1, <1>2, IdleFacts DEF Init, RoundsOk, SeatsOk, ActsOk, Statuses
<1>4. BossOk /\ HistoryOk /\ wakes \subseteq Wake
  <2>1. tip \in 0 .. LastTip /\ phrases \subseteq 1 .. tip /\ incidents \in 0 .. MaxIncidents
    BY DEF Init
  <2>2. paused \in BOOLEAN
    BY Zenon DEF Init
  <2>3. HistoryOk /\ wakes \subseteq Wake
    BY DEF Init, HistoryOk
  <2> QED
    BY <2>1, <2>2, <2>3 DEF BossOk
<1>5. TypeOK
  BY <1>3, <1>4, TypeParts DEF TypesOk
<1>6. \A r \in Ids : ~Opened(r)
  BY <1>2 DEF Init, Opened
<1>7. FreeIds = (0 + 1) .. MaxRounds
  BY <1>6 DEF FreeIds, Opened, Ids
<1>8. Gapless /\ RowsOk
  BY <1>6, <1>7 DEF Gapless, RowsOk, Init
<1>9. Referred /\ Installing
  BY <1>1, IdleFacts DEF Referred, Installing, Installs, Init
<1>10. \A p \in Procs : Local(p)
  BY <1>1, IdleFacts DEF Local, TurnShape, ResetShape, PosterShape, T, Bound
<1> QED
  BY <1>5, <1>8, <1>9, <1>10 DEF Formed, Shape

LEMMA FormedStep == Formed /\ [Next]_vars => Formed'
<1> SUFFICES ASSUME Formed, [Next]_vars PROVE TypeOK' /\ Shape'
  BY DEF Formed
<1> USE Numbers
<1>1. ASSUME NEW p \in Finishers, Finishes(p) PROVE TypeOK' /\ Shape'
  <2>1. p \in Procs
    BY DEF Finishers
  <2> QED
    BY <1>1, <2>1, FinalizeTypes, AdvanceTypes, RedecideTypes, CreateTypes, InstallTypes, FilesTypes, Zenon
    DEF Finishes
<1>2. CASE TurnNext
  <2>1. CASE Finishes("turn")
    BY <1>1, <2>1 DEF Finishers
  <2>2. CASE start_channel_peer_round("turn")
    BY <2>2, StartTypes, Zenon
  <2>3. CASE Claim \/ Answers \/ observe_channel_message \/ passes \/ release_channel_seat
    BY <2>3, ClaimTypes, AnswersTypes, ObserveTypes, PassesTypes, ReleaseTypes
  <2>4. CASE reserve_slot \/ begin_channel_response \/ _persist_reply \/ supersede_stale_thread_turn
    BY <2>4, ReserveTypes, BeginTypes, PersistTypes, SupersedeTypes
  <2>5. CASE ReadsLive \/ close_orphaned_channel_rounds
    BY <2>5, ReadsTypes, SweepTypes
  <2> QED
    BY <1>2, <2>1, <2>2, <2>3, <2>4, <2>5 DEF TurnNext
<1>3. CASE Finishes("reset")
  BY <1>1, <1>3 DEF Finishers
<1>4. CASE \E p \in Posters : Says(p) \/ PosterNext(p)
  <2>1. PICK p \in Posters : Says(p) \/ PosterNext(p)
    BY <1>4
  <2>2. p \in Procs /\ p # "reset" /\ p \in Posters
    BY <2>1
  <2>3. CASE Says(p)
    BY <2>2, <2>3, SaysTypes
  <2>4. CASE Hears(p)
    BY <2>2, <2>4, HearsTypes, Zenon
  <2>5. CASE start_channel_peer_round(p)
    BY <2>2, <2>5, StartTypes, Zenon
  <2>6. CASE create_round(p)
    BY <2>2, <2>6, CreateTypes
  <2>7. CASE _install_round_queue(p)
    BY <2>2, <2>7, InstallTypes
  <2>8. CASE Files(p)
    BY <2>2, <2>8, FilesTypes
  <2> QED
    BY <2>1, <2>3, <2>4, <2>5, <2>6, <2>7, <2>8 DEF PosterNext
<1>5. CASE PauseButton \/ ResumeButton \/ Resets \/ TurnGivesUp \/ Crash
  BY <1>5, PauseTypes, ResumeTypes, ResetsTypes, GivesUpTypes, CrashTypes
<1>6. CASE UNCHANGED vars
  <2>1. TypeOK'
    BY <1>6 DEF Formed, TypeOK, vars, boss
  <2>2. Shape'
    BY <1>6 DEF Formed, Shape, Gapless, RowsOk, Referred, Local, Installing, FreeIds, Opened, Unfilled,
       Waits, Holds, On, Mails, Installs, TurnShape, ResetShape, PosterShape, T, Bound, vars, boss
  <2> QED
    BY <2>1, <2>2
<1> QED
  BY <1>2, <1>3, <1>4, <1>5, <1>6 DEF Next

\* The rows of rounds, seats and wakes, and what every process holds, keep their
\* types: a completed round was opened, an idle process holds nothing.
THEOREM Types == Spec => []TypeOK
<1>1. Formed => TypeOK
  BY DEF Formed
<1> QED
  BY InitFormed, FormedStep, <1>1, PTL DEF Spec

-----------------------------------------------------------------------------
(* One seat responds at a time: only two statements promote a seat, and both *)
(* ask first whether another one responds.                                   *)

OneResponds ==
  \A r \in Ids, a, b \in Agents : seat[r][a] = "responding" /\ seat[r][b] = "responding" => a = b

NobodyPromotes ==
  \A r \in Ids, a \in Agents : seat'[r][a] = "responding" => seat[r][a] = "responding"
\* Who was responding may be closed by the statement that promotes the next.
PromotesOne(r, a, closed) ==
  /\ \A b \in Agents \ {closed} : seat[r][b] # "responding"
  /\ a # closed => seat'[r][closed] # "responding"
  /\ \A q \in Ids, b \in Agents :
       seat'[q][b] = "responding" => seat[q][b] = "responding" \/ (q = r /\ b = a)

LEMMA RespondsKept == ASSUME OneResponds, NobodyPromotes PROVE OneResponds'
BY DEF OneResponds, NobodyPromotes

LEMMA PromotedAlone ==
  ASSUME OneResponds, NEW r \in Ids, NEW a \in Agents, NEW closed \in Agents,
         PromotesOne(r, a, closed)
  PROVE  OneResponds'
<1> SUFFICES ASSUME NEW q \in Ids, NEW b \in Agents, NEW c \in Agents,
                    seat'[q][b] = "responding", seat'[q][c] = "responding"
             PROVE  b = c
  BY DEF OneResponds
<1>1. CASE q # r
  BY <1>1 DEF OneResponds, PromotesOne
<1>2. CASE q = r
  <2>1. ASSUME NEW d \in Agents, seat'[r][d] = "responding" PROVE d = a
    BY <2>1 DEF PromotesOne
  <2> QED
    BY <1>2, <2>1
<1> QED
  BY <1>1, <1>2

LEMMA SameSeats == ASSUME OneResponds, UNCHANGED seat PROVE OneResponds'
BY DEF OneResponds

LEMMA TurnResponds ==
  ASSUME Formed, OneResponds,
         \/ observe_channel_message \/ reserve_slot \/ begin_channel_response
         \/ supersede_stale_thread_turn \/ close_orphaned_channel_rounds
  PROVE  OneResponds'
<1> USE Numbers
<1>1. TypeOK /\ SeatsOk
  BY TypeParts DEF Formed, TypesOk
<1>2. CASE observe_channel_message
  <2>1. T.round \in Ids /\ T.agent \in Agents
    BY <1>2, TurnBound DEF observe_channel_message
  <2>2. seat' = [seat EXCEPT ![T.round][T.agent] = "observed"]
    BY <1>2 DEF observe_channel_message, Marks
  <2>3. NobodyPromotes
    BY <1>1, <2>1, <2>2 DEF NobodyPromotes, SeatsOk
  <2> QED
    BY <2>3, RespondsKept
<1>3. CASE reserve_slot
  <2>1. T.round \in Ids /\ T.agent \in Agents
    BY <1>3, TurnBound DEF reserve_slot
  <2>2. NobodyPromotes
    BY <1>1, <1>3, <2>1 DEF NobodyPromotes, SeatsOk, reserve_slot
  <2> QED
    BY <2>2, RespondsKept
<1>4. CASE begin_channel_response
  <2>1. T.round \in Ids /\ T.agent \in Agents
    BY <1>4, TurnBound DEF begin_channel_response
  <2>2. CASE UNCHANGED seat
    BY <2>2, SameSeats
  <2>3. CASE \E a \in next_candidate(T.round) : seat' = [seat EXCEPT ![T.round][a] = "responding"]
    <3>1. PICK a \in next_candidate(T.round) : seat' = [seat EXCEPT ![T.round][a] = "responding"]
      BY <2>3, Zenon
    <3>2. a \in Agents /\ In(T.round, {"responding"}) = {}
      BY <3>1 DEF next_candidate, In
    <3>3. PromotesOne(T.round, a, a)
      BY <1>1, <2>1, <3>1, <3>2 DEF PromotesOne, In, SeatsOk
    <3> QED
      BY <2>1, <3>2, <3>3, PromotedAlone, Zenon
  <2> QED
    BY <1>4, <2>2, <2>3 DEF begin_channel_response
<1>5. CASE supersede_stale_thread_turn
  <2>1. /\ \A r \in Ids : r # T.round => seat'[r] = seat[r]
        /\ \A a \in Agents : seat'[T.round][a] =
              IF seat[T.round][a] \in {"pending", "queued"} \/ (a = T.agent /\ seat[T.round][a] \in OpenSeat)
              THEN "observed" ELSE seat[T.round][a]
    BY <1>5, SupersedeFacts
  <2>2. NobodyPromotes
    BY <2>1 DEF NobodyPromotes
  <2> QED
    BY <2>2, RespondsKept
<1>6. CASE close_orphaned_channel_rounds
  <2>1. PICK youngest \in 1 .. MaxRounds + 1 :
              \A r \in Ids :
                IF r \in Swept(youngest)
                THEN \A a \in Agents : seat'[r][a] = IF seat[r][a] \in OpenSeat THEN "observed" ELSE seat[r][a]
                ELSE seat'[r] = seat[r]
    BY <1>6, SweepFacts
  <2>2. NobodyPromotes
    BY <2>1 DEF NobodyPromotes
  <2> QED
    BY <2>2, RespondsKept
<1> QED
  BY <1>2, <1>3, <1>4, <1>5, <1>6

LEMMA FinisherResponds ==
  ASSUME Formed, OneResponds, NEW p \in Finishers,
         finalize_channel_response(p) \/ advance_channel_round(p) \/ _redecide_remaining(p)
  PROVE  OneResponds'
<1> DEFINE r == act[p].round
           own == act[p].agent
<1>1. TypeOK /\ SeatsOk
  BY TypeParts DEF Formed, TypesOk
<1>2. r \in Ids /\ own \in Agents
  BY FinisherBound, Zenon DEF finalize_channel_response, advance_channel_round, _redecide_remaining
<1>3. CASE finalize_channel_response(p)
  <2>1. CASE \E a \in Agents : /\ a # own /\ Promoted(p, a)
                               /\ \A b \in Agents : b # own => seat[r][b] # "responding"
    <3>1. PICK a \in Agents : /\ a # own /\ Promoted(p, a)
                              /\ \A b \in Agents : b # own => seat[r][b] # "responding"
      BY <2>1
    <3>2. Closing(p) # "responding"
      BY DEF Closing
    <3>3. PromotesOne(r, a, own)
      BY <1>1, <1>2, <3>1, <3>2 DEF PromotesOne, Promoted, SeatsOk
    <3> QED
      BY <1>2, <3>1, <3>3, PromotedAlone
  <2>2. CASE NobodyPromoted(p)
    <3>1. NobodyPromotes
      BY <1>1, <1>2, <2>2 DEF NobodyPromotes, NobodyPromoted, Closing, SeatsOk
    <3> QED
      BY <3>1, RespondsKept
  <2> QED
    BY <1>3, <2>1, <2>2, FinalizeCases, Zenon
<1>4. CASE advance_channel_round(p)
  <2>1. CASE UNCHANGED seat
    BY <2>1, SameSeats
  <2>2. CASE \E a \in Agents : seat' = [seat EXCEPT ![r][a] = "queued"]
    <3>1. NobodyPromotes
      BY <1>1, <1>2, <2>2 DEF NobodyPromotes, SeatsOk
    <3> QED
      BY <3>1, RespondsKept
  <2> QED
    BY <1>4, <2>1, <2>2, AdvanceCases, Zenon
<1>5. CASE _redecide_remaining(p)
  <2>1. PICK x, row : /\ row \in [Agents -> Statuses]
                      /\ seat' = [seat EXCEPT ![r] = row]
                      /\ Requeues(p, x, row) \/ NobodyLeft(p, x, row)
    BY <1>5, RedecideCases
  <2>2. \A a \in Agents : row[a] = "responding" => seat[r][a] = "responding"
    BY <2>1 DEF Requeues, NobodyLeft
  <2>3. NobodyPromotes
    BY <1>1, <1>2, <2>1, <2>2 DEF NobodyPromotes, SeatsOk
  <2> QED
    BY <2>3, RespondsKept
<1> QED
  BY <1>3, <1>4, <1>5

LEMMA CancelsResponds ==
  ASSUME TypeOK, OneResponds, NEW R \in SUBSET Ids, \A r \in R : Opened(r), NEW spared, Cancels(R, spared)
  PROVE  OneResponds'
<1>1. \A r \in Ids, a \in Agents : seat'[r][a] =
          IF Dropped(R, spared, r, a) THEN "observed" ELSE seat[r][a]
  BY CancelsFacts
<1>2. NobodyPromotes
  BY <1>1 DEF NobodyPromotes
<1> QED
  BY <1>2, RespondsKept

LEMMA OpenerResponds ==
  ASSUME Formed, OneResponds, NEW p \in Procs,
         create_round(p) \/ _install_round_queue(p) \/ (p # "reset" /\ start_channel_peer_round(p))
         \/ (p \in Posters /\ Hears(p))
  PROVE  OneResponds'
<1>1. TypeOK
  BY DEF Formed
<1>2. CASE create_round(p)
  BY <1>2, SameSeats DEF create_round
<1>3. CASE _install_round_queue(p)
  <2>1. PICK r \in Ids, speak \in SUBSET Agents, first \in Agents \cup {NoAgent} :
              Installs(p, r) /\ act[p].ids = {r} /\ Fills(p, r, speak, first)
    BY <1>3, InstallCases
  <2>2. Filled(p, r, speak, first)
    BY <2>1, FillsFacts
  <2>3. NobodyPromotes
    BY <2>2 DEF NobodyPromotes, Filled
  <2> QED
    BY <2>3, RespondsKept
<1>4. CASE p # "reset" /\ start_channel_peer_round(p)
  <2>1. Cancels(Active, {}) \/ UNCHANGED seat
    BY <1>4, StartCases
  <2> QED
    BY <1>1, <2>1, ActiveOpened, CancelsResponds, SameSeats
<1>5. CASE p \in Posters /\ Hears(p)
  <2>1. Cancels(HearsOf(p), HearsSpared(p))
    BY <1>5, HearsTypes, Zenon
  <2>2. HearsOf(p) \in SUBSET Ids /\ \A r \in HearsOf(p) : Opened(r)
    BY ActiveOpened DEF HearsOf
  <2> QED
    BY <1>1, <2>1, <2>2, CancelsResponds
<1> QED
  BY <1>2, <1>3, <1>4, <1>5

LEMMA RespondsStep == Formed /\ OneResponds /\ [Next]_vars => OneResponds'
<1> SUFFICES ASSUME Formed, OneResponds, [Next]_vars PROVE OneResponds'
  OBVIOUS
<1> USE Numbers
<1>1. ASSUME NEW p \in Finishers, Finishes(p) PROVE OneResponds'
  <2>1. p \in Procs
    BY DEF Finishers
  <2>2. Files(p) => UNCHANGED seat
    BY DEF Files
  <2> QED
    BY <1>1, <2>1, <2>2, FinisherResponds, OpenerResponds, SameSeats DEF Finishes
<1>2. CASE TurnNext
  <2>1. CASE Finishes("turn")
    BY <1>1, <2>1 DEF Finishers
  <2>2. CASE start_channel_peer_round("turn")
    BY <2>2, OpenerResponds
  <2>3. CASE Claim \/ Answers \/ passes \/ release_channel_seat \/ _persist_reply \/ ReadsLive
    BY <2>3, SameSeats, Zenon DEF Claim, Answers, passes, release_channel_seat, _persist_reply, ReadsLive
  <2>4. CASE \/ observe_channel_message \/ reserve_slot \/ begin_channel_response
             \/ supersede_stale_thread_turn \/ close_orphaned_channel_rounds
    BY <2>4, TurnResponds
  <2> QED
    BY <1>2, <2>1, <2>2, <2>3, <2>4 DEF TurnNext
<1>3. CASE Finishes("reset")
  BY <1>1, <1>3 DEF Finishers
<1>4. CASE \E p \in Posters : Says(p) \/ PosterNext(p)
  <2>1. PICK p \in Posters : Says(p) \/ PosterNext(p)
    BY <1>4
  <2>2. p \in Procs /\ p # "reset" /\ p \in Posters
    BY <2>1
  <2>3. CASE Says(p) \/ Files(p)
    BY <2>3, SameSeats DEF Says, Files
  <2>4. CASE Hears(p) \/ start_channel_peer_round(p) \/ create_round(p) \/ _install_round_queue(p)
    BY <2>2, <2>4, OpenerResponds
  <2> QED
    BY <2>1, <2>3, <2>4 DEF PosterNext
<1>5. CASE PauseButton
  BY <1>5, ActiveOpened, CancelsResponds DEF PauseButton, Formed
<1>6. CASE ResumeButton \/ Resets \/ TurnGivesUp \/ Crash \/ UNCHANGED vars
  BY <1>6, SameSeats DEF ResumeButton, Resets, TurnGivesUp, Crash, vars
<1> QED
  BY <1>2, <1>3, <1>4, <1>5, <1>6 DEF Next

\* In every round one seat at most is responding, whoever promotes the next
\* one and whatever the handlers, resets and restarts do in between: the two
\* statements that promote a seat ask first (activate_next_candidate,
\* finalize_shared_response).
THEOREM OneSeatResponds == Spec => []OneResponder
<1>1. Init => OneResponds
  <2> SUFFICES ASSUME Init, NEW r \in Ids, NEW a \in Agents, seat[r][a] = "responding" PROVE FALSE
    BY DEF OneResponds
  <2> QED
    BY DEF Init
<1>2. ASSUME OneResponds PROVE OneResponder
  <2> SUFFICES ASSUME NEW r \in Ids PROVE Cardinality(In(r, {"responding"})) <= 1
    BY DEF OneResponder
  <2>1. CASE In(r, {"responding"}) = {}
    BY <2>1, FS_EmptySet
  <2>2. CASE In(r, {"responding"}) # {}
    <3>1. PICK a \in Agents : seat[r][a] = "responding"
      BY <2>2 DEF In
    <3>2. In(r, {"responding"}) = {a}
      BY <1>2, <3>1 DEF In, OneResponds
    <3>3. Cardinality({a}) = 1
      BY FS_Singleton, Zenon
    <3> QED
      BY <3>2, <3>3
  <2> QED
    BY <2>1, <2>2
<1> QED
  BY InitFormed, FormedStep, RespondsStep, <1>1, <1>2, PTL DEF Spec
===============================================================================
