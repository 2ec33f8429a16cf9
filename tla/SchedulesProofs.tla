---------------------------- MODULE SchedulesProofs ----------------------------
(***************************************************************************)
(* Proofs about Schedules, for every number of schedules, every rule and any *)
(* length of time: an occurrence creates at most one task, nothing is        *)
(* replayed, no reload is lost, and runs stack only where they overlapped or *)
(* were not recorded.                                                        *)
(***************************************************************************)
EXTENDS Schedules, FiniteSetTheorems, TLAPS

-----------------------------------------------------------------------------
(* The inductive invariant.                                                 *)

\* What a thread has read.
HasRule(h) ==
  /\ thread[h].at \in {"fire", "record"} =>
       thread[h].outcome \notin {"raised", "dropped"} /\ thread[h].rule \in Rules
  /\ thread[h].at = "done" =>
       thread[h].outcome \in {"raised", "dropped"} \/ thread[h].rule \in Rules

\* An occurrence is on its way to its task: popped, read or let through.
InThread(h, s, i) ==
  thread[h].at \in {"read", "fire"} /\ thread[h].s = s /\ thread[h].due = i
Waiting(s, i) == <<s, i>> \in watch.todo \/ \E h \in {"watch", "orphan"} : InThread(h, s, i)

\* Once popped or run it is behind the clock, behind the loop's now, and behind
\* the entry of its schedule.
Behind(s, i) ==
  /\ i <= clock
  /\ watch.at = "run" => i <= watch.now
  /\ table[s].at # 0 => i < table[s].at
Ordered ==
  /\ begun <= clock
  /\ watch.at = "run" => begun <= watch.now /\ watch.now <= clock
  /\ \A s \in Schedules, i \in Instants : runs[s][i] > 0 \/ Waiting(s, i) => Behind(s, i)

\* It is on its way once, and before its task.
Once ==
  /\ \A s \in Schedules, i \in Instants : runs[s][i] <= 1 /\ (Waiting(s, i) => runs[s][i] = 0)
  /\ \A s \in Schedules, i \in Instants :
       /\ ~(InThread("watch", s, i) /\ InThread("orphan", s, i))
       /\ \A h \in {"watch", "orphan"} : InThread(h, s, i) => <<s, i>> \notin watch.todo

\* What the loop knows is from after its start.
Fresh ==
  /\ worker = "running" => \A s \in Schedules : table[s].at # 0 => table[s].at > begun
  /\ \A s \in Schedules, i \in Instants :
       <<s, i>> \in watch.todo \/ InThread("watch", s, i) => i > begun

\* The loop has each schedule in the timetable or in hand, or will sync.
InHand(s) == thread["watch"].s = s \/ \E i \in Instants : <<s, i>> \in watch.todo
Asked == asking \/ command # "none" \/ reload
Known ==
  /\ watch.at = "sleep" => watch.todo = {}
  /\ \A s \in Schedules, i \in Instants :
       <<s, i>> \in watch.todo =>
         /\ thread["watch"].s # s
         /\ \A j \in Instants : <<s, j>> \in watch.todo => i = j
  /\ \A s \in Schedules : InHand(s) => table[s].at = 0
  /\ worker = "running" => \A s \in Schedules : InStep(s) \/ InHand(s) \/ Asked
  /\ LET e == thread["watch"]
     IN e.at \in {"fire", "record", "done"} /\ e.outcome # "raised" =>
          \/ Asked
          \/ e.outcome = "dropped" /\ row[e.s].is # "on"
          \/ e.outcome # "dropped" /\ row[e.s].is = "on" /\ row[e.s].rule = e.rule

Core == TypeOK /\ \A h \in Threads : HasRule(h)
IInv == Core /\ Ordered /\ Once /\ Fresh /\ Known
-----------------------------------------------------------------------------
(* What the steps do.                                                       *)

LEMMA NextIsAhead ==
  ASSUME NEW r \in Rules, NEW i \in Instants
  PROVE  next_occurrence[r][i] \in 1 .. Never /\ next_occurrence[r][i] > i
BY ScheduleAssumption DEF ScheduleAssumption

\* The timetable that a pass pops from: no entry of it is new and due.
Loaded == IF reload THEN synced ELSE table
LEMMA LoadedFacts ==
  ASSUME Core, NEW s \in Schedules
  PROVE  /\ Loaded[s] \in [at : 0 .. Never, rule : Rules \cup {None}]
         /\ Loaded[s].at = 0 <=> Loaded[s].rule = None
         /\ Loaded[s].at # 0 => Loaded[s] = table[s] \/ Loaded[s].at > clock
         /\ reload => (IF row[s].is = "on" THEN Loaded[s].at # 0 /\ Loaded[s].rule = row[s].rule
                       ELSE Loaded[s].at = 0)
         /\ ~reload => Loaded[s] = table[s]
<1> USE DEF Core, TypeOK
<1>1. CASE ~reload
  BY <1>1 DEF Loaded
<1>2. CASE reload
  <2>1. Loaded[s] = synced[s]
    BY <1>2 DEF Loaded
  <2>2. row[s].rule \in Rules /\ None \notin Rules /\ Last \in Nat
    BY ScheduleAssumption DEF ScheduleAssumption
  <2>3. /\ next_occurrence[row[s].rule][clock] \in 1 .. Never
        /\ next_occurrence[row[s].rule][clock] > clock
    BY <2>2, NextIsAhead
  <2> QED
    BY <1>2, <2>1, <2>2, <2>3 DEF synced, NoEntry, Never
<1> QED
  BY <1>1, <1>2

\* What a pass takes is what the timetable already had.
Popped == {s \in Schedules : Loaded[s].at # 0 /\ Loaded[s].at <= clock}
LEMMA WakesFacts ==
  ASSUME Core, Wakes
  PROVE  /\ worker = "running" /\ watch.at = "sleep" /\ reload' = FALSE
         /\ \A s \in Popped : table'[s] = NoEntry /\ Loaded[s] = table[s]
         /\ \A s \in Schedules \ Popped : table'[s] = Loaded[s]
         /\ table' = [s \in Schedules |-> IF s \in Popped THEN NoEntry ELSE Loaded[s]]
         /\ UNCHANGED <<clock, worker, clicks, rowVars, begun, askVars>>
         /\ \/ Popped = {} /\ UNCHANGED <<watch, thread>>
            \/ \E p \in Popped :
                 /\ watch' = [at |-> "run", now |-> clock,
                              todo |-> {<<s, table[s].at>> : s \in Popped} \ {<<p, table[p].at>>}]
                 /\ thread' = Runs(p, table[p].at, clock)
<1> DEFINE due == {<<s, Loaded[s].at>> : s \in Popped}
<1>1. pop_due(Loaded) = Popped
  BY DEF pop_due, Popped
<1>2. \A s \in Popped : Loaded[s] = table[s]
  <2> SUFFICES ASSUME NEW s \in Popped PROVE Loaded[s] = table[s]
    OBVIOUS
  <2>1. s \in Schedules /\ Loaded[s].at # 0 /\ Loaded[s].at <= clock
    BY DEF Popped
  <2>2. clock \in Nat /\ Loaded[s].at \in Nat
    <3>1. Loaded[s].at \in 0 .. Never /\ clock \in 0 .. Last
      BY <2>1, LoadedFacts DEF Core, TypeOK, Instants
    <3> QED
      BY <3>1, ScheduleAssumption DEF Never, ScheduleAssumption
  <2> QED
    BY <2>1, <2>2, LoadedFacts
<1>3. due = {<<s, table[s].at>> : s \in Popped}
  BY <1>2
<1>4. /\ worker = "running" /\ watch.at = "sleep" /\ reload' = FALSE
      /\ table' = [s \in Schedules |-> IF s \in Popped THEN NoEntry ELSE Loaded[s]]
      /\ UNCHANGED <<clock, worker, clicks, rowVars, begun, askVars>>
      /\ IF due = {} THEN UNCHANGED <<watch, thread>>
         ELSE \E e \in due :
                /\ watch' = [at |-> "run", now |-> clock, todo |-> due \ {e}]
                /\ thread' = Runs(e[1], e[2], clock)
  BY <1>1 DEF Wakes, Loaded
<1>5. Popped \subseteq Schedules
  BY DEF Popped
<1>7. ASSUME NEW p \in Popped,
             watch' = [at |-> "run", now |-> clock, todo |-> due \ {<<p, Loaded[p].at>>}],
             thread' = Runs(p, Loaded[p].at, clock)
      PROVE  /\ watch' = [at |-> "run", now |-> clock,
                          todo |-> {<<s, table[s].at>> : s \in Popped} \ {<<p, table[p].at>>}]
             /\ thread' = Runs(p, table[p].at, clock)
  BY <1>2, <1>3, <1>7
<1>8. \/ Popped = {} /\ UNCHANGED <<watch, thread>>
      \/ \E p \in Popped :
           /\ watch' = [at |-> "run", now |-> clock,
                        todo |-> {<<s, table[s].at>> : s \in Popped} \ {<<p, table[p].at>>}]
           /\ thread' = Runs(p, table[p].at, clock)
  <2>1. CASE due = {}
    <3>1. Popped = {}
      BY <2>1
    <3> QED
      BY <1>4, <2>1, <3>1
  <2>2. CASE due # {}
    <3>1. PICK e \in due : /\ watch' = [at |-> "run", now |-> clock, todo |-> due \ {e}]
                           /\ thread' = Runs(e[1], e[2], clock)
      BY <1>4, <2>2
    <3>2. PICK p \in Popped : e = <<p, Loaded[p].at>>
      BY <3>1
    <3> QED
      BY <1>7, <3>1, <3>2
  <2> QED
    BY <2>1, <2>2
<1> QED
  BY <1>2, <1>4, <1>5, <1>8

\* run_occurrence and run_now: what a step of a thread may change.
ThreadType == [at : {"none", "read", "fire", "record", "done"}, s : Schedules \cup {None},
               due : Instants, now : Instants, rule : Rules \cup {None}, task : Nat,
               outcome : Outcomes]
LEMMA GoesFacts ==
  ASSUME Core, NEW h \in Threads, NEW t \in ThreadType, thread' = [thread EXCEPT ![h] = t]
  PROVE  /\ thread' \in [Threads -> ThreadType] /\ thread'[h] = t
         /\ \A g \in Threads : g # h => thread'[g] = thread[g]
BY DEF Core, TypeOK, ThreadType

LEMMA FinishesFacts ==
  ASSUME Core, NEW h \in Threads, NEW outcome \in Outcomes, Finishes(h, outcome)
  PROVE  /\ thread' \in [Threads -> ThreadType]
         /\ \A g \in Threads : g # h => thread'[g] = thread[g]
         /\ h # "watch" => thread'[h] = NoThread
         /\ h = "watch" => thread'[h] = [thread[h] EXCEPT !.at = "done", !.outcome = outcome]
<1>1. thread[h] \in ThreadType /\ NoThread \in ThreadType
  BY ScheduleAssumption DEF Core, TypeOK, ThreadType, NoThread, Outcomes, Instants, ScheduleAssumption
<1>2. [thread[h] EXCEPT !.at = "done", !.outcome = outcome] \in ThreadType
  BY <1>1 DEF ThreadType
<1>3. CASE h = "watch"
  <2>1. thread' = [thread EXCEPT ![h] = [thread[h] EXCEPT !.at = "done", !.outcome = outcome]]
    BY <1>3 DEF Finishes, Goes
  <2> QED
    BY <1>2, <1>3, <2>1, GoesFacts
<1>4. CASE h # "watch"
  BY <1>1, <1>4, GoesFacts DEF Finishes
<1> QED
  BY <1>3, <1>4

\* What becomes of the thread that steps.
Stays(h) == thread'[h].s = thread[h].s /\ thread'[h].due = thread[h].due
Finished(h) ==
  \/ h # "watch" /\ thread'[h] = NoThread
  \/ h = "watch" /\ thread'[h].at = "done" /\ Stays(h)
LEMMA ReadsFacts ==
  ASSUME Core, NEW h \in Threads, Reads(h)
  PROVE  /\ thread[h].at = "read"
         /\ thread' \in [Threads -> ThreadType]
         /\ \A g \in Threads : g # h => thread'[g] = thread[g]
         /\ \/ Finished(h) /\ (h = "watch" => \/ thread'[h].outcome = "raised"
                                              \/ /\ thread'[h].outcome = "dropped"
                                                 /\ row[thread[h].s].is # "on")
            \/ /\ thread'[h].at \in {"fire", "record"} /\ Stays(h)
               /\ thread'[h].rule = row[thread[h].s].rule
               /\ thread'[h].outcome \notin {"raised", "dropped"}
               /\ h # "hand" => row[thread[h].s].is = "on"
         /\ UNCHANGED <<clock, worker, clicks, row, last, made, open, runs, loopVars, askVars>>
         /\ loose' \subseteq loose \cup {thread[h].s}
<1> DEFINE s == thread[h].s
           to(at, outcome) == [thread[h] EXCEPT !.rule = row[s].rule, !.at = at,
                                                !.outcome = outcome, !.now = 0]
           lets(at, outcome) == thread' = [thread EXCEPT ![h] = to(at, outcome)]
<1>1. thread[h].at = "read" /\ s \in Schedules
      /\ UNCHANGED <<clock, worker, clicks, row, last, made, open, runs, loopVars, askVars>>
  BY DEF Reads, Core, TypeOK
<1>2. loose' \subseteq loose \cup {s}
  BY DEF Reads
<1>3. \/ Finishes(h, "raised")
      \/ h # "hand" /\ row[s].is # "on" /\ Finishes(h, "dropped")
      \/ h # "hand" /\ row[s].is = "on" /\ (lets("record", "missed") \/ lets("record", "skipped")
                                           \/ lets("fire", "none"))
      \/ h = "hand" /\ lets("fire", "none")
  BY DEF Reads
<1>4. ASSUME NEW outcome \in {"raised", "dropped"}, Finishes(h, outcome)
      PROVE  /\ thread' \in [Threads -> ThreadType]
             /\ \A g \in Threads : g # h => thread'[g] = thread[g]
             /\ Finished(h) /\ (h = "watch" => thread'[h].outcome = outcome)
  <2>1. outcome \in Outcomes
    BY DEF Outcomes
  <2>2. /\ thread' \in [Threads -> ThreadType]
        /\ \A g \in Threads : g # h => thread'[g] = thread[g]
        /\ h # "watch" => thread'[h] = NoThread
        /\ h = "watch" => thread'[h] = [thread[h] EXCEPT !.at = "done", !.outcome = outcome]
    BY <1>4, <2>1, FinishesFacts
  <2>3. thread[h] \in ThreadType
    BY DEF Core, TypeOK, ThreadType
  <2>4. h = "watch" => /\ thread'[h].at = "done" /\ thread'[h].outcome = outcome
                       /\ thread'[h].s = thread[h].s /\ thread'[h].due = thread[h].due
    BY <2>2, <2>3 DEF ThreadType
  <2> QED
    BY <2>2, <2>4 DEF Finished, Stays
<1>5. ASSUME NEW at \in {"fire", "record"}, NEW outcome \in {"none", "missed", "skipped"},
             lets(at, outcome)
      PROVE  /\ thread' \in [Threads -> ThreadType]
             /\ \A g \in Threads : g # h => thread'[g] = thread[g]
             /\ thread'[h].at = at /\ Stays(h) /\ thread'[h].rule = row[s].rule
             /\ thread'[h].outcome = outcome
  <2>1. to(at, outcome) \in ThreadType
    <3>1. thread[h] \in ThreadType
      BY DEF Core, TypeOK, ThreadType
    <3>2. row[s].rule \in Rules /\ 0 \in Instants /\ outcome \in Outcomes
      BY <1>1, ScheduleAssumption DEF Core, TypeOK, Instants, Outcomes, ScheduleAssumption
    <3> QED
      BY <3>1, <3>2 DEF ThreadType
  <2>2. /\ to(at, outcome).at = at /\ to(at, outcome).s = s /\ to(at, outcome).due = thread[h].due
        /\ to(at, outcome).rule = row[s].rule /\ to(at, outcome).outcome = outcome
    BY DEF Core, TypeOK
  <2> QED
    BY <1>5, <2>1, <2>2, GoesFacts DEF Stays
<1> QED
  BY <1>1, <1>2, <1>3, <1>4, <1>5

LEMMA FireFacts ==
  ASSUME Core, NEW h \in Threads, _fire(h)
  PROVE  /\ thread[h].at = "fire"
         /\ thread' \in [Threads -> ThreadType]
         /\ \A g \in Threads : g # h => thread'[g] = thread[g]
         /\ thread'[h].at = "record" /\ Stays(h) /\ thread'[h].rule = thread[h].rule
         /\ thread'[h].outcome \in {"fired", "failed"}
         /\ UNCHANGED <<clock, worker, clicks, row, last, loose, loopVars, askVars>>
         /\ made' \in [Schedules -> Nat] /\ open' \in [Schedules -> SUBSET Nat]
         /\ \/ UNCHANGED runs
            \/ h # "hand" /\ runs' = [runs EXCEPT ![thread[h].s][thread[h].due] = @ + 1]
<1> DEFINE s == thread[h].s
           new == made[s] + 1
           fired == [thread[h] EXCEPT !.at = "record", !.outcome = "fired", !.task = new]
           failed == [thread[h] EXCEPT !.at = "record", !.outcome = "failed"]
<1>1. thread[h].at = "fire" /\ s \in Schedules /\ thread[h] \in ThreadType /\ new \in Nat
      /\ UNCHANGED <<clock, worker, clicks, row, last, loose, loopVars, askVars>>
  BY DEF _fire, Core, TypeOK, ThreadType
<1>2. \/ /\ thread' = [thread EXCEPT ![h] = fired]
         /\ made' = [made EXCEPT ![s] = new] /\ open' = [open EXCEPT ![s] = @ \cup {new}]
         /\ runs' = IF h = "hand" THEN runs ELSE [runs EXCEPT ![s][thread[h].due] = @ + 1]
      \/ thread' = [thread EXCEPT ![h] = failed] /\ UNCHANGED <<made, open, runs>>
  BY DEF _fire, Goes
<1>3. "record" \in {"none", "read", "fire", "record", "done"} /\ {"fired", "failed"} \subseteq Outcomes
  BY DEF Outcomes
<1>4. fired \in ThreadType /\ failed \in ThreadType
  BY <1>1, <1>3 DEF ThreadType
<1>5. /\ fired.at = "record" /\ fired.s = s /\ fired.due = thread[h].due
      /\ fired.rule = thread[h].rule /\ fired.outcome = "fired"
      /\ failed.at = "record" /\ failed.s = s /\ failed.due = thread[h].due
      /\ failed.rule = thread[h].rule /\ failed.outcome = "failed"
  BY <1>1 DEF ThreadType
<1>6. made' \in [Schedules -> Nat] /\ open' \in [Schedules -> SUBSET Nat]
  <2> DEFINE bigger == open[s] \cup {new}
  <2>1. /\ made \in [Schedules -> Nat] /\ open \in [Schedules -> SUBSET Nat]
        /\ \/ made' = [made EXCEPT ![s] = new] /\ open' = [open EXCEPT ![s] = bigger]
           \/ made' = made /\ open' = open
    BY <1>2 DEF Core, TypeOK
  <2>2. bigger \in SUBSET Nat
    BY <1>1, <2>1
  <2> QED
    BY <1>1, <2>1, <2>2
<1>7. CASE thread' = [thread EXCEPT ![h] = fired]
  BY <1>1, <1>2, <1>4, <1>5, <1>6, <1>7, GoesFacts DEF Stays
<1>8. CASE thread' = [thread EXCEPT ![h] = failed]
  BY <1>1, <1>2, <1>4, <1>5, <1>6, <1>8, GoesFacts DEF Stays
<1> QED
  BY <1>2, <1>7, <1>8

LEMMA RecordFacts ==
  ASSUME Core, NEW h \in Threads, record_outcome(h)
  PROVE  /\ thread[h].at = "record"
         /\ thread' \in [Threads -> ThreadType]
         /\ \A g \in Threads : g # h => thread'[g] = thread[g]
         /\ Finished(h)
         /\ h = "watch" => /\ thread'[h].outcome \in {thread[h].outcome, "raised"}
                           /\ thread'[h].rule = thread[h].rule
         /\ UNCHANGED <<clock, worker, clicks, row, made, open, runs, loopVars, askVars>>
         /\ last' \in [Schedules -> Nat] /\ loose' \subseteq Schedules
<1>1. thread[h].at = "record" /\ thread[h] \in ThreadType
      /\ UNCHANGED <<clock, worker, clicks, row, made, open, runs, loopVars, askVars>>
  BY DEF record_outcome, Core, TypeOK, ThreadType
<1>2. PICK outcome \in {thread[h].outcome, "raised"} : Finishes(h, outcome)
  BY DEF record_outcome
<1>3. outcome \in Outcomes
  BY <1>1 DEF ThreadType, Outcomes
<1>4. /\ thread' \in [Threads -> ThreadType]
      /\ \A g \in Threads : g # h => thread'[g] = thread[g]
      /\ h # "watch" => thread'[h] = NoThread
      /\ h = "watch" => thread'[h] = [thread[h] EXCEPT !.at = "done", !.outcome = outcome]
  BY <1>2, <1>3, FinishesFacts
<1>5. h = "watch" => /\ thread'[h].at = "done" /\ thread'[h].outcome = outcome
                     /\ thread'[h].s = thread[h].s /\ thread'[h].due = thread[h].due
                     /\ thread'[h].rule = thread[h].rule
  BY <1>1, <1>4 DEF ThreadType
<1>6. last' \in [Schedules -> Nat]
  BY DEF record_outcome, KeepsTask, Core, TypeOK
<1>7. loose' \subseteq Schedules
  BY DEF record_outcome, Core, TypeOK
<1> QED
  BY <1>1, <1>4, <1>5, <1>6, <1>7 DEF Finished, Stays
-----------------------------------------------------------------------------
(* Types.                                                                   *)

\* The threads and the loop, when nothing runs.
LEMMA NoneTypes ==
  /\ NoThread \in ThreadType /\ NoThread.at = "none" /\ NoThread.s = None
  /\ NoEntry \in [at : 0 .. Never, rule : Rules \cup {None}] /\ NoEntry.at = 0 /\ NoEntry.rule = None
  /\ Asleep \in [at : {"sleep", "run"}, now : Instants, todo : SUBSET (Schedules \X Instants)]
  /\ Asleep.at = "sleep" /\ Asleep.todo = {}
  /\ 0 \in Instants /\ None \notin Schedules \cup Rules /\ Last \in Nat
<1>1. /\ 0 \in Instants /\ 0 \in 0 .. Never /\ None \notin Schedules \cup Rules /\ Last \in Nat
  BY ScheduleAssumption DEF ScheduleAssumption, Instants, Never
<1> QED
  BY <1>1 DEF NoThread, NoEntry, Asleep, ThreadType, Outcomes

LEMMA InitTypes == ASSUME Init PROVE TypeOK
<1>1. /\ 0 \in 0 .. MaxEdits /\ 0 \in 0 .. MaxRunNows
  BY ScheduleAssumption DEF ScheduleAssumption
<1>2. /\ table \in [Schedules -> [at : 0 .. Never, rule : Rules \cup {None}]]
      /\ \A s \in Schedules : table[s].at = 0 <=> table[s].rule = None
  BY NoneTypes DEF Init
<1>3. /\ thread \in [Threads -> ThreadType]
      /\ \A h \in Threads : thread[h].at = "none" <=> thread[h].s = None
      /\ thread["watch"].at = "none"
  BY NoneTypes DEF Init, Threads
<1>4. watch \in [at : {"sleep", "run"}, now : Instants, todo : SUBSET (Schedules \X Instants)]
      /\ watch.at = "sleep"
  BY NoneTypes DEF Init
<1>5. /\ clock \in Instants /\ begun \in Instants
      /\ row \in [Schedules -> [is : {"none", "off", "on", "deleted"}, rule : Rules]]
      /\ made \in [Schedules -> Nat] /\ last \in [Schedules -> Nat]
      /\ open \in [Schedules -> SUBSET Nat]
      /\ runs \in [Schedules -> [Instants -> Nat]] /\ loose \subseteq Schedules
      /\ command = "none" /\ {asking, reload} \subseteq BOOLEAN
      /\ worker = "down"
  BY NoneTypes DEF Init
<1> QED
  BY <1>1, <1>2, <1>3, <1>4, <1>5 DEF Init, TypeOK, ThreadType

\* The steps that only touch the rows, the commands, the clock.
LEMMA PlainTypes ==
  ASSUME Core, TypeOK,
         \/ claim_runtime_command \/ request_reload \/ Ticks
         \/ \E s \in Schedules : TaskCloses(s) \/ Edits(s)
         \/ reload_schedules
  PROVE  TypeOK'
<1>1. CASE claim_runtime_command \/ request_reload
  BY <1>1 DEF claim_runtime_command, request_reload, TypeOK, rowVars, loopVars, askVars
<1>2. CASE Ticks
  <2>1. clock' \in Instants
    BY <1>2, ScheduleAssumption DEF Ticks, TypeOK, Instants, ScheduleAssumption
  <2> QED
    BY <1>2, <2>1 DEF Ticks, TypeOK, rowVars, loopVars, askVars
<1>3. ASSUME NEW s \in Schedules, TaskCloses(s) PROVE TypeOK'
  BY <1>3 DEF TaskCloses, TypeOK, loopVars, askVars
<1>4. ASSUME NEW s \in Schedules, Edits(s) PROVE TypeOK'
  <2>1. edits' \in 0 .. MaxEdits
    BY <1>4, ScheduleAssumption DEF Edits, TypeOK, ScheduleAssumption
  <2>2. row' \in [Schedules -> [is : {"none", "off", "on", "deleted"}, rule : Rules]]
    BY <1>4 DEF Edits, TypeOK
  <2> QED
    BY <1>4, <2>1, <2>2 DEF Edits, TypeOK, loopVars
<1>5. CASE reload_schedules
  BY <1>5 DEF reload_schedules, TypeOK, rowVars
<1> QED
  BY <1>1, <1>2, <1>3, <1>4, <1>5

LEMMA OneMore ==
  ASSUME NEW S, NEW f \in [S -> Nat], NEW i \in S
  PROVE  [f EXCEPT ![i] = @ + 1] \in [S -> Nat]
OBVIOUS

\* The threads after a step of one of them.
LEMMA SteppedTypes ==
  ASSUME Core, NEW h \in Threads, thread[h].at # "none",
         thread' \in [Threads -> ThreadType],
         \A g \in Threads : g # h => thread'[g] = thread[g],
         Finished(h) \/ (thread'[h].at \in {"fire", "record"} /\ Stays(h))
  PROVE  /\ \A g \in Threads : thread'[g].at = "none" <=> thread'[g].s = None
         /\ thread'["watch"].at # "none" <=> thread["watch"].at # "none"
<1>1. thread[h].s # None
  BY DEF Core, TypeOK
<1>2. thread'[h].at = "none" <=> thread'[h].s = None
  BY <1>1, NoneTypes DEF Finished, Stays
<1>3. h = "watch" => thread'[h].at # "none"
  BY DEF Finished
<1> QED
  BY <1>2, <1>3 DEF Core, TypeOK, Threads

LEMMA ThreadTypes ==
  ASSUME Core, NEW h \in Threads, ThreadSteps(h)
  PROVE  TypeOK'
<1> USE DEF Core
<1>1. CASE Reads(h)
  <2>1. /\ thread' \in [Threads -> ThreadType]
        /\ \A g \in Threads : thread'[g].at = "none" <=> thread'[g].s = None
        /\ thread'["watch"].at # "none" <=> thread["watch"].at # "none"
        /\ UNCHANGED <<clock, worker, clicks, row, last, made, open, runs, loopVars, askVars>>
    BY <1>1, ReadsFacts, SteppedTypes
  <2>2. thread[h].at = "read" /\ loose' \subseteq loose \cup {thread[h].s}
    BY <1>1, ReadsFacts
  <2>3. loose' \subseteq Schedules
    BY <2>2 DEF TypeOK
  <2> QED
    BY <2>1, <2>3 DEF TypeOK, ThreadType, loopVars, askVars
<1>2. CASE _fire(h)
  <2>1. /\ thread' \in [Threads -> ThreadType]
        /\ \A g \in Threads : thread'[g].at = "none" <=> thread'[g].s = None
        /\ thread'["watch"].at # "none" <=> thread["watch"].at # "none"
        /\ UNCHANGED <<clock, worker, clicks, row, last, loose, loopVars, askVars>>
        /\ made' \in [Schedules -> Nat] /\ open' \in [Schedules -> SUBSET Nat]
    BY <1>2, FireFacts, SteppedTypes
  <2>2. runs' \in [Schedules -> [Instants -> Nat]]
    <3> DEFINE more == [runs[thread[h].s] EXCEPT ![thread[h].due] = @ + 1]
    <3>1. UNCHANGED runs \/ runs' = [runs EXCEPT ![thread[h].s] = more]
      BY <1>2, FireFacts
    <3>2. thread[h].s \in Schedules => more \in [Instants -> Nat]
      <4> SUFFICES ASSUME thread[h].s \in Schedules PROVE more \in [Instants -> Nat]
        OBVIOUS
      <4>1. runs[thread[h].s] \in [Instants -> Nat] /\ thread[h].due \in Instants
        BY DEF TypeOK
      <4> QED
        BY <4>1, OneMore
    <3> HIDE DEF more
    <3> QED
      BY <3>1, <3>2 DEF TypeOK
  <2> QED
    BY <2>1, <2>2 DEF TypeOK, ThreadType, loopVars, askVars
<1>3. CASE record_outcome(h)
  <2>1. /\ thread' \in [Threads -> ThreadType]
        /\ \A g \in Threads : thread'[g].at = "none" <=> thread'[g].s = None
        /\ thread'["watch"].at # "none" <=> thread["watch"].at # "none"
        /\ UNCHANGED <<clock, worker, clicks, row, made, open, runs, loopVars, askVars>>
        /\ last' \in [Schedules -> Nat] /\ loose' \subseteq Schedules
    BY <1>3, RecordFacts, SteppedTypes
  <2> QED
    BY <2>1 DEF TypeOK, ThreadType, loopVars, askVars
<1> QED
  BY <1>1, <1>2, <1>3 DEF ThreadSteps

\* The loop takes a run in hand.
LEMMA RunsFacts ==
  ASSUME Core, NEW p \in Schedules, NEW i \in Instants, NEW now \in Instants,
         thread' = Runs(p, i, now)
  PROVE  /\ thread' \in [Threads -> ThreadType]
         /\ \A g \in Threads : g # "watch" => thread'[g] = thread[g]
         /\ thread'["watch"].at = "read" /\ thread'["watch"].s = p
         /\ thread'["watch"].due = i /\ thread'["watch"].outcome = "none"
<1> DEFINE t == [NoThread EXCEPT !.at = "read", !.s = p, !.due = i, !.now = now]
<1>1. t \in ThreadType
  <2>1. NoThread \in ThreadType
    BY NoneTypes
  <2> QED
    BY <2>1 DEF ThreadType
<1>2. "watch" \in Threads /\ thread' = [thread EXCEPT !["watch"] = t]
  BY DEF Runs, Threads
<1>3. t.at = "read" /\ t.s = p /\ t.due = i /\ t.outcome = "none"
  BY DEF NoThread
<1> HIDE DEF t
<1> QED
  BY <1>1, <1>2, <1>3, GoesFacts

\* A handled run: the schedule is advanced or a sync is asked for, and the next
\* run is taken in hand.
LEMMA HandlesFacts ==
  ASSUME Core, HandlesNext
  PROVE  LET e == thread["watch"]
         IN /\ e.at = "done" /\ e.s \in Schedules
            /\ watch.at = "run" /\ worker = "running" /\ watch.now \in Instants
            /\ \/ /\ e.outcome \in {"raised", "dropped"}
                  /\ reload' = (reload \/ e.outcome = "raised") /\ table' = table
               \/ /\ e.outcome \notin {"raised", "dropped"} /\ e.rule \in Rules
                  /\ table' \in [Schedules -> [at : 0 .. Never, rule : Rules \cup {None}]]
                  /\ table'[e.s].at > watch.now /\ table'[e.s].at # 0
                  /\ table'[e.s].rule = e.rule
                  /\ \A s \in Schedules : s # e.s => table'[s] = table[s]
                  /\ reload' = reload
            /\ \/ watch.todo = {} /\ watch' = Asleep
                  /\ thread' = [thread EXCEPT !["watch"] = NoThread]
               \/ \E p \in Schedules, i \in Instants :
                    /\ <<p, i>> \in watch.todo
                    /\ watch' = [watch EXCEPT !.todo = @ \ {<<p, i>>}]
                    /\ thread' = Runs(p, i, watch.now)
            /\ UNCHANGED <<clock, worker, clicks, rowVars, begun, askVars>>
<1> DEFINE e == thread["watch"]
<1>1. /\ e.at = "done" /\ "watch" \in Threads /\ e \in ThreadType
      /\ UNCHANGED <<clock, worker, clicks, rowVars, begun, askVars>>
  BY DEF HandlesNext, Core, TypeOK, Threads, ThreadType
<1>2. e.s \in Schedules /\ watch.at = "run" /\ worker = "running" /\ watch.now \in Instants
  BY <1>1 DEF Core, TypeOK, ThreadType
<1>3. ASSUME e.outcome \in {"raised", "dropped"}
      PROVE  reload' = (reload \/ e.outcome = "raised") /\ table' = table
  BY <1>3 DEF HandlesNext, Advances
<1>4. ASSUME e.outcome \notin {"raised", "dropped"}
      PROVE  /\ e.rule \in Rules
             /\ table' \in [Schedules -> [at : 0 .. Never, rule : Rules \cup {None}]]
             /\ table'[e.s].at > watch.now /\ table'[e.s].at # 0
             /\ table'[e.s].rule = e.rule
             /\ \A s \in Schedules : s # e.s => table'[s] = table[s]
             /\ reload' = reload
  <2>1. e.rule \in Rules
    BY <1>1, <1>4 DEF Core, HasRule
  <2>2. table' = [table EXCEPT ![e.s] = Entry(e, watch.now)] /\ reload' = reload
    BY <1>4 DEF HandlesNext, Advances
  <2>3. Entry(e, watch.now).at \in 1 .. Never /\ Entry(e, watch.now).at > watch.now
        /\ Entry(e, watch.now).rule = e.rule
    BY <1>2, <2>1, NextIsAhead DEF Entry
  <2>4. Entry(e, watch.now) \in [at : 0 .. Never, rule : Rules \cup {None}]
        /\ Entry(e, watch.now).at # 0
    BY <1>2, <2>1, <2>3, NextIsAhead DEF Entry
  <2>5. table \in [Schedules -> [at : 0 .. Never, rule : Rules \cup {None}]]
    BY DEF Core, TypeOK
  <2> QED
    BY <1>2, <1>4, <2>1, <2>2, <2>3, <2>4, <2>5
<1>5. \/ watch.todo = {} /\ watch' = Asleep /\ thread' = [thread EXCEPT !["watch"] = NoThread]
      \/ \E p \in Schedules, i \in Instants :
           /\ <<p, i>> \in watch.todo
           /\ watch' = [watch EXCEPT !.todo = @ \ {<<p, i>>}]
           /\ thread' = Runs(p, i, watch.now)
  <2>1. CASE watch.todo = {}
    BY <2>1 DEF HandlesNext
  <2>2. CASE watch.todo # {}
    <3>1. PICK d \in watch.todo : /\ watch' = [watch EXCEPT !.todo = @ \ {d}]
                                  /\ thread' = Runs(d[1], d[2], watch.now)
      BY <2>2 DEF HandlesNext
    <3>2. d \in Schedules \X Instants
      BY DEF Core, TypeOK
    <3>3. d[1] \in Schedules /\ d[2] \in Instants /\ d = <<d[1], d[2]>>
      BY <3>2
    <3> QED
      BY <3>1, <3>3
  <2> QED
    BY <2>1, <2>2
<1> QED
  BY <1>1, <1>2, <1>3, <1>4, <1>5

LEMMA LoopTypes ==
  ASSUME Core, Wakes \/ HandlesNext
  PROVE  TypeOK'
<1>0. /\ watch \in [at : {"sleep", "run"}, now : Instants, todo : SUBSET (Schedules \X Instants)]
      /\ thread \in [Threads -> ThreadType] /\ "watch" \in Threads
      /\ \A h \in Threads : thread[h].at = "none" <=> thread[h].s = None
  BY DEF Core, TypeOK, ThreadType, Threads
<1>1. ASSUME NEW p \in Schedules, NEW i \in Instants, NEW now \in Instants,
             thread' = Runs(p, i, now)
      PROVE  /\ thread' \in [Threads -> ThreadType]
             /\ \A h \in Threads : thread'[h].at = "none" <=> thread'[h].s = None
             /\ thread'["watch"].at # "none"
  <2>1. /\ thread' \in [Threads -> ThreadType]
        /\ \A g \in Threads : g # "watch" => thread'[g] = thread[g]
        /\ thread'["watch"].at = "read" /\ thread'["watch"].s = p
    BY <1>1, RunsFacts
  <2> QED
    BY <1>0, <2>1, NoneTypes
<1>2. CASE Wakes
  <2>1. table' \in [Schedules -> [at : 0 .. Never, rule : Rules \cup {None}]]
        /\ \A s \in Schedules : table'[s].at = 0 <=> table'[s].rule = None
    BY <1>2, WakesFacts, LoadedFacts, NoneTypes
  <2>2. /\ worker = "running" /\ watch.at = "sleep" /\ reload' = FALSE
        /\ UNCHANGED <<clock, worker, clicks, rowVars, begun, askVars>>
    BY <1>2, WakesFacts
  <2>3. /\ thread' \in [Threads -> ThreadType]
        /\ \A h \in Threads : thread'[h].at = "none" <=> thread'[h].s = None
        /\ thread'["watch"].at # "none" <=> watch'.at = "run"
        /\ watch' \in [at : {"sleep", "run"}, now : Instants, todo : SUBSET (Schedules \X Instants)]
    <3>1. CASE UNCHANGED <<watch, thread>>
      BY <1>0, <2>2, <3>1 DEF Core, TypeOK
    <3>2. ASSUME NEW p \in Popped,
                 watch' = [at |-> "run", now |-> clock,
                           todo |-> {<<s, table[s].at>> : s \in Popped} \ {<<p, table[p].at>>}],
                 thread' = Runs(p, table[p].at, clock)
          PROVE  /\ thread' \in [Threads -> ThreadType]
                 /\ \A h \in Threads : thread'[h].at = "none" <=> thread'[h].s = None
                 /\ thread'["watch"].at # "none" /\ watch'.at = "run"
                 /\ watch' \in [at : {"sleep", "run"}, now : Instants,
                                todo : SUBSET (Schedules \X Instants)]
      <4>1. clock \in Instants
        BY DEF Core, TypeOK
      <4>2. ASSUME NEW s \in Popped PROVE s \in Schedules /\ table[s].at \in Instants
        <5>1. s \in Schedules /\ Loaded[s].at <= clock
          BY DEF Popped
        <5>2. table[s] = Loaded[s]
          BY <1>2, WakesFacts
        <5>3. table[s].at \in 0 .. Never
          BY <5>1 DEF Core, TypeOK
        <5> QED
          BY <4>1, <5>1, <5>2, <5>3, NoneTypes DEF Instants, Never
      <4>3. {<<s, table[s].at>> : s \in Popped} \subseteq Schedules \X Instants
        BY <4>2
      <4> QED
        BY <1>1, <3>2, <4>1, <4>2, <4>3
    <3> QED
      BY <1>2, <3>1, <3>2, WakesFacts
  <2> QED
    BY <2>1, <2>2, <2>3 DEF Core, TypeOK, ThreadType, rowVars, askVars
<1>3. CASE HandlesNext
  <2>1. /\ watch.at = "run" /\ worker = "running" /\ watch.now \in Instants
        /\ UNCHANGED <<clock, worker, clicks, rowVars, begun, askVars>>
    BY <1>3, HandlesFacts
  <2>2. reload' \in BOOLEAN
    BY <1>3, HandlesFacts DEF Core, TypeOK
  <2>3. table' \in [Schedules -> [at : 0 .. Never, rule : Rules \cup {None}]]
        /\ \A s \in Schedules : table'[s].at = 0 <=> table'[s].rule = None
    <3>1. /\ table \in [Schedules -> [at : 0 .. Never, rule : Rules \cup {None}]]
          /\ \A s \in Schedules : table[s].at = 0 <=> table[s].rule = None
      BY DEF Core, TypeOK
    <3> QED
      BY <1>3, <3>1, HandlesFacts, NoneTypes
  <2>4. /\ thread' \in [Threads -> ThreadType]
        /\ \A h \in Threads : thread'[h].at = "none" <=> thread'[h].s = None
        /\ thread'["watch"].at # "none" <=> watch'.at = "run"
        /\ watch' \in [at : {"sleep", "run"}, now : Instants, todo : SUBSET (Schedules \X Instants)]
    <3>1. CASE watch' = Asleep /\ thread' = [thread EXCEPT !["watch"] = NoThread]
      BY <1>0, <3>1, NoneTypes
    <3>2. ASSUME NEW p \in Schedules, NEW i \in Instants,
                 watch' = [watch EXCEPT !.todo = @ \ {<<p, i>>}], thread' = Runs(p, i, watch.now)
          PROVE  /\ thread' \in [Threads -> ThreadType]
                 /\ \A h \in Threads : thread'[h].at = "none" <=> thread'[h].s = None
                 /\ thread'["watch"].at # "none" /\ watch'.at = "run"
                 /\ watch' \in [at : {"sleep", "run"}, now : Instants,
                                todo : SUBSET (Schedules \X Instants)]
      <4>1. watch' \in [at : {"sleep", "run"}, now : Instants, todo : SUBSET (Schedules \X Instants)]
            /\ watch'.at = "run"
        BY <1>0, <2>1, <3>2
      <4> QED
        BY <1>1, <2>1, <3>2, <4>1
    <3> QED
      BY <1>3, <3>1, <3>2, HandlesFacts
  <2> QED
    BY <2>1, <2>2, <2>3, <2>4 DEF Core, TypeOK, ThreadType, rowVars, askVars
<1> QED
  BY <1>2, <1>3

LEMMA WorkerTypes ==
  ASSUME Core, Boots \/ Resumes \/ Pauses \/ Dies \/ \E s \in Schedules : run_now(s)
  PROVE  TypeOK'
<1>0. /\ thread \in [Threads -> ThreadType] /\ "watch" \in Threads /\ "orphan" \in Threads
      /\ "hand" \in Threads
      /\ \A h \in Threads : thread[h].at = "none" <=> thread[h].s = None
      /\ [s \in Schedules |-> NoEntry] \in [Schedules -> [at : 0 .. Never, rule : Rules \cup {None}]]
  BY NoneTypes DEF Core, TypeOK, ThreadType, Threads
<1>1. CASE Boots \/ Resumes
  <2>1. /\ watch.at = "sleep" /\ thread["watch"].at = "none"
        /\ command' \in {"none", "queued", "claimed"}
        /\ UNCHANGED <<clock, thread, clicks, rowVars, asking, edits>>
        /\ Starts \/ (worker' = "paused" /\ UNCHANGED loopVars)
    <3>1. worker # "running"
      BY <1>1 DEF Boots, Resumes
    <3>2. watch.at = "sleep" /\ thread["watch"].at = "none"
      BY <3>1 DEF Core, TypeOK
    <3>3. CASE Boots
      BY <3>2, <3>3 DEF Boots
    <3>4. CASE Resumes
      BY <3>2, <3>4 DEF Resumes, Core, TypeOK, askVars
    <3> QED
      BY <1>1, <3>3, <3>4
  <2>2. CASE Starts
    BY <2>1, <2>2, NoneTypes DEF Starts, Core, TypeOK, rowVars
  <2>3. CASE worker' = "paused" /\ UNCHANGED loopVars
    BY <2>1, <2>3 DEF Core, TypeOK, rowVars, loopVars
  <2> QED
    BY <2>1, <2>2, <2>3
<1>2. CASE Pauses
  <2>1. thread["watch"] \in ThreadType /\ NoThread \in ThreadType
    BY <1>0, NoneTypes
  <2>2. /\ thread' \in [Threads -> ThreadType] /\ thread'["watch"] = NoThread
        /\ thread'["orphan"] \in {thread["watch"], NoThread} /\ thread'["hand"] = thread["hand"]
    BY <1>0, <1>2, <2>1 DEF Pauses
  <2>3. \A h \in Threads : thread'[h].at = "none" <=> thread'[h].s = None
    BY <1>0, <2>2, NoneTypes DEF Threads
  <2> QED
    BY <1>2, <2>2, <2>3, NoneTypes DEF Pauses, Core, TypeOK, ThreadType, rowVars, askVars
<1>3. CASE Dies
  <2>1. thread["watch"] \in ThreadType /\ NoThread \in ThreadType
    BY <1>0, NoneTypes
  <2>2. /\ thread' \in [Threads -> ThreadType] /\ thread'["watch"] = NoThread
        /\ thread'["orphan"] = NoThread /\ thread'["hand"] = thread["hand"]
    BY <1>0, <1>3, <2>1 DEF Dies
  <2>3. \A h \in Threads : thread'[h].at = "none" <=> thread'[h].s = None
    BY <1>0, <2>2, NoneTypes DEF Threads
  <2>4. loose' \subseteq Schedules
    BY <1>0, <1>3, NoneTypes DEF Dies, Core, TypeOK
  <2>5. table' \in [Schedules -> [at : 0 .. Never, rule : Rules \cup {None}]]
        /\ \A s \in Schedules : table'[s].at = 0 <=> table'[s].rule = None
    BY <1>0, <1>3, NoneTypes DEF Dies
  <2> QED
    BY <1>3, <2>2, <2>3, <2>4, <2>5, NoneTypes DEF Dies, Core, TypeOK, ThreadType, askVars
<1>4. ASSUME NEW s \in Schedules, run_now(s) PROVE TypeOK'
  <2>1. clicks' \in 0 .. MaxRunNows
    <3>1. clicks' = clicks + 1 /\ clicks < MaxRunNows /\ clicks \in 0 .. MaxRunNows
      BY <1>4 DEF run_now, Core, TypeOK
    <3> QED
      BY <3>1, ScheduleAssumption DEF ScheduleAssumption
  <2> DEFINE t == [NoThread EXCEPT !.at = "read", !.s = s, !.now = clock]
  <2>2. t \in ThreadType /\ t.at = "read" /\ t.s = s
    <3>1. NoThread \in ThreadType /\ clock \in Instants
      BY NoneTypes DEF Core, TypeOK
    <3> QED
      BY <3>1 DEF ThreadType
  <2>3. thread' = [thread EXCEPT !["hand"] = t]
    BY <1>4 DEF run_now
  <2> HIDE DEF t
  <2>4. /\ thread' \in [Threads -> ThreadType]
        /\ \A h \in Threads : thread'[h].at = "none" <=> thread'[h].s = None
        /\ thread'["watch"] = thread["watch"]
    BY <1>0, <2>2, <2>3, NoneTypes
  <2> QED
    BY <1>4, <2>1, <2>4 DEF run_now, Core, TypeOK, ThreadType, rowVars, loopVars, askVars
<1> QED
  BY <1>1, <1>2, <1>3, <1>4

-----------------------------------------------------------------------------
(* The rest of the invariant.                                               *)

LEMMA Numbers ==
  ASSUME Core
  PROVE  /\ clock \in Nat /\ begun \in Nat /\ watch.now \in Nat
         /\ \A s \in Schedules : table[s].at \in Nat
         /\ \A i \in Instants : i \in Nat
         /\ \A s \in Schedules, i \in Instants : runs[s][i] \in Nat
         /\ "watch" \in Threads /\ "orphan" \in Threads /\ "hand" \in Threads
         /\ worker # "running" => watch.at = "sleep"
         /\ watch.at = "sleep" => thread["watch"].at = "none" /\ thread["watch"].s = None
<1>1. Instants \subseteq Nat /\ 0 .. Never \subseteq Nat
  BY ScheduleAssumption DEF ScheduleAssumption, Instants, Never
<1>2. \A s \in Schedules : runs[s] \in [Instants -> Nat]
  BY DEF Core, TypeOK
<1>3. \A s \in Schedules, i \in Instants : runs[s][i] \in Nat
  BY <1>2
<1> QED
  BY <1>1, <1>3 DEF Core, TypeOK, Threads

\* A step that leaves the loop and its threads alone.
LEMMA QuietSteps ==
  ASSUME IInv, UNCHANGED <<watch, table, begun, runs, worker>>,
         thread'["watch"] = thread["watch"], thread'["orphan"] = thread["orphan"],
         clock' \in {clock, clock + 1}
  PROVE  Ordered' /\ Once' /\ Fresh'
<1> USE Numbers DEF IInv
<1>1. \A s \in Schedules, i \in Instants :
        /\ \A h \in {"watch", "orphan"} : InThread(h, s, i)' <=> InThread(h, s, i)
        /\ Waiting(s, i)' <=> Waiting(s, i)
  BY DEF InThread, Waiting
<1>2. \A s \in Schedules, i \in Instants : Behind(s, i) => Behind(s, i)'
  BY DEF Behind
<1>3. Ordered'
  <2>1. /\ begun <= clock
        /\ watch.at = "run" => begun <= watch.now /\ watch.now <= clock
        /\ \A s \in Schedules, i \in Instants : runs[s][i] > 0 \/ Waiting(s, i) => Behind(s, i)
    BY DEF Ordered
  <2>2. begun' <= clock' /\ (watch'.at = "run" => begun' <= watch'.now /\ watch'.now <= clock')
    BY <2>1
  <2>3. \A s \in Schedules, i \in Instants :
           runs'[s][i] > 0 \/ Waiting(s, i)' => Behind(s, i)'
    BY <1>1, <1>2, <2>1
  <2> QED
    BY <2>2, <2>3 DEF Ordered
<1>4. Once'
  BY <1>1 DEF Once
<1>5. Fresh'
  BY <1>1 DEF Fresh
<1> QED
  BY <1>3, <1>4, <1>5

LEMMA QuietKnown ==
  ASSUME IInv, UNCHANGED <<watch, table, worker>>, thread'["watch"] = thread["watch"],
         worker = "running" /\ Asked => Asked', UNCHANGED row \/ Asked'
  PROVE  Known'
<1> USE DEF IInv, Known
<1>1. \A s \in Schedules : InHand(s)' <=> InHand(s)
  BY DEF InHand
<1>2. \A s \in Schedules : InStep(s) => InStep(s)' \/ Asked'
  BY DEF InStep
<1>3. worker' = "running" => \A s \in Schedules : InStep(s)' \/ InHand(s)' \/ Asked'
  BY <1>1, <1>2
<1>5. thread["watch"].at \in {"fire", "record", "done"} => worker = "running"
  BY DEF Core, TypeOK
<1>4. LET e == thread'["watch"]
      IN e.at \in {"fire", "record", "done"} /\ e.outcome # "raised" =>
           \/ Asked'
           \/ e.outcome = "dropped" /\ row'[e.s].is # "on"
           \/ e.outcome # "dropped" /\ row'[e.s].is = "on" /\ row'[e.s].rule = e.rule
  BY <1>5
<1> QED
  BY <1>1, <1>3, <1>4

LEMMA PlainSteps ==
  ASSUME IInv, \/ request_reload \/ claim_runtime_command \/ reload_schedules \/ Ticks
               \/ \E s \in Schedules : Edits(s) \/ run_now(s) \/ TaskCloses(s)
  PROVE  (\A h \in Threads : HasRule(h)') /\ Ordered' /\ Once' /\ Fresh' /\ Known'
<1>1. /\ UNCHANGED <<watch, table, begun, runs, worker>>
      /\ clock' \in {clock, clock + 1}
      /\ UNCHANGED thread \/ \E s \in Schedules : run_now(s)
  BY DEF request_reload, claim_runtime_command, reload_schedules, Ticks, Edits, run_now, TaskCloses,
         rowVars, loopVars, askVars
<1>2. /\ thread'["watch"] = thread["watch"] /\ thread'["orphan"] = thread["orphan"]
      /\ thread'["hand"] = thread["hand"] \/ thread'["hand"].at = "read"
  <2>1. ASSUME NEW s \in Schedules, run_now(s)
        PROVE  /\ thread'["watch"] = thread["watch"] /\ thread'["orphan"] = thread["orphan"]
               /\ thread'["hand"].at = "read"
    BY <2>1 DEF run_now, IInv, Core, TypeOK, Threads, NoThread
  <2> QED
    BY <1>1, <2>1
<1>3. \A h \in Threads : HasRule(h)'
  BY <1>2 DEF HasRule, IInv, Core, Threads
<1>4. (worker = "running" /\ Asked => Asked') /\ (UNCHANGED row \/ Asked')
  <2>1. CASE request_reload
    BY <2>1 DEF request_reload, Asked, rowVars, loopVars
  <2>2. CASE claim_runtime_command
    BY <2>2 DEF claim_runtime_command, Asked, rowVars, loopVars
  <2>3. CASE reload_schedules
    BY <2>3 DEF reload_schedules, Asked, rowVars
  <2>4. CASE Ticks
    BY <2>4 DEF Ticks, Asked, rowVars, loopVars, askVars
  <2>5. ASSUME NEW s \in Schedules, Edits(s) PROVE Asked'
    BY <2>5 DEF Edits, Asked
  <2>6. ASSUME NEW s \in Schedules, run_now(s) \/ TaskCloses(s)
        PROVE  UNCHANGED <<row, command, asking, reload>>
    BY <2>6 DEF run_now, TaskCloses, rowVars, loopVars, askVars
  <2> QED
    BY <2>1, <2>2, <2>3, <2>4, <2>5, <2>6 DEF Asked
<1> QED
  BY <1>1, <1>2, <1>3, <1>4, QuietSteps, QuietKnown

\* A step of a thread: on its way nothing new, and what is created was waiting.
LEMMA SteppedInv ==
  ASSUME IInv, NEW h \in Threads,
         \A g \in Threads : g # h => thread'[g] = thread[g],
         thread[h].at \in {"read", "fire", "record"},
         \/ Finished(h)
         \/ thread'[h].at = "fire" /\ thread[h].at = "read" /\ Stays(h)
         \/ thread'[h].at = "record" /\ Stays(h),
         UNCHANGED <<clock, worker, watch, table, begun>>,
         runs' \in [Schedules -> [Instants -> Nat]],
         \/ UNCHANGED runs
         \/ /\ h # "hand" /\ thread[h].at = "fire" /\ thread'[h].at = "record"
            /\ runs' = [runs EXCEPT ![thread[h].s][thread[h].due] = @ + 1]
  PROVE  Ordered' /\ Once' /\ Fresh'
<1> USE Numbers DEF IInv
<1>1. \A g \in {"watch", "orphan"}, s \in Schedules, i \in Instants :
        InThread(g, s, i)' => InThread(g, s, i)
  BY NoneTypes DEF InThread, Finished, Stays
<1>2. \A s \in Schedules, i \in Instants : Waiting(s, i)' => Waiting(s, i)
  BY <1>1 DEF Waiting
<1>3. \A s \in Schedules, i \in Instants :
        \/ runs'[s][i] = runs[s][i]
        \/ /\ runs'[s][i] = runs[s][i] + 1 /\ h # "hand"
           /\ Waiting(s, i) /\ ~Waiting(s, i)'
  <2> SUFFICES ASSUME NEW s \in Schedules, NEW i \in Instants, runs'[s][i] # runs[s][i]
               PROVE  /\ runs'[s][i] = runs[s][i] + 1 /\ h # "hand"
                      /\ Waiting(s, i) /\ ~Waiting(s, i)'
    OBVIOUS
  <2>1. /\ h \in {"watch", "orphan"} /\ thread[h].at = "fire" /\ thread'[h].at = "record"
        /\ runs' = [runs EXCEPT ![thread[h].s][thread[h].due] = @ + 1]
    BY DEF Threads
  <2>2. /\ runs \in [Schedules -> [Instants -> Nat]]
        /\ thread[h].s \in Schedules /\ thread[h].due \in Instants
    BY <2>1 DEF Core, TypeOK
  <2> DEFINE more == [runs[thread[h].s] EXCEPT ![thread[h].due] = @ + 1]
  <2>7. runs' = [runs EXCEPT ![thread[h].s] = more]
    BY <2>1
  <2>8. s = thread[h].s /\ runs'[s] = more
    BY <2>2, <2>7
  <2>9. runs[thread[h].s] \in [Instants -> Nat]
    BY <2>2
  <2>3. s = thread[h].s /\ i = thread[h].due /\ runs'[s][i] = runs[s][i] + 1
    <3>1. \A j \in Instants : more[j] = IF j = thread[h].due THEN runs[thread[h].s][j] + 1
                                       ELSE runs[thread[h].s][j]
      BY <2>9
    <3> HIDE DEF more
    <3> QED
      BY <2>8, <3>1
  <2>4. InThread(h, s, i) /\ ~InThread(h, s, i)'
    BY <2>1, <2>3 DEF InThread
  <2>5. \A g \in {"watch", "orphan"} : g # h => ~InThread(g, s, i)
    <3>1. ~(InThread("watch", s, i) /\ InThread("orphan", s, i))
      BY DEF Once
    <3> QED
      BY <2>1, <2>4, <3>1 DEF InThread
  <2>6. <<s, i>> \notin watch.todo
    BY <2>1, <2>4 DEF Once
  <2> QED
    BY <1>1, <2>1, <2>3, <2>4, <2>5, <2>6 DEF Waiting
<1>4. Ordered'
  <2>1. \A s \in Schedules, i \in Instants : Behind(s, i) => Behind(s, i)'
    BY DEF Behind
  <2>2. \A s \in Schedules, i \in Instants : runs[s][i] > 0 \/ Waiting(s, i) => Behind(s, i)
    BY DEF Ordered
  <2>3. \A s \in Schedules, i \in Instants : runs'[s][i] > 0 \/ Waiting(s, i)' => Behind(s, i)'
    BY <1>2, <1>3, <2>1, <2>2
  <2> QED
    BY <2>3 DEF Ordered
<1>5. Once'
  <2>1. \A s \in Schedules, i \in Instants : runs[s][i] <= 1 /\ (Waiting(s, i) => runs[s][i] = 0)
    BY DEF Once
  <2>2. \A s \in Schedules, i \in Instants :
          runs'[s][i] <= 1 /\ (Waiting(s, i)' => runs'[s][i] = 0)
    BY <1>2, <1>3, <2>1
  <2>3. \A s \in Schedules, i \in Instants :
          /\ ~(InThread("watch", s, i)' /\ InThread("orphan", s, i)')
          /\ \A g \in {"watch", "orphan"} : InThread(g, s, i)' => <<s, i>> \notin watch'.todo
    BY <1>1 DEF Once
  <2> QED
    BY <2>2, <2>3 DEF Once
<1>6. Fresh'
  BY <1>1 DEF Fresh
<1> QED
  BY <1>4, <1>5, <1>6

LEMMA SteppedKnown ==
  ASSUME IInv, NEW h \in Threads,
         \A g \in Threads : g # h => thread'[g] = thread[g],
         UNCHANGED <<worker, watch, table, row, asking, command, reload>>,
         h = "watch" =>
           /\ thread'[h].s = thread[h].s
           /\ \/ thread'[h].outcome = "raised"
              \/ thread'[h].outcome = "dropped" /\ row[thread[h].s].is # "on"
              \/ /\ thread'[h].outcome # "dropped" /\ row[thread[h].s].is = "on"
                 /\ thread'[h].rule = row[thread[h].s].rule
              \/ Asked
  PROVE  Known'
<1> USE Numbers DEF IInv, Known
<1>1. thread'["watch"].s = thread["watch"].s
  OBVIOUS
<1>2. \A s \in Schedules : InHand(s)' <=> InHand(s)
  BY <1>1 DEF InHand
<1>3. (Asked' <=> Asked) /\ \A s \in Schedules : InStep(s)' <=> InStep(s)
  BY DEF Asked, InStep
<1>4. LET e == thread'["watch"]
      IN e.at \in {"fire", "record", "done"} /\ e.outcome # "raised" =>
           \/ Asked'
           \/ e.outcome = "dropped" /\ row'[e.s].is # "on"
           \/ e.outcome # "dropped" /\ row'[e.s].is = "on" /\ row'[e.s].rule = e.rule
  BY <1>3
<1> QED
  BY <1>1, <1>2, <1>3, <1>4

LEMMA ThreadInv ==
  ASSUME IInv, NEW h \in Threads, ThreadSteps(h)
  PROVE  (\A g \in Threads : HasRule(g)') /\ Ordered' /\ Once' /\ Fresh' /\ Known'
<1> USE DEF IInv
<1>1. TypeOK'
  BY ThreadTypes
<1>2. CASE Reads(h)
  <2>1. /\ thread[h].at = "read"
        /\ \A g \in Threads : g # h => thread'[g] = thread[g]
        /\ \/ Finished(h) /\ (h = "watch" => \/ thread'[h].outcome = "raised"
                                             \/ /\ thread'[h].outcome = "dropped"
                                                /\ row[thread[h].s].is # "on")
           \/ /\ thread'[h].at \in {"fire", "record"} /\ Stays(h)
              /\ thread'[h].rule = row[thread[h].s].rule
              /\ thread'[h].outcome \notin {"raised", "dropped"}
              /\ h # "hand" => row[thread[h].s].is = "on"
        /\ UNCHANGED <<clock, worker, row, runs, watch, table, reload, begun, command, asking>>
    BY <1>2, ReadsFacts DEF loopVars, askVars
  <2>2. HasRule(h)'
    <3>1. thread[h].s \in Schedules /\ row[thread[h].s].rule \in Rules
      BY <2>1 DEF Core, TypeOK
    <3> QED
      BY <2>1, <3>1, NoneTypes DEF HasRule, Finished
  <2>3. \A g \in Threads : HasRule(g)'
    BY <2>1, <2>2 DEF HasRule, Core
  <2>4. Ordered' /\ Once' /\ Fresh'
    BY <1>1, <2>1, SteppedInv DEF TypeOK
  <2>5. Known'
    BY <2>1, SteppedKnown DEF Finished, Stays
  <2> QED
    BY <2>3, <2>4, <2>5
<1>3. CASE _fire(h)
  <2>1. /\ thread[h].at = "fire"
        /\ \A g \in Threads : g # h => thread'[g] = thread[g]
        /\ thread'[h].at = "record" /\ Stays(h) /\ thread'[h].rule = thread[h].rule
        /\ thread'[h].outcome \in {"fired", "failed"}
        /\ UNCHANGED <<clock, worker, row, watch, table, reload, begun, command, asking>>
        /\ \/ UNCHANGED runs
           \/ h # "hand" /\ runs' = [runs EXCEPT ![thread[h].s][thread[h].due] = @ + 1]
    BY <1>3, FireFacts DEF loopVars, askVars
  <2>2. thread[h].rule \in Rules /\ thread[h].outcome \notin {"raised", "dropped"}
    BY <2>1 DEF Core, HasRule
  <2>3. \A g \in Threads : HasRule(g)'
    BY <2>1, <2>2 DEF HasRule, Core
  <2>4. Ordered' /\ Once' /\ Fresh'
    BY <1>1, <2>1, SteppedInv DEF TypeOK
  <2>5. Known'
    BY <2>1, <2>2, SteppedKnown DEF Stays, Known
  <2> QED
    BY <2>3, <2>4, <2>5
<1>4. CASE record_outcome(h)
  <2>1. /\ thread[h].at = "record"
        /\ \A g \in Threads : g # h => thread'[g] = thread[g]
        /\ Finished(h)
        /\ h = "watch" => /\ thread'[h].outcome \in {thread[h].outcome, "raised"}
                          /\ thread'[h].rule = thread[h].rule
        /\ UNCHANGED <<clock, worker, row, runs, watch, table, reload, begun, command, asking>>
    BY <1>4, RecordFacts DEF loopVars, askVars
  <2>2. thread[h].rule \in Rules /\ thread[h].outcome \notin {"raised", "dropped"}
    BY <2>1 DEF Core, HasRule
  <2>3. \A g \in Threads : HasRule(g)'
    <3>1. HasRule(h)'
      BY <2>1, <2>2, NoneTypes DEF HasRule, Finished
    <3> QED
      BY <2>1, <3>1 DEF HasRule, Core
  <2>4. Ordered' /\ Once' /\ Fresh'
    BY <1>1, <2>1, SteppedInv DEF TypeOK
  <2>5. Known'
    BY <2>1, <2>2, SteppedKnown DEF Finished, Stays, Known
  <2> QED
    BY <2>3, <2>4, <2>5
<1> QED
  BY <1>2, <1>3, <1>4 DEF ThreadSteps

\* A pass takes what is due: the entries it pops are ahead of all that ran.
LEMMA WakesInv ==
  ASSUME IInv, Wakes
  PROVE  (\A g \in Threads : HasRule(g)') /\ Ordered' /\ Once' /\ Fresh' /\ Known'
<1> USE Numbers DEF IInv
<1>0. TypeOK'
  BY LoopTypes
<1>1. /\ worker = "running" /\ watch.at = "sleep" /\ reload' = FALSE
      /\ \A s \in Popped : table'[s] = NoEntry /\ Loaded[s] = table[s]
      /\ \A s \in Schedules \ Popped : table'[s] = Loaded[s]
      /\ clock' = clock /\ worker' = worker /\ begun' = begun /\ row' = row /\ runs' = runs
      /\ asking' = asking /\ command' = command
  BY WakesFacts DEF rowVars, askVars
<1>2. /\ watch.todo = {} /\ thread["watch"].s = None /\ thread["watch"].at = "none"
      /\ Popped \subseteq Schedules
  BY <1>1 DEF Known, Popped
<1>3. ASSUME NEW s \in Popped
      PROVE  s \in Schedules /\ table[s].at \in Instants /\ table[s].at # 0 /\ table[s].at <= clock
             /\ table'[s].at = 0
  <2>1. s \in Schedules /\ Loaded[s] = table[s] /\ Loaded[s].at # 0 /\ Loaded[s].at <= clock
        /\ table'[s] = NoEntry
    BY <1>1, <1>2 DEF Popped
  <2>2. table[s].at \in 0 .. Never /\ clock \in 0 .. Last /\ Last \in Nat
    BY <2>1, NoneTypes DEF Core, TypeOK, Instants
  <2> QED
    BY <2>1, <2>2, NoneTypes DEF Instants, Never
<1>4. ASSUME NEW s \in Schedules, table'[s].at # 0
      PROVE  table'[s] = table[s] \/ table'[s].at > clock
  <2>1. s \notin Popped
    BY <1>3, <1>4
  <2> QED
    BY <1>1, <1>4, <2>1, LoadedFacts
<1>5. CASE UNCHANGED <<watch, thread>> /\ Popped = {}
  <2>1. \A s \in Schedules, i \in Instants :
          /\ \A h \in {"watch", "orphan"} : InThread(h, s, i)' <=> InThread(h, s, i)
          /\ Waiting(s, i)' <=> Waiting(s, i)
    BY <1>5 DEF InThread, Waiting
  <2>2. Ordered'
    <3>1. \A s \in Schedules, i \in Instants : runs[s][i] > 0 \/ Waiting(s, i) => Behind(s, i)
      BY DEF Ordered
    <3>2. \A s \in Schedules, i \in Instants : Behind(s, i) => Behind(s, i)'
      <4> SUFFICES ASSUME NEW s \in Schedules, NEW i \in Instants, Behind(s, i)
                   PROVE  Behind(s, i)'
        OBVIOUS
      <4>1. table'[s].at \in Nat
        BY <1>0, ScheduleAssumption DEF TypeOK, Never, ScheduleAssumption
      <4>2. table'[s].at # 0 => i < table'[s].at
        BY <1>4, <4>1 DEF Behind
      <4> QED
        BY <1>1, <1>5, <4>2 DEF Behind
    <3>3. \A s \in Schedules, i \in Instants :
             runs'[s][i] > 0 \/ Waiting(s, i)' => Behind(s, i)'
      BY <1>1, <2>1, <3>1, <3>2
    <3>4. begun' <= clock' /\ (watch'.at = "run" => begun' <= watch'.now /\ watch'.now <= clock')
      BY <1>1, <1>5 DEF Ordered
    <3> QED
      BY <3>3, <3>4 DEF Ordered
  <2>3. Once'
    BY <1>1, <1>5, <2>1 DEF Once
  <2>4. Fresh'
    <3>1. \A s \in Schedules : table'[s].at # 0 => table'[s].at > begun
      <4> SUFFICES ASSUME NEW s \in Schedules, table'[s].at # 0 PROVE table'[s].at > begun
        OBVIOUS
      <4>1. table'[s].at \in Nat /\ begun <= clock
        BY <1>0, ScheduleAssumption DEF TypeOK, Never, Ordered, ScheduleAssumption
      <4> QED
        BY <1>1, <1>4, <4>1 DEF Fresh
    <3> QED
      BY <1>1, <1>5, <2>1, <3>1 DEF Fresh
  <2>5. Known'
    <3>1. \A s \in Schedules : ~InHand(s)'
      BY <1>2, <1>5, NoneTypes DEF InHand
    <3>2. \A s \in Schedules : InStep(s)' \/ Asked'
      <4> SUFFICES ASSUME NEW s \in Schedules PROVE InStep(s)' \/ Asked'
        OBVIOUS
      <4>1. table'[s] = Loaded[s]
        BY <1>1, <1>5
      <4>2. CASE reload
        BY <1>1, <4>1, <4>2, LoadedFacts DEF InStep
      <4>3. CASE ~reload
        <5>1. InStep(s) \/ asking \/ command # "none"
          BY <1>1, <1>2, <4>3, NoneTypes DEF Known, InHand, Asked
        <5> QED
          BY <1>1, <4>1, <4>3, <5>1, LoadedFacts DEF InStep, Asked
      <4> QED
        BY <4>2, <4>3
    <3> QED
      BY <1>2, <1>5, <3>1, <3>2 DEF Known
  <2>6. \A g \in Threads : HasRule(g)'
    BY <1>5 DEF HasRule, Core
  <2> QED
    BY <2>2, <2>3, <2>4, <2>5, <2>6
<1>6. ASSUME NEW p \in Popped,
             watch' = [at |-> "run", now |-> clock,
                       todo |-> {<<s, table[s].at>> : s \in Popped} \ {<<p, table[p].at>>}],
             thread' = Runs(p, table[p].at, clock)
      PROVE  (\A g \in Threads : HasRule(g)') /\ Ordered' /\ Once' /\ Fresh' /\ Known'
  <2>1. /\ \A g \in Threads : g # "watch" => thread'[g] = thread[g]
        /\ thread'["watch"].at = "read" /\ thread'["watch"].s = p
        /\ thread'["watch"].due = table[p].at
    <3>1. clock \in Instants
      BY DEF Core, TypeOK
    <3> QED
      BY <1>3, <1>6, <3>1, RunsFacts
  <2>2. watch'.at = "run" /\ watch'.now = clock
        /\ watch'.todo = {<<s, table[s].at>> : s \in Popped} \ {<<p, table[p].at>>}
    BY <1>6
  <2>3. \A s \in Schedules, i \in Instants :
          <<s, i>> \in watch'.todo <=> s \in Popped /\ i = table[s].at /\ s # p
    BY <1>2, <2>2
  <2>4. \A s \in Schedules, i \in Instants :
          /\ InThread("watch", s, i)' <=> s = p /\ i = table[p].at
          /\ InThread("orphan", s, i)' <=> InThread("orphan", s, i)
    BY <2>1 DEF InThread
  <2>5. \A s \in Schedules, i \in Instants :
          Waiting(s, i)' => Waiting(s, i) \/ (s \in Popped /\ i = table[s].at)
    BY <2>3, <2>4 DEF Waiting
  <2>6. \A s \in Schedules, i \in Instants :
          s \in Popped /\ i = table[s].at => runs[s][i] = 0 /\ ~Waiting(s, i)
    <3> SUFFICES ASSUME NEW s \in Popped, table[s].at \in Instants
                 PROVE  runs[s][table[s].at] = 0 /\ ~Waiting(s, table[s].at)
      BY <1>2
    <3>1. ~Behind(s, table[s].at)
      BY <1>3 DEF Behind
    <3> QED
      BY <1>3, <3>1 DEF Ordered
  <2>7. Ordered'
    <3>1. \A s \in Schedules, i \in Instants : runs[s][i] > 0 \/ Waiting(s, i) => Behind(s, i)
      BY DEF Ordered
    <3>2. \A s \in Schedules, i \in Instants :
             Behind(s, i) \/ (s \in Popped /\ i = table[s].at) => Behind(s, i)'
      <4> SUFFICES ASSUME NEW s \in Schedules, NEW i \in Instants,
                          Behind(s, i) \/ (s \in Popped /\ i = table[s].at)
                   PROVE  Behind(s, i)'
        OBVIOUS
      <4>1. table'[s].at \in Nat
        BY <1>0, ScheduleAssumption DEF TypeOK, Never, ScheduleAssumption
      <4>2. i <= clock
        BY <1>3 DEF Behind
      <4>3. table'[s].at # 0 => i < table'[s].at
        BY <1>3, <1>4, <4>1, <4>2 DEF Behind
      <4> QED
        BY <1>1, <2>2, <4>2, <4>3 DEF Behind
    <3>3. \A s \in Schedules, i \in Instants :
             runs'[s][i] > 0 \/ Waiting(s, i)' => Behind(s, i)'
      BY <1>1, <2>5, <3>1, <3>2
    <3>4. begun' <= clock' /\ begun' <= watch'.now /\ watch'.now <= clock'
      BY <1>1, <2>2 DEF Ordered
    <3> QED
      BY <3>3, <3>4 DEF Ordered
  <2>8. Once'
    <3>1. \A s \in Schedules, i \in Instants :
            /\ runs'[s][i] <= 1 /\ (Waiting(s, i)' => runs'[s][i] = 0)
      BY <1>1, <2>5, <2>6 DEF Once
    <3>2. \A s \in Schedules, i \in Instants :
            /\ ~(InThread("watch", s, i)' /\ InThread("orphan", s, i)')
            /\ \A h \in {"watch", "orphan"} : InThread(h, s, i)' => <<s, i>> \notin watch'.todo
      <4> SUFFICES ASSUME NEW s \in Schedules, NEW i \in Instants
                   PROVE  /\ ~(InThread("watch", s, i)' /\ InThread("orphan", s, i)')
                          /\ InThread("watch", s, i)' => <<s, i>> \notin watch'.todo
                          /\ InThread("orphan", s, i)' => <<s, i>> \notin watch'.todo
        OBVIOUS
      <4>1. InThread("orphan", s, i) => Waiting(s, i)
        BY DEF Waiting
      <4> QED
        BY <2>3, <2>4, <2>6, <4>1
    <3> QED
      BY <3>1, <3>2 DEF Once
  <2>9. Fresh'
    <3>1. \A s \in Schedules : table[s].at # 0 => table[s].at > begun
      BY <1>1 DEF Fresh
    <3>2. \A s \in Schedules : table'[s].at # 0 => table'[s].at > begun
      <4> SUFFICES ASSUME NEW s \in Schedules, table'[s].at # 0 PROVE table'[s].at > begun
        OBVIOUS
      <4>1. table'[s].at \in Nat /\ begun <= clock
        BY <1>0, ScheduleAssumption DEF TypeOK, Never, Ordered, ScheduleAssumption
      <4> QED
        BY <1>4, <3>1, <4>1
    <3>3. \A s \in Popped : table[s].at > begun
      BY <1>3, <3>1
    <3> QED
      BY <1>1, <2>3, <2>4, <3>2, <3>3 DEF Fresh
  <2>10. Known'
    <3>1. \A s \in Schedules : InHand(s)' <=> s \in Popped
      BY <1>3, <2>1, <2>3 DEF InHand
    <3>2. \A s \in Schedules : InStep(s)' \/ InHand(s)' \/ Asked'
      <4> SUFFICES ASSUME NEW s \in Schedules, s \notin Popped PROVE InStep(s)' \/ Asked'
        BY <3>1
      <4>1. table'[s] = Loaded[s]
        BY <1>1
      <4>2. CASE reload
        BY <1>1, <4>1, <4>2, LoadedFacts DEF InStep
      <4>3. CASE ~reload
        <5>1. InStep(s) \/ asking \/ command # "none"
          BY <1>1, <1>2, <4>3, NoneTypes DEF Known, InHand, Asked
        <5> QED
          BY <1>1, <4>1, <4>3, <5>1, LoadedFacts DEF InStep, Asked
      <4> QED
        BY <4>2, <4>3
    <3>3. \A s \in Schedules, i \in Instants :
            <<s, i>> \in watch'.todo =>
              /\ thread'["watch"].s # s
              /\ \A j \in Instants : <<s, j>> \in watch'.todo => i = j
      BY <2>1, <2>3
    <3> QED
      BY <1>3, <2>1, <2>2, <3>1, <3>2, <3>3 DEF Known
  <2>11. \A g \in Threads : HasRule(g)'
    BY <2>1 DEF HasRule, Core
  <2> QED
    BY <2>7, <2>8, <2>9, <2>10, <2>11
<1> QED
  BY <1>5, <1>6, WakesFacts

\* The loop passes on to the next run: the schedule returns behind its now.
LEMMA HandlesInv ==
  ASSUME IInv, HandlesNext
  PROVE  (\A g \in Threads : HasRule(g)') /\ Ordered' /\ Once' /\ Fresh' /\ Known'
<1> USE Numbers DEF IInv
<1> DEFINE e == thread["watch"]
<1>0. TypeOK'
  BY LoopTypes
<1>1. /\ e.at = "done" /\ e.s \in Schedules
      /\ watch.at = "run" /\ worker = "running"
      /\ clock' = clock /\ worker' = worker /\ begun' = begun /\ row' = row /\ runs' = runs
      /\ asking' = asking /\ command' = command
  BY HandlesFacts DEF rowVars, askVars
<1>2. \/ /\ e.outcome \in {"raised", "dropped"}
         /\ reload' = (reload \/ e.outcome = "raised") /\ table' = table
      \/ /\ e.outcome \notin {"raised", "dropped"}
         /\ table'[e.s].at > watch.now /\ table'[e.s].at # 0 /\ table'[e.s].rule = e.rule
         /\ \A s \in Schedules : s # e.s => table'[s] = table[s]
         /\ reload' = reload
  BY HandlesFacts
<1>3. \A s \in Schedules : table'[s].at \in Nat
  BY <1>0, ScheduleAssumption DEF TypeOK, Never, ScheduleAssumption
<1>4. ASSUME NEW s \in Schedules, table'[s].at # 0
      PROVE  table'[s] = table[s] \/ table'[s].at > watch.now
  BY <1>2, <1>4
<1>5. table[e.s].at = 0
  BY <1>1 DEF Known, InHand
<1>6. \A s \in Schedules : s # e.s => table'[s] = table[s]
  BY <1>2
<1>7. ASSUME NEW s \in Schedules, s = e.s PROVE InStep(s)' \/ Asked'
  <2>1. \/ Asked
        \/ e.outcome = "raised"
        \/ e.outcome = "dropped" /\ row[e.s].is # "on"
        \/ e.outcome # "dropped" /\ row[e.s].is = "on" /\ row[e.s].rule = e.rule
    BY <1>1 DEF Known
  <2>2. Asked => Asked'
    BY <1>1, <1>2 DEF Asked
  <2>3. e.outcome = "raised" => Asked'
    BY <1>2 DEF Asked
  <2>4. e.outcome = "dropped" => table'[s].at = 0
    BY <1>2, <1>5, <1>7
  <2>5. e.outcome \notin {"raised", "dropped"} => table'[s].at # 0 /\ table'[s].rule = e.rule
    BY <1>2, <1>7
  <2>6. row'[s] = row[e.s]
    BY <1>1, <1>7
  <2> QED
    BY <2>1, <2>2, <2>3, <2>4, <2>5, <2>6 DEF InStep
<1>8. Asked => Asked'
  BY <1>1, <1>2 DEF Asked
<1>9. ASSUME \A s \in Schedules, i \in Instants : Waiting(s, i)' => Waiting(s, i),
             watch'.at = "run" => watch'.now = watch.now
      PROVE  Ordered'
  <2>1. \A s \in Schedules, i \in Instants : runs[s][i] > 0 \/ Waiting(s, i) => Behind(s, i)
    BY DEF Ordered
  <2>2. \A s \in Schedules, i \in Instants : Behind(s, i) => Behind(s, i)'
    <3> SUFFICES ASSUME NEW s \in Schedules, NEW i \in Instants, Behind(s, i)
                 PROVE  Behind(s, i)'
      OBVIOUS
    <3>1. table'[s].at # 0 => i < table'[s].at
      BY <1>1, <1>3, <1>4 DEF Behind
    <3> QED
      BY <1>1, <1>9, <3>1 DEF Behind
  <2>3. \A s \in Schedules, i \in Instants :
           runs'[s][i] > 0 \/ Waiting(s, i)' => Behind(s, i)'
    BY <1>1, <1>9, <2>1, <2>2
  <2>4. begun' <= clock' /\ (watch'.at = "run" => begun' <= watch'.now /\ watch'.now <= clock')
    BY <1>1, <1>9 DEF Ordered
  <2> QED
    BY <2>3, <2>4 DEF Ordered
<1>10. \A s \in Schedules : table'[s].at # 0 => table'[s].at > begun
  <2>1. begun <= watch.now /\ \A s \in Schedules : table[s].at # 0 => table[s].at > begun
    BY <1>1 DEF Ordered, Fresh
  <2> QED
    BY <1>3, <1>4, <2>1
<1>11. CASE watch.todo = {} /\ watch' = Asleep /\ thread' = [thread EXCEPT !["watch"] = NoThread]
  <2>1. /\ thread'["watch"] = NoThread /\ thread'["orphan"] = thread["orphan"]
        /\ thread'["hand"] = thread["hand"] /\ watch'.at = "sleep" /\ watch'.todo = {}
    BY <1>11, NoneTypes DEF Core, TypeOK, Threads
  <2>2. \A s \in Schedules, i \in Instants :
          /\ ~InThread("watch", s, i)'
          /\ InThread("orphan", s, i)' <=> InThread("orphan", s, i)
          /\ Waiting(s, i)' => Waiting(s, i)
    BY <2>1, NoneTypes DEF InThread, Waiting
  <2>3. Ordered'
    BY <1>9, <2>1, <2>2
  <2>4. Once'
    BY <1>1, <2>1, <2>2 DEF Once
  <2>5. Fresh'
    BY <1>1, <1>10, <2>1, <2>2 DEF Fresh
  <2>6. Known'
    <3>1. \A s \in Schedules : ~InHand(s)'
      BY <2>1, NoneTypes DEF InHand
    <3>2. \A s \in Schedules : InStep(s)' \/ Asked'
      <4> SUFFICES ASSUME NEW s \in Schedules, s # e.s PROVE InStep(s)' \/ Asked'
        BY <1>7
      <4>1. InStep(s) \/ InHand(s) \/ Asked
        BY <1>1 DEF Known
      <4>2. ~InHand(s)
        BY <1>11 DEF InHand
      <4> QED
        BY <1>1, <1>6, <1>8, <4>1, <4>2 DEF InStep
    <3> QED
      BY <2>1, <3>1, <3>2, NoneTypes DEF Known
  <2>7. \A g \in Threads : HasRule(g)'
    BY <2>1, NoneTypes DEF HasRule, Core, Threads
  <2> QED
    BY <2>3, <2>4, <2>5, <2>6, <2>7
<1>12. ASSUME NEW p \in Schedules, NEW i \in Instants, <<p, i>> \in watch.todo,
              watch' = [watch EXCEPT !.todo = @ \ {<<p, i>>}], thread' = Runs(p, i, watch.now)
       PROVE  (\A g \in Threads : HasRule(g)') /\ Ordered' /\ Once' /\ Fresh' /\ Known'
  <2>1. /\ \A g \in Threads : g # "watch" => thread'[g] = thread[g]
        /\ thread'["watch"].at = "read" /\ thread'["watch"].s = p
        /\ thread'["watch"].due = i
    <3>1. watch.now \in Instants
      BY DEF Core, TypeOK
    <3> QED
      BY <1>12, <3>1, RunsFacts
  <2>2. /\ watch'.at = "run" /\ watch'.now = watch.now
        /\ watch'.todo = watch.todo \ {<<p, i>>}
    BY <1>1, <1>12 DEF Core, TypeOK
  <2>3. \A s \in Schedules, j \in Instants :
          <<s, j>> \in watch'.todo <=> <<s, j>> \in watch.todo /\ s # p
    BY <1>12, <2>2 DEF Known
  <2>4. \A s \in Schedules, j \in Instants :
          /\ InThread("watch", s, j)' <=> s = p /\ j = i
          /\ InThread("orphan", s, j)' <=> InThread("orphan", s, j)
    BY <2>1 DEF InThread
  <2>5. \A s \in Schedules, j \in Instants : Waiting(s, j)' => Waiting(s, j)
    BY <1>12, <2>3, <2>4 DEF Waiting
  <2>6. Ordered'
    BY <1>9, <2>2, <2>5
  <2>7. Once'
    <3>1. \A s \in Schedules, j \in Instants :
            /\ runs'[s][j] <= 1 /\ (Waiting(s, j)' => runs'[s][j] = 0)
      BY <1>1, <2>5 DEF Once
    <3>2. ~InThread("orphan", p, i)
      BY <1>12 DEF Once
    <3>3. \A s \in Schedules, j \in Instants : InThread("orphan", s, j) => <<s, j>> \notin watch.todo
      BY DEF Once
    <3>4. \A s \in Schedules, j \in Instants :
            /\ ~(InThread("watch", s, j)' /\ InThread("orphan", s, j)')
            /\ InThread("watch", s, j)' => <<s, j>> \notin watch'.todo
            /\ InThread("orphan", s, j)' => <<s, j>> \notin watch'.todo
      BY <2>3, <2>4, <3>2, <3>3
    <3> QED
      BY <3>1, <3>4 DEF Once
  <2>8. Fresh'
    <3>1. \A s \in Schedules, j \in Instants : <<s, j>> \in watch.todo => j > begun
      BY DEF Fresh
    <3> QED
      BY <1>1, <1>10, <1>12, <2>3, <2>4, <3>1 DEF Fresh
  <2>9. Known'
    <3>1. p # e.s /\ \A s \in Schedules, j \in Instants : <<s, j>> \in watch.todo => s # e.s
      BY <1>12 DEF Known
    <3>2. \A s \in Schedules : InHand(s)' <=> InHand(s) /\ s # e.s
      <4>1. \A s \in Schedules : InHand(s)' => InHand(s) /\ s # e.s
        BY <1>12, <2>1, <2>3, <3>1 DEF InHand
      <4>2. \A s \in Schedules : InHand(s) /\ s # e.s => InHand(s)'
        BY <2>1, <2>3 DEF InHand
      <4> QED
        BY <4>1, <4>2
    <3>3. \A s \in Schedules : InStep(s)' \/ InHand(s)' \/ Asked'
      <4> SUFFICES ASSUME NEW s \in Schedules, s # e.s PROVE InStep(s)' \/ InHand(s)' \/ Asked'
        BY <1>7
      <4>1. InStep(s) \/ InHand(s) \/ Asked
        BY <1>1 DEF Known
      <4> QED
        BY <1>1, <1>6, <1>8, <3>2, <4>1 DEF InStep
    <3>4. \A s \in Schedules : InHand(s)' => table'[s].at = 0
      BY <1>6, <3>2 DEF Known
    <3>5. \A s \in Schedules, j \in Instants :
            <<s, j>> \in watch'.todo =>
              /\ thread'["watch"].s # s
              /\ \A k \in Instants : <<s, k>> \in watch'.todo => j = k
      BY <2>1, <2>3 DEF Known
    <3> QED
      BY <2>1, <2>2, <3>3, <3>4, <3>5 DEF Known
  <2>10. \A g \in Threads : HasRule(g)'
    BY <2>1 DEF HasRule, Core
  <2> QED
    BY <2>6, <2>7, <2>8, <2>9, <2>10
<1> QED
  BY <1>11, <1>12, HandlesFacts

\* A start, a pause and a death: what the loop knew is gone.
LEMMA WorkerInv ==
  ASSUME IInv, Boots \/ Resumes \/ Pauses \/ Dies
  PROVE  (\A g \in Threads : HasRule(g)') /\ Ordered' /\ Once' /\ Fresh' /\ Known'
<1> USE Numbers DEF IInv
<1>1. CASE Boots \/ Resumes
  <2>1. worker # "running"
    BY <1>1 DEF Boots, Resumes
  <2>2. /\ watch.at = "sleep" /\ thread["watch"].at = "none" /\ thread["watch"].s = None
        /\ watch.todo = {} /\ clock' = clock /\ thread' = thread /\ runs' = runs /\ row' = row
    BY <1>1, <2>1 DEF Boots, Resumes, Known, rowVars
  <2>3. /\ watch'.at = "sleep" /\ watch'.todo = {}
        /\ \/ /\ worker' = "paused" /\ table' = table /\ begun' = begun
           \/ /\ reload' = TRUE /\ begun' = clock /\ \A s \in Schedules : table'[s].at = 0
    <3>1. CASE Starts
      BY <3>1, NoneTypes DEF Starts
    <3>2. CASE worker' = "paused" /\ UNCHANGED loopVars
      BY <2>2, <3>2 DEF loopVars
    <3> QED
      BY <1>1, <3>1, <3>2 DEF Boots, Resumes
  <2>4. \A s \in Schedules, i \in Instants :
          /\ ~InThread("watch", s, i)' /\ ~InThread("watch", s, i)
          /\ InThread("orphan", s, i)' <=> InThread("orphan", s, i)
          /\ Waiting(s, i)' <=> Waiting(s, i)
    BY <2>2, <2>3 DEF InThread, Waiting
  <2>5. Ordered'
    <3>1. \A s \in Schedules, i \in Instants : runs[s][i] > 0 \/ Waiting(s, i) => Behind(s, i)
      BY DEF Ordered
    <3>2. \A s \in Schedules, i \in Instants : Behind(s, i) => Behind(s, i)'
      BY <2>2, <2>3 DEF Behind
    <3>3. \A s \in Schedules, i \in Instants :
             runs'[s][i] > 0 \/ Waiting(s, i)' => Behind(s, i)'
      BY <2>2, <2>4, <3>1, <3>2
    <3>4. begun' <= clock' /\ watch'.at # "run"
      BY <2>2, <2>3 DEF Ordered
    <3> QED
      BY <3>3, <3>4 DEF Ordered
  <2>6. Once'
    BY <2>2, <2>3, <2>4 DEF Once
  <2>7. Fresh'
    BY <2>3, <2>4 DEF Fresh
  <2>8. Known'
    <3>1. \A s \in Schedules : ~InHand(s)'
      BY <2>2, <2>3, NoneTypes DEF InHand
    <3> QED
      BY <2>2, <2>3, <3>1 DEF Known, Asked
  <2>9. \A g \in Threads : HasRule(g)'
    BY <2>2 DEF HasRule, Core
  <2> QED
    BY <2>5, <2>6, <2>7, <2>8, <2>9
<1>2. CASE Pauses \/ Dies
  <2>1. /\ watch'.at = "sleep" /\ watch'.todo = {} /\ worker' # "running"
        /\ clock' = clock /\ begun' = begun /\ runs' = runs
        /\ table' = table \/ \A s \in Schedules : table'[s].at = 0
        /\ thread'["watch"] = NoThread /\ thread'["hand"] = thread["hand"]
        /\ \/ thread'["orphan"] = NoThread
           \/ thread'["orphan"] = thread["watch"]
    <3>1. CASE Pauses
      BY <3>1, NoneTypes DEF Pauses, Core, TypeOK, Threads, rowVars
    <3>2. CASE Dies
      BY <3>2, NoneTypes DEF Dies, Core, TypeOK, Threads
    <3> QED
      BY <1>2, <3>1, <3>2
  <2>2. \A s \in Schedules, i \in Instants :
          /\ ~InThread("watch", s, i)'
          /\ InThread("orphan", s, i)' => InThread("watch", s, i)
          /\ Waiting(s, i)' => Waiting(s, i)
    BY <2>1, NoneTypes DEF InThread, Waiting
  <2>3. Ordered'
    <3>1. \A s \in Schedules, i \in Instants : runs[s][i] > 0 \/ Waiting(s, i) => Behind(s, i)
      BY DEF Ordered
    <3>2. \A s \in Schedules, i \in Instants : Behind(s, i) => Behind(s, i)'
      BY <2>1 DEF Behind
    <3>3. \A s \in Schedules, i \in Instants :
             runs'[s][i] > 0 \/ Waiting(s, i)' => Behind(s, i)'
      BY <2>1, <2>2, <3>1, <3>2
    <3> QED
      BY <2>1, <3>3 DEF Ordered
  <2>4. Once'
    BY <2>1, <2>2 DEF Once
  <2>5. Fresh'
    BY <2>1, <2>2 DEF Fresh
  <2>6. Known'
    <3>1. \A s \in Schedules : ~InHand(s)'
      BY <2>1, NoneTypes DEF InHand
    <3> QED
      BY <2>1, <3>1, NoneTypes DEF Known
  <2>7. \A g \in Threads : HasRule(g)'
    BY <2>1, NoneTypes DEF HasRule, Core, Threads
  <2> QED
    BY <2>3, <2>4, <2>5, <2>6, <2>7
<1> QED
  BY <1>1, <1>2

LEMMA InitInv == ASSUME Init PROVE IInv
<1>1. TypeOK
  BY InitTypes
<1>2. /\ \A h \in Threads : thread[h] = NoThread
      /\ \A s \in Schedules : table[s].at = 0
      /\ \A s \in Schedules, i \in Instants : runs[s][i] = 0
      /\ watch.todo = {} /\ watch.at = "sleep" /\ worker = "down" /\ begun = 0 /\ clock = 0
      /\ "watch" \in Threads /\ "orphan" \in Threads
  BY NoneTypes DEF Init, Threads
<1>3. \A s \in Schedules, i \in Instants :
        ~Waiting(s, i) /\ ~InThread("watch", s, i) /\ ~InThread("orphan", s, i)
  BY <1>2, NoneTypes DEF Waiting, InThread
<1>4. Core
  BY <1>1, <1>2, NoneTypes DEF Core, HasRule
<1>5. Ordered /\ Once /\ Fresh
  BY <1>2, <1>3 DEF Ordered, Once, Fresh
<1>6. Known
  <2>1. \A s \in Schedules : ~InHand(s)
    BY <1>2, NoneTypes DEF InHand
  <2> QED
    BY <1>2, <2>1, NoneTypes DEF Known
<1> QED
  BY <1>4, <1>5, <1>6 DEF IInv

-----------------------------------------------------------------------------
(* The theorems.                                                            *)

\* The invariant holds in every reachable state.
THEOREM Invariance == Spec => []IInv
<1>1. Init => IInv
  BY InitInv
<1>2. IInv /\ [Next]_vars => IInv'
  <2> SUFFICES ASSUME IInv, [Next]_vars PROVE IInv'
    OBVIOUS
  <2> USE DEF IInv
  <2>1. CASE UNCHANGED vars
    <3>1. UNCHANGED <<clock, worker, thread, clicks, row, last, made, open, runs, loose, watch, table,
                      reload, begun, command, asking, edits>>
      BY <2>1 DEF vars, rowVars, loopVars, askVars
    <3>2. TypeOK'
      BY <3>1 DEF Core, TypeOK
    <3>3. \A h \in Threads : HasRule(h)'
      BY <3>1 DEF Core, HasRule
    <3>4. Ordered' /\ Once' /\ Fresh' /\ Known'
      <4>1. Asked => Asked'
        BY <3>1 DEF Asked
      <4> QED
        BY <3>1, <4>1, QuietSteps, QuietKnown
    <3> QED
      BY <3>2, <3>3, <3>4 DEF Core
  <2>2. CASE Next
    <3>1. CASE \/ request_reload \/ claim_runtime_command \/ reload_schedules \/ Ticks
               \/ \E s \in Schedules : Edits(s) \/ TaskCloses(s)
      BY <3>1, PlainTypes, PlainSteps DEF Core
    <3>2. CASE \E s \in Schedules : run_now(s)
      BY <3>2, WorkerTypes, PlainSteps DEF Core
    <3>3. CASE Wakes
      BY <3>3, LoopTypes, WakesInv DEF Core
    <3>4. CASE HandlesNext
      BY <3>4, LoopTypes, HandlesInv DEF Core
    <3>5. CASE Boots \/ Resumes \/ Pauses \/ Dies
      BY <3>5, WorkerTypes, WorkerInv DEF Core
    <3>6. ASSUME NEW h \in Threads, ThreadSteps(h) PROVE IInv'
      BY <3>6, ThreadTypes, ThreadInv DEF Core
    <3> QED
      BY <2>2, <3>1, <3>2, <3>3, <3>4, <3>5, <3>6 DEF Next
  <2> QED
    BY <2>1, <2>2
<1> QED
  BY <1>1, <1>2, PTL DEF Spec

\* The types hold.
THEOREM TypeInvariant == Spec => []TypeOK
<1>1. IInv => TypeOK
  BY DEF IInv, Core
<1> QED
  BY <1>1, Invariance, PTL

\* An instant of a schedule creates at most one task, whatever is edited,
\* paused, killed or refused by the database.
THEOREM AtMostOnce == Spec => []AtMostOncePerOccurrence
<1>1. IInv => AtMostOncePerOccurrence
  BY DEF IInv, Once, AtMostOncePerOccurrence
<1> QED
  BY <1>1, Invariance, PTL

\* A start never replays what came due before it.
THEOREM NoReplay == Spec => []NothingReplayed
<1>1. IInv => NothingReplayed
  <2> SUFFICES ASSUME IInv, thread["watch"].at = "fire" PROVE thread["watch"].due > begun
    BY DEF NothingReplayed
  <2>1. thread["watch"].s \in Schedules /\ thread["watch"].due \in Instants
    BY DEF IInv, Core, TypeOK, Threads
  <2> QED
    BY <2>1 DEF IInv, Fresh, InThread
<1> QED
  BY <1>1, Invariance, PTL

\* A sleeping loop that nobody is going to wake up agrees with the rows.
THEOREM NoReloadLost == Spec => []AsleepInStep
<1>1. IInv => AsleepInStep
  <2> SUFFICES ASSUME IInv, worker = "running", watch.at = "sleep", ~reload, command = "none", ~asking,
                      NEW s \in Schedules
               PROVE  InStep(s)
    BY DEF AsleepInStep
  <2>1. ~InHand(s)
    BY Numbers, NoneTypes DEF InHand, IInv, Known
  <2> QED
    BY <2>1 DEF IInv, Known, Asked
<1> QED
  BY <1>1, Invariance, PTL

-----------------------------------------------------------------------------
(* Runs do not stack.                                                       *)

\* A run was let through and its task is not recorded yet.
Making(h, s) ==
  /\ thread[h].s = s
  /\ thread[h].at = "fire" \/ (thread[h].at = "record" /\ thread[h].outcome = "fired")
Product(h) == IF thread[h].at = "fire" THEN {} ELSE {thread[h].task}

\* Of a schedule one run at a time is being made; before it nothing is open, then
\* its task, and in the end what last_task_id names: the next run is refused.
Tidy(s) ==
  /\ \A g, h \in Threads : Making(g, s) /\ Making(h, s) => g = h
  /\ \A h \in Threads : Making(h, s) => open[s] \subseteq Product(h)
  /\ (\A h \in Threads : ~Making(h, s)) => open[s] \subseteq {last[s]}
GapsInv == \A s \in Schedules : s \in loose \/ Tidy(s)

\* Most steps neither let a run through nor end one.
LEMMA TidyStays ==
  ASSUME NEW s \in Schedules, s \in loose \/ Tidy(s),
         loose \subseteq loose', last'[s] = last[s], open'[s] \subseteq open[s],
         \A h \in Threads : thread'[h] = thread[h] \/ (~Making(h, s) /\ ~Making(h, s)')
  PROVE  s \in loose' \/ Tidy(s)'
<1>1. SUFFICES ASSUME Tidy(s) PROVE Tidy(s)'
  OBVIOUS
<1>2. \A h \in Threads : Making(h, s)' <=> Making(h, s)
  BY DEF Making
<1>3. \A h \in Threads : Making(h, s) => Product(h)' = Product(h)
  BY DEF Product
<1> QED
  BY <1>1, <1>2, <1>3 DEF Tidy

\* A run is let through where nothing else is being made and nothing is open.
LEMMA LetThrough ==
  ASSUME Core, GapsInv, NEW h \in Threads, Reads(h), NEW s \in Schedules, thread[h].s = s
  PROVE  s \in loose' \/ Tidy(s)'
<1>1. /\ thread[h].at = "read" /\ UNCHANGED <<last, open>>
      /\ \A g \in Threads : g # h => thread'[g] = thread[g]
      /\ thread'[h].s = s \/ thread'[h].at \in {"none", "done"}
  BY ReadsFacts, NoneTypes DEF Finished, Stays
<1>2. loose \subseteq loose'
  BY DEF Reads
<1>3. ~Making(h, s)
  BY <1>1 DEF Making
<1>4. CASE ~Making(h, s)'
  BY <1>1, <1>2, <1>3, <1>4, TidyStays DEF GapsInv
<1>5. CASE Making(h, s)'
  <2> DEFINE to(at, outcome) == [thread[h] EXCEPT !.rule = row[s].rule, !.at = at,
                                                  !.outcome = outcome, !.now = 0]
             lets(at, outcome) == thread' = [thread EXCEPT ![h] = to(at, outcome)]
             starts == lets("fire", "none") /\ loose' = loose \cup {t \in {s} : Overlapped(h)}
  <2>1. \/ \E outcome \in {"raised", "dropped"} : Finishes(h, outcome)
        \/ \E outcome \in {"missed", "skipped"} : lets("record", outcome)
        \/ last[s] \notin open[s] /\ starts
    BY DEF Reads
  <2>2. thread[h] \in ThreadType
    BY DEF Core, TypeOK, ThreadType
  <2>3. ASSUME NEW outcome \in {"raised", "dropped"}, Finishes(h, outcome) PROVE FALSE
    <3>1. outcome \in Outcomes
      BY DEF Outcomes
    <3>2. thread'[h] = NoThread \/ thread'[h] = [thread[h] EXCEPT !.at = "done", !.outcome = outcome]
      BY <2>3, <3>1, FinishesFacts
    <3>3. thread'[h].at \in {"none", "done"}
      BY <2>2, <3>2, NoneTypes DEF ThreadType
    <3> QED
      BY <1>5, <3>3 DEF Making
  <2>4. ASSUME NEW outcome \in {"missed", "skipped"}, lets("record", outcome) PROVE FALSE
    <3>1. thread'[h] = to("record", outcome)
      BY <2>4 DEF Core, TypeOK
    <3>2. thread'[h].at = "record" /\ thread'[h].outcome = outcome
      BY <2>2, <3>1 DEF ThreadType
    <3> QED
      BY <1>5, <3>2 DEF Making
  <2>5. ASSUME last[s] \notin open[s], starts PROVE s \in loose' \/ Tidy(s)'
    <3>1. SUFFICES ASSUME s \notin loose' PROVE Tidy(s)'
      OBVIOUS
    <3>2. ~Overlapped(h)
      BY <2>5, <3>1
    <3>3. \A g \in Threads : g # h => ~Making(g, s)
      BY <3>2 DEF Overlapped, Making
    <3>4. open[s] = {}
      BY <1>2, <1>3, <2>5, <3>1, <3>3 DEF GapsInv, Tidy
    <3>5. \A g \in Threads : g # h => ~Making(g, s)'
      BY <1>1, <3>3 DEF Making
    <3> QED
      BY <1>1, <1>5, <3>4, <3>5 DEF Tidy
  <2> QED
    BY <2>1, <2>3, <2>4, <2>5
<1> QED
  BY <1>4, <1>5

\* Its task is created, or the attempt raised.
LEMMA MadeOrFailed ==
  ASSUME Core, GapsInv, NEW h \in Threads, _fire(h), NEW s \in Schedules, thread[h].s = s
  PROVE  s \in loose' \/ Tidy(s)'
<1> DEFINE new == made[s] + 1
           fired == [thread[h] EXCEPT !.at = "record", !.outcome = "fired", !.task = new]
           failed == [thread[h] EXCEPT !.at = "record", !.outcome = "failed"]
<1>1. /\ thread[h].at = "fire" /\ UNCHANGED <<last, loose>>
      /\ \A g \in Threads : g # h => thread'[g] = thread[g]
      /\ thread'[h].at = "record" /\ thread'[h].s = s
  BY FireFacts DEF Stays
<1>2. SUFFICES ASSUME Tidy(s) PROVE Tidy(s)'
  BY <1>1 DEF GapsInv
<1>3. Making(h, s)
  BY <1>1 DEF Making
<1>4. open[s] = {}
  BY <1>1, <1>2, <1>3 DEF Tidy, Product
<1>5. \A g \in Threads : g # h => ~Making(g, s)
  BY <1>2, <1>3 DEF Tidy
<1>6. \A g \in Threads : g # h => ~Making(g, s)'
  BY <1>1, <1>5 DEF Making
<1>7. \/ thread' = [thread EXCEPT ![h] = fired] /\ open' = [open EXCEPT ![s] = @ \cup {new}]
      \/ thread' = [thread EXCEPT ![h] = failed] /\ UNCHANGED open
  BY DEF _fire, Goes
<1>8. thread[h] \in ThreadType /\ thread \in [Threads -> ThreadType] /\ open \in [Schedules -> SUBSET Nat]
  BY DEF Core, TypeOK, ThreadType
<1>9. CASE thread' = [thread EXCEPT ![h] = fired] /\ open' = [open EXCEPT ![s] = @ \cup {new}]
  <2>1. open'[s] = {new}
    BY <1>4, <1>8, <1>9
  <2>2. thread'[h] = fired
    BY <1>8, <1>9
  <2>3. thread'[h].outcome = "fired" /\ thread'[h].task = new
    BY <1>8, <2>2 DEF ThreadType
  <2>4. Making(h, s)' /\ Product(h)' = {new}
    BY <1>1, <2>3 DEF Making, Product
  <2> QED
    BY <1>6, <2>1, <2>4 DEF Tidy
<1>10. CASE thread' = [thread EXCEPT ![h] = failed] /\ UNCHANGED open
  <2>1. thread'[h].outcome = "failed"
    BY <1>8, <1>10 DEF ThreadType
  <2>2. ~Making(h, s)'
    BY <1>1, <2>1 DEF Making
  <2> QED
    BY <1>4, <1>6, <1>10, <2>2 DEF Tidy
<1> QED
  BY <1>7, <1>9, <1>10

\* The row learns its task, or the schedule is let off.
LEMMA Recorded ==
  ASSUME Core, GapsInv, NEW h \in Threads, record_outcome(h), NEW s \in Schedules, thread[h].s = s
  PROVE  s \in loose' \/ Tidy(s)'
<1>1. /\ thread[h].at = "record" /\ UNCHANGED open
      /\ \A g \in Threads : g # h => thread'[g] = thread[g]
      /\ thread'[h].at \in {"none", "done"}
  BY RecordFacts, NoneTypes DEF Finished
<1>2. /\ loose \subseteq loose'
      /\ \/ last' = [last EXCEPT ![s] = IF thread[h].outcome = "fired" THEN thread[h].task ELSE @]
         \/ UNCHANGED last /\ (thread[h].outcome = "fired" => s \in loose')
  BY DEF record_outcome, KeepsTask
<1>3. SUFFICES ASSUME s \notin loose' PROVE Tidy(s)'
  OBVIOUS
<1>4. Tidy(s)
  BY <1>2, <1>3 DEF GapsInv
<1>5. ~Making(h, s)'
  BY <1>1 DEF Making
<1>6. CASE thread[h].outcome # "fired"
  <2>1. last'[s] = last[s]
    BY <1>2, <1>6 DEF Core, TypeOK
  <2>2. ~Making(h, s)
    BY <1>1, <1>6 DEF Making
  <2> QED
    BY <1>1, <1>2, <1>3, <1>4, <1>5, <2>1, <2>2, TidyStays
<1>7. CASE thread[h].outcome = "fired"
  <2>1. last'[s] = thread[h].task
    BY <1>2, <1>3, <1>7 DEF Core, TypeOK
  <2>2. Making(h, s) /\ Product(h) = {thread[h].task}
    BY <1>1, <1>7 DEF Making, Product
  <2>3. open[s] \subseteq {last'[s]}
    BY <1>4, <2>1, <2>2 DEF Tidy
  <2>4. \A g \in Threads : g # h => ~Making(g, s)
    BY <1>4, <2>2 DEF Tidy
  <2>5. \A g \in Threads : ~Making(g, s)'
    BY <1>1, <1>5, <2>4 DEF Making
  <2> QED
    BY <1>1, <2>3, <2>5 DEF Tidy
<1> QED
  BY <1>6, <1>7

\* A pause leaves the thread of the loop behind; a death takes the threads, and
\* lets the schedule off whose task was not recorded.
LEMMA ThreadsLeft ==
  ASSUME Core, GapsInv, Pauses \/ Dies
  PROVE  GapsInv'
<1>1. thread \in [Threads -> ThreadType] /\ {"watch", "orphan", "hand"} = Threads
  BY DEF Core, TypeOK, ThreadType, Threads
<1>2. UNCHANGED <<last, open>>
  BY DEF Pauses, Dies, rowVars
<1> SUFFICES ASSUME NEW s \in Schedules, s \notin loose' PROVE Tidy(s)'
  BY DEF GapsInv
<1>3. CASE Pauses
  <2>1. /\ thread'["watch"] = NoThread /\ thread'["hand"] = thread["hand"]
        /\ thread["orphan"].at = "none" /\ loose' = loose
        /\ thread'["orphan"] = IF thread["watch"].at \in {"read", "fire", "record"}
                               THEN thread["watch"] ELSE NoThread
    BY <1>1, <1>3 DEF Pauses, rowVars
  <2>2. /\ Making("orphan", s)' <=> Making("watch", s) /\ ~Making("watch", s)'
        /\ Making("hand", s)' <=> Making("hand", s) /\ ~Making("orphan", s)
        /\ Making("orphan", s)' => Product("orphan")' = Product("watch")
        /\ Product("hand")' = Product("hand")
    BY <2>1, NoneTypes DEF Making, Product
  <2>3. Tidy(s)
    BY <2>1 DEF GapsInv
  <2>4. ~Making("watch", s)' /\ ~Making("orphan", s)
    BY <2>1, NoneTypes DEF Making
  <2> QED
    BY <1>1, <1>2, <2>2, <2>3, <2>4 DEF Tidy
<1>4. CASE Dies
  <2>1. /\ thread'["watch"] = NoThread /\ thread'["hand"] = thread["hand"]
        /\ thread'["orphan"] = NoThread /\ loose \subseteq loose'
        /\ \A h \in {"watch", "orphan"} :
             thread[h].at = "record" /\ thread[h].outcome = "fired" => thread[h].s \in loose'
    BY <1>1, <1>4 DEF Dies
  <2>2. Tidy(s)
    BY <2>1 DEF GapsInv
  <2>3. \A h \in {"watch", "orphan"} : ~Making(h, s)' /\ (Making(h, s) => Product(h) = {})
    BY <2>1, NoneTypes DEF Making, Product
  <2>4. (Making("hand", s)' <=> Making("hand", s)) /\ Product("hand")' = Product("hand")
    BY <2>1 DEF Making, Product
  <2> QED
    BY <1>1, <1>2, <2>2, <2>3, <2>4 DEF Tidy
<1> QED
  BY <1>3, <1>4

LEMMA GapsStep == ASSUME Core, GapsInv, [Next]_vars PROVE GapsInv'
<1>1. CASE \/ UNCHANGED vars \/ request_reload \/ claim_runtime_command \/ reload_schedules \/ Ticks
           \/ Boots \/ Resumes \/ \E s \in Schedules : Edits(s)
  <2>1. UNCHANGED <<thread, last, open, loose>>
    BY <1>1 DEF vars, rowVars, request_reload, claim_runtime_command, reload_schedules, Ticks, Boots,
                Resumes, Edits
  <2> QED
    BY <2>1, TidyStays DEF GapsInv
<1>2. ASSUME NEW t \in Schedules, TaskCloses(t) PROVE GapsInv'
  <2>1. UNCHANGED <<thread, last, loose>> /\ \A s \in Schedules : open'[s] \subseteq open[s]
    BY <1>2 DEF TaskCloses, Core, TypeOK
  <2> QED
    BY <2>1, TidyStays DEF GapsInv
<1>3. ASSUME NEW t \in Schedules, run_now(t) PROVE GapsInv'
  <2>1. /\ UNCHANGED <<last, open, loose>>
        /\ \A h \in Threads : h # "hand" => thread'[h] = thread[h]
        /\ thread["hand"].at = "none"
        /\ thread'["hand"] = [NoThread EXCEPT !.at = "read", !.s = t, !.now = clock]
    BY <1>3 DEF run_now, rowVars, Core, TypeOK, Threads
  <2>2. thread'["hand"].at = "read"
    BY <2>1, NoneTypes DEF ThreadType
  <2>3. \A s \in Schedules : ~Making("hand", s) /\ ~Making("hand", s)'
    BY <2>1, <2>2 DEF Making
  <2> QED
    BY <2>1, <2>3, TidyStays DEF GapsInv
<1>4. CASE Wakes \/ HandlesNext
  <2>1. /\ UNCHANGED <<last, open, loose>>
        /\ thread["watch"].at \in {"none", "done"}
        /\ \/ thread' = thread
           \/ thread' = [thread EXCEPT !["watch"] = NoThread]
           \/ \E s, due, now : thread' = Runs(s, due, now)
    <3>1. CASE Wakes
      BY <3>1 DEF Wakes, rowVars, Core, TypeOK
    <3>2. CASE HandlesNext
      BY <3>2 DEF HandlesNext, rowVars
    <3> QED
      BY <1>4, <3>1, <3>2
  <2>2. /\ \A h \in Threads : h # "watch" => thread'[h] = thread[h]
        /\ thread' = thread \/ thread'["watch"].at \in {"none", "read"}
    <3>1. "watch" \in Threads /\ thread \in [Threads -> ThreadType]
      BY DEF Core, TypeOK, ThreadType, Threads
    <3>2. CASE thread' = thread
      BY <3>2
    <3>3. CASE thread' = [thread EXCEPT !["watch"] = NoThread]
      BY <3>1, <3>3, NoneTypes
    <3>4. ASSUME NEW s, NEW due, NEW now, thread' = Runs(s, due, now)
          PROVE  /\ \A h \in Threads : h # "watch" => thread'[h] = thread[h]
                 /\ thread'["watch"].at \in {"none", "read"}
      <4>1. [NoThread EXCEPT !.at = "read", !.s = s, !.due = due, !.now = now].at = "read"
        BY DEF NoThread
      <4> QED
        BY <3>1, <3>4, <4>1 DEF Runs
    <3> QED
      BY <2>1, <3>2, <3>3, <3>4
  <2>3. \A s \in Schedules : thread' = thread \/ (~Making("watch", s) /\ ~Making("watch", s)')
    BY <2>1, <2>2 DEF Making
  <2> QED
    BY <2>1, <2>2, <2>3, TidyStays DEF GapsInv
<1>5. ASSUME NEW h \in Threads, ThreadSteps(h) PROVE GapsInv'
  <2> SUFFICES ASSUME NEW s \in Schedules PROVE s \in loose' \/ Tidy(s)'
    BY DEF GapsInv
  <2>1. CASE thread[h].s = s
    BY <1>5, <2>1, LetThrough, MadeOrFailed, Recorded DEF ThreadSteps
  <2>2. CASE thread[h].s # s
    <3>1. /\ \A g \in Threads : g # h => thread'[g] = thread[g]
          /\ Finished(h) \/ Stays(h)
          /\ loose \subseteq loose'
      <4>1. CASE Reads(h)
        BY <4>1, ReadsFacts DEF Reads
      <4>2. CASE _fire(h)
        BY <4>2, FireFacts
      <4>3. CASE record_outcome(h)
        BY <4>3, RecordFacts DEF record_outcome
      <4> QED
        BY <1>5, <4>1, <4>2, <4>3 DEF ThreadSteps
    <3>2. last'[s] = last[s] /\ open'[s] = open[s]
      <4>1. CASE Reads(h)
        BY <4>1, ReadsFacts
      <4>2. CASE _fire(h)
        BY <2>2, <4>2 DEF _fire, Core, TypeOK
      <4>3. CASE record_outcome(h)
        BY <2>2, <4>3 DEF record_outcome, KeepsTask, Core, TypeOK
      <4> QED
        BY <1>5, <4>1, <4>2, <4>3 DEF ThreadSteps
    <3>3. ~Making(h, s) /\ ~Making(h, s)'
      BY <2>2, <3>1, NoneTypes DEF Making, Finished, Stays
    <3> QED
      BY <3>1, <3>2, <3>3, TidyStays DEF GapsInv
  <2> QED
    BY <2>1, <2>2
<1> QED
  BY <1>1, <1>2, <1>3, <1>4, <1>5, ThreadsLeft DEF Next

\* A run of a schedule is not stacked on a stuck one: unless two runs overlapped
\* or one was not recorded, at most one task of a schedule is open.
THEOREM RunsDoNotStack == Spec => []OnlyKnownGapsStack
<1>1. Init => GapsInv
  BY NoneTypes DEF Init, GapsInv, Tidy, Making
<1>2. IInv /\ GapsInv /\ [Next]_vars => GapsInv'
  BY GapsStep DEF IInv
<1>3. GapsInv => OnlyKnownGapsStack
  <2> SUFFICES ASSUME NEW s \in Schedules, Tidy(s) PROVE Cardinality(open[s]) <= 1
    BY DEF GapsInv, OnlyKnownGapsStack
  <2>1. PICK x : open[s] \subseteq {x}
    <3>1. CASE \E h \in Threads : Making(h, s)
      BY <3>1 DEF Tidy, Product
    <3>2. CASE \A h \in Threads : ~Making(h, s)
      BY <3>2 DEF Tidy
    <3> QED
      BY <3>1, <3>2
  <2>2. open[s] = {} \/ open[s] = {x}
    BY <2>1
  <2> QED
    BY <2>2, FS_EmptySet, FS_Singleton
<1> QED
  BY <1>1, <1>2, <1>3, Invariance, PTL DEF Spec
================================================================================
