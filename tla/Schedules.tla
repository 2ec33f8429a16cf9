------------------------------- MODULE Schedules -------------------------------
(***************************************************************************)
(* Recurring work: the worker's schedule clock, its timetable, and one       *)
(* occurrence against the database (core/scheduling/watch.py, timetable.py,  *)
(* runner.py, service.py, db/agent_schedules.py).                            *)
(*                                                                           *)
(* The loop of ScheduleWatch runs each occurrence in a thread.  Beside it    *)
(* are the app's "Run now", the operator and the agents who edit rows and    *)
(* ask for a reload, and a thread that outlives its loop: a pause cancels    *)
(* the loop, and not the thread it waits for.                                *)
(***************************************************************************)
EXTENDS Naturals, FiniteSets

CONSTANTS
  Schedules,
  Rules,             \* recurrence rules
  None,              \* no schedule, no rule
  next_occurrence,   \* rule -> instant -> the first run strictly after it
  Last,              \* bound: the last instant of the clock
  Grace,             \* schedule_fire_grace_seconds
  MaxEdits,          \* bound: how often a row is edited
  MaxRunNows,        \* bound: how often the operator clicks Run now
  Faults             \* whether the database may refuse a statement, and the worker die

Instants == 0 .. Last
Never == Last + 1    \* a run that the bounded clock does not reach

ASSUME ScheduleAssumption ==
  /\ Last \in Nat /\ Grace \in Nat /\ MaxEdits \in Nat /\ MaxRunNows \in Nat
  /\ Faults \in BOOLEAN
  /\ None \notin Schedules \cup Rules
  /\ next_occurrence \in [Rules -> [Instants -> 1 .. Never]]
  /\ \A r \in Rules, i \in Instants : next_occurrence[r][i] > i

VARIABLES
  clock,     \* the wall clock
  row,       \* schedule -> its enabled flag and rule; "none" and "deleted": no row
  last,      \* last_task_id, 0 for none
  made,      \* schedule -> how many tasks its runs created, numbered from 1
  open,      \* schedule -> those of its tasks that are not terminal
  worker,    \* the process, and whether its services run
  watch,     \* the loop: asleep or handling what was due, its now, what is left
  table,     \* the timetable: next_at and rule per schedule, 0 for no entry
  reload,    \* _reload_requested
  thread,    \* run_occurrence (of the loop, or outliving it) and run_now
  command,   \* the open reload_schedules row of runtime_commands, if any
  asking,    \* whether a row was changed and the reload not yet asked for
  edits, clicks,
  runs,      \* history: schedule -> instant -> tasks created for it
  begun,     \* history: the instant of the last start
  loose      \* history: schedules with a run that last_task_id does not show

rowVars == <<row, last, made, open, runs, loose>>
loopVars == <<watch, table, reload, begun>>
askVars == <<command, asking, edits>>
vars == <<clock, worker, thread, clicks, rowVars, loopVars, askVars>>

Threads == {"watch", "orphan", "hand"}
NoThread == [at |-> "none", s |-> None, due |-> 0, now |-> 0, rule |-> None,
             task |-> 0, outcome |-> "none"]
NoEntry == [at |-> 0, rule |-> None]
Outcomes == {"none", "missed", "skipped", "failed", "fired", "dropped", "raised"}

\* The types; the loop handles a run exactly while it has a thread.
TypeOK ==
  /\ clock \in Instants /\ begun \in Instants
  /\ row \in [Schedules -> [is : {"none", "off", "on", "deleted"}, rule : Rules]]
  /\ made \in [Schedules -> Nat] /\ last \in [Schedules -> Nat]
  /\ open \in [Schedules -> SUBSET Nat]
  /\ worker \in {"down", "paused", "running"}
  /\ watch \in [at : {"sleep", "run"}, now : Instants, todo : SUBSET (Schedules \X Instants)]
  /\ table \in [Schedules -> [at : 0 .. Never, rule : Rules \cup {None}]]
  /\ \A s \in Schedules : table[s].at = 0 <=> table[s].rule = None
  /\ thread \in [Threads -> [at : {"none", "read", "fire", "record", "done"},
                             s : Schedules \cup {None}, due : Instants, now : Instants,
                             rule : Rules \cup {None}, task : Nat, outcome : Outcomes]]
  /\ \A h \in Threads : thread[h].at = "none" <=> thread[h].s = None
  /\ thread["watch"].at # "none" <=> watch.at = "run"
  /\ watch.at = "run" => worker = "running"
  /\ command \in {"none", "queued", "claimed"} /\ {asking, reload} \subseteq BOOLEAN
  /\ edits \in 0 .. MaxEdits /\ clicks \in 0 .. MaxRunNows
  /\ runs \in [Schedules -> [Instants -> Nat]] /\ loose \subseteq Schedules

-----------------------------------------------------------------------------
(* The timetable.                                                           *)

\* Timetable.sync: an unchanged schedule keeps its next_at.
synced ==
  [s \in Schedules |->
     IF row[s].is # "on" THEN NoEntry
     ELSE IF table[s].at # 0 /\ table[s].rule = row[s].rule THEN table[s]
     ELSE [at |-> next_occurrence[row[s].rule][clock], rule |-> row[s].rule]]

pop_due(t) == {s \in Schedules : t[s].at # 0 /\ t[s].at <= clock}

-----------------------------------------------------------------------------
(* The loop of ScheduleWatch.                                               *)

Runs(s, due, now) ==
  [thread EXCEPT !["watch"] = [NoThread EXCEPT !.at = "read", !.s = s, !.due = due,
                                               !.now = now]]

Asleep == [at |-> "sleep", now |-> 0, todo |-> {}]

\* Seeded fault: the timetable of before the pause is kept.
StartsAgain ==
  /\ worker' = "running" /\ reload' = TRUE
  /\ watch' = Asleep
  /\ begun' = clock
  /\ UNCHANGED table

\* start: an empty timetable, to be synced from the clock.
Starts ==
  /\ worker' = "running"
  /\ table' = [s \in Schedules |-> NoEntry]
  /\ reload' = TRUE
  /\ watch' = Asleep
  /\ begun' = clock

\* A pass: sync if asked to, take what is due, run the soonest in a thread.  A
\* sync that fails changes nothing, and is another turn of sleep.
Wakes ==
  /\ worker = "running" /\ watch.at = "sleep"
  /\ LET now == IF reload THEN synced ELSE table
         due == {<<s, now[s].at>> : s \in pop_due(now)}
     IN /\ table' = [s \in Schedules |-> IF s \in pop_due(now) THEN NoEntry ELSE now[s]]
        /\ IF due = {} THEN UNCHANGED <<watch, thread>>
           ELSE \E e \in due :
                  /\ \A f \in due : e[2] <= f[2]
                  /\ watch' = [at |-> "run", now |-> clock, todo |-> due \ {e}]
                  /\ thread' = Runs(e[1], e[2], clock)
  /\ reload' = FALSE
  /\ UNCHANGED <<clock, worker, clicks, rowVars, begun, askVars>>

Entry(e, after) == [at |-> next_occurrence[e.rule][after], rule |-> e.rule]

\* Seeded faults: a run that raised is put back at the instant it was due; it is
\* left out of the timetable; the reload flag is cleared after the run.
Retries(e) ==
  IF e.outcome = "dropped" THEN UNCHANGED <<table, reload>>
  ELSE /\ table' = [table EXCEPT ![e.s] = IF e.outcome = "raised"
                                          THEN [at |-> e.due, rule |-> row[e.s].rule]
                                          ELSE Entry(e, watch.now)]
       /\ UNCHANGED reload
Forgets(e) ==
  IF e.outcome \in {"raised", "dropped"} THEN UNCHANGED <<table, reload>>
  ELSE table' = [table EXCEPT ![e.s] = Entry(e, watch.now)] /\ UNCHANGED reload
ClearsReload(e) ==
  IF e.outcome \in {"raised", "dropped"}
  THEN reload' = (e.outcome = "raised") /\ UNCHANGED table
  ELSE table' = [table EXCEPT ![e.s] = Entry(e, watch.now)] /\ reload' = FALSE

\* The schedule advances from the pass's now; a raised run asks for a sync.
Advances(e) ==
  IF e.outcome \in {"raised", "dropped"}
  THEN reload' = (reload \/ e.outcome = "raised") /\ UNCHANGED table
  ELSE table' = [table EXCEPT ![e.s] = Entry(e, watch.now)] /\ UNCHANGED reload

HandlesNext ==
  /\ thread["watch"].at = "done"
  /\ Advances(thread["watch"])
  /\ IF watch.todo = {}
     THEN /\ watch' = Asleep
          /\ thread' = [thread EXCEPT !["watch"] = NoThread]
     ELSE \E e \in watch.todo :
            /\ \A f \in watch.todo : e[2] <= f[2]
            /\ watch' = [watch EXCEPT !.todo = @ \ {e}]
            /\ thread' = Runs(e[1], e[2], watch.now)
  /\ UNCHANGED <<clock, worker, clicks, rowVars, begun, askVars>>

-----------------------------------------------------------------------------
(* run_occurrence and run_now.                                              *)

Goes(h, at, outcome) ==
  thread' = [thread EXCEPT ![h] = [@ EXCEPT !.at = at, !.outcome = outcome]]
\* Nobody waits for a thread that outlived its loop, or for the click.
Finishes(h, outcome) ==
  IF h = "watch" THEN Goes(h, "done", outcome)
  ELSE thread' = [thread EXCEPT ![h] = NoThread]

\* Another run of the schedule that was let through and is not recorded yet.
Overlapped(h) ==
  \E g \in Threads \ {h} : thread[g].at \in {"fire", "record"} /\ thread[g].s = thread[h].s

\* The row is read, and what is decided on it: the occurrence is too old, or
\* _refusal gives a reason (a vacation may begin at any time).
Reads(h) ==
  /\ thread[h].at = "read"
  /\ LET s == thread[h].s
         now == [thread[h] EXCEPT !.rule = row[s].rule]
         becomes(at, outcome) ==
           thread' = [thread EXCEPT ![h] = [now EXCEPT !.at = at, !.outcome = outcome, !.now = 0]]
         refused == last[s] \in open[s]
         starts == becomes("fire", "none") /\ loose' = loose \cup {t \in {s} : Overlapped(h)}
         late == thread[h].now - thread[h].due > Grace
     IN IF h = "hand"
        THEN \/ Finishes(h, "raised") /\ UNCHANGED loose
             \/ row[s].is \in {"on", "off"} /\ ~refused /\ starts
        ELSE \/ row[s].is # "on" /\ Finishes(h, "dropped") /\ UNCHANGED loose
             \/ row[s].is = "on" /\ late /\ becomes("record", "missed") /\ UNCHANGED loose
             \/ row[s].is = "on" /\ ~late /\ becomes("record", "skipped") /\ UNCHANGED loose
             \/ row[s].is = "on" /\ ~late /\ ~refused /\ starts
             \/ Faults /\ Finishes(h, "raised") /\ UNCHANGED loose
  /\ UNCHANGED <<clock, worker, clicks, row, last, made, open, runs, loopVars, askVars>>

\* _fire: the task is created, in one transaction, or the attempt raised.
_fire(h) ==
  /\ thread[h].at = "fire"
  /\ LET s == thread[h].s
         new == made[s] + 1
     IN \/ /\ thread' = [thread EXCEPT ![h] = [@ EXCEPT !.at = "record", !.outcome = "fired",
                                                       !.task = new]]
           /\ made' = [made EXCEPT ![s] = new]
           /\ open' = [open EXCEPT ![s] = @ \cup {new}]
           /\ runs' = IF h = "hand" THEN runs
                      ELSE [runs EXCEPT ![s][thread[h].due] = @ + 1]
        \/ /\ Faults /\ Goes(h, "record", "failed")
           /\ UNCHANGED <<made, open, runs>>
  /\ UNCHANGED <<clock, worker, clicks, row, last, loose, loopVars, askVars>>

\* Seeded fault: every outcome writes last_task_id.
WritesTask(e) == last' = [last EXCEPT ![e.s] = e.task]

\* last_task_id moves only on fired.
KeepsTask(e) == last' = [last EXCEPT ![e.s] = IF e.outcome = "fired" THEN e.task ELSE @]

\* record_outcome raises when the row has been deleted.
record_outcome(h) ==
  /\ thread[h].at = "record"
  /\ LET s == thread[h].s
         outcome == thread[h].outcome
     IN \/ /\ row[s].is \in {"on", "off"}
           /\ KeepsTask(thread[h])
           /\ Finishes(h, outcome)
           /\ UNCHANGED loose
        \/ /\ Faults \/ row[s].is \notin {"on", "off"}
           /\ Finishes(h, "raised")
           /\ loose' = loose \cup {t \in {s} : outcome = "fired"}
           /\ UNCHANGED last
  /\ UNCHANGED <<clock, worker, clicks, row, made, open, runs, loopVars, askVars>>

\* Run now: in the app, enabled or not.
run_now(s) ==
  /\ thread["hand"].at = "none" /\ clicks < MaxRunNows
  /\ clicks' = clicks + 1
  /\ thread' = [thread EXCEPT !["hand"] = [NoThread EXCEPT !.at = "read", !.s = s, !.now = clock]]
  /\ UNCHANGED <<clock, worker, rowVars, loopVars, askVars>>

TaskCloses(s) ==
  /\ \E t \in open[s] : open' = [open EXCEPT ![s] = @ \ {t}]
  /\ UNCHANGED <<clock, worker, thread, clicks, row, last, made, runs, loose, loopVars, askVars>>

-----------------------------------------------------------------------------
(* Edits, and the reload they ask for.                                      *)

Edits(s) ==
  /\ ~asking /\ edits < MaxEdits
  /\ row[s].is # "deleted"
  /\ \E is \in {"on", "off", "deleted"}, r \in Rules :
       /\ row[s].is = "none" => is # "deleted"
       /\ is = "deleted" => r = row[s].rule
       /\ row' = [row EXCEPT ![s] = [is |-> is, rule |-> r]]
  /\ edits' = edits + 1
  /\ asking' = TRUE
  /\ UNCHANGED <<clock, worker, thread, clicks, last, made, open, runs, loose, loopVars, command>>

\* "De-duplicated: while one is still open, another request adds nothing."
request_reload ==
  /\ asking
  /\ asking' = FALSE
  /\ command' = IF command = "none" THEN "queued" ELSE command
  /\ UNCHANGED <<clock, worker, thread, clicks, rowVars, loopVars, edits>>

claim_runtime_command ==
  /\ worker # "down" /\ command = "queued"
  /\ command' = "claimed"
  /\ UNCHANGED <<clock, worker, thread, clicks, rowVars, loopVars, asking, edits>>

\* reload, and the row is completed, with no other step of the worker between.
reload_schedules ==
  /\ worker # "down" /\ command = "claimed"
  /\ command' = "none"
  /\ reload' = (reload \/ worker = "running")
  /\ UNCHANGED <<clock, worker, thread, clicks, rowVars, watch, table, begun, asking, edits>>
-----------------------------------------------------------------------------
(* The worker.                                                              *)

\* A starting worker clears open commands.
Boots ==
  /\ worker = "down"
  /\ command' = "none"
  /\ Starts \/ (worker' = "paused" /\ UNCHANGED loopVars)
  /\ UNCHANGED <<clock, thread, clicks, rowVars, asking, edits>>

Resumes ==
  /\ worker = "paused" /\ command # "claimed"
  /\ Starts
  /\ UNCHANGED <<clock, thread, clicks, rowVars, askVars>>

\* stop: the loop is cancelled, and what it had left is dropped.  Bound: at most
\* one thread of the watch outlives its loop.
Pauses ==
  /\ worker = "running" /\ command # "claimed"
  /\ thread["orphan"].at = "none"
  /\ worker' = "paused"
  /\ watch' = Asleep
  /\ thread' = [thread EXCEPT !["watch"] = NoThread,
                              !["orphan"] = IF thread["watch"].at \in {"read", "fire", "record"}
                                            THEN thread["watch"] ELSE NoThread]
  /\ UNCHANGED <<clock, clicks, rowVars, table, reload, begun, askVars>>

Dies ==
  /\ Faults /\ worker # "down"
  /\ worker' = "down"
  /\ watch' = Asleep /\ table' = [s \in Schedules |-> NoEntry] /\ reload' = FALSE
  /\ thread' = [thread EXCEPT !["watch"] = NoThread, !["orphan"] = NoThread]
  /\ loose' = loose \cup {thread[h].s : h \in {g \in {"watch", "orphan"} :
                            thread[g].at = "record" /\ thread[g].outcome = "fired"}}
  /\ UNCHANGED <<clock, clicks, row, last, made, open, runs, begun, askVars>>

Ticks ==
  /\ clock < Last
  /\ clock' = clock + 1
  /\ UNCHANGED <<worker, thread, clicks, rowVars, loopVars, askVars>>

ThreadSteps(h) == Reads(h) \/ _fire(h) \/ record_outcome(h)

\* A row may have been edited while no worker ran.
Init ==
  /\ clock = 0 /\ begun = 0
  /\ row \in [Schedules -> [is : {"none", "off", "on"}, rule : Rules]]
  /\ last = [s \in Schedules |-> 0] /\ made = [s \in Schedules |-> 0]
  /\ open = [s \in Schedules |-> {}]
  /\ worker = "down" /\ reload = FALSE
  /\ watch = Asleep
  /\ table = [s \in Schedules |-> NoEntry]
  /\ thread = [h \in Threads |-> NoThread]
  /\ command = "none" /\ asking \in BOOLEAN /\ edits = 0 /\ clicks = 0
  /\ runs = [s \in Schedules |-> [i \in Instants |-> 0]] /\ loose = {}

Next ==
  \/ Wakes \/ HandlesNext \/ request_reload \/ claim_runtime_command \/ reload_schedules
  \/ Boots \/ Resumes \/ Pauses \/ Dies \/ Ticks
  \/ \E h \in Threads : ThreadSteps(h)
  \/ \E s \in Schedules : Edits(s) \/ run_now(s) \/ TaskCloses(s)

\* The sleep is capped, and neither a thread nor a command waits for anything.
Spec ==
  /\ Init /\ [][Next]_vars
  /\ WF_vars(Wakes) /\ WF_vars(HandlesNext) /\ WF_vars(ThreadSteps("watch"))
  /\ WF_vars(request_reload) /\ WF_vars(claim_runtime_command) /\ WF_vars(reload_schedules)

-----------------------------------------------------------------------------
\* "Delivery is at most once per occurrence": no edit, pause, crash or failed
\* statement makes one instant of a schedule create two tasks.
AtMostOncePerOccurrence == \A s \in Schedules, i \in Instants : runs[s][i] <= 1

\* A start "never replays what came due while the app was closed or the runtime
\* paused": a run of the loop that is let through was due after the loop began.
NothingReplayed ==
  thread["watch"].at = "fire" => thread["watch"].due > begun

InStep(s) ==
  IF row[s].is = "on" THEN table[s].at # 0 /\ table[s].rule = row[s].rule ELSE table[s].at = 0

\* No reload is lost to the de-duplication, to a run in progress or to one that
\* failed: a sleeping loop that nobody is going to wake up agrees with the rows.
AsleepInStep ==
  worker = "running" /\ watch.at = "sleep" /\ ~reload /\ command = "none" /\ ~asking =>
    \A s \in Schedules : InStep(s)

\* "A run is not stacked on a stuck one", but where Run now or an old thread
\* overlapped with it, or a run's task was created and not recorded.
OnlyKnownGapsStack ==
  \A s \in Schedules : s \in loose \/ Cardinality(open[s]) <= 1

\* Whatever is enabled gets back into the timetable while the worker runs.
EntryReturns ==
  \A s \in Schedules : (worker = "running") ~> (InStep(s) \/ worker # "running")

================================================================================
