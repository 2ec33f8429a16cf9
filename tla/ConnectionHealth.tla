--------------------------- MODULE ConnectionHealth ---------------------------
(***************************************************************************)
(* The pause of one failing AI connection (core/llm/connection_health.py):  *)
(* its row of ai_connection_health, shared by every caller of the app and   *)
(* the worker, and the life of one model call of each caller.               *)
(*                                                                          *)
(* Time is counted in ticks that remain.  retry_at is written as retryIn:   *)
(* 0 when it is not in the future.  A timestamp names the call whose lease  *)
(* it is, so the compare-and-set of end_undecided_test compares lease.      *)
(***************************************************************************)
EXTENDS Integers

CONSTANTS
  Callers,      \* turns, System AI routes, other calls: each one call at a time
  ExtensionCalls, \* the callers admitted before they wait for a model-call lane
  NoCaller,     \* retry_at is not a test call's lease
  Threshold,    \* llm_connection_failure_threshold
  FirstWait,    \* llm_connection_backoff_seconds
  LongestWait,  \* llm_connection_backoff_max_seconds
  Lease         \* lease_seconds: a call ends before that many ticks are over

ASSUME HealthAssumption ==
  /\ NoCaller \notin Callers /\ ExtensionCalls \subseteq Callers
  /\ {Threshold, FirstWait, LongestWait} \subseteq Nat \ {0}
  /\ Lease \in Nat /\ Lease > 1

VARIABLES
  row,    \* the connection's row; NoRow when it has none
  call,   \* caller -> where its model call is
  asked,  \* history: a Retry now was pressed that no test or verdict used up
  quiet   \* history: ticks since the last test call of this pause began

healthVars == <<row, call, asked, quiet>>

-----------------------------------------------------------------------------
Never == -1
Kinds == {"transient", "rejected"}

NoRow == [count |-> 0, kind |-> "transient", paused |-> FALSE,
          retryIn |-> Never, backoff |-> Never, lease |-> NoCaller]

\* over: its lease no longer covers the test call.
Idle == [at |-> "idle", probe |-> FALSE, left |-> 0, over |-> FALSE]

Lesser(m, n) == IF m < n THEN m ELSE n
Larger(m, n) == IF m < n THEN n ELSE m
MinGap == Lesser(Lease, Lesser(FirstWait, LongestWait))
MaxWait == Larger(FirstWait, LongestWait)

\* The types, and that no wait outgrows its setting however often it doubled.
\* Counts from the threshold on are one value: only the threshold is compared.
TypeOK ==
  /\ row \in [count : 0..Threshold, kind : Kinds, paused : BOOLEAN,
              retryIn : {Never} \cup 0..Larger(Lease, MaxWait),
              backoff : {Never} \cup 1..MaxWait,
              lease : Callers \cup {NoCaller}]
  /\ call \in [Callers -> [at : {"idle", "due", "admitted", "calling"}, probe : BOOLEAN,
                       left : 0..Lease, over : BOOLEAN]]
  /\ asked \in BOOLEAN /\ quiet \in 0..MinGap

Due(r) == r.paused /\ r.retryIn = 0     \* is_probe_ready
Calling(k) == call[k].at = "calling"
Probing(k) == Calling(k) /\ call[k].probe

Admitted(k, probe) ==
  call' = [call EXCEPT ![k] =
             [at |-> IF k \in ExtensionCalls THEN "admitted" ELSE "calling",
              probe |-> probe, left |-> Lease, over |-> FALSE]]
Returned(k) == [call EXCEPT ![k] = Idle]
Returns(k)  == call' = Returned(k)

\* A verdict, the operator or an edit moves the row whatever test call is under
\* way: the leases in it are gone.
Overruled(calls) == [k \in Callers |-> [calls[k] EXCEPT !.over = @ \/ calls[k].probe]]

Resumed == row' = NoRow /\ asked' = FALSE /\ quiet' = MinGap

-----------------------------------------------------------------------------
\* admit, its read outside any transaction.  A denied caller tries again later.
AdmitReads(k) ==
  /\ call[k].at = "idle"
  /\ \/ ~row.paused /\ Admitted(k, FALSE)
     \/ Due(row) /\ call' = [call EXCEPT ![k].at = "due"]
  /\ UNCHANGED <<row, asked, quiet>>

\* admit, its transaction: the row is read again, and the test call is taken by
\* moving retry_at to the end of its lease.
TakesTest(k) ==
  /\ Admitted(k, TRUE)
  /\ row' = [row EXCEPT !.retryIn = Lease, !.lease = k]
  /\ asked' = FALSE /\ quiet' = 0

\* Seeded fault: the row is not read again.
AdmitTrusts(k) == call[k].at = "due" /\ TakesTest(k)

AdmitDecides(k) ==
  /\ call[k].at = "due"
  /\ \/ ~row.paused /\ Admitted(k, FALSE) /\ UNCHANGED <<row, asked, quiet>>
     \/ row.paused /\ ~Due(row) /\ Returns(k) /\ UNCHANGED <<row, asked, quiet>>
     \/ Due(row) /\ TakesTest(k)

\* The lane is there: the provider is called, its own timeout begins.  When a
\* part of the lease was spent on the wait, the call may last longer than it.
ProviderCallBegins(k) ==
  /\ call[k].at = "admitted"
  /\ call' = [call EXCEPT ![k].at = "calling", ![k].left = Lease,
                          ![k].over = @ \/ (call[k].probe /\ call[k].left < Lease)]
  /\ UNCHANGED <<row, asked, quiet>>

record_success(k) == Calling(k) /\ call' = Overruled(Returned(k)) /\ Resumed

\* Seeded faults: a doubled wait is not capped; after a rejected test call no
\* wait is ever started.
Uncapped(kind) ==
  IF kind = "rejected" THEN Never
  ELSE IF row.kind # "transient" THEN FirstWait
  ELSE row.backoff * 2
NoWaitAfterRejected(kind) ==
  IF kind = "rejected" \/ row.kind # "transient" THEN Never
  ELSE Lesser(row.backoff * 2, LongestWait)

_next_backoff(kind) ==
  IF kind = "rejected" THEN Never
  ELSE IF row.kind # "transient" THEN FirstWait
  ELSE Lesser(row.backoff * 2, LongestWait)

\* A failure that counts, of any call: also of one admitted before the pause.
record_failure(k, kind) ==
  /\ Calling(k) /\ call' = Overruled(Returned(k))
  /\ LET count  == Lesser(row.count + 1, Threshold)
         pauses == row.paused \/ count >= Threshold
         wait   == IF row.paused THEN _next_backoff(kind)
                   ELSE IF pauses /\ kind = "transient" THEN FirstWait ELSE Never
     IN row' = [count |-> count, kind |-> kind, paused |-> pauses,
                retryIn |-> wait, backoff |-> wait, lease |-> NoCaller]
  /\ asked' = FALSE
  /\ UNCHANGED quiet

\* Seeded faults: the lease is not compared; the test is due again at once.
ReArmsAnyLease(k) ==
  /\ call[k].at \in {"admitted", "calling"} /\ Returns(k)
  /\ IF call[k].probe /\ row.paused
     THEN row' = [row EXCEPT !.retryIn = row.backoff, !.lease = NoCaller]
     ELSE UNCHANGED row
  /\ UNCHANGED <<asked, quiet>>
DueAtOnce(k) ==
  /\ call[k].at \in {"admitted", "calling"} /\ Returns(k)
  /\ IF call[k].probe /\ row.paused /\ row.lease = k
     THEN row' = [row EXCEPT !.retryIn = 0, !.lease = NoCaller]
     ELSE UNCHANGED row
  /\ UNCHANGED <<asked, quiet>>

\* A call that says nothing about the connection: a timeout, a cancel, an
\* empty reply, a wait for a lane that was given up.  A test call re-arms the
\* wait while its lease is in place.
end_undecided_test(k) ==
  /\ call[k].at \in {"admitted", "calling"} /\ Returns(k)
  /\ IF call[k].probe /\ row.paused /\ row.lease = k
     THEN row' = [row EXCEPT !.lease = NoCaller,
                    !.retryIn = IF row.kind = "transient" THEN row.backoff ELSE Never]
     ELSE UNCHANGED row
  /\ UNCHANGED <<asked, quiet>>

\* Their process died inside their calls; the row keeps what they wrote.
CallersDie(ks) ==
  /\ call' = [k \in Callers |-> IF k \in ks THEN Idle ELSE call[k]]
  /\ UNCHANGED <<row, asked, quiet>>

retry_now ==
  /\ row.paused
  /\ row' = [row EXCEPT !.retryIn = 0, !.lease = NoCaller]
  /\ asked' = TRUE /\ quiet' = MinGap
  /\ call' = Overruled(call)

\* db.update_connection: a saved change to what the calls send deletes the row.
ConnectionEdited == row # NoRow /\ Resumed /\ call' = Overruled(call)

Tick ==
  /\ \A k \in Callers : Calling(k) => call[k].left > 1
  /\ row' = [row EXCEPT !.retryIn = IF @ > 0 THEN @ - 1 ELSE @]
  /\ call' = [k \in Callers |->
                [call[k] EXCEPT !.left = Larger(@, 1) - 1]]
  /\ quiet' = Lesser(quiet + 1, MinGap)
  /\ UNCHANGED asked

CallEnds(k) ==
  \/ record_success(k) \/ end_undecided_test(k)
  \/ \E kind \in Kinds : record_failure(k, kind)

HealthNext ==
  \/ \E k \in Callers :
       AdmitReads(k) \/ AdmitDecides(k) \/ ProviderCallBegins(k) \/ CallEnds(k)
  \/ \E ks \in SUBSET Callers : CallersDie(ks)
  \/ retry_now \/ ConnectionEdited \/ Tick

HealthInit ==
  /\ row = NoRow
  /\ call = [k \in Callers |-> Idle]
  /\ asked = FALSE /\ quiet = MinGap

-----------------------------------------------------------------------------
TestTaken == \E k \in Callers : call[k].at = "due" /\ call'[k].probe

\* "Only one caller can take a test call": two callers never test a paused
\* connection at once, each in the time of its own lease, however the two reads
\* of admit, the ends of other test calls and the clock fall.  A test call whose
\* lease was overruled, or that spent a part of it on waiting for its lane, is
\* not alone: a wait is usually shorter than what is left of it.
OneTestAtATime ==
  \A j, k \in Callers : Probing(j) /\ Probing(k) /\ ~call[j].over /\ ~call[k].over => j = k

\* "A paused connection is contacted at most once per wait": between two test
\* calls of a pause lies at least the shortest wait, or the first one's lease
\* when its caller died, unless the operator asked for the second.
TestsAreSpaced == [][TestTaken => quiet >= MinGap]_healthVars

\* A Retry now stays due until a test call takes it or a verdict overrules it:
\* a test call that ends undecided does not put it off.
RetryNowStaysDue == asked => Due(row)

\* A rejected connection is tested "once per operator Retry now", and never
\* without one, but in the place of a tester whose lease ran out.
RejectedWaitsForOperator ==
  [][TestTaken /\ row.kind = "rejected" => asked \/ row.lease # NoCaller]_healthVars

\* A transient pause never lasts for want of a test call: again and again the
\* connection is due, resumed or waiting for the operator.
TransientPauseComesDue ==
  []<>(~row.paused \/ Due(row) \/ row.kind = "rejected")
=============================================================================
