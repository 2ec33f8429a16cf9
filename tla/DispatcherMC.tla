----------------------------- MODULE DispatcherMC -----------------------------
(***************************************************************************)
(* Small instances of Dispatcher for TLC.                                   *)
(***************************************************************************)
EXTENDS Dispatcher, TLC

CONSTANTS t1, t2, t3, a1, a2, s1, room

\* a1 has a wake from the operator (t1) and one in a room (t2); a2 has a wake
\* in the same room (t3).
TwoAgents == [t \in Triggers |-> IF t = t3 THEN a2 ELSE a1]
SameRoom  == [t \in Triggers |-> IF t = t1 THEN NoChannel ELSE room]
NoTwins   == [t \in Triggers |-> NoKey]
ByName    == [t \in Triggers |-> IF t = t1 THEN 1 ELSE IF t = t2 THEN 2 ELSE 3]

\* Two upsets of any kind, or one reset; two faults, one crash or one parked
\* turn; one reset.
ResetAlone == [k \in UpsetKinds |-> IF k = "reset" THEN 2 ELSE 1]
NoCommands == [k \in UpsetKinds |-> CASE k = "fault" -> 1 [] k \in {"crash", "park"} -> 2
                                       [] OTHER -> 9]
ResetOnly  == [k \in UpsetKinds |-> IF k = "reset" THEN 1 ELSE 9]
=============================================================================
