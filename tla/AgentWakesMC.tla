----------------------------- MODULE AgentWakesMC -----------------------------
(***************************************************************************)
(* A small instance of AgentWakes for TLC.                                  *)
(***************************************************************************)
EXTENDS AgentWakes, TLC

CONSTANT a1

\* Trigger ids are given out in order.
FirstIds == 1..6
OneAgent == [t \in FirstIds |-> a1]
NoTwins  == [t \in FirstIds |-> NoKey]
OneTwo   == 1..2
TwoKinds == [r \in OneTwo |-> IF r = 1 THEN {"rewind"} ELSE {"discard", "reset"}]
=============================================================================
