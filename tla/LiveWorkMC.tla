----------------------------- MODULE LiveWorkMC -----------------------------
(* Two tasks of one agent: one in hand, one suspended or waiting behind it. *)
EXTENDS LiveWork

CONSTANTS t1, t2
=============================================================================
