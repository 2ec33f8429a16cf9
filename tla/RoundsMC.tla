------------------------------- MODULE RoundsMC -------------------------------
(***************************************************************************)
(* A small instance of Rounds for TLC.                                       *)
(***************************************************************************)
EXTENDS Rounds

CONSTANTS ann, bob
================================================================================
