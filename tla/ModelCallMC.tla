------------------------------ MODULE ModelCallMC ------------------------------
(***************************************************************************)
(* A small instance of ModelCall for TLC: more callers than lanes, more     *)
(* routes than are reserved for them, one call through an extension.        *)
(***************************************************************************)
EXTENDS ModelCall

OneTurn   == {"turn"}
TwoRoutes == {"route 1", "route 2"}
TwoCalls  == {"plain", "extension"}
Extension == {"extension"}
FiveCallers == OneTurn \cup TwoRoutes \cup TwoCalls
=============================================================================
