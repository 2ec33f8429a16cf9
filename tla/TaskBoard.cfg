SPECIFICATION Spec
CONSTANTS
  t1 = t1
  t2 = t2
  t3 = t3
  NoTask = NoTask
  Tasks = {t1, t2, t3}
  MayBeUnder <- LastUnder
  MayWaitOn <- LastWaits
  AgentMoves = {"complete", "declined"}
  FloorsMove = TRUE
  Faults = TRUE
  LostUpdates = FALSE
CHECK_DEADLOCK FALSE
INVARIANTS
  
  NoForgottenDependent
PROPERTIES
  
  EveryDependentSettles
