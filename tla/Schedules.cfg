SPECIFICATION Spec
CONSTANTS
  s1 = s1
  s2 = s2
  daily = daily
  noon = noon
  None = None
  Schedules = {s1}
  Rules = {daily, noon}
  next_occurrence <- After
  Last = 2
  Grace = 0
  MaxEdits = 1
  MaxRunNows = 1
  Faults = TRUE
CHECK_DEADLOCK FALSE
INVARIANTS
  AtMostOncePerOccurrence
  NothingReplayed
  AsleepInStep
  
PROPERTIES
  EntryReturns
