CONSTANTS
  ann = ann  bob = bob
  Agents = {ann, bob}
  NoAgent = NoAgent
  Posters = {"boss"}
  LastTip = 2
  MaxRounds = 2
  Cap = 1
  Clicks = TRUE
  Faults = TRUE
  MaxIncidents = 1
SPECIFICATION Spec
CHECK_DEADLOCK FALSE
INVARIANTS TypeOK OnlyKnownStops  SpeaksOnce
PROPERTIES RoundsSettle
