SPECIFICATION WorkSpec
CONSTANTS
  t1 = t1
  t2 = t2
  NoTask = NoTask
  Tasks = {t1, t2}
  MaxIncidents = 1
  MaxClicks = 1
INVARIANTS
  OneActivity
  LiveWorkIsDriven
PROPERTIES
  InFlightIsAttended
CHECK_DEADLOCK FALSE
