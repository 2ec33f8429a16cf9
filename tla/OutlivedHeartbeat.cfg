SPECIFICATION Spec
CONSTANTS
  t1 = t1
  t2 = t2
  t3 = t3
  a1 = a1
  a2 = a2
  s1 = s1
  room = room
  NoKey = NoKey
  NoClaim = NoClaim
  NoChannel = NoChannel
  Agents = {a1, a2}
  AgentOf <- TwoAgents
  MergeKey <- NoTwins
  ChannelOf <- SameRoom
  Rank <- ByName
  Triggers = {t2, t3}
  Human = {}
  Preempted = {}
  NoRepeat = {}
  SystemCalls = {}
  MaxGen = 2
  MaxRetries = 2
  RetryLimit = 1
  Limit = 2
  LateHeartbeats = FALSE
  MaxUpsets = 1
  UpsetCost <- ResetOnly
INVARIANTS
  HeartbeatsServeTurns
CHECK_DEADLOCK FALSE
