SPECIFICATION FairSpec
CONSTANTS
  t1 = t1
  t2 = t2
  t3 = t3
  a1 = a1
  a2 = a2
  s1 = s1
  room = room
  NoKey = NoKey
  NoClaim = NoClaim
  NoChannel = NoChannel
  Agents = {a1, a2}
  AgentOf <- TwoAgents
  MergeKey <- NoTwins
  ChannelOf <- SameRoom
  Rank <- ByName
  Triggers = {t2, t3}
  Human = {}
  Preempted = {}
  NoRepeat = {}
  SystemCalls = {}
  MaxGen = 3
  MaxRetries = 2
  RetryLimit = 1
  Limit = 1
  LateHeartbeats = FALSE
  MaxUpsets = 2
  UpsetCost <- NoCommands
PROPERTIES
  ClaimsEnd
  WakesAreServed
CHECK_DEADLOCK FALSE
