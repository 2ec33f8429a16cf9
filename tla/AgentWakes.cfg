SPECIFICATION FairSpec
CONSTANTS
  a1 = a1
  NoKey = NoKey
  NoClaim = NoClaim
  NoMessage = NoMessage
  Nobody = Nobody
  Agents = {a1}
  Triggers <- FirstIds
  AgentOf <- OneAgent
  MergeKey <- NoTwins
  Messages <- OneTwo
  Requests <- OneTwo
  KindsOf <- TwoKinds
  MaxGen = 3
  MaxRetries = 1
  RetryLimit = 1
  MaxUpsets = 1
INVARIANTS
  
  OneWakePerMessage
PROPERTY MessagesAreAnswered
CHECK_DEADLOCK FALSE
