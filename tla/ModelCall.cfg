SPECIFICATION Spec
CONSTANTS
  TurnLanes <- OneTurn
  SystemCalls <- TwoRoutes
  OtherCalls <- TwoCalls
  Callers <- FiveCallers
  ExtensionCalls <- Extension
  NoCaller = NoCaller
  Limit = 2
  Threshold = 2
  FirstWait = 2
  LongestWait = 3
  Lease = 3
INVARIANTS
  TypeOK
  LanesWithinKnob
  
  OneTestAtATime
  RetryNowStaysDue
PROPERTIES
  WaitsOnlyForLiveLanes
  RejectedWaitsForOperator
  TestsAreSpaced
  TransientPauseComesDue
