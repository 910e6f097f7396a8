SPECIFICATION FairSpec
CONSTANTS
  Size = 2
  Setups <- AnyPool
INVARIANTS
  AnswersMatchRequests
  OpenPoolIsQuiet
  CloseReapsEveryChild
PROPERTIES
  CallReturns
