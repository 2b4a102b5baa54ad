\* From a held acknowledgement: three more attempts, wren's channel failing or not.
SPECIFICATION HeldSpec
CONSTANTS
  ash = ash
  a1 = a1
  a2 = a2
  a3 = a3
  a4 = a4
  wren = wren
  raven = raven
  NoAuthor = NoAuthor
  NoAttempt = NoAttempt
  None = None
  Operators <- MCOperators
  Attempts <- MCAttempts
  Sender <- MCSender
  Authors <- MCPeople
  Humans <- MCPeople
  Pushable <- MCPeople
  Expires <- MCExpires
  CreatedAt <- MCCreatedAt
  PagingSeconds = 1
  ContactSeconds = 1
  RetentionSeconds = 4
  StaleAfterSeconds = 1
  DefaultPaging = 1
  AckHoldsSeconds = 3
  MaxPagesPerWindow = 3
  PageBudgetWindow = 3
  RepageCeiling = 2
  RepageCeilingSeconds = 3
  RepeatPageTtl = 1
  SendOutcomes = {TRUE}
  FailingChannels <- MCOnlyWren
  MaxInFlight = 1
  MaxCarriedOver = 0
  MaxClock = 3
  MaxStepBacks = 0
  MaxRestarts = 0
INVARIANTS
  RepageIntervalHolds
  HeldTextIsTrue
  WidensOncePerWindow
PROPERTIES
  WidensOrNothingUnlessJoined
  NoLadderBehindAHold
