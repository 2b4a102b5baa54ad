\* A repeat page of an earlier hold that fails during a later one.
SPECIFICATION HeldSpec
CONSTANTS
  ash = ash
  a1 = a1
  a2 = a2
  a3 = a3
  a4 = a4
  wren = wren
  raven = raven
  NoAuthor = NoAuthor
  NoAttempt = NoAttempt
  None = None
  Operators <- MCOperators
  Attempts <- MCAttempts
  Sender <- MCSender
  Authors <- MCPeople
  Humans <- MCPeople
  Pushable <- MCPeople
  Expires <- MCExpires
  CreatedAt <- MCAtOnce
  PagingSeconds = 1
  ContactSeconds = 1
  RetentionSeconds = 4
  StaleAfterSeconds = 1
  DefaultPaging = 1
  AckHoldsSeconds = 3
  MaxPagesPerWindow = 4
  PageBudgetWindow = 3
  RepageCeiling = 2
  RepageCeilingSeconds = 3
  RepeatPageTtl = 1
  SendOutcomes = {TRUE}
  FailingChannels <- MCOnlyWren
  MaxInFlight = 1
  MaxCarriedOver = 0
  MaxClock = 1
  MaxStepBacks = 0
  MaxRestarts = 0
PROPERTIES
  NobodyForgotten
