\* Two operators held by one person, their attempts interleaved.
SPECIFICATION HeldSpec
CONSTANTS
  ash = ash
  birch = birch
  a1 = a1
  a2 = a2
  a3 = a3
  b1 = b1
  b2 = b2
  wren = wren
  raven = raven
  NoAuthor = NoAuthor
  NoAttempt = NoAttempt
  None = None
  Operators <- MCOperators
  Attempts <- MCAttempts
  Sender <- MCSender
  Authors <- MCPeople
  Humans <- MCPeople
  Pushable <- MCPeople
  Expires <- MCExpires
  CreatedAt <- MCCreatedAt
  PagingSeconds = 1
  ContactSeconds = 1
  RetentionSeconds = 4
  StaleAfterSeconds = 1
  DefaultPaging = 1
  AckHoldsSeconds = 3
  MaxPagesPerWindow = 3
  PageBudgetWindow = 3
  RepageCeiling = 2
  RepageCeilingSeconds = 3
  RepeatPageTtl = 1
  SendOutcomes = {TRUE}
  FailingChannels <- MCOnlyWren
  MaxInFlight = 1
  MaxCarriedOver = 0
  MaxClock = 3
  MaxStepBacks = 0
  MaxRestarts = 0
INVARIANTS
  CeilingHolds
PROPERTIES
  NobodyForgottenUnlessAPageFails
