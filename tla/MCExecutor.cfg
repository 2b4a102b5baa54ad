\* Two attempts, every outcome of every send and command, a step back and a restart.
SPECIFICATION Spec
CONSTANTS
  ash = ash
  a1 = a1
  a2 = a2
  wren = wren
  raven = raven
  NoAuthor = NoAuthor
  NoAttempt = NoAttempt
  None = None
  Operators <- MCOperators
  Attempts <- MCAttempts
  Sender <- MCSender
  Authors <- MCPeople
  Humans <- MCPeople
  Pushable <- MCPeople
  Expires <- MCExpires
  CreatedAt <- MCCreatedAt
  PagingSeconds = 1
  ContactSeconds = 1
  RetentionSeconds = 4
  StaleAfterSeconds = 1
  DefaultPaging = 1
  AckHoldsSeconds = 3
  MaxPagesPerWindow = 1
  PageBudgetWindow = 3
  RepageCeiling = 2
  RepageCeilingSeconds = 3
  RepeatPageTtl = 1
  SendOutcomes = {TRUE, FALSE}
  FailingChannels <- MCPeople
  MaxInFlight = 2
  MaxCarriedOver = 1
  MaxClock = 3
  MaxStepBacks = 1
  MaxRestarts = 1
INVARIANTS
  TypeOK
  PagingIsSoWhenSaid
  RecordedOnce
