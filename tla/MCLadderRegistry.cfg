\* The registry under retries, answers, reaping and one clock correction.
SPECIFICATION FairSpec
CONSTANTS
  op1 = op1
  op2 = op2
  a1 = a1
  a2 = a2
  b1 = b1
  wren = wren
  agent = agent
  NoAuthor = NoAuthor
  NoAttempt = NoAttempt
  Operators <- MCOperators
  Attempts <- MCAttempts
  Sender <- MCSender
  Authors <- MCAuthors
  Humans <- MCHumans
  PagingSeconds = 2
  ContactSeconds = 1
  RetentionSeconds = 1
  MaxClock = 5
  LastOpen = 2
  SweepLag = 0
  MaxStepBacks = 1
INVARIANTS
  TypeOK
  OneLivePerOperator
  AliasesResolve
  OnlyHumansAcknowledge
PROPERTIES
  OnlyMovesOn
  AckFindsItsLadder
  OneWindowAtMost
  LadderEnds
