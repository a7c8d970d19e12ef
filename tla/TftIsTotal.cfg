SPECIFICATION FairSpec
CONSTANTS
  K = 4
  P = 2
  N = 3
  Elements <- MCTwoStepElements
  OneStep = FALSE
  SegNums <- MCSegNums
  Answers <- MCRejected
  MaxMsgs = 3
  MaxTicks = 3
  MaxConns = 2
  MaxPipes = 2
INVARIANTS
  TftIsTotal
CHECK_DEADLOCK FALSE
