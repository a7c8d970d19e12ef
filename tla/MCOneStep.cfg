SPECIFICATION FairSpec
CONSTANTS
  K = 4
  P = 2
  N = 3
  Elements <- MCOneStepElements
  OneStep = TRUE
  SegNums = {1, 3}
  Answers <- MCAnswers
  MaxMsgs = 3
  MaxTicks = 3
  MaxConns = 2
  MaxPipes = 3
INVARIANTS
  WindowIsRead
PROPERTIES
  Served
CHECK_DEADLOCK FALSE
