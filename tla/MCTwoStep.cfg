SPECIFICATION FairSpec
CONSTANTS
  K = 4
  P = 2
  N = 3
  Elements <- MCTwoStepElements
  OneStep = FALSE
  SegNums <- MCSegNums
  Answers <- MCAnswers
  MaxMsgs = 3
  MaxTicks = 3
  MaxConns = 2
  MaxPipes = 2
INVARIANTS
  TypeOK
  EvaluatesOnlyStored
  WindowIsRead
  StallsAreRuns
  StallTotalsBounded
  EmptyBeyondWriteIdx
PROPERTIES
  BufferIsWindow
  AnsweredBeforeSliding
  WindowsOverlap
  Served
CHECK_DEADLOCK FALSE
