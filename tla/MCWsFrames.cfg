SPECIFICATION FairSpec
CONSTANTS
  MaxLen = 2
  MaxControl = 2
  MaxFrames = 3
  MAX_FRAME_LENGTH = 3
  Width = 6
INVARIANTS
  TypeOK
  WholeMessages
  AnswersInOrder
  TerminatorFits
  BlocksFreed
  AtMostOneLate
PROPERTIES
  Ends
CHECK_DEADLOCK FALSE
