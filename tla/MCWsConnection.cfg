SPECIFICATION FairSpec
CONSTANTS
  MAX_CLIENTS = 1
  MaxConns = 2
  MaxCalls = 2
  Threshold = 1
INVARIANTS
  TypeOK
  OneClose
  CallbacksPaired
PROPERTIES
  SlotComesFree
CHECK_DEADLOCK FALSE
