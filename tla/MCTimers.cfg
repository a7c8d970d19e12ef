SPECIFICATION Spec
CONSTANTS
  D = 3
  P = 2
  EvalTime = 4
  Latency = 1
  Jitter = 1
  MaxStall = 12
INVARIANTS
  AtMostOneBehind
  NoDivergence
  StallMeasured
