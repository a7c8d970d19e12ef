SPECIFICATION Spec
CONSTANTS
  Numbers <- MCNumbers
  Digits = {1, 10}
  CommandSize = 174
  ListSize = 33
INVARIANTS
  WithinArrays
  AsConfigured
CHECK_DEADLOCK FALSE
