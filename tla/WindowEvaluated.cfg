SPECIFICATION Spec
CONSTANTS
  Numbers <- MCNumbers
  Digits = {1}
  CommandSize = 174
  ListSize = 33
INVARIANT WindowEvaluated
CHECK_DEADLOCK FALSE
