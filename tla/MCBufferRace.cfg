SPECIFICATION Spec
CONSTANTS
  K = 4
  P = 2
  MaxAdds = 4
  MaxSlices = 2
INVARIANTS
  TypeOK
  DriftBounded
  OncePerElement
  AloneIsWindow
CHECK_DEADLOCK FALSE
