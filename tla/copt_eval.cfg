SPECIFICATION Spec
CONSTANTS
  Programs <- Shifts
INVARIANTS ValuesRight
CHECK_DEADLOCK FALSE
