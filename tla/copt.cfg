SPECIFICATION Spec
CONSTANTS
  Programs <- MCPrograms
INVARIANTS ListSound
PROPERTIES Implements Ends
CHECK_DEADLOCK FALSE
