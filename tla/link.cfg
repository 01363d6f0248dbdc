SPECIFICATION Spec
CONSTANTS
  NSyms = 5
  MainNames <- EitherMain
  StartNames = {2}
  AnySeg = 15
  Files <- Both
INVARIANTS ValueOfModule BoundByClass NoneLost Linked
PROPERTIES Terminates
CHECK_DEADLOCK FALSE
