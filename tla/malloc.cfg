SPECIFICATION Spec
CONSTANTS
  Base = 1
  Limit = 12
  Requests = {1, 4}
  ClearRequests = {1}
  AllocaRequests = {0, 2}
  MemSize = 2
  MCHUNK = 6
  MinScavenge = 2
  MaxInt = 32767
  MaxHeld = 3
  MaxDepth = 1
VIEW Relevant
INVARIANTS Tiled ListsSorted DataIntact NullOnlyWhenFull
PROPERTIES AllocaLives Implements
