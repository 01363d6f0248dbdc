SPECIFICATION Spec
CONSTANTS
  NSEG = 6
  NMods = 2
  Inputs <- AnyProgram
INVARIANTS SymbolsLand WrittenOnce Reachable
CHECK_DEADLOCK FALSE
