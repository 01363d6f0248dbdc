SPECIFICATION Spec
CONSTANTS
  Programs <- AllPrograms
  Token <- Tokens
  File = {"main", "inc"}
  Main = "main"
  Name = {"A", "B", "F"}
  MAX_DEFINE = 6
  MAX_INCLUDE = 2
  IFBITS = 2
INVARIANTS InUseRight ConditionsRight ReplacedByValue
PROPERTIES Terminates
CHECK_DEADLOCK FALSE
