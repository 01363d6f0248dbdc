SPECIFICATION Spec
CONSTANTS
  Programs <- AllPrograms
  Name = {"L", "K"}
  MacroName = {"M"}
  Main = "main"
  Seg <- Segments
  ABSMAX = 2
  SHORT = 4
  ANYSEG = 15
  MAXIF = 2
  MAXGET = 2
  MAXMAC = 2
  MAXPASS = 8
INVARIANTS IfflagRight PassesAgree HeaderRight JumpsLand ReadBack
PROPERTIES Terminates
CHECK_DEADLOCK FALSE
