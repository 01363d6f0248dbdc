SPECIFICATION Spec
CONSTANTS
  Byte = {0, 1}
  NL = 0
  BUFSIZ = 2
  UNBUF = 1
  Access = {"READ", "WRITE"}
  InitialMode = {}
  InitialFile <- ShortFile
  ReadCounts = {3}
  WriteCounts = {2, 3}
  Offsets <- Steps
  BufSizes = {2}
  Rooms = {1, 9}
  Takes <- ReadsOrFails
  MaxLen = 3
  UngetAnywhere = FALSE
  SeekAnywhere = FALSE
INVARIANTS MacrosSafe LinesVisible
PROPERTIES ReportsLoss
