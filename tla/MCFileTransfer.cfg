SPECIFICATION Spec
CONSTANTS
  f1 = f1
  f2 = f2
  None = None
  Files <- MCFiles
  sizeOf <- MCSizeOf
  MAX_OPEN_FILES = 2
  SectorSize = 3
  Requests = {0, 2, 5, 6}
  Word = 16
  Byte = {0, 1}
INVARIANTS
  TypeOK
  ReadsBack
PROPERTIES
  OnlyDataBytesChange
CHECK_DEADLOCK FALSE
