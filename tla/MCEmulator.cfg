SPECIFICATION Spec
CONSTANTS
  Space = 64
  CacheSize = 4
  Byte <- MCByte
  ZeroByte = 0
  Programs <- MCPrograms
  MAX_PROGRAM_SIZE = 140
  StackSize = 2
  UserBegin = 16
  TestByte = 170
  Networked = FALSE
  KernelReads <- MCKernelReads
  KernelWrites <- MCKernelWrites
  Registers <- MCRegisters
  DriverWrites <- MCDriverWrites
  MaxRuns = 2
CHECK_DEADLOCK FALSE
PROPERTIES
  ImplementsMemory
  ProgramsDoWhatTheySay
