SPECIFICATION Spec
CONSTANTS
  RamSize = 3
  Space = 5
  CacheSize = 2
  Byte = {0, 1}
  ZeroByte = 0
INVARIANTS
  TypeOK
  CleanBytesMatch
PROPERTIES
  ImplementsMemory
  RegistersSafe
