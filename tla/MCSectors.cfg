SPECIFICATION Spec
CONSTANTS
  SectorCount = 12
  SectorSize = 4
  DirSize = 2
  Sizes = {2, 3, 7}
  SECTOR_FREE = free
  SECTOR_HEADER = header
  SECTOR_USED = used
  DEVICE = device
  OUTSIDE = outside
INVARIANTS
  TypeOK
  BlocksWhole
  NoOrphans
  RootAgrees
PROPERTIES
  ImplementsAllocator
