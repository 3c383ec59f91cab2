SPECIFICATION DirectorySpec
CONSTANTS
  SectorCount = 9
  SectorSize = 16
  DirSize = 14
  Sizes = {14}
  RefSize = 6
  SECTOR_FREE = free
  SECTOR_HEADER = header
  SECTOR_USED = used
  DEVICE = device
  OUTSIDE = outside
INVARIANT HeaderIntact
CHECK_DEADLOCK FALSE
VIEW Observed
