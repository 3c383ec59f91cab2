SPECIFICATION DirectorySpec
CONSTANTS
  SectorCount = 21
  SectorSize = 16
  DirSize = 14
  Sizes = {14}
  RefSize = 6
  SECTOR_FREE = free
  SECTOR_HEADER = header
  SECTOR_USED = used
  DEVICE = device
  OUTSIDE = outside
INVARIANT CountedEntriesStored
CHECK_DEADLOCK FALSE
VIEW Observed
