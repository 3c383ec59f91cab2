SPECIFICATION DirectorySpec
CONSTANTS
  SectorCount = 17
  SectorSize = 16
  DirSize = 14
  Sizes = {14, 60}
  RefSize = 6
  SECTOR_FREE = free
  SECTOR_HEADER = header
  SECTOR_USED = used
  DEVICE = device
  OUTSIDE = outside
INVARIANTS
  DirectoryTypeOK
  ChainLinked
  BlocksAccounted
  ContentsListed
CHECK_DEADLOCK FALSE
VIEW Observed
