SPECIFICATION BootSpec
CONSTANTS
  NUMBER_OF_PERIPHERALS = 3
  PERIPHERAL_ADDRESS_BEGIN = 64
  PERIPHERAL_STRIDE = 16
  DEVICE_NAME_LEN = 4
  Boards <- MCBoards
  Baked <- MCBaked
  BusTypes = {0, 170}
  SPACE = " "
  NUL = "0"
  NameKeyboard <- MCNameKeyboard
  NameDisplay <- MCNameDisplay
  BootFiles <- MCBootFiles
  Commands <- MCCommands
  CONSOLE_FUNCTION_TABLE_SIZE = 3
  BOARD_RETRO_AVR_X4_REV1 = TRUE
  MinMemory = 128
  Memories = {0, 126, 127, 255, 256}
  Names <- MCNames
  MaxCreations = 3
  FILE_NAME_LENGTH = 3
  EXTENT <- MCEXTENT
  BLANK = " "
  SectorCount = 16
  SectorSize = 16
  DirSize = 14
  Sizes = {14, 20}
  RefSize = 4
  SECTOR_FREE = free
  SECTOR_HEADER = header
  SECTOR_USED = used
  DEVICE = device
  OUTSIDE = outside
INVARIANTS
  DriversLinked
  KernelReady
  ListsAsCreated
  FoundByName
CHECK_DEADLOCK FALSE
VIEW Observed
