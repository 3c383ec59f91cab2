SPECIFICATION Spec
CONSTANTS
  Tables <- MCTables
  Nobody = Nobody
  ByteSize = 4
  WordSize = 4
  SuggestAfter = 1
  MaxDepth = 3
INVARIANTS
  SchedulerTypeOK
  OneTaskAtATime
  MemoryBelongsToRunner
  TicksAreCharged
  ShellAlone
PROPERTIES
  EveryTaskIsCalled
  HangsAreNoticed
