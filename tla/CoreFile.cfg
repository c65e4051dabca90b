SPECIFICATION CoreSpec
CONSTANTS
  Dumps <- MCDumps
  Files <- MCFiles
  MaxMappings = 3
  AddrLimit = 8
  Align = 3
  NoId = NoId
CHECK_DEADLOCK FALSE
INVARIANTS
  NotesAreWhole
  ThreadsOrNothing
  ThreadPointersAreOwn
  WholeMappingsOnly
  ReadIsRight
  BoundsAreRight
