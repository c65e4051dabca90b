SPECIFICATION ArenaSpec
CONSTANTS
  AddrLimit = 1024
  Word = 8
  TopField = 8
  SbrkField = 16
  SizeOffset = 0
  MprotectOffset = 8
  PrevOffset = 16
  HeapInfoSize = 32
  MallocStateSize = 16
  HeapMaxSize = 128
  Header = 8
  Alignment = 16
  MaxChunks = 12
  MaxHeaps = 2
  Arenas <- MCArenas
INVARIANTS
  NoHeapIsExplained
  RegionIsSound
  HealthyArenaIsReportedWhole
  NoByteTwice
PROPERTIES
  IsPointerChase
CHECK_DEADLOCK FALSE
