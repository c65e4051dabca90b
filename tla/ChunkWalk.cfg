SPECIFICATION FairSpec
CONSTANTS
  AddrLimit = 256
  Word = 8
  Header = 8
  Alignment = 16
  MaxChunks = 3
  Regions <- MCRegions
INVARIANTS
  EventsTileRegion
  EventsMatchHeaders
  CleanEndCoversRegion
  ProblemHasCause
PROPERTY
  WalkTerminates
CHECK_DEADLOCK FALSE
