SPECIFICATION Spec
CONSTANTS
  AddrLimit = 256
  Word = 8
  Header = 8
  Alignment = 16
  MaxChunks = 3
  Regions <- MCRegions
CHECK_DEADLOCK FALSE
INVARIANT
  DamageKeepsEarlierChunks
