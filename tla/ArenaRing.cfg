SPECIFICATION Spec
CONSTANTS
  AddrLimit = 64
  MainAddr <- MCMainAddr
  TopOffset = 2
  NextOffset = 4
  MaxArenas = 3
  Memories <- MCMemories
INVARIANTS
  ListIsUsable
PROPERTIES
  IsPointerChase
CHECK_DEADLOCK FALSE
