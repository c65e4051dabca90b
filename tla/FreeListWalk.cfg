SPECIFICATION FairSpec
CONSTANTS
  AddrLimit = 64
  Word = 8
  PageSize = 16
  MaxChain = 3
  XorWord <- MCXor
  Lists <- MCLists
INVARIANTS
  VerdictIsRight
PROPERTIES
  IsPointerChase
  ChaseEnds
CHECK_DEADLOCK FALSE
