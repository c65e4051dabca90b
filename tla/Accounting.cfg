SPECIFICATION AccountingSpec
CONSTANTS
  Node <- MCNode
  Unreadable <- MCUnreadable
  MaxBins = 2
  MaxChain = 2
  Bases <- MCBases
  ArenaAddr <- MCArenaAddr
  Procs <- MCProcs
  Sizes = {24, 40}
  MinPayload = 24
  Alignment = 16
  HeaderSize = 8
  MaxU64 = 70
  Arenas <- MCArenas
  Inputs <- MCInputs
INVARIANTS
  OneOwnerPerChunk
  UnresolvedReportedOnce
  ReportAddsUp
  TcacheCountedOnce
  HealthyArenaIsCountedRight
CHECK_DEADLOCK FALSE
