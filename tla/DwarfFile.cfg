SPECIFICATION FileSpec
CONSTANTS
  Unknown = Unknown
  None = None
  DebugFiles <- MCDebugFiles
  Inputs <- MCInputs
  Elfs <- MCElfs
  Infos <- MCInfos
  MaxSectionBytes = 4
  MaxTotalBytes = 6
  Corrupt = Corrupt
  MaxDepth = 3
  Word = 2
  AddrMax = 15
  MaxFieldOffset = 6
  MaxArrayBytes = 4
  MaxStructSize = 8
  MaxFastbins = 2
  MaxTcacheBins = 2
  Ids = {1, 2, 3, 4, 5, 6, 7, 8}
  MaxUnits = 3
  MaxDies = 5
  MaxCandidates = 4
CHECK_DEADLOCK FALSE
INVARIANTS
  AcceptedIsUnanimous
  RejectedHasCause
  SelectedIsSafe
  SectionsAreWhole
  DefinitionIsMeant
