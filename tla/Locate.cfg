SPECIFICATION LocateSpec
CONSTANTS
  Path <- MCPath
  LibcPaths <- MCLibcPaths
  Version <- MCVersion
  Library <- MCLibrary
  NoPath = NoPath
  Window = 27
  Setups <- MCSetups
  Align = 3
  NoId = NoId
INVARIANTS
  VerifiedIsReference
  LowestMatchIsTaken
CHECK_DEADLOCK FALSE
