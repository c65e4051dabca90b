SPECIFICATION CheckSpec
CONSTANTS
  V1 = 1
  V2 = 2
  None = None
  NoId = NoId
  Align = 3
  Values <- MCValues
  Inputs <- MCInputs
CHECK_DEADLOCK FALSE
INVARIANTS
  DoubtsAreTold
  DebugFileJudgedRight
  ExitCodeTells
