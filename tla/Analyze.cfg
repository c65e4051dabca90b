SPECIFICATION Spec
CONSTANTS
  Runs <- MCRuns
INVARIANTS
  TwoTiers
  ArenasComplete
  
CHECK_DEADLOCK FALSE
