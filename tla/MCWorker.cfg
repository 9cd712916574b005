SPECIFICATION FairSpec
CONSTANTS
  MaxScripts = 3
  MaxQuits = 2
  Direct = TRUE
INVARIANTS
  Consistent
  QuietWhenIdle
PROPERTIES
  CallerReturns
  StopResetsProgram
CHECK_DEADLOCK FALSE
