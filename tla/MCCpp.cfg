SPECIFICATION FairSpec
CONSTANTS
  MaxRuns = 3
  MaxAborts = 2
INVARIANTS
  BrickQuiet
PROPERTIES
  EveryRunCompletes
CHECK_DEADLOCK FALSE
