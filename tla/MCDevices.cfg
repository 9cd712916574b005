SPECIFICATION FairSpec
CONSTANTS
  MaxCalls = 2
  MaxDeaths = 1
  MaxStops = 2
INVARIANTS
  Consistent
  ThrowsOnlyAfterDeath
  OpenWhenReady
PROPERTIES
  BrickTakesEffect
  StatusSettles
CHECK_DEADLOCK FALSE
