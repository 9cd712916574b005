SPECIFICATION FairSpec
CONSTANTS
  MaxScripts = 2
  MaxMail = 1
  MaxCalls = 2
INVARIANTS
  WorkerRests
  AbortReaches
  BrickQuiet
PROPERTIES
  NoStaleInterrupt
  InterruptEnds
CHECK_DEADLOCK FALSE
