CONSTANTS
  main = main
  a = a
  b = b
  Worker = Worker
  Free = Free
  MainId = main
  ThreadIds = {main, a}
  Ops = {"start", "join", "kill", "send", "poll", "receive", "runLoop", "quit"}
  MaxMail = 1
SPECIFICATION Spec
INVARIANTS
  LockDiscipline
  TablesDisjoint
  CompletedMeansOver
  DequeueNonEmpty
PROPERTIES
  JoinTellsTheTruth
  PoolSpec
CHECK_DEADLOCK FALSE
