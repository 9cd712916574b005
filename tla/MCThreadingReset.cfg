CONSTANTS
  main = main
  a = a
  b = b
  Worker = Worker
  Free = Free
  MainId = main
  ThreadIds = {main, a}
  Ops = {"start", "kill"}
  MaxMail = 0
SPECIFICATION FairSpec
PROPERTIES ResetEnds
CHECK_DEADLOCK FALSE
