CONSTANTS
  main = main
  a = a
  b = b
  Worker = Worker
  Free = Free
  MainId = main
  ThreadIds = {main, a}
  Ops = {"start", "send", "receive"}
  MaxMail = 1
SPECIFICATION FairSpec
PROPERTIES MessageIsReceived
CHECK_DEADLOCK FALSE
