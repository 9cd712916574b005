\* What the documentation says and the code does not keep; one at a time.
SPECIFICATION FairSpec
CONSTANTS
  main = main
  a = a
  b = b
  Worker = Worker
  Free = Free
  MainId = main
  ThreadIds = {main, a}
  Ops = {"start", "kill", "join"}
  MaxMail = 0
PROPERTY JoinOfNobodyReturns
\* PROPERTY ResetToInitialState
\* PROPERTY ResetAborts
CHECK_DEADLOCK FALSE
