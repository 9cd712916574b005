\* What the documentation says and the code does not keep; one at a time.
SPECIFICATION FairSpec
CONSTANTS
  MaxScripts = 2
  MaxMail = 1
  MaxCalls = 2
PROPERTY StopEndsScript
\* PROPERTY ReceiveReturns
CHECK_DEADLOCK FALSE
