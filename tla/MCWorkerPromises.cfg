\* What the documentation says and the code does not keep; one at a time.
SPECIFICATION FairSpec
CONSTANTS
  MaxScripts = 2
  MaxQuits = 1
  Direct = TRUE
PROPERTY StopReturns
\* PROPERTY RunRuns
\* PROPERTY RunCompletes
\* PROPERTY DirectAfterAbort
\* PROPERTY DirectIsEvaluated
CHECK_DEADLOCK FALSE
