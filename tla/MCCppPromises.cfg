\* What the documentation says and the code does not keep; one at a time.
SPECIFICATION EndlessSpec
CONSTANTS
  MaxRuns = 2
  MaxAborts = 1
PROPERTY SupersededEnds
CHECK_DEADLOCK FALSE
