SPECIFICATION FairSpec
CONSTANTS
  a = a
  b = b
  c = c
  Readers = {a, b, c}
  Chunk = 2
  Limit = 3
  MaxLines = 2
  MaxReads = 4
INVARIANTS
  Consistent
  HandedOutOnce
  NobodySleepsOnInput
PROPERTIES
  ToldReturns
CHECK_DEADLOCK FALSE
