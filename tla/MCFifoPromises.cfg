\* What the documentation says and the code does not keep; one at a time.
SPECIFICATION FairSpec
CONSTANTS
  a = a
  b = b
  c = c
  Readers = {a, b, c}
  Chunk = 2
  Limit = 3
  MaxLines = 2
  MaxReads = 4
INVARIANT ReadReturnsLine
\* PROPERTY ReadReturns
CHECK_DEADLOCK FALSE
