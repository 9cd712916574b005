\* NothingLost holds; the others are what the documentation says and the code
\* does not keep. One at a time.
SPECIFICATION Spec
CONSTANTS
  a = a
  b = b
  c = c
  Nobody = Nobody
  Robots = {a, b, c}
  Links <- Star
  Again <- Star
  Senders = {a}
  MaxConns = 5
  MaxSends = 2
  MaxHulls = 0
  MaxFaults = 0
  Spare = 2
INVARIANT NothingLost
\* INVARIANT NeverHookedLate
\* INVARIANT SenderKnown
\* INVARIANT OnlyRobotsKnown (Senders = {a, b, c}, MaxConns = 6, Spare = 3)
CHECK_DEADLOCK FALSE
