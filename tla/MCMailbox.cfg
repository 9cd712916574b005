SPECIFICATION FairSpec
CONSTANTS
  a = a
  b = b
  c = c
  Nobody = Nobody
  Robots = {a, b, c}
  Links <- Star
  Again = {}
  Senders = {a, b, c}
  MaxConns = 5
  MaxSends = 2
  MaxHulls = 0
  MaxFaults = 0
  Spare = 2
INVARIANTS
  AtMostOnce
  SenderIsRight
PROPERTIES
  AllJoin
  Delivered
CHECK_DEADLOCK FALSE
