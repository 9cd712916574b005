SPECIFICATION FairSpec
CONSTANTS
  a = a
  b = b
  c = c
  Nobody = Nobody
  Robots = {a, b}
  Links <- Pair
  Again <- Pair
  Senders = {b}
  MaxConns = 5
  MaxSends = 1
  MaxHulls = 1
  MaxFaults = 1
  Spare = 4
INVARIANTS
  KnownRobotsKept
  RegisteredFirst
PROPERTIES
  RejoinsNetwork
CHECK_DEADLOCK FALSE
