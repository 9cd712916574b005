\* What the documentation says and the code does not keep; one at a time.
SPECIFICATION FairPipelineSpec
CONSTANTS
  Ports = {p1, p2}
  NoPort = none
  MaxRequests = 2
PROPERTY StopReturns
\* PROPERTY ChannelTakesEffect
\* PROPERTY DetectAnswered
CHECK_DEADLOCK FALSE
