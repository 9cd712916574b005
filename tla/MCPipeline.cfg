SPECIFICATION FairPipelineSpec
CONSTANTS
  Ports = {p1, p2}
  NoPort = none
  MaxRequests = 1
INVARIANTS
  FrameOfItsChannel
PROPERTIES
  StopReturnsOnStream
  ChannelTakesEffectOnStream
CHECK_DEADLOCK FALSE
