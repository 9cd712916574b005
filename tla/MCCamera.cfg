SPECIFICATION Spec
CONSTANTS
  Buffers = {b1, b2}
  Photos = {p1}
  Ops = {"activate", "stopAll", "stopStream", "stopNone", "close"}
  MayFail = TRUE
  MaxQueue = 2
  Dsp = dsp
  NoBuffer = none
INVARIANTS
  BuffersAccounted
  StreamFramesSafe
  NothingStaleToDeliver
SYMMETRY BufferSymmetry
