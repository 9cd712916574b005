\* What the documentation says and the code does not keep; one at a time.
SPECIFICATION Spec
CONSTANTS
  Buffers = {b1, b2}
  Photos = {p1}
  Ops = {"activate", "stopAll", "stopStream", "stopNone"}
  MayFail = FALSE
  MaxQueue = 2
  Dsp = dsp
  NoBuffer = none
INVARIANT NeverRecycledWhileRead
\* PROPERTY QueuedOnce
\* PROPERTY StopSparesOthers
