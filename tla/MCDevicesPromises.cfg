\* What the documentation says and the code does not keep; one at a time.
SPECIFICATION Spec
CONSTANTS
  MaxCalls = 2
  MaxDeaths = 0
  MaxStops = 2
INVARIANT ReadyIsHeard
\* INVARIANT RunningIfThere
\* INVARIANT NeverThrows
\* INVARIANT NeverDeletedWhileOpening
\* PROPERTY StopWins
CHECK_DEADLOCK FALSE
