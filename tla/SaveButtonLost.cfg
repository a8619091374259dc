\* A single tap, whose answer may be lost.
SPECIFICATION Spec
CONSTANTS
  MaxTaps = 1
  Lossy = {1}
INVARIANTS ButtonTellsTheTruth
\* The visit ends.
CHECK_DEADLOCK FALSE
