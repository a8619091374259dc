\* A reader who taps again before the answer; no answer is lost.
SPECIFICATION Spec
CONSTANTS
  MaxTaps = 2
  Lossy = {}
INVARIANTS ButtonTellsTheTruth
\* The visit ends.
CHECK_DEADLOCK FALSE
