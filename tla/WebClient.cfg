\* Two tabs of a reader who may tap at any time, with any answer lost.
SPECIFICATION WebSpec
CONSTANTS
  MaxTaps = 2
  Lossy = {1, 2}
  Categories = {c1}
  MaxRequests = 2
INVARIANTS ButtonIsTrueUnlessMuddled LeavesOnlyErased SaidSavedIsStored
\* The pages are left for good.
CHECK_DEADLOCK FALSE
