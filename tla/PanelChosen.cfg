\* A box is ticked while the request is pending.
SPECIFICATION Spec
CONSTANTS
  Categories = {c1}
  MaxRequests = 1
INVARIANTS SavedIsWhatIsChosen
\* The page is left for good.
CHECK_DEADLOCK FALSE
