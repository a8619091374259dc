\* A sample of three, a sweep of two of them under both variants, a repeated
\* sweep of the held-out set, and a report at any time.
SPECIFICATION Spec
CONSTANTS
  None = None
  Articles <- FiveArticles
  Flagged <- SomeFlagged
  Day <- OneDay
  Portal <- TwoPortals
  HasLead <- LeadsBut15
  Labels <- SomeLabels
  Kind <- SomeKinds
  HeldOut <- Five
  FlaggedCap = None
  NeutralCap = 2
  Sweeps <- TwoSweeps
  Answers <- Replies
CHECK_DEADLOCK FALSE
INVARIANTS SampleIsSpread LimitedRunIsMixed EveryCallIsAccounted CreditIsFair
PROPERTIES ReportAddsUp PairsAreComparable
