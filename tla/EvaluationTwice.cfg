\* The same project; the run states what a comment says of sweeps over articles
\* that have no lead.
SPECIFICATION Spec
CONSTANTS
  None = None
  Articles <- FiveArticles
  Flagged <- SomeFlagged
  Day <- OneDay
  Portal <- TwoPortals
  HasLead <- LeadsBut15
  Labels <- SomeLabels
  Kind <- SomeKinds
  HeldOut <- Five
  FlaggedCap = None
  NeutralCap = 2
  Sweeps <- TwoSweeps
  Answers <- Replies
CHECK_DEADLOCK FALSE
INVARIANTS NoArticleCountsTwice
