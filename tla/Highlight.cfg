\* Every title of up to three characters, three leads, up to two findings.
SPECIFICATION Spec
CONSTANTS
  Titles <- ShortTexts
  Leads <- SomeLeads
  Replies <- SomeReplies
  MAX_FINDINGS = 2
  MAX_QUOTE = 3
  None = None
INVARIANTS SpanIsTheQuote VerbatimIsKept UnderlinedIsQuoted ContradictionIsOnScreen
