\* A quote that runs from the headline into the lead.
SPECIFICATION Spec
CONSTANTS
  Titles <- Headline
  Leads <- Sentence
  Replies <- Straddling
  MAX_FINDINGS = 2
  MAX_QUOTE = 4
  None = None
INVARIANTS NoStraddling
