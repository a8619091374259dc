\* A source is switched off during a pass.
SPECIFICATION Spec
CONSTANTS
  Sources <- OneSource
  Passes = {p1}
  Validator <- ETag
  Window = 1
  Published <- OneArticle
  None = None
PROPERTIES OffMeansOff
