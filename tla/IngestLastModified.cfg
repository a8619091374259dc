\* One pass at a time over a portal that validates by Last-Modified.
SPECIFICATION Spec
CONSTANTS
  Sources <- OneSource
  Passes = {p1}
  Validator <- LastModified
  Window = 1
  Published <- TwoArticles
  None = None
PROPERTIES NothingIsHidden
