\* Two overlapping passes over one portal that validates by ETag.
SPECIFICATION Spec
CONSTANTS
  Sources <- OneSource
  Passes = {p1, p2}
  Validator <- ETag
  Window = 1
  Published <- ThreeArticles
  None = None
INVARIANTS ETagCovers
PROPERTIES OnlyLateIsHidden
