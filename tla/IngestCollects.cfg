\* One pass at a time over two portals, either of which may go on failing; the
\* second validates by Last-Modified and takes its first article down.
SPECIFICATION FairSpec
CONSTANTS
  Sources <- TwoSources
  Passes = {p1}
  Validator <- NoneAndLastModified
  Window = 1
  Published <- OneAndTwoArticles
  None = None
PROPERTIES ShownIsCollected OnlyLateIsHidden
