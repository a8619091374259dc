\* Two analyzers at once over two articles.
SPECIFICATION Spec
CONSTANTS
  Articles <- TwoArticles
  Passes = {p1, p2}
  Rejected <- TheSecond
  Limits <- OneOrAll
  MAX_ATTEMPTS = 3
  RETRY_BACKOFF_HOURS = 1
  CONSECUTIVE_FAILURE_LIMIT = 3
INVARIANTS QueueIsNotStuck SettledCarriesAnalysis RetiredIsExhausted OverrunBounded
