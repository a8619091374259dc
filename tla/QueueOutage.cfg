\* One analyzer, two articles that the backend accepts whenever it is up.
SPECIFICATION Spec
CONSTANTS
  Articles <- TwoArticles
  Passes = {p1}
  Rejected <- Nothing
  Limits <- NoLimit
  MAX_ATTEMPTS = 3
  RETRY_BACKOFF_HOURS = 1
  CONSECUTIVE_FAILURE_LIMIT = 3
INVARIANTS OutageSparesTheCorpus
