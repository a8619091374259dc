\* One analyzer as compose runs it; the three articles are all refused.
SPECIFICATION FairSpec
CONSTANTS
  Articles <- ThreeArticles
  Passes = {p1}
  Rejected <- TheFirstThree
  Limits <- NoLimit
  MAX_ATTEMPTS = 3
  RETRY_BACKOFF_HOURS = 1
  CONSECUTIVE_FAILURE_LIMIT = 3
PROPERTIES RejectedIsDropped
