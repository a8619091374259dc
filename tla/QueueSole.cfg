\* One analyzer as compose runs it, one refused article of two, and the limit
\* brought down to two so that an outage aborts a pass over both.
SPECIFICATION FairSpec
CONSTANTS
  Articles <- TwoArticles
  Passes = {p1}
  Rejected <- TheSecond
  Limits <- NoLimit
  MAX_ATTEMPTS = 3
  RETRY_BACKOFF_HOURS = 1
  CONSECUTIVE_FAILURE_LIMIT = 2
INVARIANTS HeldIsPending
PROPERTIES BackOffRespected ImplementsContract QueueDrains
