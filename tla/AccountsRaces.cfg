\* Two requests of one account at one time.  TLC stops at the first of the four
\* that it finds violated; each alone is violated too.
SPECIFICATION Spec
CONSTANTS
  Ids = {u1}
  Addresses <- Spellings
  Fold <- LowerCase
  Address <- OneMailbox
  Callers = {}
  None = None
  Tokens = {t1, t2}
  Articles = {a1}
  Categories = {c1, c2}
  Requests = {r1, r2}
  Calls = {"register", "login", "save", "subscribe", "export", "erase"}
  MaxFailedLogins = 1
PROPERTIES ResolvedMeansExists HalfwayGoneIsInert ErasureLeavesNothing SetSentIsSetStored
CHECK_DEADLOCK FALSE
