\* Two requests at a time, over one mailbox that is registered, erased and registered again.
SPECIFICATION FairSpec
CONSTANTS
  Ids = {u1, u2}
  Addresses <- Spellings
  Fold <- LowerCase
  Address <- OneMailbox
  Callers = {}
  None = None
  Tokens = {t1, t2}
  Articles = {a1}
  Categories = {c1}
  Requests = {r1, r2}
  Calls = {"register", "login", "logout", "save", "subscribe", "export", "erase"}
  MaxFailedLogins = 1
INVARIANTS NothingOutlivesTheAccount OverrunBounded
PROPERTIES LockoutEnds
\* Every token may have been given out.
CHECK_DEADLOCK FALSE
