\* An analyzer that never dies beside a sweep.  TLC stops at the first of the three
\* that it finds violated; each alone is violated too.
SPECIFICATION Spec
CONSTANTS
  Articles = {a1}
  Analyzers = {container}
  Container = container
  Sweeps = {s1}
  Categories = {polityka, sport}
  None = None
  CanCrash = FALSE
  MaxRows = 2
  MaxVersion = 1
INVARIANTS ServedByProduction ServedIsWhole FilterIsTheVerdict
CHECK_DEADLOCK FALSE
