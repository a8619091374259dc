\* The container, a pass started by hand beside it and an evaluation sweep on the
\* same article, all of which may die anywhere, and two prompt versions.
SPECIFICATION Spec
CONSTANTS
  Articles = {a1}
  Analyzers = {container, hand}
  Container = container
  Sweeps = {s1}
  Categories = {polityka, sport}
  None = None
  CanCrash = TRUE
  MaxRows = 2
  MaxVersion = 2
SYMMETRY CategorySymmetry
INVARIANTS AnalysedIsServed FilterMatchesVerdict
PROPERTIES OnceServedAlwaysServed
CHECK_DEADLOCK FALSE
