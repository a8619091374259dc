\* One analyzer that never dies and one requeue after a new prompt.
SPECIFICATION Spec
CONSTANTS
  Articles = {a1}
  Analyzers = {container}
  Container = container
  Sweeps = {}
  Categories = {polityka, sport}
  None = None
  CanCrash = FALSE
  MaxRows = 2
  MaxVersion = 2
INVARIANTS RequeueingIsTheWholeRepair
CHECK_DEADLOCK FALSE
