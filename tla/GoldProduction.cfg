\* One load beside one production pass.
SPECIFICATION Spec
CONSTANTS
  main = main
  holdout = holdout
  a1 = a1
  a2 = a2
  a3 = a3
  Articles = {a1, a2}
  Splits = {main, holdout}
  Loaders = {l1}
  Editions <- MainOnly
  None = None
PROPERTIES ProductionSparesGold
CHECK_DEADLOCK FALSE
