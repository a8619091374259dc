\* A loader per split, ingest and a production pass beside them.
SPECIFICATION Spec
CONSTANTS
  main = main
  holdout = holdout
  a1 = a1
  a2 = a2
  a3 = a3
  Articles = {a1, a2, a3}
  Splits = {main, holdout}
  Loaders = {l1, l2}
  Editions <- BothSplits
  None = None
INVARIANTS LabelsAreOnGold LabelsFitStoredText
PROPERTIES OtherSplitUntouched LoadedIsTheEdition
CHECK_DEADLOCK FALSE
