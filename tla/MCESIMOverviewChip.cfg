SPECIFICATION Spec
CONSTANTS
  sw = sw
  dl = dl
  Caller = {p1}
  Reload = reload
  Writer = {sw, dl}
  Operation <- MCOperation
  NoSnapshot = NoSnapshot
  NoProduct = NoProduct
  ChipKey = ChipKey
  ProductAnswers = {TRUE}
  MaxGeneration = 2
  MaxCards = 1
  MaxWrites = 1
INVARIANTS
  ChipInfoFresh
CHECK_DEADLOCK FALSE
