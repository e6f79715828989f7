CONSTANTS
  Tx = {h1}
  Pair = {eur_pln, pln_eur}
  Default = Default
  Id = {i1, i2}
  MaxTime = 2
  MaxViews = 2
  MaxRows = 3
  Unavailable = Unavailable
  Ambiguous = Ambiguous
  None = None
SYMMETRY Interchangeable
SPECIFICATION Spec
CONSTRAINT WithinBounds
INVARIANTS
  PricedAsOfOneMoment
  FailsClosed
  RatesOfTransfersRemain
  IInv
