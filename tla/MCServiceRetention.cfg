SPECIFICATION Spec
CONSTANTS
  Request = {r1}
  Settings <- LongRetention
  MaxI64 = 1
  None = None
SYMMETRY RequestSymmetry
INVARIANTS
  ValidatedRetentionFits
