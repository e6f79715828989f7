SPECIFICATION Spec
CONSTANTS
  Request = {r1}
  Settings <- SmallPool
  MaxI64 = 1
  None = None
SYMMETRY RequestSymmetry
INVARIANTS
  ReadinessCountedOnce
