\* A pool of three accounts; the warm-up goes once round its ring.
CONSTANTS
  Seed = 1
  PoolSize = 3
  WarmupOperations = 3
  Operations = 4
  Concurrency <- TwoThenTwo
  Instances = 2
  Initial = 2
  MaxDisturbances = 3
  None = None
SPECIFICATION FairSpec
INVARIANTS
  ValidLevelsAreExact
  UndisturbedLevelsAreValid
  PhasesAreRings
PROPERTIES
  SweepEnds
\* The sweep ends.
CHECK_DEADLOCK FALSE
