\* More instances than a phase has transfers, fewer than there are operations.
CONSTANTS
  Seed = 0
  PoolSize = 2
  WarmupOperations = 1
  Operations = 3
  Concurrency <- OneThenTwo
  Instances = 3
  Initial = 2
  MaxDisturbances = 0
  None = None
SPECIFICATION Spec
INVARIANTS
  OperationsReachEveryInstance
\* The sweep ends.
CHECK_DEADLOCK FALSE
