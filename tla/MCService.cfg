SPECIFICATION FairSpec
CONSTANTS
  Request = {r1, r2}
  Settings <- AllSettings
  MaxI64 = 1
  None = None
INVARIANTS
  OneTerminalOutcome
  CountersMatchEffects
PROPERTIES
  EveryRequestEnds
  ShutdownDrains
