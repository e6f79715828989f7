SPECIFICATION LiveSpec
CONSTANTS
  r1 = r1
  r2 = r2
  r3 = r3
  transfer = transfer
  Request = {r1, r2, r3}
  Key = {transfer}
  KeyOf <- Scopes
  FingerprintOf <- Bodies
  LooksUp = {transfer}
  Retention = 1
  MaxTime = 2
  None = None
INVARIANTS
  IInv
  OneEffectWhileRetained
  AnswersAreTrue
PROPERTIES
  KeepsPromise
  EveryRequestEnds
CHECK_DEADLOCK FALSE
