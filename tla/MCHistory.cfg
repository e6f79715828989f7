CONSTANTS
  a = a
  b = b
  c = c
  r1 = r1
  r2 = r2
  Account = {a, b, c}
  EntryId = {1, 2, 3, 4}
  Writer = {w1, w2}
  Reader = {r1}
  OwnerOf <- OneReader
  MaxLimit = 2
  MaxTime = 2
  None = None
SPECIFICATION LiveSpec
INVARIANTS
  IInv
  PagesDescend
  NothingSkipped
  NextPageHasRows
PROPERTIES
  TraversalEnds
CHECK_DEADLOCK FALSE
