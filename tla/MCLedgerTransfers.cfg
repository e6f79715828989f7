CONSTANTS
  alice = alice
  bob = bob
  k1 = k1
  k2 = k2
  t1 = t1
  t2 = t2
  eur = eur
  pln = pln
  Clients = {alice, bob}
  Keys = {k1, k2}
  Currencies = {eur, pln}
  AccountId = {1, 2, 3}
  TransferId = {t1, t2, t3}
  NoTransfer = NoTransfer
  MaxI64 = 4
  FxConfigs <- NoFx
  Requests <- CrossingTransfers
  InitialAccounts <- TwoAccounts
  Tx = {h1, h2, h3}
  Null = Null
SYMMETRY AnyTransfer
SPECIFICATION Spec
INVARIANTS
  ReadsStayCurrent
  RepliesAgree
  NoDeadlock
PROPERTIES
  InactiveAccountsAreFrozen
  IsAtomic
