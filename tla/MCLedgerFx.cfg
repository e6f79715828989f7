CONSTANTS
  alice = alice
  bob = bob
  k1 = k1
  k2 = k2
  t1 = t1
  t2 = t2
  eur = eur
  pln = pln
  Clients = {alice, bob}
  Keys = {k1, k2}
  Currencies = {eur, pln}
  AccountId = {1, 2, 3}
  TransferId = {t1, t2, t3}
  NoTransfer = NoTransfer
  MaxI64 = 6
  FxConfigs <- ThreeRates
  Requests <- FxTransfers
  InitialAccounts <- TwoCurrencies
  Tx = {h1, h2}
  Null = Null
SYMMETRY OtherTransfers
SPECIFICATION Spec
INVARIANTS
  IInv
  BalancesMatchEntries
  OneEffectPerKey
  AtMostOneReversal
  ReversalNetsToZero
