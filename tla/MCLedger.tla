------------------------------- MODULE MCLedger -------------------------------
(***************************************************************************)
(* Small instances of Ledger for TLC: two or three connections, two       *)
(* accounts or three and the requests that make each hazard happen.        *)
(***************************************************************************)
EXTENDS Ledger, TLC

CONSTANTS alice, bob, k1, k2, t1, t2, eur, pln

Account(owner, currency, balance) ==
  [owner |-> owner, currency |-> currency, balance |-> balance,
   status |-> "active", version |-> 0, opening |-> balance]

Send(client, key, source, destination, amount) ==
  [op |-> "transfer", client |-> client, key |-> key, source |-> source,
   destination |-> destination, amount |-> amount]
Undo(client, key, original) ==
  [op |-> "reverse", client |-> client, key |-> key, original |-> original]
Open(client, key, currency, amount) ==
  [op |-> "create", client |-> client, key |-> key, currency |-> currency,
   amount |-> amount]

NoFx == {}

\* Transfers in both directions, a key reused for another amount, an amount
\* that is not positive, and an account that does not exist.
TwoAccounts == <<Account(alice, eur, 2), Account(bob, eur, 1)>>
CrossingTransfers ==
  {Send(alice, k1, 1, 2, 1), Send(alice, k1, 1, 2, 2), Send(alice, k2, 1, 2, 2),
   Send(bob, k1, 2, 1, 2), Send(bob, k1, 2, 1, 0), Send(bob, k2, 2, 3, 1)}
\* The same key spent on an FX transfer and on a transfer of one currency to an
\* account that is only being opened, and a key spent on opening it.  Two keys
\* race to reverse an FX transfer with its fee; then a missing transfer, one's
\* own, or the reversal itself is reversed.  The configurations charge a fee that
\* rounds up, overflow the destination, and convert the amount to nothing.
TwoCurrencies == <<Account(alice, eur, 3), Account(bob, pln, 1)>>
FxTransfers ==
  {Send(alice, k1, 1, 2, 2), Send(alice, k1, 1, 3, 1), Open(alice, k1, eur, 1),
   Undo(bob, k1, t1), Undo(bob, k2, t1), Undo(alice, k1, t2)}
ThreeRates ==
  {[num |-> 3, den |-> 2, fee_bps |-> 2500], [num |-> 3, den |-> 1, fee_bps |-> 0],
   [num |-> 1, den |-> 5, fee_bps |-> 0]}

\* The locks of all three kinds, contended in both directions; what is received
\* may be spent before it is reversed.
Contention ==
  {Send(alice, k1, 1, 2, 2), Send(bob, k1, 2, 1, 2), Undo(bob, k1, t1)}

\* Connections are interchangeable, and transfers too unless a request names
\* them.
AnyTransfer == Permutations(TransferId) \cup Permutations(Tx)
OtherTransfers == Permutations(TransferId \ {t1, t2}) \cup Permutations(Tx)
===============================================================================
