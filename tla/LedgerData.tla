------------------------------ MODULE LedgerData ------------------------------
(***************************************************************************)
(* The rows of the ledger's PostgreSQL tables, the requests clients send,  *)
(* and the pure rules that turn a request and the account rows it touches  *)
(* into new rows.  Shared by the atomic specification (LedgerAtomic) and   *)
(* by the statement-level model of the service (Ledger).                   *)
(*                                                                         *)
(* Amounts are minor units in a signed integer of bounded width; MaxI64    *)
(* stands for i64::MAX, so a small value of it makes overflow reachable.   *)
(* A table is a function from its primary key to its rows: the keys in its *)
(* DOMAIN are the rows that exist.                                         *)
(***************************************************************************)
EXTENDS Integers

CONSTANTS
  Clients,          \* values of the JWT `sub` claim
  Keys,             \* Idempotency-Key header values
  Currencies,       \* ISO codes; the scale is a function of the code
  AccountId,        \* account UUIDs, ordered: a set of naturals
  TransferId,       \* transfer UUIDs
  NoTransfer,       \* SQL NULL in transfers.reverses_transfer_id
  MaxI64,           \* i64::MAX
  FxConfigs,        \* rates and fees the FX tables can yield for a pair
  Requests,         \* the requests clients may send
  InitialAccounts   \* the accounts table the run starts from

MinI64 == -MaxI64 - 1
I64 == MinI64 .. MaxI64

(***************************************************************************)
(* Requests.  An amount is already a number of minor units.                *)
(***************************************************************************)
CreateRequest ==
  [op: {"create"}, client: Clients, key: Keys, currency: Currencies,
   amount: 0 .. MaxI64]

TransferRequest ==
  [op: {"transfer"}, client: Clients, key: Keys, source: AccountId,
   destination: AccountId, amount: I64]

ReverseRequest ==
  [op: {"reverse"}, client: Clients, key: Keys, original: TransferId]

Operations == {"account_creation", "transfer", "fx_transfer", "reversal"}
Scopes == Clients \X Operations \X Keys

\* The business input of a request, which the code hashes with SHA-256.  The
\* source currency it also hashes is a function of the source account.
Fingerprint(r) ==
  CASE r.op = "create"   -> <<r.currency, r.amount>>
    [] r.op = "transfer" -> <<r.source, r.destination, r.amount>>
    [] r.op = "reverse"  -> <<r.original>>

(***************************************************************************)
(* Rows.                                                                   *)
(***************************************************************************)
\* `opening` is the initial balance, which the table does not keep: the
\* balance equation needs it.
AccountRow ==
  [owner: Clients, currency: Currencies, balance: I64,
   status: {"active", "inactive"}, version: Nat, opening: I64]

TransferKinds == {"transfer", "fx_transfer", "reversal"}

TransferRow ==
  [kind: TransferKinds, source: AccountId, destination: AccountId,
   source_amount: 1 .. MaxI64, destination_amount: 1 .. MaxI64,
   fee_amount: 0 .. MaxI64, total_source_debit: 1 .. MaxI64, reverses: TransferId \cup {NoTransfer},
   initiated_by: Clients]

EntryRow ==
  [account: AccountId, transfer: TransferId, counterparty: AccountId,
   direction: {"debit", "credit"}, operation_kind: TransferKinds,
   amount: 1 .. MaxI64]

Resources == AccountId \cup TransferId
RecordRow ==
  [fingerprint: {Fingerprint(r) : r \in Requests}, result: Resources]

\* table is keyed by some of the keys and holds such rows.
IsTable(table, keys, rows) ==
  DOMAIN table \subseteq keys /\ table \in [DOMAIN table -> rows]

\* INSERT of one row under a new primary key.
Insert(table, id, row) ==
  [k \in DOMAIN table \cup {id} |-> IF k = id THEN row ELSE table[k]]

(***************************************************************************)
(* What one published rate and fee rule make of an amount.  num/den is the *)
(* exact rate together with the powers of ten of the two currency scales.  *)
(***************************************************************************)
BasisPoints == 10000
FxConfig == [num: Nat \ {0}, den: Nat \ {0}, fee_bps: 0 .. BasisPoints]
Parity == [num |-> 1, den |-> 1, fee_bps |-> 0]  \* same currency: no FX

HalfUpDivide(n, d) ==
  (n \div d) + (IF 2 * (n % d) >= d THEN 1 ELSE 0)

CalculateFee(amount, fx) == HalfUpDivide(amount * fx.fee_bps, BasisPoints)
CalculateDestination(amount, fx) == HalfUpDivide(amount * fx.num, fx.den)

(***************************************************************************)
(* Transfers and reversals.  `rows` are account rows: the committed table, *)
(* or the rows a transaction has read.                                     *)
(***************************************************************************)
TransferOf(r, kind, fx) ==
  [kind               |-> kind,
   source             |-> r.source,
   destination        |-> r.destination,
   source_amount      |-> r.amount,
   destination_amount |-> CalculateDestination(r.amount, fx),
   fee_amount         |-> CalculateFee(r.amount, fx),
   total_source_debit |-> r.amount + CalculateFee(r.amount, fx),
   reverses           |-> NoTransfer,
   initiated_by       |-> r.client]

\* Bug: the fee is not refunded.
ReversalOfKeepingFee(r, o) ==
  [kind |-> "reversal", source |-> o.destination, destination |-> o.source,
   source_amount |-> o.destination_amount, destination_amount |-> o.source_amount,
   fee_amount |-> o.fee_amount, total_source_debit |-> o.destination_amount,
   reverses |-> r.original, initiated_by |-> r.client]

\* The full inverse: the original destination pays back what it received, the
\* original source gets back everything it paid, fee included.
ReversalOf(r, o) ==
  [kind               |-> "reversal",
   source             |-> o.destination,
   destination        |-> o.source,
   source_amount      |-> o.destination_amount,
   destination_amount |-> o.total_source_debit,
   fee_amount         |-> o.fee_amount,
   total_source_debit |-> o.destination_amount,
   reverses           |-> r.original,
   initiated_by       |-> r.client]

\* Bug: the destination may be inactive.
SourceActive(t, rows) == rows[t.source].status = "active"

BothActive(t, rows) ==
  /\ rows[t.source].status = "active"
  /\ rows[t.destination].status = "active"

\* Bug: no funds check.
TransferAllowedUnfunded(t, rows) ==
  /\ rows[t.source].owner = t.initiated_by /\ BothActive(t, rows)
  /\ t.destination_amount \in 1 .. MaxI64 /\ t.total_source_debit <= MaxI64
  /\ rows[t.destination].balance + t.destination_amount <= MaxI64

\* Checks of create_transfer on the rows it has locked: ownership, status, FX
\* arithmetic, funds, and the checked addition to the destination.
TransferAllowed(t, rows) ==
  /\ rows[t.source].owner = t.initiated_by
  /\ BothActive(t, rows)
  /\ t.destination_amount \in 1 .. MaxI64
  /\ t.total_source_debit <= MaxI64
  /\ rows[t.source].balance >= t.total_source_debit
  /\ rows[t.destination].balance + t.destination_amount <= MaxI64

\* Checks of reverse_transfer on the rows it has locked: no funds check, only
\* the checked subtraction and addition.
ReversalAllowed(t, rows) ==
  /\ BothActive(t, rows)
  /\ rows[t.source].balance - t.total_source_debit >= MinI64
  /\ rows[t.destination].balance + t.destination_amount <= MaxI64

\* The two UPDATEs of accounts: the balance is the one computed from the rows
\* read, the version is incremented where it is.
Post(table, rows, t) ==
  [table EXCEPT
     ![t.source].balance      = rows[t.source].balance - t.total_source_debit,
     ![t.source].version      = @ + 1,
     ![t.destination].balance = rows[t.destination].balance
                                  + t.destination_amount,
     ![t.destination].version = @ + 1]

\* Bug: the debit leaves out the fee.
EntriesOfWithoutFee(id, t) ==
  {[account |-> t.source, transfer |-> id, counterparty |-> t.destination,
    direction |-> "debit", operation_kind |-> t.kind, amount |-> t.source_amount],
   [account |-> t.destination, transfer |-> id, counterparty |-> t.source,
    direction |-> "credit", operation_kind |-> t.kind,
    amount |-> t.destination_amount]}

EntriesOf(id, t) ==
  {[account |-> t.source, transfer |-> id, counterparty |-> t.destination,
    direction |-> "debit", operation_kind |-> t.kind,
    amount |-> t.total_source_debit],
   [account |-> t.destination, transfer |-> id, counterparty |-> t.source,
    direction |-> "credit", operation_kind |-> t.kind,
    amount |-> t.destination_amount]}

NewAccount(r) ==
  [owner |-> r.client, currency |-> r.currency, balance |-> r.amount,
   status |-> "active", version |-> 0, opening |-> r.amount]

ASSUME LedgerDataAssumption ==
  /\ AccountId \subseteq Nat
  /\ MaxI64 \in Nat \ {0}
  /\ NoTransfer \notin TransferId
  /\ AccountId \cap TransferId = {}
  /\ FxConfigs \subseteq FxConfig
  /\ Requests \subseteq CreateRequest \cup TransferRequest \cup ReverseRequest
  /\ \A r \in Requests : r.op = "transfer" => r.source # r.destination
  /\ IsTable(InitialAccounts, AccountId, AccountRow)
  /\ \A a \in DOMAIN InitialAccounts :
       /\ InitialAccounts[a].balance = InitialAccounts[a].opening
       /\ InitialAccounts[a].version = 0
=============================================================================
