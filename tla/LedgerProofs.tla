----------------------------- MODULE LedgerProofs -----------------------------
(***************************************************************************)
(* Two parts.  The first is about the atomic ledger: what each of its      *)
(* steps preserves, for all values of the constants.  The second shows     *)
(* that the concurrent transactions of the service implement the atomic    *)
(* ledger, for any number of connections, accounts, keys and requests: the *)
(* inductive invariant IInv, and with it the refinement, by which every    *)
(* safety property of the atomic ledger holds of the service.              *)
(***************************************************************************)
EXTENDS Ledger, FiniteSetTheorems, TLAPS

(***************************************************************************)
(* PART 1: THE ATOMIC LEDGER.                                              *)
(***************************************************************************)

(***************************************************************************)
(* Tables.                                                                 *)
(***************************************************************************)
\* An INSERT of a well-typed row under a known key keeps a table a table.
LEMMA InsertIsTable ==
  ASSUME NEW table, NEW keys, NEW rows, IsTable(table, keys, rows),
         NEW id \in keys, NEW row \in rows
  PROVE  /\ IsTable(Insert(table, id, row), keys, rows)
         /\ DOMAIN Insert(table, id, row) = DOMAIN table \cup {id}
         /\ Insert(table, id, row)[id] = row
         /\ \A k \in DOMAIN table \ {id} :
              Insert(table, id, row)[k] = table[k]
BY DEF IsTable, Insert

\* Fees and conversions are rounded once, to the nearest amount and halves up: the
\* quotient is less than half a unit below n / d, or at most half a unit above it
\* (half_up_divide).
THEOREM HalfUpIsNearest ==
  ASSUME NEW n \in Nat, NEW d \in Nat \ {0}
  PROVE  /\ HalfUpDivide(n, d) \in Nat
         /\ 2 * (d * HalfUpDivide(n, d)) <= 2 * n + d
         /\ 2 * n - d < 2 * (d * HalfUpDivide(n, d))
<1> DEFINE q == n \div d
           r == n % d
<1>1. q \in Nat /\ r \in 0 .. d - 1 /\ n = d * q + r
  OBVIOUS
<1>2. d * (q + 1) = d * q + d /\ d * q \in Nat
  BY <1>1
<1> HIDE DEF q, r
<1>3. HalfUpDivide(n, d) = IF 2 * r >= d THEN q + 1 ELSE q
  BY <1>1 DEF HalfUpDivide, q, r
<1>4. CASE 2 * r >= d
  <2>1. 2 * (d * (q + 1)) = 2 * (d * q) + 2 * d
    BY <1>1, <1>2
  <2> QED
    BY <1>1, <1>2, <1>3, <1>4, <2>1
<1>5. CASE ~(2 * r >= d)
  BY <1>1, <1>2, <1>3, <1>5
<1> QED
  BY <1>4, <1>5

\* A scope is made of the sender, one of the four operations and the key.
LEMMA ScopeType ==
  ASSUME NEW r \in Requests
  PROVE  Scope(r) \in Scopes
<1>1. /\ r.client \in Clients /\ r.key \in Keys
      /\ r.op \in {"create", "transfer", "reverse"}
  BY LedgerDataAssumption
  DEF LedgerDataAssumption, CreateRequest, TransferRequest, ReverseRequest
<1>2. QED
  BY <1>1 DEF Scope, Scopes, Operations, Kind

(***************************************************************************)
(* The rows the operations write.                                          *)
(***************************************************************************)
\* A priced transfer that passes the arithmetic checks is a row of transfers.
LEMMA TransferOfType ==
  ASSUME NEW r \in Requests, r.op = "transfer", r.amount > 0,
         NEW kind \in TransferKinds, NEW fx \in FxConfigs \cup {Parity},
         TransferOf(r, kind, fx).destination_amount \in 1 .. MaxI64,
         TransferOf(r, kind, fx).total_source_debit <= MaxI64
  PROVE  /\ TransferOf(r, kind, fx) \in TransferRow
         /\ r.source # r.destination
<1>1. r \in TransferRequest /\ r.source # r.destination /\ MaxI64 \in Nat
  BY LedgerDataAssumption
  DEF LedgerDataAssumption, CreateRequest, ReverseRequest, TransferRequest
<1>2. r.amount \in Nat /\ r.client \in Clients
        /\ r.source \in AccountId /\ r.destination \in AccountId
  BY <1>1 DEF TransferRequest, I64, MinI64
<1>3. fx.fee_bps \in Nat
  <2>1. CASE fx \in FxConfigs
    <3>1. fx \in FxConfig
      BY <2>1, LedgerDataAssumption DEF LedgerDataAssumption
    <3>2. fx.fee_bps \in 0 .. BasisPoints
      BY <3>1 DEF FxConfig
    <3>3. BasisPoints \in Nat
      BY DEF BasisPoints
    <3>4. QED
      BY <3>2, <3>3
  <2>2. CASE fx = Parity
    BY <2>2 DEF Parity
  <2>3. QED
    BY <2>1, <2>2
<1>4. CalculateFee(r.amount, fx) \in Nat
  <2>1. r.amount * fx.fee_bps \in Nat
    BY <1>2, <1>3
  <2>2. BasisPoints \in Nat \ {0}
    BY DEF BasisPoints
  <2>3. HalfUpDivide(r.amount * fx.fee_bps, BasisPoints) \in Nat
    BY <2>1, <2>2, HalfUpIsNearest
  <2>4. QED
    BY <2>3 DEF CalculateFee
<1>5. r.amount + CalculateFee(r.amount, fx) <= MaxI64
  BY DEF TransferOf
<1>6. /\ r.amount \in 1 .. MaxI64
      /\ CalculateFee(r.amount, fx) \in 0 .. MaxI64
      /\ r.amount + CalculateFee(r.amount, fx) \in 1 .. MaxI64
  BY <1>1, <1>2, <1>4, <1>5
<1>7. CalculateDestination(r.amount, fx) \in 1 .. MaxI64
  BY DEF TransferOf
<1>8. QED
  BY <1>1, <1>2, <1>6, <1>7 DEF TransferOf, TransferRow

\* The reversal of a row of transfers is one too.
LEMMA ReversalOfType ==
  ASSUME NEW r \in Requests, r.op = "reverse", NEW o \in TransferRow
  PROVE  ReversalOf(r, o) \in TransferRow
<1>1. r.client \in Clients /\ r.original \in TransferId
  BY LedgerDataAssumption
  DEF LedgerDataAssumption, CreateRequest, TransferRequest, ReverseRequest
<1>2. QED
  BY <1>1 DEF ReversalOf, TransferRow, TransferKinds

\* The row an account has after the UPDATE of its balance and version.
LEMMA NewBalanceType ==
  ASSUME NEW row \in AccountRow, NEW b \in I64
  PROVE  [row EXCEPT !.balance = b, !.version = @ + 1] \in AccountRow
<1>1. row.version + 1 \in Nat
  BY DEF AccountRow
<1>2. \A v \in Nat : [row EXCEPT !.balance = b, !.version = v] \in AccountRow
  BY DEF AccountRow
<1>3. QED
  BY <1>1, <1>2

\* The two UPDATEs change the balance and the version of the two accounts, and
\* stay within i64 if the checked arithmetic succeeds.
LEMMA PostType ==
  ASSUME IsTable(account, AccountId, AccountRow), NEW t \in TransferRow,
         t.source \in DOMAIN account, t.destination \in DOMAIN account,
         t.source # t.destination,
         account[t.source].balance - t.total_source_debit >= MinI64,
         account[t.destination].balance + t.destination_amount <= MaxI64
  PROVE  /\ IsTable(Post(account, account, t), AccountId, AccountRow)
         /\ DOMAIN Post(account, account, t) = DOMAIN account
         /\ \A a \in DOMAIN account \ {t.source, t.destination} :
              Post(account, account, t)[a] = account[a]
         /\ Post(account, account, t)[t.source] =
              [account[t.source] EXCEPT
                 !.balance = account[t.source].balance - t.total_source_debit,
                 !.version = @ + 1]
         /\ Post(account, account, t)[t.destination] =
              [account[t.destination] EXCEPT
                 !.balance = account[t.destination].balance
                               + t.destination_amount,
                 !.version = @ + 1]
<1> DEFINE S == [account[t.source] EXCEPT
                   !.balance = account[t.source].balance - t.total_source_debit,
                   !.version = @ + 1]
           D == [account[t.destination] EXCEPT
                   !.balance = account[t.destination].balance
                                 + t.destination_amount,
                   !.version = @ + 1]
           P == [account EXCEPT ![t.source] = S, ![t.destination] = D]
<1>1. MaxI64 \in Nat
  BY LedgerDataAssumption DEF LedgerDataAssumption
<1>2. account \in [DOMAIN account -> AccountRow] /\ DOMAIN account \subseteq AccountId
  BY DEF IsTable
<1>a. /\ account[t.source] \in AccountRow
      /\ account[t.destination] \in AccountRow
      /\ t.total_source_debit \in 1 .. MaxI64
      /\ t.destination_amount \in 1 .. MaxI64
  BY <1>2 DEF TransferRow
<1>b. /\ account[t.source].balance \in I64
      /\ account[t.destination].balance \in I64
  BY <1>a DEF AccountRow
<1>3. S \in AccountRow
  <2>1. account[t.source].balance - t.total_source_debit \in I64
    BY <1>1, <1>a, <1>b DEF I64, MinI64
  <2>2. QED
    BY <1>a, <2>1, NewBalanceType
<1>4. D \in AccountRow
  <2>1. account[t.destination].balance + t.destination_amount \in I64
    BY <1>1, <1>a, <1>b DEF I64, MinI64
  <2>2. QED
    BY <1>a, <2>1, NewBalanceType
<1>5. Post(account, account, t) = P
  BY <1>2 DEF Post, AccountRow
<1>6. P \in [DOMAIN account -> AccountRow]
  BY <1>2, <1>3, <1>4
<1> HIDE DEF S, D
<1>7. /\ \A a \in DOMAIN account \ {t.source, t.destination} : P[a] = account[a]
      /\ P[t.source] = S /\ P[t.destination] = D /\ DOMAIN P = DOMAIN account
  BY <1>2
<1>8. QED
  BY <1>2, <1>5, <1>6, <1>7 DEF IsTable, S, D

\* The debit and the credit of a transfer are rows of account_entries.
LEMMA EntriesOfType ==
  ASSUME NEW id \in TransferId, NEW t \in TransferRow
  PROVE  EntriesOf(id, t) \subseteq EntryRow
BY DEF EntriesOf, EntryRow, TransferRow

\* The record of a request is a row of idempotency_records.
LEMMA RecordRowType ==
  ASSUME NEW r \in Requests, NEW id \in Resources
  PROVE  [fingerprint |-> Fingerprint(r), result |-> id] \in RecordRow
BY DEF RecordRow

(***************************************************************************)
(* Every step keeps the tables well typed.                                 *)
(***************************************************************************)
\* Spending a key keeps idempotency_records well typed.
LEMMA SpendType ==
  ASSUME TablesOK, NEW r \in Requests, NEW id \in Resources, Spend(r, id)
  PROVE  /\ IsTable(record', Scopes, RecordRow)
         /\ DOMAIN record' = DOMAIN record \cup {Scope(r)}
         /\ record'[Scope(r)] = [fingerprint |-> Fingerprint(r), result |-> id]
         /\ \A s \in DOMAIN record :
              s # Scope(r) /\ record'[s] = record[s]
<1>1. [fingerprint |-> Fingerprint(r), result |-> id] \in RecordRow
  BY RecordRowType
<1>2. Scope(r) \in Scopes
  BY ScopeType
<1>3. IsTable(record, Scopes, RecordRow)
  BY DEF TablesOK
<1> DEFINE row == [fingerprint |-> Fingerprint(r), result |-> id]
<1>4. Scope(r) \notin DOMAIN record /\ record' = Insert(record, Scope(r), row)
  BY DEF Spend
<1> HIDE DEF row
<1>5. QED
  BY <1>1, <1>2, <1>3, <1>4, InsertIsTable DEF row

\* The part of a transfer or reversal that both share.
LEMMA RecordType ==
  ASSUME TablesOK, NEW id \in TransferId, NEW t \in TransferRow, Record(id, t),
         {t.source, t.destination} \subseteq DOMAIN account,
         t.source # t.destination,
         account[t.source].balance - t.total_source_debit >= MinI64,
         account[t.destination].balance + t.destination_amount <= MaxI64
  PROVE  /\ IsTable(account', AccountId, AccountRow)
         /\ DOMAIN account' = DOMAIN account
         /\ IsTable(transfer', TransferId, TransferRow)
         /\ DOMAIN transfer' = DOMAIN transfer \cup {id}
         /\ transfer'[id] = t
         /\ \A u \in DOMAIN transfer : u # id /\ transfer'[u] = transfer[u]
         /\ entry' \subseteq EntryRow
         /\ \A u \in DOMAIN transfer' :
              /\ {transfer'[u].source, transfer'[u].destination}
                   \subseteq DOMAIN account'
              /\ transfer'[u].source # transfer'[u].destination
<1>1. /\ IsTable(account', AccountId, AccountRow)
      /\ DOMAIN account' = DOMAIN account
  BY PostType DEF TablesOK, Record
<1>2. /\ IsTable(transfer', TransferId, TransferRow)
      /\ DOMAIN transfer' = DOMAIN transfer \cup {id}
      /\ transfer'[id] = t
      /\ \A u \in DOMAIN transfer : u # id /\ transfer'[u] = transfer[u]
  BY InsertIsTable DEF TablesOK, Record
<1>3. entry' \subseteq EntryRow
  BY EntriesOfType DEF TablesOK, Record
<1>4. QED
  BY <1>1, <1>2, <1>3 DEF TablesOK

\* What the checks of the two handlers give the postings.
LEMMA TransferStep ==
  ASSUME TablesOK, NEW r \in Requests, NEW fx \in FxConfigs \cup {Parity},
         NEW id \in TransferId, Transfer(r, fx, id)
  PROVE  LET t == TransferOf(r, Kind(r), fx)
         IN  /\ t \in TransferRow /\ Record(id, t) /\ Spend(r, id)
             /\ {t.source, t.destination} \subseteq DOMAIN account
             /\ t.source # t.destination
             /\ BothActive(t, account)
             /\ account[t.source].balance >= t.total_source_debit
             /\ account[t.source].balance - t.total_source_debit >= MinI64
             /\ account[t.destination].balance + t.destination_amount <= MaxI64
             /\ t.reverses = NoTransfer
             /\ t.kind = Scope(r)[2] /\ t.kind \in {"transfer", "fx_transfer"}
             /\ t.initiated_by = r.client
<1> DEFINE t == TransferOf(r, Kind(r), fx)
<1>1. r.op = "transfer" /\ r.amount > 0 /\ TransferAllowed(t, account)
      /\ {r.source, r.destination} \subseteq DOMAIN account
      /\ Record(id, t) /\ Spend(r, id)
  BY DEF Transfer
<1>2. Kind(r) \in {"transfer", "fx_transfer"} /\ Kind(r) \in TransferKinds
  BY DEF Kind, TransferKinds
<1>3. t \in TransferRow /\ r.source # r.destination
  BY <1>1, <1>2, TransferOfType DEF TransferAllowed
<1>4. t.source = r.source /\ t.destination = r.destination
      /\ t.reverses = NoTransfer /\ t.kind = Kind(r) /\ t.initiated_by = r.client
  BY DEF TransferOf
<1>5. Scope(r)[2] = Kind(r)
  BY <1>1 DEF Scope
<1>6. account[t.source].balance \in Int /\ t.total_source_debit \in 1 .. MaxI64
      /\ MaxI64 \in Nat
  <2>1. account[t.source] \in AccountRow
    BY <1>1, <1>4 DEF TablesOK, IsTable
  <2>2. QED
    BY <1>3, <2>1, LedgerDataAssumption
    DEF LedgerDataAssumption, AccountRow, TransferRow, I64, MinI64
<1>7. /\ account[t.source].balance >= t.total_source_debit
      /\ account[t.destination].balance + t.destination_amount <= MaxI64
      /\ BothActive(t, account)
  BY <1>1 DEF TransferAllowed
<1>8. account[t.source].balance - t.total_source_debit >= MinI64
  BY <1>6, <1>7 DEF MinI64
<1> HIDE DEF t
<1>9. QED
  BY <1>1, <1>2, <1>3, <1>4, <1>5, <1>7, <1>8 DEF t

\* The checks of reverse_transfer give the postings their types.
LEMMA ReverseStep ==
  ASSUME TablesOK, NEW r \in Requests, NEW id \in TransferId, Reverse(r, id)
  PROVE  LET o == transfer[r.original]
             t == ReversalOf(r, o)
         IN  /\ r.original \in DOMAIN transfer
             /\ o.kind # "reversal" /\ ~Reversed(r.original)
             /\ t \in TransferRow /\ Record(id, t) /\ Spend(r, id)
             /\ {t.source, t.destination} \subseteq DOMAIN account
             /\ t.source # t.destination
             /\ BothActive(t, account)
             /\ account[t.source].balance - t.total_source_debit >= MinI64
             /\ account[t.destination].balance + t.destination_amount <= MaxI64
             /\ t.reverses = r.original
             /\ t.kind = Scope(r)[2] /\ t.kind = "reversal"
             /\ t.initiated_by = r.client
<1> DEFINE o == transfer[r.original]
           t == ReversalOf(r, o)
<1>1. /\ r.op = "reverse" /\ r.original \in DOMAIN transfer
      /\ o.kind # "reversal" /\ ~Reversed(r.original)
      /\ ReversalAllowed(t, account) /\ Record(id, t) /\ Spend(r, id)
  BY DEF Reverse
<1>2. /\ o \in TransferRow
      /\ {o.source, o.destination} \subseteq DOMAIN account
      /\ o.source # o.destination
  BY <1>1 DEF TablesOK, IsTable
<1>3. t \in TransferRow
  BY <1>1, <1>2, ReversalOfType
<1>4. /\ t.source = o.destination /\ t.destination = o.source
      /\ t.reverses = r.original /\ t.kind = "reversal"
      /\ t.initiated_by = r.client
  BY DEF ReversalOf
<1>5. Scope(r)[2] = "reversal"
  BY <1>1 DEF Scope
<1> HIDE DEF o, t
<1>6. QED
  BY <1>1, <1>2, <1>3, <1>4, <1>5 DEF o, t, ReversalAllowed

\* One step of the atomic ledger keeps every column within its type.
LEMMA AtomicNextTablesOK ==
  ASSUME TablesOK, [AtomicNext]_atomicVars
  PROVE  TablesOK'
<1>1. ASSUME NEW r \in Requests, NEW a \in AccountId, CreateAccount(r, a)
      PROVE  TablesOK'
  <2>1. NewAccount(r) \in AccountRow
    <3>1. r \in CreateRequest
      BY <1>1, LedgerDataAssumption
      DEF LedgerDataAssumption, CreateAccount, CreateRequest,
          TransferRequest, ReverseRequest
    <3>2. r.amount \in I64
      BY <3>1, LedgerDataAssumption
      DEF LedgerDataAssumption, CreateRequest, I64, MinI64
    <3>3. QED
      BY <3>1, <3>2 DEF CreateRequest, NewAccount, AccountRow
  <2>2. /\ IsTable(account', AccountId, AccountRow)
        /\ DOMAIN account \subseteq DOMAIN account'
    <3>1. /\ account' = Insert(account, a, NewAccount(r))
          /\ IsTable(account, AccountId, AccountRow)
      BY <1>1 DEF TablesOK, CreateAccount
    <3>2. PICK row : row = NewAccount(r)
      OBVIOUS
    <3>3. IsTable(Insert(account, a, row), AccountId, AccountRow)
      BY <2>1, <3>1, <3>2, InsertIsTable
    <3>4. DOMAIN Insert(account, a, row) = DOMAIN account \cup {a}
      BY DEF Insert
    <3>5. QED
      BY <3>1, <3>2, <3>3, <3>4
  <2>3. IsTable(record', Scopes, RecordRow)
    BY <1>1, SpendType DEF CreateAccount, Resources
  <2>4. QED
    BY <1>1, <2>2, <2>3 DEF TablesOK, CreateAccount
<1>2. ASSUME NEW r \in Requests, NEW fx \in FxConfigs \cup {Parity},
             NEW id \in TransferId, Transfer(r, fx, id)
      PROVE  TablesOK'
  <2> DEFINE t == TransferOf(r, Kind(r), fx)
  <2>1. /\ t \in TransferRow /\ Record(id, t) /\ Spend(r, id)
        /\ {t.source, t.destination} \subseteq DOMAIN account
        /\ t.source # t.destination
        /\ account[t.source].balance - t.total_source_debit >= MinI64
        /\ account[t.destination].balance + t.destination_amount <= MaxI64
    BY <1>2, TransferStep
  <2> HIDE DEF t
  <2>2. IsTable(record', Scopes, RecordRow)
    BY <2>1, SpendType DEF Resources
  <2>3. replies' = replies
    BY <2>1 DEF Record
  <2>4. QED
    BY <2>1, <2>2, <2>3, RecordType DEF TablesOK
<1>3. ASSUME NEW r \in Requests, NEW id \in TransferId, Reverse(r, id)
      PROVE  TablesOK'
  <2> DEFINE t == ReversalOf(r, transfer[r.original])
  <2>1. /\ t \in TransferRow /\ Record(id, t) /\ Spend(r, id)
        /\ {t.source, t.destination} \subseteq DOMAIN account
        /\ t.source # t.destination
        /\ account[t.source].balance - t.total_source_debit >= MinI64
        /\ account[t.destination].balance + t.destination_amount <= MaxI64
    BY <1>3, ReverseStep
  <2> HIDE DEF t
  <2>2. IsTable(record', Scopes, RecordRow)
    BY <2>1, SpendType DEF Resources
  <2>3. replies' = replies
    BY <2>1 DEF Record
  <2>4. QED
    BY <2>1, <2>2, <2>3, RecordType DEF TablesOK
<1>4. ASSUME NEW a \in AccountId, SetStatus(a)
      PROVE  TablesOK'
  <2>1. \A row \in AccountRow :
          [row EXCEPT !.status = IF @ = "active" THEN "inactive"
                                 ELSE "active"] \in AccountRow
    BY DEF AccountRow
  <2>2. IsTable(account', AccountId, AccountRow) /\ DOMAIN account' = DOMAIN account
    BY <1>4, <2>1 DEF TablesOK, IsTable, SetStatus
  <2>3. QED
    BY <1>4, <2>2 DEF TablesOK, SetStatus
<1>5. ASSUME NEW s \in Scopes, Reply(s)
      PROVE  TablesOK'
  <2>1. record[s] \in RecordRow
    BY <1>5 DEF TablesOK, IsTable, Reply
  <2>2. [fingerprint |-> record[s].fingerprint, result |-> record[s].result]
          \in RecordRow
    BY <2>1 DEF RecordRow
  <2>3. QED
    BY <1>5, <2>2 DEF TablesOK, Reply
<1>6. CASE UNCHANGED atomicVars
  BY <1>6 DEF TablesOK, atomicVars
<1>7. QED
  BY <1>1, <1>2, <1>3, <1>4, <1>5, <1>6 DEF AtomicNext, Operate

\* Type correctness of the committed tables, balances within i64 included.
THEOREM AtomicTablesOK == AtomicSpec => []TablesOK
<1>1. AtomicInit => TablesOK
  BY LedgerDataAssumption
  DEF LedgerDataAssumption, AtomicInit, TablesOK, IsTable
<1>2. QED
  BY <1>1, AtomicNextTablesOK, PTL DEF AtomicSpec

(***************************************************************************)
(* Safety.                                                                 *)
(***************************************************************************)
\* A step either leaves the transfers alone or inserts one row, and a row that
\* reverses another reverses one that was neither a reversal nor reversed.
LEMMA TransfersStep ==
  ASSUME TablesOK, [AtomicNext]_atomicVars
  PROVE  \/ transfer' = transfer
         \/ \E r \in Requests, id \in TransferId :
              /\ DOMAIN transfer' = DOMAIN transfer \cup {id}
              /\ \A u \in DOMAIN transfer : u # id /\ transfer'[u] = transfer[u]
              /\ transfer'[id].kind = Scope(r)[2]
              /\ transfer'[id].initiated_by = r.client
              /\ transfer'[id].kind # "account_creation"
              /\ Spend(r, id) /\ DOMAIN account' = DOMAIN account
              /\ UNCHANGED replies
              /\ transfer'[id].reverses # NoTransfer =>
                   /\ transfer'[id].reverses \in DOMAIN transfer
                   /\ transfer[transfer'[id].reverses].kind # "reversal"
                   /\ ~Reversed(transfer'[id].reverses)
<1> DEFINE Inserted(r, id) ==
             /\ DOMAIN transfer' = DOMAIN transfer \cup {id}
             /\ \A u \in DOMAIN transfer : u # id /\ transfer'[u] = transfer[u]
             /\ transfer'[id].kind = Scope(r)[2]
             /\ transfer'[id].initiated_by = r.client
             /\ transfer'[id].kind # "account_creation"
             /\ Spend(r, id) /\ DOMAIN account' = DOMAIN account
             /\ UNCHANGED replies
             /\ transfer'[id].reverses # NoTransfer =>
                  /\ transfer'[id].reverses \in DOMAIN transfer
                  /\ transfer[transfer'[id].reverses].kind # "reversal"
                  /\ ~Reversed(transfer'[id].reverses)
<1> SUFFICES transfer' = transfer \/ \E r \in Requests, id \in TransferId : Inserted(r, id)
  OBVIOUS
<1>1. ASSUME NEW r \in Requests, NEW fx \in FxConfigs \cup {Parity},
             NEW id \in TransferId, Transfer(r, fx, id)
      PROVE  Inserted(r, id)
  <2> DEFINE t == TransferOf(r, Kind(r), fx)
  <2>1. /\ t \in TransferRow /\ Record(id, t) /\ Spend(r, id)
        /\ {t.source, t.destination} \subseteq DOMAIN account
        /\ t.source # t.destination
        /\ account[t.source].balance - t.total_source_debit >= MinI64
        /\ account[t.destination].balance + t.destination_amount <= MaxI64
        /\ t.reverses = NoTransfer
        /\ t.kind = Scope(r)[2] /\ t.kind # "account_creation"
        /\ t.initiated_by = r.client
    BY <1>1, TransferStep
  <2> HIDE DEF t
  <2>2. UNCHANGED replies
    BY <2>1 DEF Record
  <2>3. QED
    BY <2>1, <2>2, RecordType
<1>2. ASSUME NEW r \in Requests, NEW id \in TransferId, Reverse(r, id)
      PROVE  Inserted(r, id)
  <2> DEFINE t == ReversalOf(r, transfer[r.original])
  <2>1. /\ t \in TransferRow /\ Record(id, t) /\ Spend(r, id)
        /\ {t.source, t.destination} \subseteq DOMAIN account
        /\ t.source # t.destination
        /\ account[t.source].balance - t.total_source_debit >= MinI64
        /\ account[t.destination].balance + t.destination_amount <= MaxI64
        /\ t.kind = Scope(r)[2] /\ t.kind # "account_creation"
        /\ t.initiated_by = r.client
        /\ t.reverses = r.original /\ r.original \in DOMAIN transfer
        /\ transfer[r.original].kind # "reversal" /\ ~Reversed(r.original)
    BY <1>2, ReverseStep
  <2> HIDE DEF t
  <2>2. UNCHANGED replies
    BY <2>1 DEF Record
  <2>3. QED
    BY <2>1, <2>2, RecordType
<1> HIDE DEF Inserted
<1>3. CASE \E r \in Requests, fx \in FxConfigs \cup {Parity}, id \in TransferId :
             Transfer(r, fx, id)
  <2>1. PICK r \in Requests, fx \in FxConfigs \cup {Parity}, id \in TransferId :
               Transfer(r, fx, id)
    BY <1>3
  <2> QED
    BY <1>1, <2>1
<1>4. CASE \E r \in Requests, id \in TransferId : Reverse(r, id)
  <2>1. PICK r \in Requests, id \in TransferId : Reverse(r, id)
    BY <1>4
  <2> QED
    BY <1>2, <2>1
<1>5. CASE transfer' = transfer
  BY <1>5
<1>6. \/ transfer' = transfer
      \/ \E r \in Requests, fx \in FxConfigs \cup {Parity}, id \in TransferId :
           Transfer(r, fx, id)
      \/ \E r \in Requests, id \in TransferId : Reverse(r, id)
  BY Zenon DEF AtomicNext, Operate, CreateAccount, SetStatus, Reply, atomicVars
<1>7. QED
  BY ONLY <1>3, <1>4, <1>5, <1>6

\* reverse_transfer: however many reversals of a transfer are asked for, one at
\* most is made, and none of a reversal.
THEOREM AtomicAtMostOneReversal == AtomicSpec => []AtMostOneReversal
<1>1. AtomicInit => AtMostOneReversal
  BY DEF AtomicInit, AtMostOneReversal
<1>2. TablesOK /\ AtMostOneReversal /\ [AtomicNext]_atomicVars
        => AtMostOneReversal'
  <2> SUFFICES ASSUME TablesOK, AtMostOneReversal, [AtomicNext]_atomicVars
               PROVE  AtMostOneReversal'
    OBVIOUS
  <2>1. CASE transfer' = transfer
    BY <2>1 DEF AtMostOneReversal
  <2>2. ASSUME NEW id \in TransferId,
               DOMAIN transfer' = DOMAIN transfer \cup {id},
               \A u \in DOMAIN transfer :
                 u # id /\ transfer'[u] = transfer[u],
               transfer'[id].reverses # NoTransfer =>
                 /\ transfer'[id].reverses \in DOMAIN transfer
                 /\ transfer[transfer'[id].reverses].kind # "reversal"
                 /\ ~Reversed(transfer'[id].reverses)
        PROVE  AtMostOneReversal'
    BY <2>2 DEF AtMostOneReversal, Reversed
  <2>3. QED
    BY <2>1, <2>2, TransfersStep
<1>3. QED
  BY <1>1, <1>2, AtomicTablesOK, PTL DEF AtomicSpec

\* Idempotency: what a client has been told of a key stays what the key's record
\* says, whoever asks again and however often.
THEOREM AtomicRepliesAgree == AtomicSpec => []RepliesAgree
<1>1. AtomicInit => RepliesAgree
  BY DEF AtomicInit, RepliesAgree
<1>2. TablesOK /\ RepliesAgree /\ [AtomicNext]_atomicVars => RepliesAgree'
  <2> SUFFICES ASSUME TablesOK, RepliesAgree, [AtomicNext]_atomicVars
               PROVE  RepliesAgree'
    OBVIOUS
  <2>1. ASSUME NEW r \in Requests, NEW id \in Resources, Spend(r, id),
               UNCHANGED replies
        PROVE  RepliesAgree'
    <3>1. /\ DOMAIN record \subseteq DOMAIN record'
          /\ \A s \in DOMAIN record : record'[s] = record[s]
      BY <2>1, SpendType
    <3>2. QED
      BY <2>1, <3>1 DEF RepliesAgree
  <2>2. ASSUME NEW s \in Scopes, Reply(s)
        PROVE  RepliesAgree'
    <3>1. record[s] = [fingerprint |-> record[s].fingerprint,
                       result |-> record[s].result]
      BY <2>2 DEF TablesOK, IsTable, RecordRow, Reply
    <3>2. s \in DOMAIN record /\ UNCHANGED record
      BY <2>2 DEF Reply
    <3>3. ASSUME NEW p \in replies'
          PROVE  /\ p.scope \in DOMAIN record
                 /\ record[p.scope] = [fingerprint |-> p.fingerprint,
                                       result |-> p.result]
      <4>1. CASE p \in replies
        BY <4>1 DEF RepliesAgree
      <4>2. CASE p = [scope |-> s, fingerprint |-> record[s].fingerprint,
                      result |-> record[s].result]
        BY <3>1, <3>2, <4>2
      <4>3. QED
        BY <2>2, <4>1, <4>2 DEF Reply
    <3>4. QED
      BY <3>2, <3>3 DEF RepliesAgree
  <2>3. CASE UNCHANGED <<record, replies>>
    BY <2>3 DEF RepliesAgree
  <2>4. CASE \E r \in Requests, a \in AccountId : CreateAccount(r, a)
    BY <2>1, <2>4 DEF CreateAccount, Resources
  <2>5. CASE \E r \in Requests : \E id \in TransferId :
               \/ \E fx \in FxConfigs \cup {Parity} : Transfer(r, fx, id)
               \/ Reverse(r, id)
    BY <2>1, <2>5 DEF Transfer, Reverse, Record, Resources
  <2>6. QED
    BY <2>2, <2>3, <2>4, <2>5 DEF AtomicNext, Operate, SetStatus, atomicVars
<1>3. QED
  BY <1>1, <1>2, AtomicTablesOK, PTL DEF AtomicSpec

\* The status that counts is the one at the commit.
THEOREM AtomicInactiveAccountsAreFrozen ==
  AtomicSpec => InactiveAccountsAreFrozen
<1> DEFINE Frozen == \A a \in DOMAIN account : account[a].status = "inactive" =>
                       account'[a].balance = account[a].balance
<1>1. TablesOK /\ [AtomicNext]_atomicVars => [Frozen]_atomicVars
  <2> SUFFICES ASSUME TablesOK, AtomicNext
               PROVE  Frozen
    OBVIOUS
  <2>1. ASSUME NEW t \in TransferRow, NEW id \in TransferId, Record(id, t),
               BothActive(t, account),
               {t.source, t.destination} \subseteq DOMAIN account,
               t.source # t.destination,
               account[t.source].balance - t.total_source_debit >= MinI64,
               account[t.destination].balance + t.destination_amount <= MaxI64
        PROVE  Frozen
    <3>1. \A a \in DOMAIN account \ {t.source, t.destination} :
            account'[a] = account[a]
      BY <2>1, PostType DEF TablesOK, Record
    <3>2. QED
      BY <2>1, <3>1 DEF BothActive
  <2>2. ASSUME NEW r \in Requests, NEW fx \in FxConfigs \cup {Parity},
               NEW id \in TransferId, Transfer(r, fx, id)
        PROVE  Frozen
    <3> HIDE DEF Frozen
    <3>1. PICK t : t = TransferOf(r, Kind(r), fx)
      OBVIOUS
    <3>2. QED
      BY <2>1, <2>2, <3>1, TransferStep
  <2>3. ASSUME NEW r \in Requests, NEW id \in TransferId, Reverse(r, id)
        PROVE  Frozen
    <3> HIDE DEF Frozen
    <3>1. PICK t : t = ReversalOf(r, transfer[r.original])
      OBVIOUS
    <3>2. QED
      BY <2>1, <2>3, <3>1, ReverseStep
  <2>4. CASE \E r \in Requests, a \in AccountId : CreateAccount(r, a)
    BY <2>4 DEF CreateAccount, Insert
  <2>5. CASE \E a \in AccountId : SetStatus(a)
    BY <2>5 DEF SetStatus, TablesOK, IsTable, AccountRow
  <2>6. CASE \E s \in Scopes : Reply(s)
    BY <2>6 DEF Reply
  <2> HIDE DEF Frozen
  <2>7. QED
    BY <2>2, <2>3, <2>4, <2>5, <2>6 DEF AtomicNext, Operate
<1>2. QED
  BY <1>1, AtomicTablesOK, PTL DEF AtomicSpec, InactiveAccountsAreFrozen

\* An ordinary or FX transfer never takes more than the account has.
THEOREM AtomicOnlyReversalsOverdraw == AtomicSpec => OnlyReversalsOverdraw
<1> DEFINE Funded ==
      \A a \in DOMAIN account :
        account'[a].balance < account[a].balance /\ account'[a].balance < 0
          => \E t \in DOMAIN transfer' \ DOMAIN transfer :
               transfer'[t].kind = "reversal" /\ transfer'[t].source = a
<1>1. TablesOK /\ [AtomicNext]_atomicVars => [Funded]_atomicVars
  <2> SUFFICES ASSUME TablesOK, AtomicNext
               PROVE  Funded
    OBVIOUS
  <2>0. ASSUME NEW a \in DOMAIN account
        PROVE  account[a].balance \in Int
    BY LedgerDataAssumption
    DEF LedgerDataAssumption, TablesOK, IsTable, AccountRow, I64, MinI64
  <2>1. ASSUME NEW t \in TransferRow, NEW id \in TransferId, Record(id, t),
               {t.source, t.destination} \subseteq DOMAIN account,
               t.source # t.destination,
               account[t.source].balance - t.total_source_debit >= MinI64,
               account[t.destination].balance + t.destination_amount <= MaxI64,
               t.kind # "reversal" =>
                 account[t.source].balance >= t.total_source_debit
        PROVE  Funded
    <3>1. /\ t.total_source_debit \in Int /\ t.destination_amount \in Int
          /\ t.destination_amount > 0
      BY <2>1, LedgerDataAssumption DEF LedgerDataAssumption, TransferRow
    <3>2. /\ \A a \in DOMAIN account \ {t.source, t.destination} :
               account'[a] = account[a]
          /\ account'[t.source] =
               [account[t.source] EXCEPT
                 !.balance = account[t.source].balance - t.total_source_debit,
                 !.version = @ + 1]
          /\ account'[t.destination] =
               [account[t.destination] EXCEPT
                 !.balance = account[t.destination].balance
                               + t.destination_amount,
                 !.version = @ + 1]
      BY <2>1, PostType DEF TablesOK, Record
    <3>3. /\ account'[t.source].balance =
               account[t.source].balance - t.total_source_debit
          /\ account'[t.destination].balance =
               account[t.destination].balance + t.destination_amount
      <4>1. account[t.source] \in AccountRow /\ account[t.destination] \in AccountRow
        BY <2>1 DEF TablesOK, IsTable
      <4>2. QED
        BY <3>2, <4>1 DEF AccountRow
    <3>4. /\ id \in DOMAIN transfer' \ DOMAIN transfer
          /\ transfer'[id] = t
      BY <2>1 DEF Record, Insert
    <3>5. ASSUME NEW a \in DOMAIN account,
                 account'[a].balance < account[a].balance,
                 account'[a].balance < 0
          PROVE  t.kind = "reversal" /\ t.source = a
      <4>1. a = t.source
        <5>1. CASE a = t.destination
          BY <2>0, <3>1, <3>3, <3>5, <5>1
        <5>2. CASE a \notin {t.source, t.destination}
          <6>1. account'[a].balance = account[a].balance
            BY <3>2, <5>2
          <6>2. QED
            BY <2>0, <3>5, <6>1
        <5>3. QED
          BY <5>1, <5>2
      <4>2. QED
        BY <2>0, <2>1, <3>1, <3>3, <3>5, <4>1
    <3>6. QED
      BY <3>4, <3>5
  <2>2. ASSUME NEW r \in Requests, NEW fx \in FxConfigs \cup {Parity},
               NEW id \in TransferId, Transfer(r, fx, id)
        PROVE  Funded
    <3> HIDE DEF Funded
    <3>1. PICK t : t = TransferOf(r, Kind(r), fx)
      OBVIOUS
    <3>2. QED
      BY <2>1, <2>2, <3>1, TransferStep
  <2>3. ASSUME NEW r \in Requests, NEW id \in TransferId, Reverse(r, id)
        PROVE  Funded
    <3> HIDE DEF Funded
    <3>1. PICK t : t = ReversalOf(r, transfer[r.original])
      OBVIOUS
    <3>2. QED
      BY <2>1, <2>3, <3>1, ReverseStep
  <2>4. CASE \E r \in Requests, a \in AccountId : CreateAccount(r, a)
    <3>1. \A a \in DOMAIN account : account'[a] = account[a]
      BY <2>4 DEF CreateAccount, Insert
    <3>2. QED
      BY <2>0, <3>1
  <2>5. CASE \E a \in AccountId : SetStatus(a)
    <3>1. \A a \in DOMAIN account : account'[a].balance = account[a].balance
      BY <2>5 DEF SetStatus, TablesOK, IsTable, AccountRow
    <3>2. QED
      BY <2>0, <3>1
  <2>6. CASE \E s \in Scopes : Reply(s)
    BY <2>0, <2>6 DEF Reply
  <2> HIDE DEF Funded
  <2>7. QED
    BY <2>2, <2>3, <2>4, <2>5, <2>6 DEF AtomicNext, Operate
<1>2. QED
  BY <1>1, AtomicTablesOK, PTL DEF AtomicSpec, OnlyReversalsOverdraw

\* A key buys one effect and every effect has been bought: the transfers and the
\* opened accounts are, one for one, the results of the committed records.
THEOREM AtomicOneEffectPerKey == AtomicSpec => []OneEffectPerKey
<1>1. AtomicInit => OneEffectPerKey
  BY DEF AtomicInit, OneEffectPerKey
<1>2. TablesOK /\ OneEffectPerKey /\ [AtomicNext]_atomicVars => OneEffectPerKey'
  <2> SUFFICES ASSUME TablesOK, OneEffectPerKey, [AtomicNext]_atomicVars
               PROVE  OneEffectPerKey'
    OBVIOUS
  <2>1. ASSUME NEW r \in Requests, NEW id \in TransferId, Spend(r, id),
               DOMAIN transfer' = DOMAIN transfer \cup {id},
               \A u \in DOMAIN transfer :
                 u # id /\ transfer'[u] = transfer[u],
               transfer'[id].kind = Scope(r)[2],
               transfer'[id].initiated_by = r.client,
               transfer'[id].kind # "account_creation",
               DOMAIN account' = DOMAIN account
        PROVE  OneEffectPerKey'
    <3>1. /\ DOMAIN record' = DOMAIN record \cup {Scope(r)}
          /\ record'[Scope(r)].result = id
          /\ \A s \in DOMAIN record :
               s # Scope(r) /\ record'[s] = record[s]
      <4>1. id \in Resources /\ Spend(r, id)
        BY <2>1 DEF Resources
      <4>2. /\ DOMAIN record' = DOMAIN record \cup {Scope(r)}
            /\ record'[Scope(r)] = [fingerprint |-> Fingerprint(r),
                                    result |-> id]
            /\ \A s \in DOMAIN record :
                 s # Scope(r) /\ record'[s] = record[s]
        BY <4>1, SpendType
      <4>3. QED
        BY <4>2
    <3>2. \A s \in DOMAIN record : record[s].result # id
      BY <2>1, LedgerDataAssumption
      DEF LedgerDataAssumption, OneEffectPerKey, TablesOK, IsTable
    <3>3. Scope(r)[1] = r.client
      BY DEF Scope
    <3>4. QED
      BY <2>1, <3>1, <3>2, <3>3 DEF OneEffectPerKey
  <2>2. ASSUME NEW r \in Requests, NEW a \in AccountId, CreateAccount(r, a)
        PROVE  OneEffectPerKey'
    <3>1. /\ DOMAIN record' = DOMAIN record \cup {Scope(r)}
          /\ record'[Scope(r)].result = a
          /\ \A s \in DOMAIN record :
               s # Scope(r) /\ record'[s] = record[s]
      <4>1. a \in Resources /\ Spend(r, a)
        BY <2>2 DEF Resources, CreateAccount
      <4>2. /\ DOMAIN record' = DOMAIN record \cup {Scope(r)}
            /\ record'[Scope(r)] = [fingerprint |-> Fingerprint(r),
                                    result |-> a]
            /\ \A s \in DOMAIN record :
                 s # Scope(r) /\ record'[s] = record[s]
        BY <4>1, SpendType
      <4>3. QED
        BY <4>2
    <3>2. \A s \in DOMAIN record : record[s].result # a
      BY <2>2, LedgerDataAssumption
      DEF LedgerDataAssumption, OneEffectPerKey, TablesOK, IsTable, CreateAccount
    <3>3. /\ Scope(r)[2] = "account_creation" /\ UNCHANGED transfer
          /\ DOMAIN account' = DOMAIN account \cup {a} /\ a \notin DOMAIN account
      BY <2>2 DEF Scope, CreateAccount, Insert
    <3>4. /\ a \notin DOMAIN InitialAccounts
          /\ DOMAIN InitialAccounts \subseteq DOMAIN account'
      BY <3>3 DEF OneEffectPerKey
    <3>5. \A s1, s2 \in DOMAIN record' :
            record'[s1].result = record'[s2].result => s1 = s2
      BY <3>1, <3>2 DEF OneEffectPerKey
    <3>6. {record'[s].result : s \in {s \in DOMAIN record' :
                                         s[2] # "account_creation"}}
            = {record[s].result : s \in {s \in DOMAIN record :
                                           s[2] # "account_creation"}}
      BY <3>1, <3>3
    <3>7. {record'[s].result : s \in {s \in DOMAIN record' :
                                         s[2] = "account_creation"}}
            = {record[s].result : s \in {s \in DOMAIN record :
                                           s[2] = "account_creation"}} \cup {a}
      BY <3>1, <3>3
    <3>8. \A s \in DOMAIN record' : s[2] # "account_creation" =>
            /\ transfer'[record'[s].result].kind = s[2]
            /\ transfer'[record'[s].result].initiated_by = s[1]
      BY <3>1, <3>3 DEF OneEffectPerKey
    <3>9. QED
      BY <3>3, <3>4, <3>5, <3>6, <3>7, <3>8 DEF OneEffectPerKey
  <2>3. ASSUME UNCHANGED <<record, transfer>>, DOMAIN account' = DOMAIN account
        PROVE  OneEffectPerKey'
    BY <2>3 DEF OneEffectPerKey
  <2>4. CASE \E s \in Scopes : Reply(s)
    BY <2>3, <2>4 DEF Reply
  <2>5. CASE \E a \in AccountId : SetStatus(a)
    BY <2>3, <2>5 DEF SetStatus
  <2>6. CASE UNCHANGED atomicVars
    BY <2>3, <2>6 DEF atomicVars
  <2>7. CASE transfer' # transfer
    BY <2>1, <2>7, TransfersStep
  <2>8. ASSUME NEW r \in Requests, NEW id \in TransferId, NEW t, Record(id, t)
        PROVE  transfer' # transfer
    BY <2>8 DEF Record, Insert
  <2>9. QED
    BY <2>2, <2>4, <2>5, <2>6, <2>7, <2>8
    DEF AtomicNext, Operate, Transfer, Reverse
<1>3. QED
  BY <1>1, <1>2, AtomicTablesOK, PTL DEF AtomicSpec

(***************************************************************************)
(* The journal.  What entries add up to is a number of elements, so that   *)
(* the theorems on cardinalities give the sums.                            *)
(***************************************************************************)
Units(entries) == {unit \in entries \X (1 .. MaxI64) : unit[2] <= unit[1].amount}

LEMMA UnitsAreFinite ==
  ASSUME NEW E, IsFiniteSet(E)
  PROVE  IsFiniteSet(Units(E)) /\ Total(E) = Cardinality(Units(E)) /\ Total(E) \in Nat
<1>1. IsFiniteSet(1 .. MaxI64)
  BY LedgerDataAssumption, FS_Interval DEF LedgerDataAssumption
<1>2. IsFiniteSet(E \X (1 .. MaxI64))
  BY <1>1, FS_Product
<1>3. Units(E) \in SUBSET (E \X (1 .. MaxI64))
  BY DEF Units
<1>4. IsFiniteSet(Units(E))
  BY <1>2, <1>3, FS_Subset
<1> QED
  BY <1>4, FS_CardinalityType DEF Total, Units

LEMMA TotalOfNone == Total({}) = 0
<1>1. Units({}) = {}
  BY DEF Units
<1> QED
  BY <1>1, FS_EmptySet DEF Total, Units

\* One entry adds up to its amount.
LEMMA TotalOfOne ==
  ASSUME NEW e \in EntryRow
  PROVE  Cardinality(Units({e})) = e.amount
<1>1. e.amount \in 1 .. MaxI64 /\ MaxI64 \in Nat
  BY LedgerDataAssumption DEF LedgerDataAssumption, EntryRow
<1>2. Units({e}) = {e} \X (1 .. e.amount)
  BY <1>1 DEF Units
<1>3. IsFiniteSet({e}) /\ Cardinality({e}) = 1
  BY FS_Singleton
<1>4. IsFiniteSet(1 .. e.amount) /\ Cardinality(1 .. e.amount) = e.amount
  BY <1>1, FS_Interval
<1> DEFINE S == {e}
           T == 1 .. e.amount
<1>5. /\ IsFiniteSet(S) /\ Cardinality(S) = 1 /\ IsFiniteSet(T) /\ Cardinality(T) = e.amount
      /\ Units({e}) = S \X T
  BY <1>2, <1>3, <1>4
<1> HIDE DEF S, T
<1>6. Cardinality(S \X T) = 1 * e.amount
  BY <1>5, FS_Product
<1>7. 1 * e.amount = e.amount
  BY <1>1
<1> QED
  BY <1>5, <1>6, <1>7

\* One entry more adds its amount to the sum.
LEMMA TotalWithOne ==
  ASSUME NEW E, IsFiniteSet(E), NEW e \in EntryRow, e \notin E
  PROVE  Total(E \cup {e}) = Total(E) + e.amount
<1>1. /\ IsFiniteSet(Units(E)) /\ Total(E) = Cardinality(Units(E))
      /\ Total(E) \in Nat
  BY UnitsAreFinite
<1>2. IsFiniteSet(Units({e})) /\ Cardinality(Units({e})) = e.amount
  BY TotalOfOne, UnitsAreFinite, FS_Singleton
<1>3. Units(E \cup {e}) = Units(E) \cup Units({e})
  BY DEF Units
<1>4. Units(E) \cap Units({e}) = {}
  BY DEF Units
<1>5. Cardinality(Units(E) \cup Units({e}))
        = Cardinality(Units(E)) + Cardinality(Units({e}))
            - Cardinality(Units(E) \cap Units({e}))
  BY <1>1, <1>2, FS_Union
<1>6. e.amount \in Int /\ Cardinality(Units(E) \cap Units({e})) = 0
  <2>1. e.amount \in Int
    BY LedgerDataAssumption DEF LedgerDataAssumption, EntryRow
  <2> QED
    BY <1>4, <2>1, FS_EmptySet
<1>7. Total(E \cup {e}) = Cardinality(Units(E \cup {e}))
  BY DEF Total, Units
<1>8. Total(E \cup {e}) = Total(E) + e.amount - 0
  BY <1>1, <1>2, <1>3, <1>5, <1>6, <1>7
<1> QED
  BY <1>1, <1>6, <1>8


Debit(id, t) ==
  [account |-> t.source, transfer |-> id, counterparty |-> t.destination,
   direction |-> "debit", operation_kind |-> t.kind, amount |-> t.total_source_debit]

Credit(id, t) ==
  [account |-> t.destination, transfer |-> id, counterparty |-> t.source,
   direction |-> "credit", operation_kind |-> t.kind, amount |-> t.destination_amount]

\* The debit and the credit that a transfer leaves in the journal.
LEMMA EntriesAre ==
  ASSUME NEW id \in TransferId, NEW t \in TransferRow
  PROVE  /\ EntriesOf(id, t) = {Debit(id, t), Credit(id, t)}
         /\ Debit(id, t) \in EntryRow /\ Credit(id, t) \in EntryRow
         /\ Debit(id, t).direction = "debit" /\ Credit(id, t).direction = "credit"
         /\ Debit(id, t).account = t.source /\ Credit(id, t).account = t.destination
         /\ Debit(id, t).transfer = id /\ Credit(id, t).transfer = id
         /\ Debit(id, t).amount = t.total_source_debit
         /\ Credit(id, t).amount = t.destination_amount
<1>1. EntriesOf(id, t) = {Debit(id, t), Credit(id, t)}
  BY DEF EntriesOf, Debit, Credit
<1>2. Debit(id, t) \in EntryRow /\ Credit(id, t) \in EntryRow
  BY <1>1, EntriesOfType
<1> QED
  BY <1>1, <1>2 DEF Debit, Credit

\* t, under the new id, is what the next state's tables take, and if it is a reversal
\* it is the inverse of the transfer it reverses.
Posting(id, t) ==
  /\ t \in TransferRow /\ Record(id, t)
  /\ {t.source, t.destination} \subseteq DOMAIN account /\ t.source # t.destination
  /\ account[t.source].balance - t.total_source_debit >= MinI64
  /\ account[t.destination].balance + t.destination_amount <= MaxI64
  /\ t.reverses # NoTransfer =>
       /\ t.reverses \in DOMAIN transfer
       /\ LET o == transfer[t.reverses] IN
          /\ t.source = o.destination /\ t.destination = o.source
          /\ t.total_source_debit = o.destination_amount
          /\ t.destination_amount = o.total_source_debit

\* Money moves by postings only: the other steps leave the journal, and the balance and
\* version of every account there is, and open accounts that have had no entry.
LEMMA StepsPost ==
  ASSUME TablesOK, [AtomicNext]_atomicVars
  PROVE  \/ \E id \in TransferId, t \in TransferRow : Posting(id, t)
         \/ /\ UNCHANGED <<transfer, entry>>
            /\ \A a \in DOMAIN account' :
                 IF a \in DOMAIN account
                 THEN /\ account'[a].balance = account[a].balance
                      /\ account'[a].version = account[a].version
                      /\ account'[a].opening = account[a].opening
                 ELSE account'[a].balance = account'[a].opening /\ account'[a].version = 0
<1> DEFINE Quietly ==
      /\ UNCHANGED <<transfer, entry>>
      /\ \A a \in DOMAIN account' :
           IF a \in DOMAIN account
           THEN /\ account'[a].balance = account[a].balance
                /\ account'[a].version = account[a].version
                /\ account'[a].opening = account[a].opening
           ELSE account'[a].balance = account'[a].opening /\ account'[a].version = 0
<1>1. ASSUME NEW r \in Requests, NEW fx \in FxConfigs \cup {Parity},
             NEW id \in TransferId, Transfer(r, fx, id)
      PROVE  Posting(id, TransferOf(r, Kind(r), fx))
  BY <1>1, TransferStep DEF Posting
<1>2. ASSUME NEW r \in Requests, NEW id \in TransferId, Reverse(r, id)
      PROVE  Posting(id, ReversalOf(r, transfer[r.original]))
  <2>1. PICK t : t = ReversalOf(r, transfer[r.original])
    OBVIOUS
  <2>2. /\ t.source = transfer[r.original].destination
        /\ t.destination = transfer[r.original].source
        /\ t.total_source_debit = transfer[r.original].destination_amount
        /\ t.destination_amount = transfer[r.original].total_source_debit
    BY <2>1 DEF ReversalOf
  <2> QED
    BY <1>2, <2>1, <2>2, ReverseStep DEF Posting
<1>3. ASSUME NEW r \in Requests, NEW a \in AccountId, CreateAccount(r, a)
      PROVE  Quietly
  BY <1>3 DEF CreateAccount, Insert, NewAccount
<1>4. ASSUME NEW a \in AccountId, SetStatus(a)
      PROVE  Quietly
  BY <1>4 DEF SetStatus, TablesOK, IsTable, AccountRow
<1>5. ASSUME NEW s \in Scopes, Reply(s)
      PROVE  Quietly
  BY <1>5 DEF Reply
<1>6. ASSUME UNCHANGED atomicVars
      PROVE  Quietly
  BY <1>6 DEF atomicVars
<1>7. CASE \E r \in Requests, fx \in FxConfigs \cup {Parity}, id \in TransferId :
             Transfer(r, fx, id)
  <2>1. PICK r \in Requests, fx \in FxConfigs \cup {Parity}, id \in TransferId :
               Transfer(r, fx, id)
    BY <1>7
  <2>2. Posting(id, TransferOf(r, Kind(r), fx))
    BY <1>1, <2>1
  <2> QED
    BY <2>2 DEF Posting
<1>8. CASE \E r \in Requests, id \in TransferId : Reverse(r, id)
  <2>1. PICK r \in Requests, id \in TransferId : Reverse(r, id)
    BY <1>8
  <2>2. Posting(id, ReversalOf(r, transfer[r.original]))
    BY <1>2, <2>1
  <2> QED
    BY <2>2 DEF Posting
<1> HIDE DEF Quietly
<1>9. \/ UNCHANGED atomicVars
      \/ \E r \in Requests, a \in AccountId : CreateAccount(r, a)
      \/ \E a \in AccountId : SetStatus(a)
      \/ \E s \in Scopes : Reply(s)
      \/ \E r \in Requests, fx \in FxConfigs \cup {Parity}, id \in TransferId :
           Transfer(r, fx, id)
      \/ \E r \in Requests, id \in TransferId : Reverse(r, id)
  BY Zenon DEF AtomicNext, Operate
<1>10. CASE \/ \E r \in Requests, a \in AccountId : CreateAccount(r, a)
            \/ \E a \in AccountId : SetStatus(a)
            \/ \E s \in Scopes : Reply(s)
            \/ UNCHANGED atomicVars
  <2>1. Quietly
    BY <1>3, <1>4, <1>5, <1>6, <1>10
  <2> QED
    BY <2>1 DEF Quietly
<1> QED
  BY <1>7, <1>8, <1>9, <1>10

\* What a posting does to the journal: it takes two new entries.
LEMMA PostingEntries ==
  ASSUME TablesOK, JournalOK, NEW id \in TransferId, NEW t \in TransferRow, Posting(id, t)
  PROVE  /\ entry' = entry \cup {Debit(id, t), Credit(id, t)}
         /\ Debit(id, t) \notin entry /\ Credit(id, t) \notin entry
         /\ id \notin DOMAIN transfer /\ transfer' = Insert(transfer, id, t)
<1>1. /\ id \notin DOMAIN transfer /\ transfer' = Insert(transfer, id, t)
      /\ entry' = entry \cup EntriesOf(id, t)
  BY DEF Posting, Record
<1>2. ASSUME NEW e \in entry
      PROVE  e.transfer \in DOMAIN transfer
  <2>1. PICK u \in DOMAIN transfer : e \in EntriesOf(u, transfer[u])
    BY DEF JournalOK
  <2>2. u \in TransferId /\ transfer[u] \in TransferRow
    BY DEF TablesOK, IsTable
  <2> QED
    BY <2>1, <2>2, EntriesAre
<1> QED
  BY <1>1, <1>2, EntriesAre

\* The journal is the transfers' entries, and reversals are inverses.
LEMMA AtomicNextJournalOK ==
  ASSUME TablesOK, JournalOK, [AtomicNext]_atomicVars
  PROVE  JournalOK'
<1>1. ASSUME NEW id \in TransferId, NEW t \in TransferRow, Posting(id, t)
      PROVE  JournalOK'
  <2>1. /\ entry' = entry \cup {Debit(id, t), Credit(id, t)}
        /\ id \notin DOMAIN transfer /\ transfer' = Insert(transfer, id, t)
    BY <1>1, PostingEntries
  <2>2. /\ DOMAIN transfer' = DOMAIN transfer \cup {id} /\ transfer'[id] = t
        /\ \A u \in DOMAIN transfer : transfer'[u] = transfer[u]
    BY <2>1 DEF Insert
  <2>3. IsFiniteSet(entry')
    <3>1. IsFiniteSet(entry)
      BY DEF JournalOK
    <3>2. IsFiniteSet(entry \cup {Debit(id, t)})
      BY <3>1, FS_AddElement
    <3>3. IsFiniteSet((entry \cup {Debit(id, t)}) \cup {Credit(id, t)})
      BY <3>2, FS_AddElement
    <3>4. (entry \cup {Debit(id, t)}) \cup {Credit(id, t)} = entry'
      BY <2>1
    <3> QED
      BY <3>3, <3>4
  <2>4. entry' = UNION {EntriesOf(u, transfer'[u]) : u \in DOMAIN transfer'}
    <3>1. EntriesOf(id, t) = {Debit(id, t), Credit(id, t)}
      BY EntriesAre
    <3>2. entry = UNION {EntriesOf(u, transfer[u]) : u \in DOMAIN transfer}
      BY DEF JournalOK
    <3>3. UNION {EntriesOf(u, transfer'[u]) : u \in DOMAIN transfer'}
            = (UNION {EntriesOf(u, transfer[u]) : u \in DOMAIN transfer}) \cup EntriesOf(id, t)
      BY <2>2
    <3> QED
      BY <2>1, <3>1, <3>2, <3>3
  <2>5. ASSUME NEW u \in DOMAIN transfer', transfer'[u].reverses # NoTransfer
        PROVE  /\ transfer'[u].reverses \in DOMAIN transfer'
               /\ LET o == transfer'[transfer'[u].reverses] IN
                  /\ transfer'[u].source = o.destination
                  /\ transfer'[u].destination = o.source
                  /\ transfer'[u].total_source_debit = o.destination_amount
                  /\ transfer'[u].destination_amount = o.total_source_debit
    <3>1. CASE u = id
      BY <1>1, <2>2, <2>5, <3>1 DEF Posting
    <3>2. CASE u \in DOMAIN transfer
      BY <2>2, <2>5, <3>2 DEF JournalOK
    <3> QED
      BY <2>2, <3>1, <3>2
  <2> QED
    BY <2>3, <2>4, <2>5 DEF JournalOK
<1>2. CASE UNCHANGED <<transfer, entry>>
  BY <1>2 DEF JournalOK
<1> QED
  BY <1>1, <1>2, StepsPost

\* Nothing is entered but what a transfer posts.
THEOREM AtomicJournalOK == AtomicSpec => []JournalOK
<1>1. AtomicInit => JournalOK
  BY FS_EmptySet DEF AtomicInit, JournalOK
<1>2. QED
  BY <1>1, AtomicNextJournalOK, AtomicTablesOK, PTL DEF AtomicSpec

\* What a posting does to the entries and to the row of one account.
LEMMA PostingAccount ==
  ASSUME TablesOK, JournalOK, NEW id \in TransferId, NEW t \in TransferRow, Posting(id, t),
         NEW a \in DOMAIN account
  PROVE  /\ DOMAIN account' = DOMAIN account /\ account'[a].opening = account[a].opening
         /\ EntriesFor(a, "debit")' =
              EntriesFor(a, "debit") \cup (IF a = t.source THEN {Debit(id, t)} ELSE {})
         /\ EntriesFor(a, "credit")' =
              EntriesFor(a, "credit") \cup (IF a = t.destination THEN {Credit(id, t)} ELSE {})
         /\ account'[a].balance = account[a].balance
              - (IF a = t.source THEN t.total_source_debit ELSE 0)
              + (IF a = t.destination THEN t.destination_amount ELSE 0)
         /\ account'[a].version = account[a].version
              + (IF a = t.source \/ a = t.destination THEN 1 ELSE 0)
<1>1. /\ DOMAIN account' = DOMAIN account
      /\ \A b \in DOMAIN account \ {t.source, t.destination} : account'[b] = account[b]
      /\ account'[t.source] =
           [account[t.source] EXCEPT
              !.balance = account[t.source].balance - t.total_source_debit,
              !.version = @ + 1]
      /\ account'[t.destination] =
           [account[t.destination] EXCEPT
              !.balance = account[t.destination].balance + t.destination_amount,
              !.version = @ + 1]
  BY PostType DEF TablesOK, Posting, Record
<1>2. /\ account[a] \in AccountRow /\ t.source # t.destination
      /\ account[t.source] \in AccountRow /\ account[t.destination] \in AccountRow
  BY DEF TablesOK, IsTable, Posting
<1>3. /\ account[a].balance \in Int /\ account[a].version \in Nat
      /\ t.total_source_debit \in Int /\ t.destination_amount \in Int
  BY <1>2, LedgerDataAssumption
  DEF LedgerDataAssumption, AccountRow, TransferRow, I64, MinI64
<1>4. entry' = entry \cup {Debit(id, t), Credit(id, t)}
  BY PostingEntries
<1>5. /\ EntriesFor(a, "debit")' =
           EntriesFor(a, "debit") \cup (IF a = t.source THEN {Debit(id, t)} ELSE {})
      /\ EntriesFor(a, "credit")' =
           EntriesFor(a, "credit") \cup (IF a = t.destination THEN {Credit(id, t)} ELSE {})
  BY <1>4, EntriesAre DEF EntriesFor
<1>6. CASE a = t.source
  <2>1. /\ account'[a].balance = account[a].balance - t.total_source_debit
        /\ account'[a].version = account[a].version + 1
        /\ account'[a].opening = account[a].opening
    BY <1>1, <1>2, <1>6 DEF AccountRow
  <2> QED
    BY <1>1, <1>2, <1>3, <1>5, <1>6, <2>1
<1>7. CASE a = t.destination
  <2>1. /\ account'[a].balance = account[a].balance + t.destination_amount
        /\ account'[a].version = account[a].version + 1
        /\ account'[a].opening = account[a].opening
    BY <1>1, <1>2, <1>7 DEF AccountRow
  <2> QED
    BY <1>1, <1>2, <1>3, <1>5, <1>7, <2>1
<1>8. CASE a # t.source /\ a # t.destination
  BY <1>1, <1>3, <1>5, <1>8
<1> QED
  BY <1>6, <1>7, <1>8

\* An account's entries, one way and the other, with or without one more.
LEMMA EntriesForAre ==
  ASSUME TablesOK, JournalOK, NEW a, NEW d
  PROVE  /\ EntriesFor(a, d) \subseteq entry /\ IsFiniteSet(EntriesFor(a, d))
         /\ Total(EntriesFor(a, d)) \in Nat /\ Cardinality(EntriesFor(a, d)) \in Nat
         /\ \A e \in EntryRow : e \notin entry =>
              /\ Total(EntriesFor(a, d) \cup {e}) = Total(EntriesFor(a, d)) + e.amount
              /\ Cardinality(EntriesFor(a, d) \cup {e}) = Cardinality(EntriesFor(a, d)) + 1
<1> DEFINE E == EntriesFor(a, d)
<1>1. E \in SUBSET entry /\ IsFiniteSet(entry)
  BY DEF EntriesFor, JournalOK
<1> HIDE DEF E
<1>2. IsFiniteSet(E)
  BY <1>1, FS_Subset
<1>3. Total(E) \in Nat /\ Cardinality(E) \in Nat
  BY <1>2, UnitsAreFinite, FS_CardinalityType
<1>4. ASSUME NEW e \in EntryRow, e \notin entry
      PROVE  /\ Total(E \cup {e}) = Total(E) + e.amount
             /\ Cardinality(E \cup {e}) = Cardinality(E) + 1
  <2>1. e \notin E
    BY <1>1, <1>4
  <2>2. Total(E \cup {e}) = Total(E) + e.amount
    BY <1>2, <1>4, <2>1, TotalWithOne
  <2>3. Cardinality(E \cup {e}) = Cardinality(E) + 1
    BY <1>2, <2>1, FS_AddElement
  <2> QED
    BY <2>2, <2>3
<1> QED
  BY <1>1, <1>2, <1>3, <1>4 DEF E

\* An account that is not there has no entries.
LEMMA NoEntriesYet ==
  ASSUME TablesOK, JournalOK, NEW a, a \notin DOMAIN account, NEW d
  PROVE  EntriesFor(a, d) = {}
<1>1. ASSUME NEW e \in entry
      PROVE  e.account \in DOMAIN account
  <2>1. PICK u \in DOMAIN transfer : e \in EntriesOf(u, transfer[u])
    BY DEF JournalOK
  <2>2. /\ u \in TransferId /\ transfer[u] \in TransferRow
        /\ {transfer[u].source, transfer[u].destination} \subseteq DOMAIN account
    BY DEF TablesOK, IsTable
  <2> QED
    BY <2>1, <2>2, EntriesAre
<1> QED
  BY <1>1 DEF EntriesFor

\* Every balance is the opening balance and what the journal says of the account, and
\* the version tells how many entries it has: no balance UPDATE is lost or doubled.
THEOREM AtomicBalancesMatchEntries == AtomicSpec => []BalancesMatchEntries
<1> DEFINE Matches(a) ==
      /\ account[a].balance = account[a].opening + Total(EntriesFor(a, "credit"))
                                - Total(EntriesFor(a, "debit"))
      /\ account[a].version = Cardinality(EntriesFor(a, "credit"))
                                + Cardinality(EntriesFor(a, "debit"))
<1>1. BalancesMatchEntries <=> \A a \in DOMAIN account : Matches(a)
  BY DEF BalancesMatchEntries
<1>2. ASSUME NEW row \in AccountRow, row.balance = row.opening, row.version = 0
      PROVE  /\ row.balance = row.opening + Total({}) - Total({})
             /\ row.version = Cardinality({}) + Cardinality({})
  <2>1. row.opening \in Int
    BY LedgerDataAssumption DEF LedgerDataAssumption, AccountRow, I64, MinI64
  <2>2. Total({}) = 0 /\ Cardinality({}) = 0
    BY TotalOfNone, FS_EmptySet
  <2> QED
    BY <1>2, <2>1, <2>2
<1>3. AtomicInit => BalancesMatchEntries
  <2> SUFFICES ASSUME AtomicInit, NEW a \in DOMAIN account
               PROVE  Matches(a)
    BY <1>1
  <2>1. /\ account[a] \in AccountRow /\ account[a].balance = account[a].opening
        /\ account[a].version = 0
    BY LedgerDataAssumption DEF LedgerDataAssumption, AtomicInit, IsTable
  <2>2. EntriesFor(a, "credit") = {} /\ EntriesFor(a, "debit") = {}
    BY DEF AtomicInit, EntriesFor
  <2> QED
    BY <1>2, <2>1, <2>2
<1>4. ASSUME TablesOK, TablesOK', JournalOK, BalancesMatchEntries, [AtomicNext]_atomicVars
      PROVE  BalancesMatchEntries'
  <2>1. ASSUME NEW id \in TransferId, NEW t \in TransferRow, Posting(id, t),
               NEW a \in DOMAIN account'
        PROVE  Matches(a)'
    <3>1. /\ a \in DOMAIN account /\ account'[a].opening = account[a].opening
          /\ EntriesFor(a, "debit")' =
               EntriesFor(a, "debit") \cup (IF a = t.source THEN {Debit(id, t)} ELSE {})
          /\ EntriesFor(a, "credit")' =
               EntriesFor(a, "credit")
                 \cup (IF a = t.destination THEN {Credit(id, t)} ELSE {})
          /\ account'[a].balance = account[a].balance
               - (IF a = t.source THEN t.total_source_debit ELSE 0)
               + (IF a = t.destination THEN t.destination_amount ELSE 0)
          /\ account'[a].version = account[a].version
               + (IF a = t.source \/ a = t.destination THEN 1 ELSE 0)
      <4>1. PICK b \in DOMAIN account : TRUE
        BY <2>1 DEF Posting
      <4>2. DOMAIN account' = DOMAIN account
        BY <1>4, <2>1, <4>1, PostingAccount
      <4> QED
        BY <1>4, <2>1, <4>2, PostingAccount
    <3>2. Matches(a)
      BY <1>1, <1>4, <3>1
    <3>3. /\ t.source # t.destination
          /\ t.total_source_debit \in Nat /\ t.destination_amount \in Nat
      BY <2>1, LedgerDataAssumption DEF LedgerDataAssumption, Posting, TransferRow
    <3>4. /\ account[a].opening \in Int /\ account[a].balance \in Int
          /\ account[a].version \in Int
          /\ \A d \in {"debit", "credit"} : /\ Total(EntriesFor(a, d)) \in Nat
                                            /\ Cardinality(EntriesFor(a, d)) \in Nat
      <4>1. account[a] \in AccountRow
        BY <1>4, <3>1 DEF TablesOK, IsTable
      <4>2. /\ account[a].opening \in Int /\ account[a].balance \in Int
            /\ account[a].version \in Int
        BY <4>1, LedgerDataAssumption DEF LedgerDataAssumption, AccountRow, I64, MinI64
      <4> QED
        BY <1>4, <4>2, EntriesForAre
    <3>5. /\ Debit(id, t) \in EntryRow /\ Debit(id, t) \notin entry
          /\ Credit(id, t) \in EntryRow /\ Credit(id, t) \notin entry
          /\ Debit(id, t).amount = t.total_source_debit
          /\ Credit(id, t).amount = t.destination_amount
      BY <1>4, <2>1, PostingEntries, EntriesAre
    <3>6. /\ Total(EntriesFor(a, "debit") \cup {Debit(id, t)})
               = Total(EntriesFor(a, "debit")) + t.total_source_debit
          /\ Cardinality(EntriesFor(a, "debit") \cup {Debit(id, t)})
               = Cardinality(EntriesFor(a, "debit")) + 1
          /\ Total(EntriesFor(a, "credit") \cup {Credit(id, t)})
               = Total(EntriesFor(a, "credit")) + t.destination_amount
          /\ Cardinality(EntriesFor(a, "credit") \cup {Credit(id, t)})
               = Cardinality(EntriesFor(a, "credit")) + 1
      BY <1>4, <3>5, EntriesForAre
    <3>7. CASE a = t.source
      <4>1. /\ Total(EntriesFor(a, "debit"))' = Total(EntriesFor(a, "debit"))
                                                  + t.total_source_debit
            /\ Cardinality(EntriesFor(a, "debit"))' = Cardinality(EntriesFor(a, "debit")) + 1
            /\ Total(EntriesFor(a, "credit"))' = Total(EntriesFor(a, "credit"))
            /\ Cardinality(EntriesFor(a, "credit"))' = Cardinality(EntriesFor(a, "credit"))
        BY <3>1, <3>3, <3>6, <3>7
      <4>2. /\ account'[a].balance = account[a].balance - t.total_source_debit
            /\ account'[a].version = account[a].version + 1
        BY <3>1, <3>2, <3>3, <3>4, <3>7
      <4> QED
        BY <3>1, <3>2, <3>3, <3>4, <4>1, <4>2
    <3>8. CASE a = t.destination
      <4>1. /\ Total(EntriesFor(a, "credit"))' = Total(EntriesFor(a, "credit"))
                                                   + t.destination_amount
            /\ Cardinality(EntriesFor(a, "credit"))'
                 = Cardinality(EntriesFor(a, "credit")) + 1
            /\ Total(EntriesFor(a, "debit"))' = Total(EntriesFor(a, "debit"))
            /\ Cardinality(EntriesFor(a, "debit"))' = Cardinality(EntriesFor(a, "debit"))
        BY <3>1, <3>3, <3>6, <3>8
      <4>2. /\ account'[a].balance = account[a].balance + t.destination_amount
            /\ account'[a].version = account[a].version + 1
        BY <3>1, <3>2, <3>3, <3>4, <3>8
      <4> QED
        BY <3>1, <3>2, <3>3, <3>4, <4>1, <4>2
    <3>9. CASE a # t.source /\ a # t.destination
      <4>1. /\ EntriesFor(a, "debit")' = EntriesFor(a, "debit")
            /\ EntriesFor(a, "credit")' = EntriesFor(a, "credit")
        BY <3>1, <3>9
      <4>2. /\ account'[a].balance = account[a].balance
            /\ account'[a].version = account[a].version
        BY <3>1, <3>4, <3>9
      <4> QED
        BY <3>1, <3>2, <4>1, <4>2
    <3> QED
      BY <3>7, <3>8, <3>9
  <2>2. ASSUME UNCHANGED <<transfer, entry>>, NEW a \in DOMAIN account',
               IF a \in DOMAIN account
               THEN /\ account'[a].balance = account[a].balance
                    /\ account'[a].version = account[a].version
                    /\ account'[a].opening = account[a].opening
               ELSE account'[a].balance = account'[a].opening /\ account'[a].version = 0
        PROVE  Matches(a)'
    <3>1. /\ EntriesFor(a, "debit")' = EntriesFor(a, "debit")
          /\ EntriesFor(a, "credit")' = EntriesFor(a, "credit")
      BY <2>2 DEF EntriesFor
    <3>2. CASE a \in DOMAIN account
      BY <1>1, <1>4, <2>2, <3>1, <3>2
    <3>3. CASE a \notin DOMAIN account
      <4>1. EntriesFor(a, "debit") = {} /\ EntriesFor(a, "credit") = {}
        BY <1>4, <3>3, NoEntriesYet
      <4>2. account'[a] \in AccountRow
        BY <1>4, <2>2 DEF TablesOK, IsTable
      <4> QED
        BY <1>2, <2>2, <3>1, <3>3, <4>1, <4>2
    <3> QED
      BY <3>2, <3>3
  <2>3. BalancesMatchEntries' <=> \A a \in DOMAIN account' : Matches(a)'
    BY DEF BalancesMatchEntries
  <2> HIDE DEF Matches
  <2> QED
    BY <1>4, <2>1, <2>2, <2>3, StepsPost
<1> HIDE DEF Matches
<1>5. QED
  BY <1>3, <1>4, AtomicTablesOK, AtomicJournalOK, PTL DEF AtomicSpec

\* A transfer and its reversal have four entries, two for each account, which cancel.
THEOREM AtomicReversalNetsToZero == AtomicSpec => []ReversalNetsToZero
<1>1. ASSUME TablesOK, JournalOK, NEW t \in DOMAIN transfer,
             transfer[t].reverses # NoTransfer, NEW a \in AccountId
      PROVE  LET pair(d) == {e \in EntriesFor(a, d) :
                               e.transfer \in {t, transfer[t].reverses}}
             IN  Total(pair("credit")) = Total(pair("debit"))
  <2> DEFINE o == transfer[t].reverses
             pair(d) == {e \in EntriesFor(a, d) : e.transfer \in {t, o}}
             T == transfer[t]
             O == transfer[o]
  <2>1. /\ o \in DOMAIN transfer /\ T.source = O.destination /\ T.destination = O.source
        /\ T.total_source_debit = O.destination_amount
        /\ T.destination_amount = O.total_source_debit
    BY <1>1 DEF JournalOK
  <2>2. /\ t \in TransferId /\ o \in TransferId /\ T \in TransferRow /\ O \in TransferRow
        /\ O.source # O.destination
    BY <1>1, <2>1 DEF TablesOK, IsTable
  <2> HIDE DEF o
  <2>3. ASSUME NEW e
        PROVE  e \in entry /\ e.transfer \in {t, o}
                 <=> e \in {Debit(t, T), Credit(t, T), Debit(o, O), Credit(o, O)}
    <3>1. entry = UNION {EntriesOf(u, transfer[u]) : u \in DOMAIN transfer}
      BY <1>1 DEF JournalOK
    <3>2. ASSUME NEW u \in DOMAIN transfer, e \in EntriesOf(u, transfer[u])
          PROVE  e.transfer = u
      <4>1. u \in TransferId /\ transfer[u] \in TransferRow
        BY <1>1 DEF TablesOK, IsTable
      <4> QED
        BY <3>2, <4>1, EntriesAre
    <3>3. /\ EntriesOf(t, T) = {Debit(t, T), Credit(t, T)}
          /\ EntriesOf(o, O) = {Debit(o, O), Credit(o, O)}
          /\ Debit(t, T).transfer = t /\ Credit(t, T).transfer = t
          /\ Debit(o, O).transfer = o /\ Credit(o, O).transfer = o
      BY <2>2, EntriesAre
    <3> QED
      BY <2>1, <3>1, <3>2, <3>3
  <2>4. /\ Debit(t, T).account = T.source /\ Credit(t, T).account = T.destination
        /\ Debit(o, O).account = O.source /\ Credit(o, O).account = O.destination
        /\ Debit(t, T).direction = "debit" /\ Credit(t, T).direction = "credit"
        /\ Debit(o, O).direction = "debit" /\ Credit(o, O).direction = "credit"
        /\ Debit(t, T).amount = T.total_source_debit
        /\ Credit(t, T).amount = T.destination_amount
        /\ Debit(o, O).amount = O.total_source_debit
        /\ Credit(o, O).amount = O.destination_amount
        /\ {Debit(t, T), Credit(t, T), Debit(o, O), Credit(o, O)} \subseteq EntryRow
    BY <2>2, EntriesAre
  <2> HIDE DEF T, O
  <2>5. \A e \in EntryRow : Total({e}) = e.amount
    BY TotalOfOne DEF Total, Units
  <2>6. CASE a = O.source
    <3>1. pair("credit") = {Credit(t, T)} /\ pair("debit") = {Debit(o, O)}
      BY <2>1, <2>2, <2>3, <2>4, <2>6 DEF EntriesFor
    <3> HIDE DEF pair
    <3>2. Total(pair("credit")) = Total(pair("debit"))
      BY <2>1, <2>4, <2>5, <3>1
    <3> QED
      BY <3>2 DEF pair, o
  <2>7. CASE a = O.destination
    <3>1. pair("credit") = {Credit(o, O)} /\ pair("debit") = {Debit(t, T)}
      BY <2>1, <2>2, <2>3, <2>4, <2>7 DEF EntriesFor
    <3> HIDE DEF pair
    <3>2. Total(pair("credit")) = Total(pair("debit"))
      BY <2>1, <2>4, <2>5, <3>1
    <3> QED
      BY <3>2 DEF pair, o
  <2>8. CASE a # O.source /\ a # O.destination
    <3>1. pair("credit") = {} /\ pair("debit") = {}
      BY <2>1, <2>3, <2>4, <2>8 DEF EntriesFor
    <3> HIDE DEF pair
    <3>2. Total(pair("credit")) = Total(pair("debit"))
      BY <3>1
    <3> QED
      BY <3>2 DEF pair, o
  <2> QED
    BY <2>6, <2>7, <2>8
<1>2. TablesOK /\ JournalOK => ReversalNetsToZero
  BY <1>1 DEF ReversalNetsToZero
<1> QED
  BY <1>2, AtomicTablesOK, AtomicJournalOK, PTL

(***************************************************************************)
(* PART 2: THE CONCURRENT LEDGER.                                          *)
(***************************************************************************)

(***************************************************************************)
(* Committed rows are never deleted, and what identifies them never        *)
(* changes.                                                                *)
(***************************************************************************)
Grow ==
  /\ \A a \in DOMAIN account :
       /\ a \in DOMAIN account'
       /\ account'[a].owner = account[a].owner
       /\ account'[a].currency = account[a].currency
  /\ \A t \in DOMAIN transfer :
       t \in DOMAIN transfer' /\ transfer'[t] = transfer[t]
  /\ \A s \in DOMAIN record :
       s \in DOMAIN record' /\ record'[s] = record[s]

\* A table that takes one row under a new key keeps the rows it has.
LEMMA InsertGrows ==
  ASSUME NEW table, NEW id, NEW row, id \notin DOMAIN table
  PROVE  \A k \in DOMAIN table : /\ k \in DOMAIN Insert(table, id, row)
                                 /\ Insert(table, id, row)[k] = table[k]
BY DEF Insert

\* Statements that write nothing committed are a special case of growing tables.
LEMMA StayGrow == UNCHANGED <<account, transfer, record>> => Grow
BY DEF Grow

(***************************************************************************)
(* One transaction among the others.                                       *)
(***************************************************************************)
HandlerOK(h) ==
  /\ tx[h] \in Transaction(DOMAIN tx[h].view)
  /\ DOMAIN tx[h].view \subseteq AccountId
  /\ ReadsCurrent(h)
  /\ Consistent(h)

\* While another one acts, a transaction stays as it is, the committed tables
\* only grow, and what it has locked does not change.
Steady(g) ==
  /\ tx'[g] = tx[g]
  /\ Grow
  /\ \A a \in DOMAIN tx[g].view : account'[a] = account[a]
  /\ tx[g].pc \in {"lock", "write"} /\ tx[g].req.op = "reverse"
       => Reversed(tx[g].req.original)' = Reversed(tx[g].req.original)

\* While one handler moves, what every other one knows of its request, its reads
\* and its locks stays as it was.
LEMMA SteadyHandler ==
  ASSUME TypeOK, NEW g \in Tx, HandlerOK(g), Steady(g)
  PROVE  HandlerOK(g)'
<1>1. UNCHANGED tx[g] /\ Grow
  BY DEF Steady
<1>2. ReadsCurrent(g)'
  BY DEF HandlerOK, ReadsCurrent, Steady, Grow
<1>3. OnPath(g)'
  BY <1>1 DEF HandlerOK, Consistent, OnPath, At
<1>4. ASSUME NEW r, r.op = "transfer" => Classifiable(r)
      PROVE  (r.op = "transfer" => Classifiable(r)') /\ Scope(r)' = Scope(r)
  BY <1>1, <1>4 DEF Grow, Classifiable, Scope, Kind
<1>5. ScopeKnown(g)'
  BY <1>1, <1>4 DEF HandlerOK, Consistent, ScopeKnown
<1>6. PriceKnown(g)'
  BY <1>1 DEF HandlerOK, Consistent, PriceKnown, At
<1>7. ASSUME NEW r, Reversible(r)
      PROVE  Reversible(r)' /\ transfer'[r.original] = transfer[r.original]
  BY <1>1, <1>7 DEF Grow, Reversible, TypeOK, TablesOK
<1>8. OriginalKnown(g)'
  BY <1>1, <1>7 DEF HandlerOK, Consistent, OriginalKnown
<1>9. RowsKnown(g)'
  <2>1. tx[g].pc \in {"lock", "write"} /\ tx[g].req.op # "create" =>
          Planned(g)' = Planned(g)
    <3>1. tx[g].req.op \in {"create", "transfer", "reverse"} \/ tx[g].pc = "idle"
      BY LedgerDataAssumption
      DEF LedgerDataAssumption, HandlerOK, Consistent, OnPath, At,
          CreateRequest, TransferRequest, ReverseRequest
    <3>2. QED
      BY <1>1, <1>7, <3>1 DEF HandlerOK, Consistent, OriginalKnown, Planned
  <2>2. At(g, "lock") => tx[g].req.op # "create"
    BY DEF HandlerOK, Consistent, OnPath, Path, At
  <2>3. QED
    BY <1>1, <2>1, <2>2 DEF HandlerOK, Consistent, RowsKnown, Unlocked, Parties, At
<1>10. AnswerKnown(g)'
  BY <1>1 DEF HandlerOK, Consistent, AnswerKnown, At, Grow
<1>11. (tx[g].holds = LocksOf(g))'
  BY <1>1 DEF HandlerOK, Consistent, LocksOf, At
<1>12. QED
  BY <1>1, <1>2, <1>3, <1>5, <1>6, <1>8, <1>9, <1>10, <1>11
  DEF HandlerOK, Consistent

(***************************************************************************)
(* A step of one transaction that touches no table.                        *)
(***************************************************************************)
OnlyMoves(h) ==
  /\ UNCHANGED tables
  /\ tx' = [g \in Tx |-> tx'[g]]
  /\ \A g \in Tx \ {h} : tx'[g] = tx[g]
  /\ \A x \in tx'[h].holds : \/ x \in tx[h].holds
                             \/ Free(x) /\ \A s \in DOMAIN record : x # KeyLock(s)

\* A statement that touches no table keeps the invariant if its own handler stays
\* consistent and takes only a lock that is free.
LEMMA OnlyMovesPreserves ==
  ASSUME IInv, NEW h \in Tx, OnlyMoves(h), HandlerOK(h)', TablesOK'
  PROVE  IInv'
<1>1. \A g \in Tx : HandlerOK(g)
  BY DEF IInv, TypeOK, ReadsStayCurrent, HandlersConsistent, HandlerOK
<1>2. \A g \in Tx : HandlerOK(g)'
  <2>1. ASSUME NEW g \in Tx \ {h} PROVE HandlerOK(g)'
    <3>1. Steady(g)
      BY <1>1, StayGrow
      DEF Steady, OnlyMoves, tables, Reversed, HandlerOK, ReadsCurrent
    <3>2. QED
      BY <1>1, <3>1, SteadyHandler DEF IInv
  <2>2. QED
    BY <2>1
<1>3. LocksExclusive'
  <2>1. \A g \in Tx \ {h} : tx'[g].holds \cap tx'[h].holds = {}
    BY DEF OnlyMoves, IInv, LocksExclusive, Free
  <2>2. \A g, k \in Tx \ {h} : g # k => tx'[g].holds \cap tx'[k].holds = {}
    BY DEF OnlyMoves, IInv, LocksExclusive
  <2>3. \A g \in Tx : \A s \in DOMAIN record' : KeyLock(s) \notin tx'[g].holds
    BY DEF OnlyMoves, IInv, LocksExclusive, tables
  <2>4. QED
    BY <2>1, <2>2, <2>3 DEF LocksExclusive
<1>4. QED
  BY <1>2, <1>3 DEF IInv, TypeOK, HandlerOK, ReadsStayCurrent, HandlersConsistent, OnlyMoves

\* A transaction that has ended holds nothing and has nothing to keep true.
LEMMA IdleIsOK ==
  ASSUME NEW h \in Tx, tx'[h] = NoTransaction
  PROVE  HandlerOK(h)'
<1>1. NoTransaction \in Transaction({}) /\ DOMAIN NoTransaction.view = {}
  BY DEF NoTransaction, Transaction, Statements
<1>2. QED
  BY <1>1 DEF HandlerOK, ReadsCurrent, Consistent, OnPath, ScopeKnown, PriceKnown,
              OriginalKnown, RowsKnown, AnswerKnown, LocksOf, At, NoTransaction

\* ROLLBACK or the end of an answer, of any handler at any statement.
LEMMA EndPreserves ==
  ASSUME IInv, NEW h \in Tx, End(h), UNCHANGED tables, TablesOK'
  PROVE  IInv'
<1>1. OnlyMoves(h)
  BY DEF OnlyMoves, End, NoTransaction, IInv, TypeOK
<1>2. tx'[h] = NoTransaction
  BY DEF End, IInv, TypeOK
<1>3. QED
  BY <1>1, <1>2, IdleIsOK, OnlyMovesPreserves

\* A request has the fields of its operation.
LEMMA RequestFields ==
  ASSUME NEW r \in Requests
  PROVE  /\ r.op \in {"create", "transfer", "reverse"}
         /\ r.op = "transfer" => r.source \in AccountId /\ r.destination \in AccountId
                                 /\ r.source # r.destination
         /\ r.op = "reverse" => r.original \in TransferId
BY LedgerDataAssumption
DEF LedgerDataAssumption, CreateRequest, TransferRequest, ReverseRequest

\* BEGIN: a handler that takes a request.
LEMMA BeginOK ==
  ASSUME IInv, NEW h \in Tx, NEW r \in Requests, Begin(h, r)
  PROVE  OnlyMoves(h) /\ HandlerOK(h)'
<1>1. /\ tx'[h].pc = CASE r.op = "create"   -> "reserve"
                         [] r.op = "transfer" -> "classify"
                         [] r.op = "reverse"  -> "lookup"
      /\ tx'[h].req = r
      /\ tx'[h].scope = IF r.op = "transfer" THEN Null ELSE Scope(r)
      /\ tx'[h].fx = Parity /\ tx'[h].view = <<>> /\ tx'[h].holds = {}
      /\ tx'[h].answer = Null
  BY DEF Begin, IInv, TypeOK, NoTransaction
<1>2. r.op \in {"create", "transfer", "reverse"}
  BY RequestFields
<1>3. tx'[h].pc \in {"reserve", "classify", "lookup"} /\ tx'[h].pc \in Path(r.op)
  BY <1>1, <1>2 DEF Path
<1>4. OnlyMoves(h)
  BY <1>1 DEF OnlyMoves, Begin, IInv, TypeOK
<1>5. Scope(r)' = Scope(r)
  BY DEF Begin, tables, Scope, Kind
<1>6. (tx[h] \in Transaction(DOMAIN tx[h].view))'
  <2>1. tx'[h] = [pc |-> tx'[h].pc, req |-> r, scope |-> tx'[h].scope,
                  fx |-> Parity, view |-> <<>>, holds |-> {}, answer |-> Null]
    BY <1>1 DEF Begin, IInv, TypeOK, NoTransaction
  <2>2. tx'[h].scope \in Scopes \cup {Null}
    BY <1>1, ScopeType
  <2>3. <<>> \in [DOMAIN <<>> -> AccountRow]
    OBVIOUS
  <2>4. [pc |-> tx'[h].pc, req |-> r, scope |-> tx'[h].scope, fx |-> Parity,
         view |-> <<>>, holds |-> {}, answer |-> Null] \in Transaction(DOMAIN <<>>)
    BY <1>3, <2>2, <2>3 DEF Transaction, Statements
  <2>5. QED
    BY <1>1, <2>1, <2>4
<1>7. QED
  BY <1>1, <1>2, <1>3, <1>4, <1>5, <1>6
  DEF HandlerOK, ReadsCurrent, Consistent, OnPath, ScopeKnown, PriceKnown,
      OriginalKnown, RowsKnown, AnswerKnown, LocksOf, At

\* A transaction that only goes on to its next statement.
LEMMA GoToFields ==
  ASSUME IInv, NEW h \in Tx, NEW pc \in Statements, GoTo(h, pc), UNCHANGED tables
  PROVE  /\ OnlyMoves(h)
         /\ tx'[h] = [tx[h] EXCEPT !.pc = pc]
         /\ tx'[h].pc = pc /\ tx'[h].req = tx[h].req
         /\ tx'[h].scope = tx[h].scope /\ tx'[h].fx = tx[h].fx
         /\ tx'[h].view = tx[h].view /\ tx'[h].holds = tx[h].holds
         /\ (tx[h] \in Transaction(DOMAIN tx[h].view))'
<1>1. tx[h] \in Transaction(DOMAIN tx[h].view) /\ tx = [g \in Tx |-> tx[g]]
  BY DEF IInv, TypeOK
<1>2. tx'[h] = [tx[h] EXCEPT !.pc = pc] /\ tx' = [g \in Tx |-> tx'[g]]
      /\ \A g \in Tx \ {h} : tx'[g] = tx[g]
  BY <1>1 DEF GoTo
<1>3. /\ tx'[h].pc = pc /\ tx'[h].req = tx[h].req
      /\ tx'[h].scope = tx[h].scope /\ tx'[h].fx = tx[h].fx
      /\ tx'[h].view = tx[h].view /\ tx'[h].holds = tx[h].holds
  BY <1>1, <1>2 DEF Transaction
<1>4. (tx[h] \in Transaction(DOMAIN tx[h].view))'
  BY <1>1, <1>2, <1>3 DEF Transaction
<1>5. QED
  BY <1>2, <1>3, <1>4 DEF OnlyMoves

\* completed_success that finds no record.
LEMMA LookupOK ==
  ASSUME IInv, NEW h \in Tx, Lookup(h)
  PROVE  OnlyMoves(h) /\ HandlerOK(h)'
<1>1. Consistent(h) /\ DOMAIN tx[h].view \subseteq AccountId
  BY DEF IInv, TypeOK, HandlersConsistent
<1>2. UNCHANGED tables /\ GoTo(h, "reserve") /\ "reserve" \in Statements
  BY DEF Lookup, Statements
<1>3. /\ OnlyMoves(h) /\ tx'[h].pc = "reserve" /\ tx'[h].req = tx[h].req
      /\ tx'[h].scope = tx[h].scope /\ tx'[h].fx = tx[h].fx
      /\ tx'[h].view = tx[h].view /\ tx'[h].holds = tx[h].holds
      /\ (tx[h] \in Transaction(DOMAIN tx[h].view))'
  BY <1>2, GoToFields
<1>4. tx[h].pc = "lookup"
  BY DEF Lookup, At
<1>5. DOMAIN tx[h].view = {} /\ tx[h].req.op \in {"transfer", "reverse", "create"}
  BY <1>1, <1>4, RequestFields DEF Consistent, RowsKnown, OnPath, At
<1>6. ReadsCurrent(h)'
  BY <1>3, <1>5 DEF ReadsCurrent
<1>7. OnPath(h)'
  BY <1>1, <1>3, <1>4 DEF Consistent, OnPath, Path, At
<1>8. ScopeKnown(h)'
  BY <1>1, <1>2, <1>3, <1>4
  DEF Consistent, ScopeKnown, Scope, Kind, Classifiable, tables
<1>9. QED
  BY <1>1, <1>3, <1>4, <1>5, <1>6, <1>7, <1>8
  DEF HandlerOK, Consistent, PriceKnown, OriginalKnown, RowsKnown, AnswerKnown, LocksOf, At

\* What is read from the committed tables does not change while they do not.
LEMMA UnchangedTables ==
  ASSUME UNCHANGED tables, NEW r
  PROVE  /\ Scope(r)' = Scope(r) /\ Classifiable(r)' = Classifiable(r)
         /\ Reversible(r)' = Reversible(r)
         /\ Reversed(r.original)' = Reversed(r.original)
BY DEF tables, Scope, Kind, Classifiable, Reversible, Reversed

\* The preliminary SELECT of create_transfer.
LEMMA ClassifyOK ==
  ASSUME IInv, NEW h \in Tx, Classify(h)
  PROVE  OnlyMoves(h) /\ HandlerOK(h)'
<1>1. Consistent(h) /\ DOMAIN tx[h].view \subseteq AccountId
      /\ tx[h] \in Transaction(DOMAIN tx[h].view)
  BY DEF IInv, TypeOK, HandlersConsistent
<1>2. /\ tx[h].pc = "classify" /\ UNCHANGED tables /\ Classifiable(tx[h].req)
  BY DEF Classify, At
<1>3. tx[h].req \in Requests /\ tx[h].req.op = "transfer" /\ DOMAIN tx[h].view = {}
      /\ tx[h].fx = Parity /\ tx[h].holds = {}
  <2>1. tx[h].req \in Requests /\ "classify" \in Path(tx[h].req.op)
    BY <1>1, <1>2 DEF Consistent, OnPath, At
  <2>2. tx[h].req.op = "transfer"
    BY <2>1, RequestFields DEF Path
  <2>3. QED
    BY <1>1, <1>2, <2>1, <2>2
    DEF Consistent, RowsKnown, PriceKnown, LocksOf, At
<1>4. /\ tx'[h] = [tx[h] EXCEPT !.pc = "lookup", !.scope = Scope(tx[h].req)]
      /\ tx' = [g \in Tx |-> tx'[g]] /\ \A g \in Tx \ {h} : tx'[g] = tx[g]
  BY DEF Classify, IInv, TypeOK
<1>5. /\ tx'[h].pc = "lookup" /\ tx'[h].req = tx[h].req
      /\ tx'[h].scope = Scope(tx[h].req) /\ tx'[h].fx = tx[h].fx
      /\ tx'[h].view = tx[h].view /\ tx'[h].holds = tx[h].holds
  BY <1>1, <1>4 DEF Transaction
<1>6. OnlyMoves(h)
  BY <1>2, <1>4, <1>5 DEF OnlyMoves
<1>7. (tx[h] \in Transaction(DOMAIN tx[h].view))'
  BY <1>1, <1>3, <1>4, <1>5, ScopeType DEF Transaction, Statements
<1>8. QED
  BY <1>1, <1>2, <1>3, <1>5, <1>6, <1>7, UnchangedTables
  DEF HandlerOK, ReadsCurrent, Consistent, OnPath, Path, ScopeKnown, PriceKnown,
      OriginalKnown, RowsKnown, AnswerKnown, LocksOf, At

\* An INSERT of the reservation that meets a committed record.
LEMMA LoseRaceOK ==
  ASSUME IInv, NEW h \in Tx, LoseRace(h)
  PROVE  OnlyMoves(h) /\ HandlerOK(h)'
<1>1. Consistent(h) /\ DOMAIN tx[h].view \subseteq AccountId
  BY DEF IInv, TypeOK, HandlersConsistent
<1>2. /\ UNCHANGED tables /\ GoTo(h, "reread") /\ "reread" \in Statements
      /\ tx[h].pc = "reserve"
  BY DEF LoseRace, Statements, At
<1>3. /\ OnlyMoves(h) /\ tx'[h].pc = "reread" /\ tx'[h].req = tx[h].req
      /\ tx'[h].scope = tx[h].scope /\ tx'[h].fx = tx[h].fx
      /\ tx'[h].view = tx[h].view /\ tx'[h].holds = tx[h].holds
      /\ (tx[h] \in Transaction(DOMAIN tx[h].view))'
  BY <1>2, GoToFields
<1>4. DOMAIN tx[h].view = {}
  BY <1>1, <1>2 DEF Consistent, RowsKnown
<1>5. QED
  BY <1>1, <1>2, <1>3, <1>4, UnchangedTables
  DEF HandlerOK, ReadsCurrent, Consistent, OnPath, Path, ScopeKnown, PriceKnown,
      OriginalKnown, RowsKnown, AnswerKnown, LocksOf, At

\* The end of a transaction that has an answer to give.
LEMMA AnswerFields ==
  ASSUME IInv, NEW h \in Tx, NEW id \in Resources, Answer(h, id),
         tx[h].req \in Requests, tx[h].scope \in Scopes
  PROVE  /\ tx' = [g \in Tx |-> tx'[g]] /\ \A g \in Tx \ {h} : tx'[g] = tx[g]
         /\ tx'[h].pc = "reply" /\ tx'[h].req = tx[h].req
         /\ tx'[h].scope = tx[h].scope /\ tx'[h].fx = Parity
         /\ DOMAIN tx'[h].view = {} /\ tx'[h].holds = {}
         /\ tx'[h].answer = id
         /\ (tx[h] \in Transaction(DOMAIN tx[h].view))'
<1>1. /\ tx' = [g \in Tx |-> tx'[g]] /\ \A g \in Tx \ {h} : tx'[g] = tx[g]
      /\ tx'[h] = [pc |-> "reply", req |-> tx[h].req, scope |-> tx[h].scope,
                   fx |-> Parity, view |-> <<>>, holds |-> {}, answer |-> id]
  BY DEF Answer, NoTransaction, IInv, TypeOK
<1>2. <<>> \in [DOMAIN <<>> -> AccountRow] /\ DOMAIN <<>> = {}
  OBVIOUS
<1>3. [pc |-> "reply", req |-> tx[h].req, scope |-> tx[h].scope, fx |-> Parity,
       view |-> <<>>, holds |-> {}, answer |-> id] \in Transaction(DOMAIN <<>>)
  BY <1>2 DEF Transaction
<1>4. QED
  BY <1>1, <1>2, <1>3

\* A handler that has an answer to give keeps the invariant if the committed
\* record holds that answer.
LEMMA AnswerOK ==
  ASSUME IInv, NEW h \in Tx, NEW id \in Resources, Answer(h, id), Grow,
         ~At(h, "idle"), ~At(h, "classify"),
         tx[h].scope \in DOMAIN record',
         record'[tx[h].scope] = [fingerprint |-> Fingerprint(tx[h].req), result |-> id]
  PROVE  HandlerOK(h)'
<1>1. Consistent(h) /\ tx[h].pc \notin {"idle", "classify"}
  BY DEF IInv, HandlersConsistent, At
<1>2. /\ tx[h].req \in Requests /\ tx[h].scope = Scope(tx[h].req)
      /\ tx[h].req.op = "transfer" => Classifiable(tx[h].req)
  BY <1>1 DEF Consistent, OnPath, ScopeKnown, At
<1>3. tx[h].scope \in Scopes
  BY <1>2, ScopeType
<1>4. /\ tx'[h].pc = "reply" /\ tx'[h].req = tx[h].req
      /\ tx'[h].scope = tx[h].scope /\ tx'[h].fx = Parity
      /\ DOMAIN tx'[h].view = {} /\ tx'[h].holds = {}
      /\ tx'[h].answer = id
      /\ (tx[h] \in Transaction(DOMAIN tx[h].view))'
  BY <1>2, <1>3, AnswerFields
<1>6. ScopeKnown(h)'
  <2>1. tx[h].req.op = "transfer" => Classifiable(tx[h].req)'
    BY <1>2, <1>4 DEF Grow, Classifiable
  <2>2. Scope(tx[h].req)' = Scope(tx[h].req)
    BY <1>2, <1>4 DEF Grow, Classifiable, Scope, Kind
  <2>3. QED
    BY <1>2, <1>4, <2>1, <2>2 DEF ScopeKnown
<1>7. OnPath(h)'
  BY <1>2, <1>4 DEF OnPath, Path, At
<1>8. QED
  BY <1>4, <1>6, <1>7
  DEF HandlerOK, ReadsCurrent, Consistent, PriceKnown,
      OriginalKnown, RowsKnown, AnswerKnown, LocksOf, At

\* A replayed answer is the one the committed record holds.
LEMMA ReplayOK ==
  ASSUME IInv, NEW h \in Tx, Replay(h)
  PROVE  OnlyMoves(h) /\ HandlerOK(h)'
<1>1. /\ tx[h].scope \in DOMAIN record /\ UNCHANGED tables
      /\ tx[h].pc \in {"lookup", "reread"}
      /\ record[tx[h].scope].fingerprint = Fingerprint(tx[h].req)
      /\ Answer(h, record[tx[h].scope].result)
  BY DEF Replay, At
<1>2. record[tx[h].scope] \in RecordRow
  BY <1>1 DEF IInv, TypeOK, TablesOK, IsTable
<1>3. /\ record[tx[h].scope].result \in Resources
      /\ record[tx[h].scope] = [fingerprint |-> Fingerprint(tx[h].req),
                                result |-> record[tx[h].scope].result]
  BY <1>1, <1>2 DEF RecordRow
<1>4. Grow
  BY <1>1, StayGrow DEF tables
<1>5. HandlerOK(h)'
  BY <1>1, <1>3, <1>4, AnswerOK DEF tables, At
<1>6. tx[h].req \in Requests /\ tx[h].scope \in Scopes
  BY <1>1, ScopeType DEF IInv, HandlersConsistent, Consistent, OnPath, ScopeKnown, At
<1>7. OnlyMoves(h)
  BY <1>1, <1>3, <1>6, AnswerFields DEF OnlyMoves
<1>8. QED
  BY <1>5, <1>7

\* A transaction that takes one more lock.
LEMMA AcquireFields ==
  ASSUME IInv, NEW h \in Tx, NEW x \in Locks, NEW pc \in Statements,
         Acquire(h, x, pc), UNCHANGED tables,
         \A s \in DOMAIN record : x # KeyLock(s)
  PROVE  /\ OnlyMoves(h)
         /\ tx'[h].pc = pc /\ tx'[h].req = tx[h].req
         /\ tx'[h].scope = tx[h].scope /\ tx'[h].fx = tx[h].fx
         /\ tx'[h].view = tx[h].view /\ tx'[h].holds = tx[h].holds \cup {x}
         /\ (tx[h] \in Transaction(DOMAIN tx[h].view))'
<1>1. tx[h] \in Transaction(DOMAIN tx[h].view) /\ tx = [g \in Tx |-> tx[g]]
  BY DEF IInv, TypeOK
<1>2. /\ tx'[h] = [tx[h] EXCEPT !.pc = pc, !.holds = @ \cup {x}]
      /\ tx' = [g \in Tx |-> tx'[g]] /\ \A g \in Tx \ {h} : tx'[g] = tx[g]
  BY <1>1 DEF Acquire
<1>3. /\ tx'[h].pc = pc /\ tx'[h].req = tx[h].req
      /\ tx'[h].scope = tx[h].scope /\ tx'[h].fx = tx[h].fx
      /\ tx'[h].view = tx[h].view /\ tx'[h].holds = tx[h].holds \cup {x}
  BY <1>1, <1>2 DEF Transaction
<1>4. tx'[h].holds \in SUBSET Locks
  BY <1>1, <1>3 DEF Transaction
<1>5. (tx[h] \in Transaction(DOMAIN tx[h].view))'
  <2>1. [tx[h] EXCEPT !.pc = pc] \in Transaction(DOMAIN tx[h].view)
    BY <1>1 DEF Transaction
  <2>2. tx'[h] = [[tx[h] EXCEPT !.pc = pc] EXCEPT !.holds = tx'[h].holds]
    BY <1>1, <1>2, <1>3 DEF Transaction
  <2>3. tx'[h] \in Transaction(DOMAIN tx[h].view)
    BY <1>4, <2>1, <2>2 DEF Transaction
  <2>4. QED
    BY <1>3, <2>3
<1>6. OnlyMoves(h)
  BY <1>2, <1>3 DEF OnlyMoves, Acquire
<1>7. QED
  BY <1>3, <1>5, <1>6

\* An INSERT of the reservation that succeeds, for each of the four scopes.
LEMMA ReserveOK ==
  ASSUME IInv, NEW h \in Tx, Reserve(h)
  PROVE  OnlyMoves(h) /\ HandlerOK(h)'
<1> DEFINE pc == CASE tx[h].scope[2] = "account_creation" -> "write"
                   [] tx[h].scope[2] = "transfer"         -> "lock"
                   [] tx[h].scope[2] = "fx_transfer"      -> "configure"
                   [] tx[h].scope[2] = "reversal"         -> "original"
           r == tx[h].req
<1>1. Consistent(h) /\ DOMAIN tx[h].view \subseteq AccountId
  BY DEF IInv, TypeOK, HandlersConsistent
<1>2. /\ tx[h].pc = "reserve" /\ UNCHANGED tables
      /\ tx[h].scope \notin DOMAIN record
      /\ Acquire(h, KeyLock(tx[h].scope), pc)
  BY DEF Reserve, At
<1>3. /\ r \in Requests /\ tx[h].scope = Scope(r)
      /\ r.op = "transfer" => Classifiable(r)
      /\ DOMAIN tx[h].view = {} /\ tx[h].holds = {} /\ tx[h].fx = Parity
  BY <1>1, <1>2
  DEF Consistent, OnPath, ScopeKnown, RowsKnown, PriceKnown, LocksOf, At
<1>4. r.op \in {"create", "transfer", "reverse"}
  BY <1>3, RequestFields
<1>5. /\ r.op = "create"   => tx[h].scope[2] = "account_creation"
      /\ r.op = "transfer" => tx[h].scope[2] \in {"transfer", "fx_transfer"}
      /\ r.op = "reverse"  => tx[h].scope[2] = "reversal"
  BY <1>3 DEF Scope, Kind
<1>6. /\ r.op = "create"   => pc = "write"
      /\ r.op = "transfer" => pc = IF tx[h].scope[2] = "transfer" THEN "lock"
                                   ELSE "configure"
      /\ r.op = "reverse"  => pc = "original"
  BY <1>5
<1> HIDE DEF pc
<1>7. KeyLock(tx[h].scope) \in Locks /\ pc \in Statements
  BY <1>3, <1>4, <1>6, ScopeType DEF Locks, Statements
<1>8. \A s \in DOMAIN record : KeyLock(tx[h].scope) # KeyLock(s)
  BY <1>2 DEF KeyLock
<1>9. /\ OnlyMoves(h)
      /\ tx'[h].pc = pc /\ tx'[h].req = tx[h].req
      /\ tx'[h].scope = tx[h].scope /\ tx'[h].fx = tx[h].fx
      /\ tx'[h].view = tx[h].view
      /\ tx'[h].holds = tx[h].holds \cup {KeyLock(tx[h].scope)}
      /\ (tx[h] \in Transaction(DOMAIN tx[h].view))'
  BY <1>2, <1>7, <1>8, AcquireFields
<1>10. ScopeKnown(h)'
  BY <1>2, <1>3, <1>9, UnchangedTables DEF ScopeKnown
<1>11. OnPath(h)' /\ PriceKnown(h)' /\ OriginalKnown(h)' /\ AnswerKnown(h)'
  BY <1>3, <1>4, <1>5, <1>6, <1>9
  DEF OnPath, Path, PriceKnown, OriginalKnown, AnswerKnown, At
<1>12. RowsKnown(h)'
  BY <1>3, <1>4, <1>6, <1>9
  DEF RowsKnown, Unlocked, Parties, At
<1>13. (tx[h].holds = LocksOf(h))'
  <2>1. {AccountLock(a) : a \in DOMAIN tx'[h].view} = {}
    BY <1>3, <1>9
  <2>2. QED
    BY <1>3, <1>4, <1>6, <1>9, <2>1 DEF LocksOf, At
<1>14. ReadsCurrent(h)'
  BY <1>3, <1>4, <1>6, <1>9 DEF ReadsCurrent
<1>15. QED
  BY <1>1, <1>9, <1>10, <1>11, <1>12, <1>13, <1>14 DEF HandlerOK, Consistent

\* The rate and the fee of an FX transfer.
LEMMA ConfigureOK ==
  ASSUME IInv, NEW h \in Tx, Configure(h)
  PROVE  OnlyMoves(h) /\ HandlerOK(h)'
<1>1. Consistent(h) /\ DOMAIN tx[h].view \subseteq AccountId
      /\ tx[h] \in Transaction(DOMAIN tx[h].view)
  BY DEF IInv, TypeOK, HandlersConsistent
<1>2. tx[h].pc = "configure" /\ UNCHANGED tables
  BY DEF Configure, At
<1>3. PICK fx \in FxConfigs :
        tx' = [tx EXCEPT ![h].pc = "lock", ![h].fx = fx]
  BY DEF Configure
<1>4. /\ tx[h].req \in Requests /\ tx[h].req.op = "transfer"
      /\ tx[h].scope[2] = "fx_transfer"
      /\ DOMAIN tx[h].view = {} /\ tx[h].holds = {KeyLock(tx[h].scope)}
  <2>1. tx[h].req \in Requests /\ "configure" \in Path(tx[h].req.op)
    BY <1>1, <1>2 DEF Consistent, OnPath, At
  <2>2. tx[h].req.op = "transfer"
    BY <2>1, RequestFields DEF Path
  <2>3. QED
    BY <1>1, <1>2, <2>1, <2>2
    DEF Consistent, RowsKnown, PriceKnown, LocksOf, At
<1>5. /\ tx'[h] = [tx[h] EXCEPT !.pc = "lock", !.fx = fx]
      /\ tx' = [g \in Tx |-> tx'[g]] /\ \A g \in Tx \ {h} : tx'[g] = tx[g]
  BY <1>3 DEF IInv, TypeOK
<1>6. /\ tx'[h].pc = "lock" /\ tx'[h].req = tx[h].req
      /\ tx'[h].scope = tx[h].scope
      /\ tx'[h].view = tx[h].view /\ tx'[h].holds = tx[h].holds
  BY <1>1, <1>5 DEF Transaction
<1>7. OnlyMoves(h)
  BY <1>2, <1>5, <1>6 DEF OnlyMoves
<1>8. (tx[h] \in Transaction(DOMAIN tx[h].view))'
  <2>1. [tx[h] EXCEPT !.pc = "lock"] \in Transaction(DOMAIN tx[h].view)
    BY <1>1 DEF Transaction, Statements
  <2>2. tx'[h] = [[tx[h] EXCEPT !.pc = "lock"] EXCEPT !.fx = fx]
    BY <1>1, <1>5 DEF Transaction
  <2>3. tx'[h] \in Transaction(DOMAIN tx[h].view)
    BY <2>1, <2>2 DEF Transaction
  <2>4. QED
    BY <1>6, <2>3
<1>9. RowsKnown(h)'
  BY <1>4, <1>6 DEF RowsKnown, Unlocked, Parties, At
<1>10. ScopeKnown(h)'
  BY <1>1, <1>2, <1>4, <1>6, UnchangedTables DEF Consistent, ScopeKnown
<1>11. (tx[h].holds = LocksOf(h))'
  <2>1. {AccountLock(a) : a \in DOMAIN tx'[h].view} = {}
    BY <1>4, <1>6
  <2>2. QED
    BY <1>4, <1>6, <2>1 DEF LocksOf, At
<1>12. QED
  BY <1>1, <1>4, <1>6, <1>7, <1>8, <1>9, <1>10, <1>11
  DEF HandlerOK, ReadsCurrent, Consistent, OnPath, Path, PriceKnown,
      OriginalKnown, AnswerKnown, At

\* SELECT FOR UPDATE of the original transfer.
LEMMA LockOriginalOK ==
  ASSUME IInv, NEW h \in Tx, LockOriginal(h)
  PROVE  OnlyMoves(h) /\ HandlerOK(h)'
<1>1. Consistent(h) /\ DOMAIN tx[h].view \subseteq AccountId
  BY DEF IInv, TypeOK, HandlersConsistent
<1>2. /\ tx[h].pc = "original" /\ UNCHANGED tables /\ Reversible(tx[h].req)
      /\ Acquire(h, TransferLock(tx[h].req.original), "exists")
  BY DEF LockOriginal, At
<1>3. /\ tx[h].req \in Requests /\ tx[h].req.op = "reverse"
      /\ DOMAIN tx[h].view = {} /\ tx[h].holds = {KeyLock(tx[h].scope)}
      /\ tx[h].fx = Parity
  <2>1. tx[h].req \in Requests /\ "original" \in Path(tx[h].req.op)
    BY <1>1, <1>2 DEF Consistent, OnPath, At
  <2>2. tx[h].req.op = "reverse"
    BY <2>1, RequestFields DEF Path
  <2>3. QED
    BY <1>1, <1>2, <2>1, <2>2
    DEF Consistent, RowsKnown, PriceKnown, LocksOf, At
<1>4. /\ TransferLock(tx[h].req.original) \in Locks /\ "exists" \in Statements
      /\ \A s \in DOMAIN record : TransferLock(tx[h].req.original) # KeyLock(s)
  <2>1. tx[h].req.original \in TransferId
    BY <1>3, RequestFields
  <2>2. QED
    BY <2>1 DEF Locks, Statements, KeyLock, TransferLock
<1>5. /\ OnlyMoves(h)
      /\ tx'[h].pc = "exists" /\ tx'[h].req = tx[h].req
      /\ tx'[h].scope = tx[h].scope /\ tx'[h].fx = tx[h].fx
      /\ tx'[h].view = tx[h].view
      /\ tx'[h].holds = tx[h].holds \cup {TransferLock(tx[h].req.original)}
      /\ (tx[h] \in Transaction(DOMAIN tx[h].view))'
  BY <1>2, <1>4, AcquireFields
<1>6. ScopeKnown(h)'
  BY <1>1, <1>2, <1>3, <1>5, UnchangedTables DEF Consistent, ScopeKnown
<1>7. OriginalKnown(h)'
  BY <1>2, <1>5, UnchangedTables DEF OriginalKnown
<1>8. (tx[h].holds = LocksOf(h))'
  BY <1>3, <1>5 DEF LocksOf, At
<1>9. QED
  BY <1>1, <1>3, <1>5, <1>6, <1>7, <1>8
  DEF HandlerOK, ReadsCurrent, Consistent, OnPath, Path, PriceKnown,
      RowsKnown, AnswerKnown, At

\* The check, under the lock of the original, that nobody has reversed it.
LEMMA CheckReversedOK ==
  ASSUME IInv, NEW h \in Tx, CheckReversed(h)
  PROVE  OnlyMoves(h) /\ HandlerOK(h)'
<1>1. Consistent(h) /\ DOMAIN tx[h].view \subseteq AccountId
  BY DEF IInv, TypeOK, HandlersConsistent
<1>2. /\ tx[h].pc = "exists" /\ UNCHANGED tables /\ GoTo(h, "lock")
      /\ ~Reversed(tx[h].req.original) /\ "lock" \in Statements
  BY DEF CheckReversed, At, Statements
<1>3. /\ tx[h].req \in Requests /\ tx[h].req.op = "reverse"
      /\ DOMAIN tx[h].view = {} /\ tx[h].fx = Parity
      /\ tx[h].holds = {KeyLock(tx[h].scope), TransferLock(tx[h].req.original)}
      /\ Reversible(tx[h].req)
  <2>1. tx[h].req \in Requests /\ "exists" \in Path(tx[h].req.op)
    BY <1>1, <1>2 DEF Consistent, OnPath, At
  <2>2. tx[h].req.op = "reverse"
    BY <2>1, RequestFields DEF Path
  <2>3. QED
    BY <1>1, <1>2, <2>1, <2>2
    DEF Consistent, RowsKnown, PriceKnown, OriginalKnown, LocksOf, At
<1>4. /\ OnlyMoves(h) /\ tx'[h].pc = "lock" /\ tx'[h].req = tx[h].req
      /\ tx'[h].scope = tx[h].scope /\ tx'[h].fx = tx[h].fx
      /\ tx'[h].view = tx[h].view /\ tx'[h].holds = tx[h].holds
      /\ (tx[h] \in Transaction(DOMAIN tx[h].view))'
  BY <1>2, GoToFields
<1>5. ScopeKnown(h)' /\ OriginalKnown(h)'
  BY <1>1, <1>2, <1>3, <1>4, UnchangedTables DEF Consistent, ScopeKnown, OriginalKnown
<1>6. ReadsCurrent(h)'
  BY <1>2, <1>3, <1>4, UnchangedTables DEF ReadsCurrent
<1>7. RowsKnown(h)'
  BY <1>3, <1>4 DEF RowsKnown, Unlocked, Parties, At
<1>8. (tx[h].holds = LocksOf(h))'
  <2>1. {AccountLock(a) : a \in DOMAIN tx'[h].view} = {}
    BY <1>3, <1>4
  <2>2. QED
    BY <1>3, <1>4, <2>1 DEF LocksOf, At
<1>9. QED
  BY <1>1, <1>3, <1>4, <1>5, <1>6, <1>7, <1>8
  DEF HandlerOK, Consistent, OnPath, Path, PriceKnown, AnswerKnown, At

\* The accounts of a transfer or reversal under way exist: rows are never deleted.
LEMMA PartiesExist ==
  ASSUME IInv, NEW h \in Tx, tx[h].pc \in {"lock", "write"}, tx[h].req.op # "create"
  PROVE  /\ Parties(h) \subseteq DOMAIN account
         /\ Parties(h) = IF tx[h].req.op = "transfer"
                          THEN {tx[h].req.source, tx[h].req.destination}
                          ELSE {transfer[tx[h].req.original].source,
                                transfer[tx[h].req.original].destination}
<1> DEFINE r == tx[h].req
<1>1. Consistent(h) /\ TablesOK
  BY DEF IInv, TypeOK, HandlersConsistent
<1>2. r \in Requests /\ r.op \in {"transfer", "reverse"}
  BY <1>1, RequestFields DEF Consistent, OnPath, At
<1>3. CASE r.op = "transfer"
  <2>1. Classifiable(r)
    BY <1>1, <1>3 DEF Consistent, ScopeKnown
  <2>2. QED
    BY <1>3, <2>1 DEF Classifiable, Parties, Planned, TransferOf
<1>4. CASE r.op = "reverse"
  <2>1. r.original \in DOMAIN transfer
    BY <1>1, <1>4 DEF Consistent, OriginalKnown, Reversible
  <2>2. {transfer[r.original].source, transfer[r.original].destination}
          \subseteq DOMAIN account
    BY <1>1, <2>1 DEF TablesOK
  <2>3. QED
    BY <1>4, <2>2 DEF Parties, Planned, ReversalOf
<1>5. QED
  BY <1>2, <1>3, <1>4

\* SELECT FOR UPDATE of one more account row.
LEMMA LockAccountOK ==
  ASSUME IInv, NEW h \in Tx, NEW a \in AccountId, LockAccount(h, a)
  PROVE  OnlyMoves(h) /\ HandlerOK(h)'
<1> DEFINE pc == IF Unlocked(h) = {a} THEN "write" ELSE "lock"
           r == tx[h].req
<1>1. /\ Consistent(h) /\ DOMAIN tx[h].view \subseteq AccountId
      /\ tx[h] \in Transaction(DOMAIN tx[h].view) /\ TablesOK /\ ReadsCurrent(h)
  BY DEF IInv, TypeOK, HandlersConsistent, ReadsStayCurrent
<1>2. /\ tx[h].pc = "lock" /\ UNCHANGED tables /\ a \in Unlocked(h)
      /\ \A b \in Unlocked(h) : a <= b
      /\ Free(AccountLock(a))
  BY DEF LockAccount, At
<1>3. /\ r \in Requests /\ r.op \in {"transfer", "reverse"}
      /\ tx[h].holds = LocksOf(h)
  <2>1. r \in Requests /\ "lock" \in Path(r.op) /\ tx[h].holds = LocksOf(h)
    BY <1>1, <1>2 DEF Consistent, OnPath, At
  <2>2. QED
    BY <2>1, RequestFields DEF Path
<1>4. Parties(h) \subseteq DOMAIN account /\ a \in Parties(h) /\ a \notin DOMAIN tx[h].view
  BY <1>2, <1>3, PartiesExist DEF Unlocked
<1>5. PICK row : row = account[a]
  OBVIOUS
<1>6. row \in AccountRow
  BY <1>1, <1>4, <1>5 DEF TablesOK, IsTable
<1>7. PICK seen : seen = Insert(tx[h].view, a, row)
  OBVIOUS
<1>8. /\ DOMAIN seen = DOMAIN tx[h].view \cup {a}
      /\ seen \in [DOMAIN seen -> AccountRow]
      /\ seen[a] = account[a]
      /\ \A b \in DOMAIN tx[h].view : seen[b] = tx[h].view[b]
  <2>1. IsTable(tx[h].view, AccountId, AccountRow)
    BY <1>1 DEF IsTable, Transaction
  <2>2. /\ IsTable(seen, AccountId, AccountRow)
        /\ DOMAIN seen = DOMAIN tx[h].view \cup {a}
        /\ seen[a] = row
        /\ \A b \in DOMAIN tx[h].view \ {a} : seen[b] = tx[h].view[b]
    <3>1. PICK old : old = tx[h].view
      OBVIOUS
    <3>2. IsTable(old, AccountId, AccountRow) /\ seen = Insert(old, a, row)
      BY <1>7, <2>1, <3>1
    <3>3. /\ IsTable(seen, AccountId, AccountRow)
          /\ DOMAIN seen = DOMAIN old \cup {a}
          /\ seen[a] = row
          /\ \A b \in DOMAIN old \ {a} : seen[b] = old[b]
      BY <1>6, <3>2, InsertIsTable
    <3>4. QED
      BY <3>1, <3>3
  <2>3. QED
    BY <1>4, <1>5, <2>2 DEF IsTable
<1>9. /\ tx' = [g \in Tx |-> tx'[g]] /\ \A g \in Tx \ {h} : tx'[g] = tx[g]
      /\ tx'[h] = [tx[h] EXCEPT !.pc = pc,
                                !.holds = @ \cup {AccountLock(a)},
                                !.view = Insert(@, a, account[a])]
  BY DEF LockAccount, IInv, TypeOK
<1> HIDE DEF pc
<1>10. /\ tx'[h].pc = pc /\ tx'[h].req = r /\ tx'[h].scope = tx[h].scope
       /\ tx'[h].fx = tx[h].fx /\ tx'[h].answer = tx[h].answer
       /\ tx'[h].view = seen
       /\ tx'[h].holds = tx[h].holds \cup {AccountLock(a)}
  BY <1>1, <1>5, <1>7, <1>9 DEF Transaction
<1>11. pc \in {"lock", "write"} /\ (pc = "write" <=> Unlocked(h) = {a})
  BY DEF pc
<1>12. OnlyMoves(h)
  BY <1>2, <1>9, <1>10 DEF OnlyMoves, AccountLock, KeyLock
<1>13. (tx[h] \in Transaction(DOMAIN tx[h].view))'
  <2>1. tx'[h].holds \in SUBSET Locks
    <3>1. AccountLock(a) \in Locks
      BY DEF Locks
    <3>2. QED
      BY <1>1, <1>10, <3>1 DEF Transaction
  <2>2. tx'[h] = [pc |-> pc, req |-> r, scope |-> tx[h].scope, fx |-> tx[h].fx,
                  view |-> seen, holds |-> tx'[h].holds, answer |-> tx[h].answer]
    BY <1>1, <1>9, <1>10 DEF Transaction
  <2>3. [pc |-> pc, req |-> r, scope |-> tx[h].scope, fx |-> tx[h].fx,
         view |-> seen, holds |-> tx'[h].holds, answer |-> tx[h].answer]
           \in Transaction(DOMAIN seen)
    BY <1>1, <1>8, <1>11, <2>1 DEF Transaction, Statements
  <2>4. QED
    BY <1>10, <2>2, <2>3
<1>14. ReadsCurrent(h)'
  BY <1>1, <1>2, <1>4, <1>8, <1>10, <1>11, UnchangedTables
  DEF ReadsCurrent, tables
<1>15. Unlocked(h)' = Unlocked(h) \ {a} /\ Parties(h)' = Parties(h)
  <2>1. Parties(h)' = Parties(h)
    BY <1>2, <1>3, <1>10 DEF Parties, Planned, TransferOf, ReversalOf, tables
  <2>2. QED
    BY <1>8, <1>10, <2>1 DEF Unlocked
<1>16. RowsKnown(h)'
  <2>1. /\ DOMAIN tx[h].view \subseteq Parties(h)
        /\ \A c \in DOMAIN tx[h].view, b \in Unlocked(h) : c < b
    BY <1>1, <1>2 DEF Consistent, RowsKnown, At
  <2>2. \A b \in Unlocked(h) \ {a} : a < b
    <3>1. Parties(h) \subseteq Nat
      BY <1>1, <1>4, LedgerDataAssumption DEF LedgerDataAssumption, TablesOK, IsTable
    <3>2. QED
      BY <1>2, <3>1 DEF Unlocked
  <2>3. pc = "write" => DOMAIN seen = Parties(h)
    BY <1>4, <1>8, <1>11, <2>1 DEF Unlocked
  <2>4. QED
    BY <1>2, <1>3, <1>4, <1>8, <1>10, <1>11, <1>15, <2>1, <2>2, <2>3
    DEF RowsKnown, At
<1>17. (tx[h].holds = LocksOf(h))'
  <2>1. {AccountLock(b) : b \in DOMAIN seen}
          = {AccountLock(b) : b \in DOMAIN tx[h].view} \cup {AccountLock(a)}
    BY <1>8
  <2>2. QED
    BY <1>2, <1>3, <1>10, <1>11, <2>1 DEF LocksOf, At
<1>18. ScopeKnown(h)' /\ OriginalKnown(h)'
  BY <1>1, <1>2, <1>10, <1>11, UnchangedTables
  DEF Consistent, ScopeKnown, OriginalKnown
<1>19. OnPath(h)' /\ PriceKnown(h)' /\ AnswerKnown(h)'
  BY <1>1, <1>2, <1>3, <1>10, <1>11
  DEF Consistent, OnPath, Path, PriceKnown, AnswerKnown, At
<1>20. QED
  BY <1>1, <1>8, <1>10, <1>12, <1>13, <1>14, <1>16, <1>17, <1>18, <1>19
  DEF HandlerOK, Consistent

(***************************************************************************)
(* Commits.                                                                *)
(***************************************************************************)
\* What a transaction at its last statement holds and knows.
LEMMA AtWrite ==
  ASSUME IInv, NEW h \in Tx, At(h, "write")
  PROVE  /\ tx[h].req \in Requests /\ tx[h].scope = Scope(tx[h].req)
         /\ tx[h].scope \notin DOMAIN record
         /\ KeyLock(tx[h].scope) \in tx[h].holds
         /\ \A a \in DOMAIN tx[h].view : AccountLock(a) \in tx[h].holds
         /\ tx[h].req.op = "transfer" => Classifiable(tx[h].req)
         /\ tx[h].req.op = "reverse" =>
              /\ TransferLock(tx[h].req.original) \in tx[h].holds
              /\ Reversible(tx[h].req) /\ ~Reversed(tx[h].req.original)
         /\ tx[h].req.op # "create" =>
              /\ DOMAIN tx[h].view = Parties(h)
              /\ \A a \in Parties(h) : tx[h].view[a] = account[a]
<1>1. Consistent(h) /\ ReadsCurrent(h) /\ tx[h].pc = "write"
  BY DEF IInv, HandlersConsistent, ReadsStayCurrent, At
<1>2. /\ tx[h].req \in Requests /\ tx[h].scope = Scope(tx[h].req)
      /\ tx[h].req.op = "transfer" => Classifiable(tx[h].req)
      /\ tx[h].req.op = "reverse" => Reversible(tx[h].req)
      /\ tx[h].req.op # "create" => DOMAIN tx[h].view = Parties(h)
  BY <1>1 DEF Consistent, OnPath, ScopeKnown, OriginalKnown, RowsKnown, At
<1>3. /\ KeyLock(tx[h].scope) \in tx[h].holds
      /\ \A a \in DOMAIN tx[h].view : AccountLock(a) \in tx[h].holds
      /\ tx[h].req.op = "reverse" =>
           TransferLock(tx[h].req.original) \in tx[h].holds
  BY <1>1 DEF Consistent, LocksOf
<1>4. tx[h].scope \notin DOMAIN record
  BY <1>3 DEF IInv, LocksExclusive
<1>5. QED
  BY <1>1, <1>2, <1>3, <1>4 DEF ReadsCurrent

\* The row read under the lock is the committed one, so the checks and the new
\* balances are those of the committed table.
LEMMA ReadsDecide ==
  ASSUME NEW t, NEW rows, rows[t.source] = account[t.source],
         rows[t.destination] = account[t.destination]
  PROVE  /\ Post(account, rows, t) = Post(account, account, t)
         /\ TransferAllowed(t, rows) = TransferAllowed(t, account)
         /\ ReversalAllowed(t, rows) = ReversalAllowed(t, account)
BY DEF Post, TransferAllowed, ReversalAllowed, BothActive

\* The COMMIT of create_account is the atomic CreateAccount.
LEMMA CommitAccountRefines ==
  ASSUME IInv, NEW h \in Tx, NEW a \in AccountId, CommitAccount(h, a)
  PROVE  CreateAccount(tx[h].req, a)
BY AtWrite DEF CommitAccount, StoreSuccess, CreateAccount, Spend

\* The COMMIT of a transfer or reversal is the atomic Transfer or Reverse.
LEMMA CommitTransferRefines ==
  ASSUME IInv, NEW h \in Tx, NEW id \in TransferId, CommitTransfer(h, id)
  PROVE  /\ \/ \E fx \in FxConfigs \cup {Parity} : Transfer(tx[h].req, fx, id)
            \/ Reverse(tx[h].req, id)
         /\ Record(id, Planned(h))
<1> DEFINE r == tx[h].req
           t == Planned(h)
<1>1. At(h, "write") /\ Allowed(h) /\ id \notin DOMAIN transfer
      /\ transfer' = Insert(transfer, id, t)
      /\ account' = Post(account, tx[h].view, t)
      /\ entry' = entry \cup EntriesOf(id, t)
      /\ StoreSuccess(h, id)
  BY DEF CommitTransfer
<1>2. /\ r \in Requests /\ tx[h].scope = Scope(r) /\ Scope(r) \notin DOMAIN record
      /\ r.op \in {"transfer", "reverse"}
      /\ \A a \in Parties(h) : tx[h].view[a] = account[a]
  BY <1>1, AtWrite DEF Allowed
<1>3. /\ Post(account, tx[h].view, t) = Post(account, account, t)
      /\ TransferAllowed(t, tx[h].view) = TransferAllowed(t, account)
      /\ ReversalAllowed(t, tx[h].view) = ReversalAllowed(t, account)
  BY <1>2, ReadsDecide DEF Parties
<1>4. Record(id, t) /\ Spend(r, id)
  BY <1>1, <1>2, <1>3 DEF Record, Spend, StoreSuccess
<1>5. CASE r.op = "transfer"
  <2>1. Classifiable(r)
    BY <1>1, <1>5, AtWrite
  <2>2. tx[h].scope[2] = Kind(r)
    BY <1>2, <1>5 DEF Scope
  <2>3. /\ tx[h].fx \in FxConfigs \cup {Parity}
        /\ tx[h].fx # Parity => tx[h].scope[2] = "fx_transfer"
    BY DEF IInv, TypeOK, Transaction, HandlersConsistent, Consistent, PriceKnown
  <2>4. Kind(r) = "transfer" => tx[h].fx = Parity
    BY <2>2, <2>3
  <2>5. t = TransferOf(r, Kind(r), tx[h].fx)
    BY <1>5, <2>2 DEF Planned
  <2>6. TransferAllowed(t, account)
    BY <1>1, <1>3, <1>5 DEF Allowed
  <2>7. Transfer(r, tx[h].fx, id)
    BY <1>4, <1>5, <2>1, <2>4, <2>5, <2>6 DEF Transfer, Classifiable
  <2>8. QED
    BY <1>4, <2>3, <2>7
<1>6. CASE r.op = "reverse"
  <2>1. Reversible(r) /\ ~Reversed(r.original)
    BY <1>1, <1>6, AtWrite
  <2>2. t = ReversalOf(r, transfer[r.original])
    BY <1>6 DEF Planned
  <2>3. ReversalAllowed(t, account)
    BY <1>1, <1>3, <1>6 DEF Allowed
  <2>4. QED
    BY <1>4, <1>6, <2>1, <2>2, <2>3 DEF Reverse, Reversible
<1>7. QED
  BY <1>2, <1>5, <1>6

\* What a transfer or reversal leaves alone: every other account, the identity
\* of its own two, and all rows of transfers.
LEMMA CommitTransferEffect ==
  ASSUME IInv, NEW h \in Tx, NEW id \in TransferId, CommitTransfer(h, id)
  PROVE  /\ \A a \in DOMAIN account :
              /\ a \in DOMAIN account'
              /\ account'[a].owner = account[a].owner
              /\ account'[a].currency = account[a].currency
         /\ \A a \in DOMAIN account \ Parties(h) : account'[a] = account[a]
         /\ Planned(h).reverses =
              IF tx[h].req.op = "reverse" THEN tx[h].req.original ELSE NoTransfer
<1> DEFINE r == tx[h].req
<1>1. TablesOK /\ At(h, "write") /\ Record(id, Planned(h)) /\ r \in Requests
  BY CommitTransferRefines, AtWrite DEF CommitTransfer, IInv, TypeOK
<1>2. PICK t : t = Planned(h)
  OBVIOUS
<1>3. /\ t \in TransferRow /\ {t.source, t.destination} \subseteq DOMAIN account
      /\ t.source # t.destination
      /\ account[t.source].balance - t.total_source_debit >= MinI64
      /\ account[t.destination].balance + t.destination_amount <= MaxI64
      /\ t.reverses = IF r.op = "reverse" THEN r.original ELSE NoTransfer
  <2>1. CASE \E fx \in FxConfigs \cup {Parity} : Transfer(r, fx, id)
    <3>1. PICK fx \in FxConfigs \cup {Parity} : Transfer(r, fx, id)
      BY <2>1
    <3>2. r.op = "transfer"
      BY <3>1 DEF Transfer
    <3>3. PICK u : u = TransferOf(r, Kind(r), fx)
      OBVIOUS
    <3>4. /\ u \in TransferRow /\ Record(id, u)
          /\ {u.source, u.destination} \subseteq DOMAIN account
          /\ u.source # u.destination
          /\ account[u.source].balance - u.total_source_debit >= MinI64
          /\ account[u.destination].balance + u.destination_amount <= MaxI64
          /\ u.reverses = NoTransfer
      BY <1>1, <3>1, <3>3, TransferStep
    <3>5. u = t
      BY <1>1, <1>2, <3>4 DEF Record, Insert
    <3>6. QED
      BY <3>2, <3>4, <3>5
  <2>2. CASE Reverse(r, id)
    <3>2. r.op = "reverse"
      BY <2>2 DEF Reverse
    <3>3. PICK u : u = ReversalOf(r, transfer[r.original])
      OBVIOUS
    <3>4. /\ u \in TransferRow /\ Record(id, u)
          /\ {u.source, u.destination} \subseteq DOMAIN account
          /\ u.source # u.destination
          /\ account[u.source].balance - u.total_source_debit >= MinI64
          /\ account[u.destination].balance + u.destination_amount <= MaxI64
          /\ u.reverses = r.original
      BY <1>1, <2>2, <3>3, ReverseStep
    <3>5. u = t
      BY <1>1, <1>2, <3>4 DEF Record, Insert
    <3>6. QED
      BY <3>2, <3>4, <3>5
  <2>3. QED
    BY <2>1, <2>2, CommitTransferRefines
<1>4. /\ account' = Post(account, account, t) /\ Parties(h) = {t.source, t.destination}
  BY <1>1, <1>2 DEF Record, Parties
<1>5. /\ DOMAIN account' = DOMAIN account
      /\ \A a \in DOMAIN account \ {t.source, t.destination} : account'[a] = account[a]
      /\ account'[t.source] =
           [account[t.source] EXCEPT
              !.balance = account[t.source].balance - t.total_source_debit,
              !.version = @ + 1]
      /\ account'[t.destination] =
           [account[t.destination] EXCEPT
              !.balance = account[t.destination].balance + t.destination_amount,
              !.version = @ + 1]
  BY <1>1, <1>3, <1>4, PostType DEF TablesOK
<1>6. \A a \in DOMAIN account : /\ account'[a].owner = account[a].owner
                               /\ account'[a].currency = account[a].currency
  <2>1. account[t.source] \in AccountRow /\ account[t.destination] \in AccountRow
    BY <1>1, <1>3 DEF TablesOK, IsTable
  <2>2. ASSUME NEW row \in AccountRow, NEW b, NEW v
        PROVE  /\ [row EXCEPT !.balance = b, !.version = v].owner = row.owner
               /\ [row EXCEPT !.balance = b, !.version = v].currency = row.currency
    BY DEF AccountRow
  <2>3. /\ account'[t.source].owner = account[t.source].owner
        /\ account'[t.source].currency = account[t.source].currency
    BY <1>5, <2>1, <2>2
  <2>4. /\ account'[t.destination].owner = account[t.destination].owner
        /\ account'[t.destination].currency = account[t.destination].currency
    BY <1>5, <2>1, <2>2
  <2>5. QED
    BY <1>5, <2>3, <2>4
<1>7. QED
  BY <1>2, <1>3, <1>4, <1>5, <1>6

\* The answer of a commit: what it inserts into idempotency_records.
LEMMA StoreSuccessEffect ==
  ASSUME IInv, NEW h \in Tx, NEW id \in Resources, At(h, "write"), StoreSuccess(h, id)
  PROVE  /\ DOMAIN record' = DOMAIN record \cup {tx[h].scope}
         /\ record'[tx[h].scope] =
              [fingerprint |-> Fingerprint(tx[h].req), result |-> id]
         /\ \A s \in DOMAIN record : s # tx[h].scope /\ record'[s] = record[s]
         /\ tx' = [g \in Tx |-> tx'[g]] /\ \A g \in Tx \ {h} : tx'[g] = tx[g]
         /\ tx'[h].holds = {}
<1>1. /\ tx[h].req \in Requests /\ tx[h].scope \in Scopes
      /\ tx[h].scope \notin DOMAIN record
  BY AtWrite, ScopeType
<1>2. Answer(h, id)
  BY DEF StoreSuccess
<1>3. /\ tx' = [g \in Tx |-> tx'[g]] /\ \A g \in Tx \ {h} : tx'[g] = tx[g]
      /\ tx'[h].holds = {}
  BY <1>1, <1>2, AnswerFields
<1>4. QED
  BY <1>1, <1>3 DEF StoreSuccess, Insert

\* A commit that leaves alone what the others have locked keeps the invariant.
LEMMA CommitPreserves ==
  ASSUME IInv, NEW h \in Tx, NEW id \in Resources, At(h, "write"),
         StoreSuccess(h, id), TablesOK', Grow,
         \A g \in Tx \ {h} : Steady(g)
  PROVE  IInv'
<1>1. /\ DOMAIN record' = DOMAIN record \cup {tx[h].scope}
      /\ record'[tx[h].scope] =
           [fingerprint |-> Fingerprint(tx[h].req), result |-> id]
      /\ tx' = [g \in Tx |-> tx'[g]] /\ \A g \in Tx \ {h} : tx'[g] = tx[g]
      /\ tx'[h].holds = {}
  BY StoreSuccessEffect
<1>2. \A g \in Tx : HandlerOK(g)'
  <2>1. HandlerOK(h)'
    BY <1>1, AnswerOK DEF StoreSuccess, At
  <2>2. ASSUME NEW g \in Tx \ {h} PROVE HandlerOK(g)'
    <3>1. HandlerOK(g)
      BY DEF IInv, TypeOK, ReadsStayCurrent, HandlersConsistent, HandlerOK
    <3>2. QED
      BY <3>1, SteadyHandler DEF IInv
  <2>3. QED
    BY <2>1, <2>2
<1>3. LocksExclusive'
  <2>1. \A g \in Tx \ {h} : KeyLock(tx[h].scope) \notin tx[g].holds
    BY AtWrite DEF IInv, LocksExclusive
  <2>2. \A g \in Tx : \A s \in DOMAIN record' : KeyLock(s) \notin tx'[g].holds
    BY <1>1, <2>1 DEF IInv, LocksExclusive
  <2>3. \A g \in Tx : \A k \in Tx \ {g} : tx'[k].holds \cap tx'[g].holds = {}
    BY <1>1 DEF IInv, LocksExclusive
  <2>4. QED
    BY <2>2, <2>3 DEF LocksExclusive
<1>4. QED
  BY <1>1, <1>2, <1>3 DEF IInv, TypeOK, HandlerOK, ReadsStayCurrent, HandlersConsistent

\* The locks behind what a transaction relies on.
LEMMA HeldLocks ==
  ASSUME IInv, NEW g \in Tx
  PROVE  /\ \A a \in DOMAIN tx[g].view :
              a \in DOMAIN account /\ AccountLock(a) \in tx[g].holds
         /\ tx[g].pc \in {"lock", "write"} /\ tx[g].req.op = "reverse" =>
              /\ tx[g].req.original \in TransferId
              /\ TransferLock(tx[g].req.original) \in tx[g].holds
<1>1. Consistent(g) /\ ReadsCurrent(g)
  BY DEF IInv, ReadsStayCurrent, HandlersConsistent
<1>2. CASE tx[g].pc \in {"lock", "write"}
  <2>1. tx[g].req \in Requests
    BY <1>1, <1>2 DEF Consistent, OnPath, At
  <2>2. QED
    BY <1>1, <1>2, <2>1, RequestFields DEF Consistent, LocksOf, ReadsCurrent
<1>3. CASE tx[g].pc \notin {"lock", "write"}
  BY <1>1, <1>3 DEF Consistent, RowsKnown
<1>4. QED
  BY <1>2, <1>3

\* The COMMIT of create_account keeps the invariant.
LEMMA CommitAccountOK ==
  ASSUME IInv, NEW h \in Tx, NEW a \in AccountId, CommitAccount(h, a), TablesOK'
  PROVE  IInv'
<1>1. /\ At(h, "write") /\ a \notin DOMAIN account /\ a \in Resources
      /\ account' = Insert(account, a, NewAccount(tx[h].req))
      /\ StoreSuccess(h, a) /\ UNCHANGED transfer
  BY DEF CommitAccount, Resources
<1>2. \A b \in DOMAIN account : b \in DOMAIN account' /\ account'[b] = account[b]
  BY <1>1, InsertGrows
<1>3. /\ \A s \in DOMAIN record : s \in DOMAIN record' /\ record'[s] = record[s]
      /\ \A g \in Tx \ {h} : tx'[g] = tx[g]
  BY <1>1, StoreSuccessEffect
<1>4. Grow
  BY <1>1, <1>2, <1>3 DEF Grow
<1>5. ASSUME NEW g \in Tx \ {h} PROVE Steady(g)
  <2>1. \A b \in DOMAIN tx[g].view : account'[b] = account[b]
    BY <1>2, HeldLocks
  <2>2. Reversed(tx[g].req.original)' = Reversed(tx[g].req.original)
    BY <1>1, <1>3 DEF Reversed
  <2>3. QED
    BY <1>3, <1>4, <2>1, <2>2 DEF Steady
<1>6. QED
  BY <1>1, <1>4, <1>5, CommitPreserves

\* The COMMIT of a transfer or reversal keeps the invariant.
LEMMA CommitTransferOK ==
  ASSUME IInv, NEW h \in Tx, NEW id \in TransferId, CommitTransfer(h, id), TablesOK'
  PROVE  IInv'
<1>1. /\ At(h, "write") /\ id \notin DOMAIN transfer /\ id \in Resources
      /\ transfer' = Insert(transfer, id, Planned(h))
      /\ StoreSuccess(h, id) /\ tx[h].req.op # "create"
  BY DEF CommitTransfer, Resources, Allowed
<1>2. \A t \in DOMAIN transfer : t \in DOMAIN transfer' /\ transfer'[t] = transfer[t]
  BY <1>1, InsertGrows
<1>3. /\ \A s \in DOMAIN record : s \in DOMAIN record' /\ record'[s] = record[s]
      /\ \A g \in Tx \ {h} : tx'[g] = tx[g]
  BY <1>1, StoreSuccessEffect
<1>4. Grow
  BY <1>2, <1>3, CommitTransferEffect DEF Grow
<1>5. ASSUME NEW g \in Tx \ {h} PROVE Steady(g)
  <2>1. tx[g].holds \cap tx[h].holds = {}
    BY DEF IInv, LocksExclusive
  <2>2. ASSUME NEW a \in DOMAIN tx[g].view PROVE account'[a] = account[a]
    <3>1. a \in DOMAIN account /\ AccountLock(a) \in tx[g].holds
      BY HeldLocks
    <3>2. a \notin Parties(h)
      BY <1>1, <2>1, <3>1, AtWrite
    <3>3. QED
      BY <3>1, <3>2, CommitTransferEffect
  <2>3. ASSUME tx[g].pc \in {"lock", "write"}, tx[g].req.op = "reverse"
        PROVE  Reversed(tx[g].req.original)' = Reversed(tx[g].req.original)
    <3>1. /\ tx[g].req.original \in TransferId
          /\ TransferLock(tx[g].req.original) \in tx[g].holds
      BY <2>3, HeldLocks
    <3>2. Planned(h).reverses # tx[g].req.original
      <4>1. CASE tx[h].req.op = "reverse"
        <5>1. TransferLock(tx[h].req.original) \in tx[h].holds
          BY <1>1, <4>1, AtWrite
        <5>2. tx[h].req.original # tx[g].req.original
          BY <2>1, <3>1, <5>1
        <5>3. QED
          BY <4>1, <5>2, CommitTransferEffect
      <4>2. CASE tx[h].req.op # "reverse"
        BY <3>1, <4>2, CommitTransferEffect, LedgerDataAssumption
        DEF LedgerDataAssumption
      <4>3. QED
        BY <4>1, <4>2
    <3>3. transfer'[id] = Planned(h) /\ DOMAIN transfer' = DOMAIN transfer \cup {id}
      BY <1>1 DEF Insert
    <3>4. \A o : Reversed(o)' <=> Reversed(o) \/ Planned(h).reverses = o
      BY <1>2, <3>3 DEF Reversed
    <3>5. Reversed(tx[g].req.original)' <=> Reversed(tx[g].req.original)
      BY <1>3, <3>2, <3>4
    <3>6. QED
      BY <3>5 DEF Reversed
  <2>4. QED
    BY <1>3, <1>4, <2>2, <2>3 DEF Steady
<1>6. QED
  BY <1>1, <1>4, <1>5, CommitPreserves

\* An operator's UPDATE of a status, which waits for the row lock.
LEMMA ChangeStatusOK ==
  ASSUME IInv, NEW a \in AccountId, ChangeStatus(a), TablesOK'
  PROVE  IInv'
<1>1. /\ Free(AccountLock(a)) /\ UNCHANGED <<transfer, record, tx>>
      /\ account' = [account EXCEPT ![a].status =
                        IF @ = "active" THEN "inactive" ELSE "active"]
  BY DEF ChangeStatus, SetStatus
<1>2. /\ DOMAIN account' = DOMAIN account
      /\ \A b \in DOMAIN account \ {a} : account'[b] = account[b]
      /\ \A b \in DOMAIN account :
           /\ account'[b].owner = account[b].owner
           /\ account'[b].currency = account[b].currency
  <2>1. \A b \in DOMAIN account : account[b] \in AccountRow
    BY DEF IInv, TypeOK, TablesOK, IsTable
  <2>2. QED
    BY <1>1, <2>1 DEF AccountRow
<1>3. Grow
  BY <1>1, <1>2 DEF Grow
<1>4. \A g \in Tx : HandlerOK(g)'
  <2>1. ASSUME NEW g \in Tx PROVE HandlerOK(g)'
    <3>1. HandlerOK(g)
      BY DEF IInv, TypeOK, ReadsStayCurrent, HandlersConsistent, HandlerOK
    <3>2. \A b \in DOMAIN tx[g].view : account'[b] = account[b]
      BY <1>1, <1>2, HeldLocks DEF Free
    <3>3. Steady(g)
      BY <1>1, <1>3, <3>2 DEF Steady, Reversed
    <3>4. QED
      BY <3>1, <3>3, SteadyHandler DEF IInv
  <2>2. QED
    BY <2>1
<1>5. LocksExclusive'
  BY <1>1 DEF IInv, LocksExclusive
<1>6. QED
  BY <1>1, <1>4, <1>5
  DEF IInv, TypeOK, HandlerOK, ReadsStayCurrent, HandlersConsistent

(***************************************************************************)
(* Refinement.                                                             *)
(***************************************************************************)
\* An answer that arrives is a Reply of the atomic ledger.
LEMMA DeliverRefines ==
  ASSUME IInv, NEW h \in Tx, Deliver(h)
  PROVE  tx[h].scope \in Scopes /\ Reply(tx[h].scope)
<1>1. /\ At(h, "reply") /\ UNCHANGED tables
      /\ replies' = replies \cup
           {[scope |-> tx[h].scope, fingerprint |-> Fingerprint(tx[h].req),
             result |-> tx[h].answer]}
  BY DEF Deliver
<1>2. /\ tx[h].scope \in DOMAIN record
      /\ record[tx[h].scope] =
           [fingerprint |-> Fingerprint(tx[h].req), result |-> tx[h].answer]
  BY <1>1 DEF IInv, HandlersConsistent, Consistent, AnswerKnown
<1>3. tx[h].scope \in Scopes
  BY <1>2 DEF IInv, TypeOK, TablesOK, IsTable
<1>4. QED
  BY <1>1, <1>2, <1>3 DEF Reply, tables

\* Every step of the transactions is a step of the atomic ledger or none.
LEMMA StepRefines ==
  ASSUME IInv, [Next]_vars
  PROVE  [AtomicNext]_atomicVars
<1>1. ASSUME NEW h \in Tx, NEW a \in AccountId, CommitAccount(h, a)
      PROVE  AtomicNext
  BY <1>1, CommitAccountRefines, AtWrite DEF CommitAccount, AtomicNext, Operate
<1>2. ASSUME NEW h \in Tx, NEW id \in TransferId, CommitTransfer(h, id)
      PROVE  AtomicNext
  BY <1>2, CommitTransferRefines, AtWrite DEF CommitTransfer, AtomicNext, Operate
<1>3. ASSUME NEW h \in Tx, Deliver(h) PROVE AtomicNext
  BY <1>3, DeliverRefines DEF AtomicNext
<1>4. ASSUME NEW a \in AccountId, ChangeStatus(a) PROVE AtomicNext
  BY <1>4 DEF ChangeStatus, AtomicNext
<1>5. ASSUME NEW h \in Tx,
             \/ \E r \in Requests : Begin(h, r)
             \/ Classify(h) \/ Lookup(h) \/ Replay(h) \/ Configure(h)
             \/ CheckReversed(h) \/ Reject(h) \/ Reserve(h) \/ LoseRace(h)
             \/ LockOriginal(h) \/ LockAccounts(h) \/ Fail(h) \/ LoseReply(h)
      PROVE  UNCHANGED atomicVars
  BY <1>5 DEF Begin, Classify, Lookup, Replay, Configure, CheckReversed, Reject,
              Reserve, LoseRace, LockOriginal, LockAccounts, LockAccount, Fail,
              LoseReply, tables, atomicVars
<1>6. CASE UNCHANGED vars
  BY <1>6 DEF vars, tables, atomicVars
<1>7. QED
  BY <1>1, <1>2, <1>3, <1>4, <1>5, <1>6 DEF Next, Proceed

\* Every step of every handler keeps the invariant.
LEMMA StepPreserves ==
  ASSUME IInv, [Next]_vars
  PROVE  IInv'
<1>1. TablesOK'
  BY StepRefines, AtomicNextTablesOK DEF IInv, TypeOK
<1>2. ASSUME NEW h \in Tx, NEW r \in Requests, Begin(h, r) PROVE IInv'
  BY <1>1, <1>2, BeginOK, OnlyMovesPreserves
<1>3. ASSUME NEW h \in Tx,
             \/ Classify(h) \/ Lookup(h) \/ Replay(h) \/ Configure(h)
             \/ CheckReversed(h) \/ Reserve(h) \/ LoseRace(h) \/ LockOriginal(h)
      PROVE  IInv'
  <2>1. OnlyMoves(h) /\ HandlerOK(h)'
    BY <1>3, ClassifyOK, LookupOK, ReplayOK, ConfigureOK, CheckReversedOK,
       ReserveOK, LoseRaceOK, LockOriginalOK
  <2>2. QED
    BY <1>1, <2>1, OnlyMovesPreserves
<1>4. ASSUME NEW h \in Tx, LockAccounts(h) PROVE IInv'
  BY <1>1, <1>4, LockAccountOK, OnlyMovesPreserves DEF LockAccounts
<1>5. ASSUME NEW h \in Tx, Reject(h) \/ Fail(h) \/ Deliver(h) \/ LoseReply(h)
      PROVE  IInv'
  BY <1>1, <1>5, EndPreserves DEF Reject, Fail, Deliver, LoseReply
<1>6. ASSUME NEW h \in Tx, NEW a \in AccountId, CommitAccount(h, a) PROVE IInv'
  BY <1>1, <1>6, CommitAccountOK
<1>7. ASSUME NEW h \in Tx, NEW id \in TransferId, CommitTransfer(h, id) PROVE IInv'
  BY <1>1, <1>7, CommitTransferOK
<1>8. ASSUME NEW a \in AccountId, ChangeStatus(a) PROVE IInv'
  BY <1>1, <1>8, ChangeStatusOK
<1>9. CASE UNCHANGED vars
  <2>1. ASSUME NEW g \in Tx PROVE HandlerOK(g)'
    <3>1. HandlerOK(g) /\ Steady(g)
      BY <1>9, StayGrow
      DEF IInv, TypeOK, ReadsStayCurrent, HandlersConsistent, HandlerOK,
          Steady, vars, tables, Reversed, ReadsCurrent
    <3>2. QED
      BY <3>1, SteadyHandler DEF IInv
  <2>2. QED
    BY <1>1, <1>9, <2>1
    DEF vars, tables, IInv, TypeOK, LocksExclusive, ReadsStayCurrent,
        HandlersConsistent, HandlerOK
<1>10. QED
  BY <1>2, <1>3, <1>4, <1>5, <1>6, <1>7, <1>8, <1>9 DEF Next, Proceed

\* With no transaction open the invariant holds of the initial tables.
LEMMA InitOK == Init => IInv
<1> SUFFICES ASSUME Init PROVE IInv
  OBVIOUS
<1>1. TablesOK
  BY LedgerDataAssumption
  DEF LedgerDataAssumption, Init, AtomicInit, TablesOK, IsTable
<1>2. \A h \in Tx : tx[h] = NoTransaction
  BY DEF Init
<1>3. NoTransaction \in Transaction({}) /\ DOMAIN NoTransaction.view = {}
  BY DEF NoTransaction, Transaction, Statements
<1>4. ASSUME NEW h \in Tx PROVE HandlerOK(h)
  <2>1. tx[h] = NoTransaction
    BY <1>2
  <2>2. tx[h].pc = "idle" /\ tx[h].holds = {} /\ tx[h].fx = Parity
    BY <2>1 DEF NoTransaction
  <2>3. ReadsCurrent(h) /\ DOMAIN tx[h].view = {}
    BY <1>3, <2>1, <2>2 DEF ReadsCurrent
  <2>4. QED
    BY <1>3, <2>1, <2>2, <2>3
    DEF HandlerOK, Consistent, OnPath, ScopeKnown, PriceKnown, OriginalKnown,
        RowsKnown, AnswerKnown, LocksOf, At
<1>5. LocksExclusive
  BY <1>2 DEF LocksExclusive, NoTransaction
<1>6. QED
  BY <1>1, <1>4, <1>5
  DEF Init, IInv, TypeOK, HandlerOK, ReadsStayCurrent, HandlersConsistent

(***************************************************************************)
(* Theorems.                                                               *)
(***************************************************************************)
\* Whatever statements of whatever transactions interleave, every handler knows
\* what it has checked, holds what it has locked, and reads what is committed.
THEOREM InductiveInvariant == Spec => []IInv
BY InitOK, StepPreserves, PTL DEF Spec

\* Tables and transactions are well typed.
THEOREM TypeCorrect == Spec => []TypeOK
BY InductiveInvariant, PTL DEF IInv

\* Row locks and reservations exclude one another, and no key that is spent is
\* still reserved.
THEOREM LocksAreExclusive == Spec => []LocksExclusive
BY InductiveInvariant, PTL DEF IInv

\* No lost update: what a transaction has read under a lock is what it commits
\* over, and an original found unreversed under its lock stays so.
THEOREM ReadsAreCurrent == Spec => []ReadsStayCurrent
BY InductiveInvariant, PTL DEF IInv

\* The service implements the atomic ledger.
THEOREM ServiceIsAtomic == Spec => IsAtomic
<1>1. Init => AtomicInit
  BY DEF Init
<1>2. QED
  BY <1>1, InductiveInvariant, StepRefines, PTL DEF Spec, AtomicSpec, IsAtomic

\* However reversals race, a transfer is reversed at most once.
THEOREM ReversedAtMostOnce == Spec => []AtMostOneReversal
BY ServiceIsAtomic, AtomicAtMostOneReversal, PTL DEF IsAtomic

\* Retries, lost answers and races included, all answers to a key agree and name
\* what its record durably holds.
THEOREM AllRepliesAgree == Spec => []RepliesAgree
BY ServiceIsAtomic, AtomicRepliesAgree, PTL DEF IsAtomic

\* A spent key has one effect, and every effect has been paid for with a key.
THEOREM KeysHaveOneEffect == Spec => []OneEffectPerKey
BY ServiceIsAtomic, AtomicOneEffectPerKey, PTL DEF IsAtomic

\* The funds check of create_transfer holds of the balance at the commit.
THEOREM TransfersAreFunded == Spec => OnlyReversalsOverdraw
BY ServiceIsAtomic, AtomicOnlyReversalsOverdraw, PTL DEF IsAtomic

\* The status that counts is the one at the commit.
THEOREM InactiveAccountsStayFrozen == Spec => InactiveAccountsAreFrozen
BY ServiceIsAtomic, AtomicInactiveAccountsAreFrozen, PTL DEF IsAtomic

\* Balances are what the journal says, whatever the interleaving of the transactions.
THEOREM BalancesAreTrue == Spec => []BalancesMatchEntries
BY ServiceIsAtomic, AtomicBalancesMatchEntries, PTL DEF IsAtomic

\* A reversal undoes the transfer it reverses, fee included.
THEOREM ReversalsUndo == Spec => []ReversalNetsToZero
BY ServiceIsAtomic, AtomicReversalNetsToZero, PTL DEF IsAtomic

\* A transaction only ever waits for a lock that comes after all the locks it holds.
THEOREM WaitingClimbs == Spec => []LocksClimb
<1>1. IInv => LocksClimb
  <2> SUFFICES ASSUME IInv, NEW h \in Tx, NEW x \in tx[h].holds, NEW y \in Awaited(h)
               PROVE  Before(x, y)
    BY DEF LocksClimb
  <2>1. Consistent(h)
    BY DEF IInv, HandlersConsistent
  <2>2. CASE At(h, "reserve")
    BY <2>1, <2>2 DEF At, Consistent, LocksOf
  <2>3. CASE At(h, "original")
    BY <2>1, <2>3
    DEF At, Consistent, LocksOf, Awaited, Before, KeyLock, TransferLock
  <2>4. CASE At(h, "lock")
    <3>1. PICK a \in Unlocked(h) : y = AccountLock(a)
      BY <2>4 DEF Awaited, At
    <3>2. \A b \in DOMAIN tx[h].view : b < a
      BY <2>1, <2>4, <3>1 DEF Consistent, RowsKnown
    <3>3. \/ x = KeyLock(tx[h].scope)
          \/ x = TransferLock(tx[h].req.original)
          \/ \E b \in DOMAIN tx[h].view : x = AccountLock(b)
      BY <2>1, <2>4 DEF Consistent, LocksOf, At
    <3>4. QED
      BY <3>1, <3>2, <3>3 DEF Before, KeyLock, TransferLock, AccountLock
  <2>5. QED
    BY <2>2, <2>3, <2>4 DEF Awaited
<1>2. QED
  BY <1>1, InductiveInvariant, PTL

\* A transaction awaits one lock at most.
LEMMA AwaitsOneLock ==
  ASSUME IInv, NEW h \in Tx
  PROVE  /\ Awaited(h) \subseteq Locks
         /\ \A x, y \in Awaited(h) : x = y
<1>1. /\ Consistent(h) /\ tx[h] \in Transaction(DOMAIN tx[h].view)
      /\ TablesOK
  BY DEF IInv, TypeOK, HandlersConsistent
<1>2. CASE At(h, "reserve")
  <2>1. tx[h].scope \in Scopes
    BY <1>1, <1>2, ScopeType DEF Consistent, ScopeKnown, OnPath, At
  <2>2. Awaited(h) = {KeyLock(tx[h].scope)}
    BY <1>2 DEF Awaited, At
  <2> QED
    BY <2>1, <2>2 DEF Locks
<1>3. CASE At(h, "original")
  <2>1. tx[h].req.original \in TransferId
    <3>1. tx[h].req \in Requests /\ tx[h].req.op = "reverse"
      BY <1>1, <1>3, RequestFields DEF Consistent, OnPath, Path, At
    <3> QED
      BY <3>1, RequestFields
  <2>2. Awaited(h) = {TransferLock(tx[h].req.original)}
    BY <1>3 DEF Awaited, At
  <2> QED
    BY <2>1, <2>2 DEF Locks
<1>4. CASE At(h, "lock")
  <2>1. Unlocked(h) \subseteq AccountId /\ AccountId \subseteq Nat
    <3>1. tx[h].req.op # "create"
      BY <1>1, <1>4 DEF Consistent, OnPath, Path, At
    <3>2. Parties(h) \subseteq DOMAIN account
      BY <1>4, <3>1, PartiesExist DEF At
    <3> QED
      BY <1>1, <3>2, LedgerDataAssumption DEF LedgerDataAssumption, Unlocked, TablesOK, IsTable
  <2>2. Awaited(h) = {AccountLock(a) : a \in {a \in Unlocked(h) :
                                                \A b \in Unlocked(h) : a <= b}}
    BY <1>4 DEF Awaited, At
  <2>3. \A a, b \in Unlocked(h) : a <= b /\ b <= a => a = b
    <3>1. \A a \in Unlocked(h) : a \in Nat
      BY <2>1, Zenon
    <3> QED
      BY <3>1
  <2> QED
    BY <2>1, <2>2, <2>3 DEF Locks
<1>5. CASE ~At(h, "reserve") /\ ~At(h, "original") /\ ~At(h, "lock")
  BY <1>5 DEF Awaited
<1> QED
  BY <1>2, <1>3, <1>4, <1>5

\* Locks are strictly ordered.
LEMMA BeforeIsAnOrder ==
  /\ \A x \in Locks : ~Before(x, x)
  /\ \A x, y, z \in Locks : Before(x, y) /\ Before(y, z) => Before(x, z)
<1>1. \A a \in AccountId : a \in Int
  BY LedgerDataAssumption DEF LedgerDataAssumption
<1>2. ASSUME NEW x \in Locks
      PROVE  \/ x[1] = "key" \/ x[1] = "transfer"
             \/ x[1] = "account" /\ x[2] \in Int
  BY <1>1, <1>2 DEF Locks, KeyLock, TransferLock, AccountLock
<1> QED
  BY <1>2 DEF Before

\* No set of transactions waits on itself.  If one did, each of its members would await
\* a lock that comes before the one that the member it waits for awaits, and among
\* finitely many members there is one with the fewest after it.
THEOREM NothingDeadlocks == Spec => []NoDeadlock
<1>1. IInv /\ LocksClimb => NoDeadlock
  <2> SUFFICES ASSUME IInv, LocksClimb, NEW S \in SUBSET Tx, S # {},
                      \A g \in S : \E h \in S : Waits(g, h)
               PROVE  FALSE
    BY DEF NoDeadlock
  <2> DEFINE After(g) == {h \in S : \E x \in Awaited(g), y \in Awaited(h) : Before(x, y)}
             T == {After(g) : g \in S}
  <2>1. IsFiniteSet(S)
    BY FS_Subset, LedgerAssumption DEF LedgerAssumption
  <2>2. IsWellFoundedOn(StrictSubsetOrdering(S), FiniteSubsetsOf(S))
    BY FS_StrictSubsetOrderingWellFounded
  <2>3. T \subseteq FiniteSubsetsOf(S) /\ T # {}
    <3>1. T \subseteq SUBSET S /\ T # {}
      <4>1. PICK g \in S : TRUE
        OBVIOUS
      <4>2. After(g) \in T
        BY <4>1
      <4>3. \A k \in S : After(k) \in SUBSET S
        OBVIOUS
      <4> HIDE DEF After
      <4> QED
        BY <4>2, <4>3
    <3>2. FiniteSubsetsOf(S) = SUBSET S
      BY <2>1, FS_FiniteSubsetsOfFinite
    <3> QED
      BY <3>1, <3>2
  <2> HIDE DEF T
  <2>4. PICK least \in T : \A other \in T : <<other, least>> \notin StrictSubsetOrdering(S)
    BY <2>2, <2>3, WFMin
  <2>5. PICK g \in S : least = After(g)
    BY DEF T
  <2>6. PICK h \in S : Waits(g, h)
    OBVIOUS
  <2>7. PICK x : x \in Awaited(g) /\ x \in tx[h].holds
    BY <2>6 DEF Waits
  <2>8. PICK y : y \in Awaited(h)
    <3>1. PICK k \in S : Waits(h, k)
      OBVIOUS
    <3> QED
      BY <3>1 DEF Waits
  <2>9. Before(x, y) /\ x \in Locks /\ y \in Locks
    BY <2>5, <2>6, <2>7, <2>8, AwaitsOneLock DEF LocksClimb
  <2>10. h \in After(g)
    BY <2>6, <2>7, <2>8, <2>9
  <2>11. h \notin After(h)
    <3>1. \A u, v \in Awaited(h) : u = v /\ u \in Locks
      BY <2>6, AwaitsOneLock
    <3> QED
      BY <3>1, BeforeIsAnOrder
  <2>12. After(h) \subseteq After(g)
    <3> SUFFICES ASSUME NEW k \in S, NEW u \in Awaited(h), NEW z \in Awaited(k), Before(u, z)
                 PROVE  Before(x, z)
      BY <2>7
    <3>1. u = y /\ z \in Locks
      BY <2>6, <2>8, AwaitsOneLock
    <3> QED
      BY <2>9, <3>1, BeforeIsAnOrder
  <2>13. After(h) \subseteq S /\ After(g) \subseteq S /\ After(h) \in T
    BY <2>6 DEF T
  <2> HIDE DEF After
  <2>14. <<After(h), After(g)>> \in StrictSubsetOrdering(S)
    BY <2>10, <2>11, <2>12, <2>13 DEF StrictSubsetOrdering
  <2> QED
    BY <2>4, <2>5, <2>13, <2>14
<1>2. QED
  BY <1>1, InductiveInvariant, WaitingClimbs, PTL
=============================================================================
