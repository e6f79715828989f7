----------------------------- MODULE LedgerAtomic -----------------------------
(***************************************************************************)
(* What the ledger promises: every financial operation takes effect in one *)
(* indivisible step on the committed tables, at most once per idempotency  *)
(* scope, and every 201 a client sees names the resource which the scope's *)
(* record durably holds.  A rejected operation changes nothing and so is   *)
(* no step at all.  Ledger refines this specification.                     *)
(***************************************************************************)
EXTENDS LedgerData, FiniteSets

VARIABLES
  account,   \* accounts, by id
  transfer,  \* transfers, by id
  entry,     \* account_entries
  record,    \* committed idempotency_records, by scope
  replies    \* ghost: the 201 answers clients have received

atomicVars == <<account, transfer, entry, record, replies>>

Kind(r) == IF account[r.source].currency = account[r.destination].currency
           THEN "transfer" ELSE "fx_transfer"

\* (client_id, operation_type, idempotency_key)
Scope(r) ==
  <<r.client,
    CASE r.op = "create"   -> "account_creation"
      [] r.op = "transfer" -> Kind(r)
      [] r.op = "reverse"  -> "reversal",
    r.key>>

\* The row a scope's key is spent on, with the result of its operation.
Spend(r, id) ==
  /\ Scope(r) \notin DOMAIN record
  /\ record' = Insert(record, Scope(r),
                      [fingerprint |-> Fingerprint(r), result |-> id])

Reversed(o) == \E t \in DOMAIN transfer : transfer[t].reverses = o

(***************************************************************************)
(* Operations.                                                             *)
(***************************************************************************)
CreateAccount(r, a) ==
  /\ r.op = "create"
  /\ a \notin DOMAIN account
  /\ Spend(r, a)
  /\ account' = Insert(account, a, NewAccount(r))
  /\ UNCHANGED <<transfer, entry, replies>>

\* The effect common to transfers and reversals.
Record(id, t) ==
  /\ id \notin DOMAIN transfer
  /\ transfer' = Insert(transfer, id, t)
  /\ account' = Post(account, account, t)
  /\ entry' = entry \cup EntriesOf(id, t)
  /\ UNCHANGED replies

Transfer(r, fx, id) ==
  /\ r.op = "transfer"
  /\ {r.source, r.destination} \subseteq DOMAIN account
  /\ r.amount > 0
  /\ Kind(r) = "transfer" => fx = Parity
  /\ TransferAllowed(TransferOf(r, Kind(r), fx), account)
  /\ Spend(r, id)
  /\ Record(id, TransferOf(r, Kind(r), fx))

\* Only the owner of the account that received the money may send it back.
Reverse(r, id) ==
  /\ r.op = "reverse"
  /\ r.original \in DOMAIN transfer
  /\ transfer[r.original].kind # "reversal"
  /\ account[transfer[r.original].destination].owner = r.client
  /\ ~Reversed(r.original)
  /\ ReversalAllowed(ReversalOf(r, transfer[r.original]), account)
  /\ Spend(r, id)
  /\ Record(id, ReversalOf(r, transfer[r.original]))

\* No endpoint changes a status: an operator does, with SQL.
SetStatus(a) ==
  /\ a \in DOMAIN account
  /\ account' = [account EXCEPT ![a].status =
                   IF @ = "active" THEN "inactive" ELSE "active"]
  /\ UNCHANGED <<transfer, entry, record, replies>>

\* An answer, first or replayed: whatever was committed for the scope.
Reply(s) ==
  /\ s \in DOMAIN record
  /\ replies' = replies \cup
       {[scope |-> s, fingerprint |-> record[s].fingerprint,
         result |-> record[s].result]}
  /\ UNCHANGED <<account, transfer, entry, record>>

AtomicInit ==
  /\ account = InitialAccounts
  /\ transfer = <<>>
  /\ entry = {}
  /\ record = <<>>
  /\ replies = {}

Operate(r) ==
  \/ \E a \in AccountId : CreateAccount(r, a)
  \/ \E fx \in FxConfigs \cup {Parity}, id \in TransferId : Transfer(r, fx, id)
  \/ \E id \in TransferId : Reverse(r, id)

AtomicNext ==
  \/ \E r \in Requests : Operate(r)
  \/ \E a \in AccountId : SetStatus(a)
  \/ \E s \in Scopes : Reply(s)

AtomicSpec == AtomicInit /\ [][AtomicNext]_atomicVars

(***************************************************************************)
(* Properties.                                                             *)
(***************************************************************************)
\* Every column holds a value of its type, amounts within i64 (the BIGINT
\* columns and the checked arithmetic of the handlers), and the two accounts of
\* a transfer exist and differ.
TablesOK ==
  /\ IsTable(account, AccountId, AccountRow)
  /\ IsTable(transfer, TransferId, TransferRow)
  /\ \A t \in DOMAIN transfer :
       /\ {transfer[t].source, transfer[t].destination} \subseteq DOMAIN account
       /\ transfer[t].source # transfer[t].destination
  /\ entry \subseteq EntryRow
  /\ IsTable(record, Scopes, RecordRow)
  /\ \A p \in replies : /\ p.scope \in Scopes
                        /\ [fingerprint |-> p.fingerprint,
                            result |-> p.result] \in RecordRow

EntriesFor(a, d) == {e \in entry : e.account = a /\ e.direction = d}

\* What the entries add up to: the number of minor units in them.
Total(entries) ==
  Cardinality({unit \in entries \X (1 .. MaxI64) : unit[2] <= unit[1].amount})

\* The journal holds the two entries of each transfer and no others, and a reversal
\* is the transfer it reverses the other way round. Balances and journal agree
\* because of it.
JournalOK ==
  /\ IsFiniteSet(entry)
  /\ entry = UNION {EntriesOf(t, transfer[t]) : t \in DOMAIN transfer}
  /\ \A t \in DOMAIN transfer : transfer[t].reverses # NoTransfer =>
       /\ transfer[t].reverses \in DOMAIN transfer
       /\ LET o == transfer[transfer[t].reverses] IN
          /\ transfer[t].source = o.destination /\ transfer[t].destination = o.source
          /\ transfer[t].total_source_debit = o.destination_amount
          /\ transfer[t].destination_amount = o.total_source_debit

\* The projection equals the journal: an account's balance is its opening
\* balance plus its credits minus its debits, and its version counts its
\* entries.  A lost or doubled balance UPDATE breaks it.
BalancesMatchEntries ==
  \A a \in DOMAIN account :
    LET credits == EntriesFor(a, "credit")
        debits  == EntriesFor(a, "debit")
    IN  /\ account[a].balance =
             account[a].opening + Total(credits) - Total(debits)
        /\ account[a].version = Cardinality(credits) + Cardinality(debits)

\* However reversals race, a transfer is reversed at most once, and never is
\* a reversal itself reversed (reverse_transfer's lock and EXISTS check).
AtMostOneReversal ==
  \A t \in DOMAIN transfer : transfer[t].reverses # NoTransfer =>
    /\ transfer[t].reverses \in DOMAIN transfer
    /\ transfer[transfer[t].reverses].kind # "reversal"
    /\ \A u \in DOMAIN transfer :
         transfer[u].reverses = transfer[t].reverses => u = t

\* A transfer and its reversal together leave each of the two accounts what
\* it had, fee included.
ReversalNetsToZero ==
  \A t \in DOMAIN transfer : transfer[t].reverses # NoTransfer =>
    \A a \in AccountId :
      LET pair(d) == {e \in EntriesFor(a, d) :
                        e.transfer \in {t, transfer[t].reverses}}
      IN  Total(pair("credit")) = Total(pair("debit"))

\* Exactly one effect per spent key: the transfers and the opened accounts
\* are the results of distinct records, each of the operation its scope names.
OneEffectPerKey ==
  /\ \A s1, s2 \in DOMAIN record :
       record[s1].result = record[s2].result => s1 = s2
  /\ {record[s].result : s \in {s \in DOMAIN record :
                                  s[2] # "account_creation"}}
       = DOMAIN transfer
  /\ DOMAIN InitialAccounts \subseteq DOMAIN account
  /\ {record[s].result : s \in {s \in DOMAIN record :
                                  s[2] = "account_creation"}}
       = DOMAIN account \ DOMAIN InitialAccounts
  /\ \A s \in DOMAIN record : s[2] # "account_creation" =>
       /\ transfer[record[s].result].kind = s[2]
       /\ transfer[record[s].result].initiated_by = s[1]

\* All the 201 answers a scope ever gets are the same, and the resource they
\* name is the one the scope's record durably holds.
RepliesAgree ==
  \A p \in replies :
    /\ p.scope \in DOMAIN record
    /\ record[p.scope] = [fingerprint |-> p.fingerprint, result |-> p.result]

\* Only a reversal may leave an account it debits below zero: the funds check
\* of create_transfer is made on the balance that the debit is taken from.
OnlyReversalsOverdraw ==
  [][\A a \in DOMAIN account :
       account'[a].balance < account[a].balance /\ account'[a].balance < 0
         => \E t \in DOMAIN transfer' \ DOMAIN transfer :
              transfer'[t].kind = "reversal" /\ transfer'[t].source = a]_atomicVars

\* Money neither leaves nor enters an account that is inactive when the
\* transfer commits, even if it was active when the request arrived.
InactiveAccountsAreFrozen ==
  [][\A a \in DOMAIN account : account[a].status = "inactive" =>
       account'[a].balance = account[a].balance]_atomicVars
=============================================================================
