-------------------------------- MODULE Ledger --------------------------------
(***************************************************************************)
(* The write path of the ledger service, one action per SQL statement:     *)
(* create_account, create_transfer and reverse_transfer running in         *)
(* concurrent READ COMMITTED transactions, on connections of any number of *)
(* stateless service instances, with the row locks and the idempotency     *)
(* reservation of the code.                                                *)
(*                                                                         *)
(* The tables are those of LedgerAtomic and hold committed rows.  What a   *)
(* transaction has read and locked is its own; its INSERTs and UPDATEs     *)
(* become visible all at once when it commits, so they are one action with *)
(* the COMMIT.  They are computed from the rows the transaction read, as   *)
(* the code computes them, and not from the committed table: that the two  *)
(* agree is what the locks are for.  A statement that has to wait for      *)
(* another transaction is disabled.                                        *)
(***************************************************************************)
EXTENDS LedgerAtomic

CONSTANTS
  Tx,      \* the connections transactions run on
  Null     \* no request, no scope, no answer

\* Every pool opens at most max_connections connections.
ASSUME LedgerAssumption == IsFiniteSet(Tx)

VARIABLE tx  \* the transaction on each connection

tables == <<account, transfer, entry, record>>
vars == <<tables, replies, tx>>

(***************************************************************************)
(* Transactions.  `holds` are the locks that end with the transaction: on  *)
(* its uncommitted idempotency row and on the rows it has selected FOR     *)
(* UPDATE.  `view` are the account rows as it read them.                   *)
(***************************************************************************)
KeyLock(s)      == <<"key", s>>
TransferLock(t) == <<"transfer", t>>
AccountLock(a)  == <<"account", a>>
Locks == {KeyLock(s) : s \in Scopes} \cup {TransferLock(t) : t \in TransferId}
           \cup {AccountLock(a) : a \in AccountId}

Statements ==
  {"classify", "lookup", "reserve", "reread", "configure", "original",
   "exists", "lock", "write"}

Transaction(seen) ==
  [pc: Statements \cup {"idle", "reply"}, req: Requests \cup {Null},
   scope: Scopes \cup {Null}, fx: FxConfigs \cup {Parity},
   view: [seen -> AccountRow],
   holds: SUBSET Locks, answer: Resources \cup {Null}]

NoTransaction ==
  [pc |-> "idle", req |-> Null, scope |-> Null, fx |-> Parity, view |-> <<>>,
   holds |-> {}, answer |-> Null]

Free(x) == \A h \in Tx : x \notin tx[h].holds

At(h, pc) == tx[h].pc = pc
GoTo(h, pc) == tx' = [tx EXCEPT ![h].pc = pc]
\* Bug: the lock is not waited for.
AcquireAtOnce(h, x, pc) ==
  tx' = [tx EXCEPT ![h].pc = pc, ![h].holds = @ \cup {x}]
Acquire(h, x, pc) ==
  /\ Free(x)
  /\ tx' = [tx EXCEPT ![h].pc = pc, ![h].holds = @ \cup {x}]
\* Bug: the connection goes back without a ROLLBACK.
EndKeepingLocks(h) ==
  tx' = [tx EXCEPT ![h] = [NoTransaction EXCEPT !.holds = tx[h].holds]]
End(h) == tx' = [tx EXCEPT ![h] = NoTransaction]

\* COMMIT releases the locks and leaves the answer to be sent.
Answer(h, id) ==
  tx' = [tx EXCEPT ![h] =
           [NoTransaction EXCEPT !.pc = "reply", !.req = tx[h].req,
                                 !.scope = tx[h].scope, !.answer = id]]

\* The transfer row that the transaction on h is about to insert.
Planned(h) ==
  IF tx[h].req.op = "transfer"
  THEN TransferOf(tx[h].req, tx[h].scope[2], tx[h].fx)
  ELSE ReversalOf(tx[h].req, transfer[tx[h].req.original])

Parties(h) == {Planned(h).source, Planned(h).destination}

(***************************************************************************)
(* Request and idempotency.                                                *)
(***************************************************************************)
\* BEGIN.  create_account reserves at once; reverse_transfer looks the key up
\* first; create_transfer must read the currencies to know its scope.
Begin(h, r) ==
  /\ At(h, "idle")
  /\ tx' = [tx EXCEPT ![h] =
              [NoTransaction EXCEPT
                 !.pc = CASE r.op = "create"   -> "reserve"
                          [] r.op = "transfer" -> "classify"
                          [] r.op = "reverse"  -> "lookup",
                 !.req = r,
                 !.scope = IF r.op = "transfer" THEN Null
                           ELSE Scope(r)]]
  /\ UNCHANGED <<tables, replies>>

Classifiable(r) ==
  {r.source, r.destination} \subseteq DOMAIN account /\ r.amount > 0

\* The preliminary SELECT of the two currencies fixes the operation type.
Classify(h) ==
  /\ At(h, "classify")
  /\ Classifiable(tx[h].req)
  /\ tx' = [tx EXCEPT ![h].pc = "lookup",
                      ![h].scope = Scope(tx[h].req)]
  /\ UNCHANGED <<tables, replies>>

\* completed_success finds no record.
Lookup(h) ==
  /\ At(h, "lookup")
  /\ tx[h].scope \notin DOMAIN record
  /\ GoTo(h, "reserve")
  /\ UNCHANGED <<tables, replies>>

\* Bug: the fingerprint is not compared.
ReplayAnyRequest(h) ==
  /\ At(h, "lookup") \/ At(h, "reread")
  /\ tx[h].scope \in DOMAIN record
  /\ Answer(h, record[tx[h].scope].result)
  /\ UNCHANGED <<tables, replies>>

\* A record with the same fingerprint, found by completed_success or after a
\* lost insertion race: the stored answer is replayed.
Replay(h) ==
  /\ At(h, "lookup") \/ At(h, "reread")
  /\ tx[h].scope \in DOMAIN record
  /\ record[tx[h].scope].fingerprint = Fingerprint(tx[h].req)
  /\ Answer(h, record[tx[h].scope].result)
  /\ UNCHANGED <<tables, replies>>

\* Bug: the unique index on the scope is missing.
ReserveTwice(h) ==
  /\ At(h, "reserve")
  /\ Acquire(h, KeyLock(tx[h].scope),
             CASE tx[h].scope[2] = "account_creation" -> "write"
               [] tx[h].scope[2] = "transfer"         -> "lock"
               [] tx[h].scope[2] = "fx_transfer"      -> "configure"
               [] tx[h].scope[2] = "reversal"         -> "original")
  /\ UNCHANGED <<tables, replies>>

\* INSERT ... ON CONFLICT DO NOTHING inserts the reservation.
Reserve(h) ==
  /\ At(h, "reserve")
  /\ tx[h].scope \notin DOMAIN record
  /\ Acquire(h, KeyLock(tx[h].scope),
             CASE tx[h].scope[2] = "account_creation" -> "write"
               [] tx[h].scope[2] = "transfer"         -> "lock"
               [] tx[h].scope[2] = "fx_transfer"      -> "configure"
               [] tx[h].scope[2] = "reversal"         -> "original")
  /\ UNCHANGED <<tables, replies>>

\* Bug: the transaction goes on although the INSERT has inserted nothing.
LoseRaceUnnoticed(h) ==
  /\ At(h, "reserve")
  /\ Free(KeyLock(tx[h].scope))
  /\ tx[h].scope \in DOMAIN record
  /\ GoTo(h, "lock")
  /\ UNCHANGED <<tables, replies>>

\* It inserts nothing: the scope is taken.  An uncommitted row of another
\* transaction is waited for first.
LoseRace(h) ==
  /\ At(h, "reserve")
  /\ Free(KeyLock(tx[h].scope))
  /\ tx[h].scope \in DOMAIN record
  /\ GoTo(h, "reread")
  /\ UNCHANGED <<tables, replies>>

\* select_exchange_rate and select_fee_rule.
Configure(h) ==
  /\ At(h, "configure")
  /\ \E fx \in FxConfigs :
       tx' = [tx EXCEPT ![h].pc = "lock", ![h].fx = fx]
  /\ UNCHANGED <<tables, replies>>

(***************************************************************************)
(* Row locks.                                                              *)
(***************************************************************************)
Reversible(r) ==
  /\ r.original \in DOMAIN transfer
  /\ transfer[r.original].kind # "reversal"
  /\ account[transfer[r.original].destination].owner = r.client

\* Bug: no FOR UPDATE.
ReadOriginal(h) ==
  /\ At(h, "original")
  /\ Reversible(tx[h].req)
  /\ GoTo(h, "exists")
  /\ UNCHANGED <<tables, replies>>

\* SELECT ... FROM transfers ... FOR UPDATE, and the checks on that row.
LockOriginal(h) ==
  /\ At(h, "original")
  /\ Reversible(tx[h].req)
  /\ Acquire(h, TransferLock(tx[h].req.original), "exists")
  /\ UNCHANGED <<tables, replies>>

\* SELECT EXISTS: a statement of its own, that sees what has been committed
\* while the lock was waited for.
CheckReversed(h) ==
  /\ At(h, "exists")
  /\ ~Reversed(tx[h].req.original)
  /\ GoTo(h, "lock")
  /\ UNCHANGED <<tables, replies>>

Unlocked(h) == Parties(h) \ DOMAIN tx[h].view

\* Bugs: no FOR UPDATE; no ORDER BY.
ReadAccount(h, a) ==
  /\ At(h, "lock")
  /\ a \in Unlocked(h)
  /\ tx' = [tx EXCEPT
              ![h].pc = IF Unlocked(h) = {a} THEN "write" ELSE "lock",
              ![h].view = Insert(@, a, account[a])]
  /\ UNCHANGED <<tables, replies>>

LockAccountInAnyOrder(h, a) ==
  /\ At(h, "lock")
  /\ a \in Unlocked(h)
  /\ Free(AccountLock(a))
  /\ tx' = [tx EXCEPT
              ![h].pc = IF Unlocked(h) = {a} THEN "write" ELSE "lock",
              ![h].holds = @ \cup {AccountLock(a)},
              ![h].view = Insert(@, a, account[a])]
  /\ UNCHANGED <<tables, replies>>

\* SELECT ... FROM accounts ... ORDER BY id FOR UPDATE locks the rows one
\* after the other and returns each as it is once it is locked.
LockAccount(h, a) ==
  /\ At(h, "lock")
  /\ a \in Unlocked(h)
  /\ \A b \in Unlocked(h) : a <= b
  /\ Free(AccountLock(a))
  /\ tx' = [tx EXCEPT
              ![h].pc = IF Unlocked(h) = {a} THEN "write" ELSE "lock",
              ![h].holds = @ \cup {AccountLock(a)},
              ![h].view = Insert(@, a, account[a])]
  /\ UNCHANGED <<tables, replies>>

(***************************************************************************)
(* Effects and the end of a transaction.                                   *)
(***************************************************************************)
\* The reservation, completed by store_success, becomes visible.
StoreSuccess(h, id) ==
  /\ record' = Insert(record, tx[h].scope,
                 [fingerprint |-> Fingerprint(tx[h].req), result |-> id])
  /\ Answer(h, id)
  /\ UNCHANGED replies

CommitAccount(h, a) ==
  /\ At(h, "write")
  /\ tx[h].req.op = "create"
  /\ a \notin DOMAIN account
  /\ account' = Insert(account, a, NewAccount(tx[h].req))
  /\ StoreSuccess(h, a)
  /\ UNCHANGED <<transfer, entry>>

Allowed(h) ==
  \/ tx[h].req.op = "transfer" /\ TransferAllowed(Planned(h), tx[h].view)
  \/ tx[h].req.op = "reverse" /\ ReversalAllowed(Planned(h), tx[h].view)

CommitTransfer(h, id) ==
  /\ At(h, "write")
  /\ Allowed(h)
  /\ id \notin DOMAIN transfer
  /\ transfer' = Insert(transfer, id, Planned(h))
  /\ account' = Post(account, tx[h].view, Planned(h))
  /\ entry' = entry \cup EntriesOf(id, Planned(h))
  /\ StoreSuccess(h, id)

\* The 4xx answers: ROLLBACK, which drops the reservation and the locks.
Reject(h) ==
  /\ \/ At(h, "classify") /\ ~Classifiable(tx[h].req)
     \/ /\ At(h, "lookup") \/ At(h, "reread")
        /\ tx[h].scope \in DOMAIN record
        /\ record[tx[h].scope].fingerprint # Fingerprint(tx[h].req)
     \/ At(h, "original") /\ ~Reversible(tx[h].req)
     \/ At(h, "exists") /\ Reversed(tx[h].req.original)
     \/ At(h, "write") /\ tx[h].req.op # "create" /\ ~Allowed(h)
  /\ End(h)
  /\ UNCHANGED <<tables, replies>>

\* A database error, a missing rate or fee, a cancelled handler, a crash of
\* the instance: the transaction is dropped and PostgreSQL rolls it back.
Fail(h) ==
  /\ tx[h].pc \in Statements
  /\ End(h)
  /\ UNCHANGED <<tables, replies>>

Deliver(h) ==
  /\ At(h, "reply")
  /\ replies' = replies \cup
       {[scope |-> tx[h].scope, fingerprint |-> Fingerprint(tx[h].req),
         result |-> tx[h].answer]}
  /\ End(h)
  /\ UNCHANGED tables

\* The commit happened, but its acknowledgement or the answer is lost.
LoseReply(h) ==
  /\ At(h, "reply")
  /\ End(h)
  /\ UNCHANGED <<tables, replies>>

\* An operator's UPDATE accounts SET status, which waits for the row lock.
ChangeStatus(a) ==
  /\ Free(AccountLock(a))
  /\ SetStatus(a)
  /\ UNCHANGED tx
(***************************************************************************)
(* The specification.                                                      *)
(***************************************************************************)
Init == AtomicInit /\ tx = [h \in Tx |-> NoTransaction]

\* Steps that never wait for another transaction.
Proceed(h) ==
  \/ Classify(h) \/ Lookup(h) \/ Replay(h) \/ Configure(h)
  \/ CheckReversed(h) \/ Reject(h) \/ Deliver(h)
  \/ \E a \in AccountId : CommitAccount(h, a)
  \/ \E id \in TransferId : CommitTransfer(h, id)

LockAccounts(h) == \E a \in AccountId : LockAccount(h, a)

Next ==
  \/ \E h \in Tx :
       \/ \E r \in Requests : Begin(h, r)
       \/ Proceed(h)
       \/ Reserve(h) \/ LoseRace(h) \/ LockOriginal(h) \/ LockAccounts(h)
       \/ Fail(h) \/ LoseReply(h)
  \/ \E a \in AccountId : ChangeStatus(a)

Spec == Init /\ [][Next]_vars

\* A handler is polled until it is done, and PostgreSQL queues the waiters of a
\* lock, so that one that is passed over again and again gets it in the end.
\* Requests, failures and lost answers need never happen.
Fairness ==
  \A h \in Tx : /\ WF_vars(Proceed(h))
                /\ SF_vars(Reserve(h) \/ LoseRace(h))
                /\ SF_vars(LockOriginal(h))
                /\ SF_vars(LockAccounts(h))

LiveSpec == Spec /\ Fairness

(***************************************************************************)
(* Properties.                                                             *)
(***************************************************************************)
\* Tables and transactions are well typed.
TypeOK ==
  /\ TablesOK
  /\ tx = [h \in Tx |-> tx[h]]
  /\ \A h \in Tx : tx[h] \in Transaction(DOMAIN tx[h].view)
                  /\ DOMAIN tx[h].view \subseteq AccountId

\* No two transactions hold the same lock, and a reservation is held only for
\* a key that is not spent: `reserve` waits for the row of a competitor.
LocksExclusive ==
  \A h \in Tx :
    /\ \A g \in Tx \ {h} : tx[g].holds \cap tx[h].holds = {}
    /\ \A s \in DOMAIN record : KeyLock(s) \notin tx[h].holds

\* What the committing statements rely on: the rows a transaction has locked
\* are still the committed ones, and a locked original is still unreversed.
ReadsCurrent(h) ==
  /\ \A a \in DOMAIN tx[h].view :
       a \in DOMAIN account /\ tx[h].view[a] = account[a]
  /\ tx[h].pc \in {"lock", "write"} /\ tx[h].req.op = "reverse" =>
       ~Reversed(tx[h].req.original)

ReadsStayCurrent == \A h \in Tx : ReadsCurrent(h)

\* What a transaction that has come to a statement has locked and has found
\* out, and that stays true whatever the others commit meanwhile.
LocksOf(h) ==
  CASE tx[h].pc \in {"configure", "original"} -> {KeyLock(tx[h].scope)}
    [] At(h, "exists") ->
         {KeyLock(tx[h].scope), TransferLock(tx[h].req.original)}
    [] tx[h].pc \in {"lock", "write"} ->
         {KeyLock(tx[h].scope)}
           \cup (IF tx[h].req.op = "reverse"
                 THEN {TransferLock(tx[h].req.original)} ELSE {})
           \cup {AccountLock(a) : a \in DOMAIN tx[h].view}
    [] OTHER -> {}

Path(op) ==
  {"reserve", "reread", "write", "reply"} \cup
  CASE op = "create"   -> {}
    [] op = "transfer" -> {"classify", "lookup", "configure", "lock"}
    [] op = "reverse"  -> {"lookup", "original", "exists", "lock"}

OnPath(h) ==
  IF At(h, "idle") THEN tx[h] = NoTransaction
  ELSE tx[h].req \in Requests /\ tx[h].pc \in Path(tx[h].req.op)

ScopeKnown(h) ==
  tx[h].pc \notin {"idle", "classify"} =>
    /\ tx[h].scope = Scope(tx[h].req)
    /\ tx[h].req.op = "transfer" => Classifiable(tx[h].req)

PriceKnown(h) ==
  /\ At(h, "configure") => tx[h].scope[2] = "fx_transfer"
  /\ tx[h].fx # Parity =>
       tx[h].pc \in {"lock", "write"} /\ tx[h].scope[2] = "fx_transfer"

OriginalKnown(h) ==
  tx[h].pc \in {"exists", "lock", "write"} /\ tx[h].req.op = "reverse" =>
    Reversible(tx[h].req)

RowsKnown(h) ==
  /\ tx[h].pc \notin {"lock", "write"} \/ tx[h].req.op = "create" =>
       DOMAIN tx[h].view = {}
  /\ At(h, "lock") =>
       /\ DOMAIN tx[h].view \subseteq Parties(h)
       /\ Unlocked(h) # {}
       /\ \A a \in DOMAIN tx[h].view, b \in Unlocked(h) : a < b
  /\ At(h, "write") /\ tx[h].req.op # "create" =>
       DOMAIN tx[h].view = Parties(h)

AnswerKnown(h) ==
  At(h, "reply") =>
    /\ tx[h].scope \in DOMAIN record
    /\ record[tx[h].scope] =
         [fingerprint |-> Fingerprint(tx[h].req), result |-> tx[h].answer]

\* Every handler is where its request leads it, holds exactly the locks it has
\* acquired on the way, and knows what it has checked on the way.
Consistent(h) ==
  /\ OnPath(h) /\ ScopeKnown(h) /\ PriceKnown(h) /\ OriginalKnown(h)
  /\ RowsKnown(h) /\ AnswerKnown(h)
  /\ tx[h].holds = LocksOf(h)

HandlersConsistent == \A h \in Tx : Consistent(h)

\* The inductive invariant that the proofs rest on.
IInv == TypeOK /\ LocksExclusive /\ ReadsStayCurrent /\ HandlersConsistent

\* The lock that the next statement of h needs.
Awaited(h) ==
  CASE At(h, "reserve")  -> {KeyLock(tx[h].scope)}
    [] At(h, "original") -> {TransferLock(tx[h].req.original)}
    [] At(h, "lock")     -> {AccountLock(a) : a \in
                               {a \in Unlocked(h) :
                                  \A b \in Unlocked(h) : a <= b}}
    [] OTHER             -> {}

Waits(g, h) == Awaited(g) \cap tx[h].holds # {}

\* No set of transactions waits on itself: reservations are taken before the
\* original transfer, that before the accounts, and accounts by ascending id.
NoDeadlock ==
  \A S \in (SUBSET Tx) \ {{}} : \E g \in S : \A h \in S : ~Waits(g, h)

\* Why: what a transaction awaits comes after everything it holds, in one order
\* of all locks.
Before(x, y) ==
  \/ x[1] = "key" /\ y[1] # "key"
  \/ x[1] = "transfer" /\ y[1] = "account"
  \/ x[1] = "account" /\ y[1] = "account" /\ x[2] < y[2]

LocksClimb == \A h \in Tx : \A x \in tx[h].holds, y \in Awaited(h) : Before(x, y)

\* Each transaction takes effect as one step of the atomic ledger, when it
\* commits: whatever the interleaving, the outcome is that of a serial order.
IsAtomic == AtomicSpec

\* No request hangs: locks and reservations are always handed on.
EveryRequestEnds == \A h \in Tx : ~At(h, "idle") ~> At(h, "idle")
=============================================================================
