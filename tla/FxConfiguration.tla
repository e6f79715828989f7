---------------------------- MODULE FxConfiguration ----------------------------
(***************************************************************************)
(* How an FX transfer finds its rate and its fee, and names the rate, while *)
(* the configuration changes: three SELECTs and an INSERT of one            *)
(* transaction, each of which sees what is committed when it runs, all      *)
(* about one operation time.  Rows of any validity, past ones included, are *)
(* published and withdrawn at any time, as seed_fx_configuration does; they *)
(* are not modified.  Only the foreign key holds on to a rate.              *)
(***************************************************************************)
EXTENDS Integers

CONSTANTS
  Tx,          \* connections of the service
  Pair,        \* ordered pairs of different currencies
  Default,     \* the pair of a fee rule that names no currencies
  Id,          \* ids of rows, of each table
  MaxTime,     \* bound on PostgreSQL's clock
  Unavailable, \* selected: there is no row
  Ambiguous,   \* selected: there is more than one
  None         \* nothing selected yet

Times == 1 .. MaxTime
Row(pairs) ==
  [id: Id, pair: pairs, valid_from: Times, valid_until: 2 .. MaxTime + 1]
Rates == Row(Pair)
FeeRules == Row(Pair \cup {Default})

ASSUME FxConfigurationAssumption ==
  /\ MaxTime \in Nat \ {0}
  /\ Default \notin Pair
  /\ {Unavailable, Ambiguous, None} \cap FeeRules = {}
  /\ Unavailable # Ambiguous /\ None \notin {Unavailable, Ambiguous}

VARIABLES
  now,       \* PostgreSQL's clock
  rates,     \* exchange_rates
  fees,      \* fx_fee_rules
  transfers, \* the ids of rates that committed transfers name
  tx,        \* the transactions
  views      \* history: what a transaction's SELECTs could have seen

vars == <<now, rates, fees, transfers, tx, views>>

\* What a statement of the transaction is waited for, or how it stands.
Selecting == {"rate", "pair_fee", "default_fee"}
Statements == Selecting \cup {"idle", "priced", "booked", "refused"}
Answered(rows) == rows \cup {Unavailable, Ambiguous, None}
Transaction ==
  [pc: Statements, pair: Pair \cup {None}, operation_time: Times \cup {None},
   rate: Answered(Rates), fee: Answered(FeeRules)]
NoTransaction ==
  [pc |-> "idle", pair |-> None, operation_time |-> None,
   rate |-> None, fee |-> None]

At(h, pc) == tx[h].pc = pc

(***************************************************************************)
(* What is in force, moment by moment.                                     *)
(***************************************************************************)
\* The rows whose interval contains a time.
InForce(table, pair, t) ==
  {row \in table : row.pair = pair /\ t \in row.valid_from .. row.valid_until - 1}

\* All that counts for a pair at a time.
View(rs, fs, pair, t) ==
  [rate |-> InForce(rs, pair, t), pair_fee |-> InForce(fs, pair, t),
   default_fee |-> InForce(fs, Default, t)]

\* The transactions that are still selecting live to see a change.
Seen(rs, fs) ==
  [h \in Tx |->
     IF tx[h].pc \in Selecting
     THEN views[h] \cup {View(rs, fs, tx[h].pair, tx[h].operation_time)}
     ELSE views[h]]

(***************************************************************************)
(* The selections.                                                         *)
(***************************************************************************)
\* Bug: the interval includes its end.
ApplicableToTheEnd(table, pair, t) ==
  {row \in table : row.pair = pair /\ row.valid_from <= t /\ t <= row.valid_until}

\* WHERE ... AND valid_from <= $3 AND valid_until > $3
Applicable(table, pair, t) ==
  {row \in table : row.pair = pair /\ row.valid_from <= t /\ t < row.valid_until}

\* Bug: LIMIT 1.
AnyOne(rows) == IF rows = {} THEN Unavailable ELSE CHOOSE row \in rows : TRUE

\* No row, or more than one, is an error.
TheOne(rows) ==
  CASE rows = {} -> Unavailable
    [] \E row \in rows : rows = {row} -> CHOOSE row \in rows : TRUE
    [] OTHER -> Ambiguous

\* The answer is what a transaction goes on with, or why it is refused.
Refused(found) == found \in {Unavailable, Ambiguous}

\* BEGIN fixes transaction_timestamp().
Begin(h, p) ==
  /\ At(h, "idle")
  /\ tx' = [tx EXCEPT ![h] = [NoTransaction EXCEPT !.pc = "rate", !.pair = p,
                                                   !.operation_time = now]]
  /\ views' = [views EXCEPT ![h] = {View(rates, fees, p, now)}]
  /\ UNCHANGED <<now, rates, fees, transfers>>

SelectExchangeRate(h) ==
  LET found == TheOne(Applicable(rates, tx[h].pair, tx[h].operation_time)) IN
  /\ At(h, "rate")
  /\ tx' = [tx EXCEPT ![h].rate = found,
                      ![h].pc = IF Refused(found) THEN "refused" ELSE "pair_fee"]
  /\ UNCHANGED <<now, rates, fees, transfers, views>>

\* Bug: the statement asks about its own time.
SelectPairFeeNow(h) ==
  LET found == TheOne(Applicable(fees, tx[h].pair, now)) IN
  /\ At(h, "pair_fee")
  /\ tx' = IF found = Unavailable
           THEN [tx EXCEPT ![h].pc = "default_fee"]
           ELSE [tx EXCEPT ![h].fee = found,
                           ![h].pc = IF Refused(found) THEN "refused" ELSE "priced"]
  /\ UNCHANGED <<now, rates, fees, transfers, views>>

\* pair_fee_rows: only if there is none is the default asked for.
SelectPairFee(h) ==
  LET found == TheOne(Applicable(fees, tx[h].pair, tx[h].operation_time)) IN
  /\ At(h, "pair_fee")
  /\ tx' = IF found = Unavailable
           THEN [tx EXCEPT ![h].pc = "default_fee"]
           ELSE [tx EXCEPT ![h].fee = found,
                           ![h].pc = IF Refused(found) THEN "refused" ELSE "priced"]
  /\ UNCHANGED <<now, rates, fees, transfers, views>>

\* default_fee_rows
SelectDefaultFee(h) ==
  LET found == TheOne(Applicable(fees, Default, tx[h].operation_time)) IN
  /\ At(h, "default_fee")
  /\ tx' = [tx EXCEPT ![h].fee = found,
                      ![h].pc = IF Refused(found) THEN "refused" ELSE "priced"]
  /\ UNCHANGED <<now, rates, fees, transfers, views>>

(***************************************************************************)
(* The transfer that names the rate.                                       *)
(***************************************************************************)
Ids(table) == {row.id : row \in table}

\* Ids of rates that uncommitted transfers name: their rows are locked.
Booked == {tx[h].rate.id : h \in {g \in Tx : At(g, "booked")}}

\* Bug: exchange_rate_id is a column without a foreign key.
InsertTransferUnchecked(h) ==
  /\ At(h, "priced")
  /\ tx' = [tx EXCEPT ![h].pc = "booked"]
  /\ UNCHANGED <<now, rates, fees, transfers, views>>

\* INSERT INTO transfers: a rate that is no longer there is an internal error.
InsertTransfer(h) ==
  /\ At(h, "priced")
  /\ tx' = [tx EXCEPT ![h].pc = IF tx[h].rate.id \in Ids(rates)
                                THEN "booked" ELSE "refused"]
  /\ UNCHANGED <<now, rates, fees, transfers, views>>

Commit(h) ==
  /\ At(h, "booked")
  /\ transfers' = transfers \cup {tx[h].rate.id}
  /\ tx' = [tx EXCEPT ![h] = NoTransaction]
  /\ views' = [views EXCEPT ![h] = {}]
  /\ UNCHANGED <<now, rates, fees>>

\* A refusal, an error of any statement, or a dropped handler.
Rollback(h) ==
  /\ ~At(h, "idle")
  /\ tx' = [tx EXCEPT ![h] = NoTransaction]
  /\ views' = [views EXCEPT ![h] = {}]
  /\ UNCHANGED <<now, rates, fees, transfers>>

(***************************************************************************)
(* The publisher and time.                                                 *)
(***************************************************************************)
\* INSERT: a fresh primary key and an interval that is not empty, whatever its
\* times and whatever other rows are there.
PublishRate(row) ==
  /\ row.valid_until > row.valid_from /\ row.id \notin Ids(rates)
  /\ rates' = rates \cup {row}
  /\ views' = Seen(rates', fees)
  /\ UNCHANGED <<now, fees, transfers, tx>>

PublishFeeRule(row) ==
  /\ row.valid_until > row.valid_from /\ row.id \notin Ids(fees)
  /\ fees' = fees \cup {row}
  /\ views' = Seen(rates, fees')
  /\ UNCHANGED <<now, rates, transfers, tx>>

\* DELETE: the foreign key refuses it for a rate that a transfer names, and waits
\* for a transaction that names it and has not ended.
WithdrawRate(row) ==
  /\ row.id \notin transfers \cup Booked
  /\ rates' = rates \ {row}
  /\ views' = Seen(rates', fees)
  /\ UNCHANGED <<now, fees, transfers, tx>>

\* Nothing refers to a fee rule.
WithdrawFeeRule(row) ==
  /\ fees' = fees \ {row}
  /\ views' = Seen(rates, fees')
  /\ UNCHANGED <<now, rates, transfers, tx>>

\* The clean-up of a benchmark deletes the transfers that name a rate.
DeleteTransfers(id) ==
  /\ transfers' = transfers \ {id}
  /\ UNCHANGED <<now, rates, fees, tx, views>>

Tick ==
  /\ now < MaxTime
  /\ now' = now + 1
  /\ UNCHANGED <<rates, fees, transfers, tx, views>>

(***************************************************************************)
(* The specification.                                                      *)
(***************************************************************************)
Init ==
  /\ now = 1
  /\ rates = {} /\ fees = {} /\ transfers = {}
  /\ tx = [h \in Tx |-> NoTransaction]
  /\ views = [h \in Tx |-> {}]

Next ==
  \/ \E h \in Tx :
       \/ \E p \in Pair : Begin(h, p)
       \/ SelectExchangeRate(h) \/ SelectPairFee(h) \/ SelectDefaultFee(h)
       \/ InsertTransfer(h) \/ Commit(h) \/ Rollback(h)
  \/ \E row \in Rates : PublishRate(row)
  \/ \E row \in FeeRules : PublishFeeRule(row)
  \/ \E row \in rates : WithdrawRate(row)
  \/ \E row \in fees : WithdrawFeeRule(row)
  \/ \E id \in transfers : DeleteTransfers(id)
  \/ Tick

Spec == Init /\ [][Next]_vars

(***************************************************************************)
(* Properties.                                                             *)
(***************************************************************************)
\* What a selection may answer when these rows are in force.
Answers(rows, found) ==
  \/ rows = {found}
  \/ rows = {} /\ found = Unavailable
  \/ found = Ambiguous /\ \E r, s \in rows : r # s

\* The fee rules that count: the pair's own, or else the default ones.
FeesInForce(view) == IF view.pair_fee # {} THEN view.pair_fee ELSE view.default_fee

\* One moment accounts for all that a transaction has selected.
Explains(view, t) ==
  /\ t.rate # None => Answers(view.rate, t.rate)
  /\ t.fee # None => Answers(FeesInForce(view), t.fee)

\* Of the three things that are selected, at most one has changed for it.
OnePartChanged(seen) ==
  \/ \A v, w \in seen : v.pair_fee = w.pair_fee /\ v.default_fee = w.default_fee
  \/ \A v, w \in seen : v.rate = w.rate /\ v.default_fee = w.default_fee
  \/ \A v, w \in seen : v.rate = w.rate /\ v.pair_fee = w.pair_fee

\* Although rate and fee are read by different statements, between which rows come
\* and go and time goes by, they are those of one moment, and so is the reason of a
\* refusal, unless two of rate, pair rule and default rule changed for the
\* operation time meanwhile.  Rows for later times and for other pairs never
\* matter.  If two do change, READ COMMITTED allows a mixture.
PricedAsOfOneMoment ==
  \A h \in Tx :
    ~At(h, "idle") /\ OnePartChanged(views[h]) =>
      \E view \in views[h] : Explains(view, tx[h])

\* Whatever changes, nothing is priced from configuration that was missing or
\* ambiguous all the time: the rate was the only one in force at some moment, and the
\* fee was at some moment the pair's only rule, or the only default one, the pair
\* having had none at some moment.
FailsClosed ==
  \A h \in Tx : tx[h].pc \in {"priced", "booked"} =>
    /\ \E v \in views[h] : v.rate = {tx[h].rate}
    /\ \/ \E v \in views[h] : v.pair_fee = {tx[h].fee}
       \/ /\ \E v \in views[h] : v.pair_fee = {}
          /\ \E v \in views[h] : v.default_fee = {tx[h].fee}

\* Though a rate may be withdrawn between its selection and the INSERT, and at any
\* time after, the one that a transfer names is there, for audit and for the
\* reversal, which names it again.
RatesOfTransfersRemain == transfers \cup Booked \subseteq Ids(rates)

\* Rows, transactions and the history are well typed.
TypeOK ==
  /\ now \in Times
  /\ rates \subseteq Rates /\ fees \subseteq FeeRules /\ transfers \subseteq Id
  /\ tx \in [Tx -> Transaction]
  /\ views \in [Tx -> SUBSET [rate: SUBSET Rates, pair_fee: SUBSET FeeRules,
                              default_fee: SUBSET FeeRules]]

\* A fee is a rule of the pair, or a default one after the pair was seen without.
FeeFound(seen, fee) ==
  \/ \E v \in seen : v.pair_fee # {} /\ Answers(v.pair_fee, fee)
  \/ /\ \E v \in seen : v.pair_fee = {}
     /\ \E v \in seen : Answers(v.default_fee, fee)

\* What a transaction t that has come to a statement knows, given what it has
\* seen and what is committed now.
Known(t, seen, rs, fs, n) ==
  /\ t.pc = "idle" => t = NoTransaction
  /\ t.pc # "idle" =>
       t.pair \in Pair /\ t.operation_time \in 1 .. n /\ seen # {}
  /\ t.pc \in Selecting => View(rs, fs, t.pair, t.operation_time) \in seen
  /\ t.pc = "rate" => t.rate = None
  /\ t.pc \in {"pair_fee", "default_fee", "priced", "booked"} => t.rate \in Rates
  /\ t.rate # None => \E v \in seen : Answers(v.rate, t.rate)
  /\ t.pc \in Selecting => t.fee = None
  /\ t.pc = "default_fee" => \E v \in seen : v.pair_fee = {}
  /\ t.pc \in {"priced", "booked"} => t.fee \in FeeRules
  /\ t.fee # None => FeeFound(seen, t.fee)

\* The inductive invariant that the proofs rest on.
IInv ==
  /\ TypeOK
  /\ \A h \in Tx : Known(tx[h], views[h], rates, fees, now)
  /\ RatesOfTransfersRemain
================================================================================
