------------------------- MODULE FxConfigurationProofs -------------------------
(***************************************************************************)
(* For any number of transactions, currencies and rows, published and      *)
(* withdrawn at any time: what a transaction has selected is what was      *)
(* there when it could see it, and the rate it names remains.              *)
(***************************************************************************)
EXTENDS FxConfiguration, TLAPS

LEMMA RatesAreRows == Rates \subseteq FeeRules
BY DEF Rates, FeeRules, Row

\* The WHERE clause selects the rows in force.
LEMMA ApplicableIsInForce ==
  ASSUME NEW table, table \subseteq FeeRules, NEW p, NEW t \in Int
  PROVE  Applicable(table, p, t) = InForce(table, p, t)
<1>1. \A r \in table : r.valid_from \in Int /\ r.valid_until \in Int
  BY FxConfigurationAssumption DEF FeeRules, Row, Times
<1>2. \A r \in table : t \in r.valid_from .. r.valid_until - 1
                         <=> r.valid_from <= t /\ t < r.valid_until
  BY <1>1
<1> QED BY <1>2 DEF InForce, Applicable

\* The slice patterns of the two selectors: a single row, none, or several.
LEMMA TheOneAnswers ==
  ASSUME NEW rows, rows \subseteq FeeRules
  PROVE  /\ TheOne(rows) \in rows \cup {Unavailable, Ambiguous}
         /\ Answers(rows, TheOne(rows))
         /\ TheOne(rows) = Unavailable <=> rows = {}
<1>1. Unavailable \notin rows /\ Ambiguous \notin rows /\ Unavailable # Ambiguous
  BY FxConfigurationAssumption
<1>2. CASE rows = {}
  BY <1>2 DEF TheOne, Answers
<1>3. CASE rows # {} /\ \E row \in rows : rows = {row}
  <2>1. PICK row \in rows : rows = {row}
    BY <1>3
  <2>2. (CHOOSE r \in rows : TRUE) = row
    BY <2>1
  <2>3. TheOne(rows) = row
    BY <1>3, <2>2 DEF TheOne
  <2> QED BY <1>1, <1>3, <2>1, <2>3 DEF Answers
<1>4. CASE rows # {} /\ ~(\E row \in rows : rows = {row})
  <2>1. TheOne(rows) = Ambiguous
    BY <1>4 DEF TheOne
  <2>2. PICK r \in rows : TRUE
    BY <1>4
  <2>3. PICK s \in rows : s # r
    BY <1>4, <2>2
  <2> QED BY <1>1, <1>4, <2>1, <2>2, <2>3 DEF Answers
<1> QED BY <1>2, <1>3, <1>4

\* What a selection finds is in force at the time it asks about.
LEMMA Selects ==
  ASSUME NEW rows \in SUBSET FeeRules, NEW table \in SUBSET rows, NEW p, NEW t \in Int
  PROVE  LET found == TheOne(Applicable(table, p, t)) IN
           /\ found \in rows \cup {Unavailable, Ambiguous}
           /\ ~Refused(found) => found \in rows
           /\ Answers(InForce(table, p, t), found)
           /\ found = Unavailable => InForce(table, p, t) = {}
<1> DEFINE found == TheOne(Applicable(table, p, t))
<1>1. InForce(table, p, t) \subseteq rows /\ Applicable(table, p, t) = InForce(table, p, t)
  BY ApplicableIsInForce DEF InForce
<1>2. /\ found \in InForce(table, p, t) \cup {Unavailable, Ambiguous}
      /\ Answers(InForce(table, p, t), found)
      /\ found = Unavailable => InForce(table, p, t) = {}
  BY <1>1, TheOneAnswers
<1> HIDE DEF found
<1>3. found \in rows \cup {Unavailable, Ambiguous}
      /\ (~Refused(found) => found \in rows)
  BY <1>1, <1>2 DEF Refused
<1> QED BY <1>2, <1>3 DEF found

(***************************************************************************)
(* What one transaction knows.                                             *)
(***************************************************************************)
\* A transaction that is still selecting sees what has changed; what it knew
\* stays known.
LEMMA ChangeSeen ==
  ASSUME NEW t, NEW seen, NEW rs, NEW fs, NEW n, Known(t, seen, rs, fs, n),
         NEW rs2, NEW fs2, NEW seen2,
         seen2 = IF t.pc \in Selecting
                 THEN seen \cup {View(rs2, fs2, t.pair, t.operation_time)}
                 ELSE seen
  PROVE  Known(t, seen2, rs2, fs2, n)
<1>1. seen \subseteq seen2
  OBVIOUS
<1>2. t.pc \in Selecting => View(rs2, fs2, t.pair, t.operation_time) \in seen2
  OBVIOUS
<1>3. t.fee # None => FeeFound(seen2, t.fee)
  BY <1>1 DEF Known, FeeFound
<1>4. /\ t.rate # None => \E v \in seen2 : Answers(v.rate, t.rate)
      /\ t.pc = "default_fee" => \E v \in seen2 : v.pair_fee = {}
      /\ t.pc # "idle" => seen2 # {}
  BY <1>1 DEF Known
<1> QED BY <1>2, <1>3, <1>4 DEF Known

\* Time going by changes nothing that was read.
LEMMA StillKnownLater ==
  ASSUME NEW t, NEW seen, NEW rs, NEW fs, NEW n \in Times, NEW m \in Times, n <= m,
         Known(t, seen, rs, fs, n)
  PROVE  Known(t, seen, rs, fs, m)
<1>1. \A k \in 1 .. n : k \in 1 .. m
  BY DEF Times
<1> QED BY <1>1 DEF Known

\* A transaction that begins has seen one moment.
LEMMA BeginKnows ==
  ASSUME NEW rs, NEW fs, NEW n \in Times, NEW p \in Pair,
         NEW t, t = [NoTransaction EXCEPT !.pc = "rate", !.pair = p, !.operation_time = n]
  PROVE  /\ t \in Transaction
         /\ Known(t, {View(rs, fs, p, n)}, rs, fs, n)
<1>1. /\ t.pc = "rate" /\ t.pair = p /\ t.operation_time = n
      /\ t.rate = None /\ t.fee = None
  BY DEF NoTransaction
<1>2. n \in 1 .. n
  BY DEF Times
<1>3. t \in Transaction
  BY DEF NoTransaction, Transaction, Statements, Selecting, Answered
<1> QED BY <1>1, <1>2, <1>3 DEF Known, Selecting

\* The rate that is selected was in force when it was.
LEMMA RateKnown ==
  ASSUME NEW rs, rs \subseteq Rates, NEW fs, NEW n \in Times, NEW seen,
         NEW t \in Transaction, Known(t, seen, rs, fs, n), t.pc = "rate",
         NEW found, found = TheOne(Applicable(rs, t.pair, t.operation_time)),
         NEW pc, pc = IF Refused(found) THEN "refused" ELSE "pair_fee",
         NEW u, u = [t EXCEPT !.rate = found, !.pc = pc]
  PROVE  u \in Transaction /\ Known(u, seen, rs, fs, n)
<1>1. /\ u.rate = found /\ u.pc = pc /\ u.fee = t.fee
      /\ u.pair = t.pair /\ u.operation_time = t.operation_time
  BY DEF Transaction
<1>2. /\ t.pair \in Pair /\ t.operation_time \in 1 .. n /\ t.operation_time \in Int
      /\ t.fee = None /\ seen # {}
      /\ View(rs, fs, t.pair, t.operation_time) \in seen
  BY DEF Known, Times, Selecting
<1>3. /\ found \in Rates \cup {Unavailable, Ambiguous}
      /\ ~Refused(found) => found \in Rates
      /\ Answers(InForce(rs, t.pair, t.operation_time), found)
  BY <1>2, RatesAreRows, Selects
<1>4. \E v \in seen : Answers(v.rate, found)
  <2>1. View(rs, fs, t.pair, t.operation_time).rate = InForce(rs, t.pair, t.operation_time)
    BY DEF View
  <2> QED BY <1>2, <1>3, <2>1
<1>5. pc \in Statements /\ found \in Answered(Rates)
  BY <1>3 DEF Statements, Selecting, Answered
<1>6. u \in Transaction
  BY <1>5 DEF Transaction
<1>7. Known(u, seen, rs, fs, n)
  <2>1. CASE Refused(found)
    BY <2>1, <1>1, <1>2, <1>4 DEF Known, Selecting
  <2>2. CASE ~Refused(found)
    <3>1. View(rs, fs, u.pair, u.operation_time) \in seen
      BY <1>1, <1>2
    <3> QED BY <2>2, <3>1, <1>1, <1>2, <1>3, <1>4 DEF Known
  <2> QED BY <2>1, <2>2
<1> QED BY <1>6, <1>7

\* A rule of the pair was in force; that there was none is remembered.
LEMMA PairFeeKnown ==
  ASSUME NEW rs, NEW fs, fs \subseteq FeeRules, NEW n \in Times, NEW seen,
         NEW t \in Transaction, Known(t, seen, rs, fs, n), t.pc = "pair_fee",
         NEW found, found = TheOne(Applicable(fs, t.pair, t.operation_time)),
         NEW pc, pc = IF Refused(found) THEN "refused" ELSE "priced",
         NEW u, u \in IF found = Unavailable THEN {[t EXCEPT !.pc = "default_fee"]}
                      ELSE {[t EXCEPT !.fee = found, !.pc = pc]}
  PROVE  u \in Transaction /\ Known(u, seen, rs, fs, n)
<1> DEFINE view == View(rs, fs, t.pair, t.operation_time)
<1>1. /\ t.pair \in Pair /\ t.operation_time \in 1 .. n /\ t.operation_time \in Int
      /\ t.rate \in Rates /\ t.fee = None /\ seen # {} /\ view \in seen
      /\ t.rate # None => \E v \in seen : Answers(v.rate, t.rate)
  BY DEF Known, Times, Selecting
<1>2. /\ found \in FeeRules \cup {Unavailable, Ambiguous}
      /\ ~Refused(found) => found \in FeeRules
      /\ Answers(InForce(fs, t.pair, t.operation_time), found)
      /\ found = Unavailable => InForce(fs, t.pair, t.operation_time) = {}
  BY <1>1, Selects
<1>3. found # Unavailable => InForce(fs, t.pair, t.operation_time) # {}
  BY <1>1, ApplicableIsInForce DEF TheOne
<1>4. view.pair_fee = InForce(fs, t.pair, t.operation_time)
  BY DEF View
<1>5. CASE found = Unavailable
  <2>1. u = [t EXCEPT !.pc = "default_fee"]
    BY <1>5
  <2>2. /\ u.rate = t.rate /\ u.pc = "default_fee" /\ u.fee = t.fee
        /\ u.pair = t.pair /\ u.operation_time = t.operation_time
    BY <2>1 DEF Transaction
  <2>3. u \in Transaction
    BY <2>1 DEF Transaction, Statements, Selecting
  <2>4. View(rs, fs, u.pair, u.operation_time) \in seen /\ \E v \in seen : v.pair_fee = {}
    BY <1>1, <1>2, <1>4, <1>5, <2>2
  <2>5. Known(u, seen, rs, fs, n)
    <3> HIDE DEF view
    <3> QED BY <1>1, <2>2, <2>4 DEF Known, Selecting
  <2> QED BY <2>3, <2>5
<1>6. CASE found # Unavailable
  <2>1. u = [t EXCEPT !.fee = found, !.pc = pc]
    BY <1>6
  <2>2. /\ u.rate = t.rate /\ u.pc = pc /\ u.fee = found
        /\ u.pair = t.pair /\ u.operation_time = t.operation_time
    BY <2>1 DEF Transaction
  <2>3. u \in Transaction
    <3>1. pc \in Statements /\ found \in Answered(FeeRules)
      BY <1>2 DEF Statements, Answered
    <3> QED BY <2>1, <3>1 DEF Transaction
  <2>4. FeeFound(seen, found)
    BY <1>1, <1>2, <1>3, <1>4, <1>6 DEF FeeFound
  <2>5. Known(u, seen, rs, fs, n)
    <3> HIDE DEF view
    <3>1. CASE Refused(found)
      BY <3>1, <1>1, <2>2, <2>4 DEF Known, Selecting
    <3>2. CASE ~Refused(found)
      BY <3>2, <1>1, <1>2, <2>2, <2>4 DEF Known, Selecting
    <3> QED BY <3>1, <3>2
  <2> QED BY <2>3, <2>5
<1> QED BY <1>5, <1>6

\* A default rule was in force, and the pair had been seen without one.
LEMMA DefaultFeeKnown ==
  ASSUME NEW rs, NEW fs, fs \subseteq FeeRules, NEW n \in Times, NEW seen,
         NEW t \in Transaction, Known(t, seen, rs, fs, n), t.pc = "default_fee",
         NEW found, found = TheOne(Applicable(fs, Default, t.operation_time)),
         NEW pc, pc = IF Refused(found) THEN "refused" ELSE "priced",
         NEW u, u = [t EXCEPT !.fee = found, !.pc = pc]
  PROVE  u \in Transaction /\ Known(u, seen, rs, fs, n)
<1> DEFINE view == View(rs, fs, t.pair, t.operation_time)
<1>1. /\ t.pair \in Pair /\ t.operation_time \in 1 .. n /\ t.operation_time \in Int
      /\ t.rate \in Rates /\ seen # {} /\ view \in seen
      /\ t.rate # None => \E v \in seen : Answers(v.rate, t.rate)
      /\ \E v \in seen : v.pair_fee = {}
  BY DEF Known, Times, Selecting
<1>2. /\ u.rate = t.rate /\ u.pc = pc /\ u.fee = found
      /\ u.pair = t.pair /\ u.operation_time = t.operation_time
  BY DEF Transaction
<1>3. /\ found \in FeeRules \cup {Unavailable, Ambiguous}
      /\ ~Refused(found) => found \in FeeRules
      /\ Answers(InForce(fs, Default, t.operation_time), found)
  BY <1>1, Selects
<1>4. view.default_fee = InForce(fs, Default, t.operation_time)
  BY DEF View
<1>5. FeeFound(seen, found)
  BY <1>1, <1>3, <1>4 DEF FeeFound
<1>6. u \in Transaction
  <2>1. pc \in Statements /\ found \in Answered(FeeRules)
    BY <1>3 DEF Statements, Answered
  <2> QED BY <2>1 DEF Transaction
<1>7. Known(u, seen, rs, fs, n)
  <2> HIDE DEF view
  <2>1. CASE Refused(found)
    BY <2>1, <1>1, <1>2, <1>5 DEF Known, Selecting
  <2>2. CASE ~Refused(found)
    BY <2>2, <1>1, <1>2, <1>3, <1>5 DEF Known, Selecting
  <2> QED BY <2>1, <2>2
<1> QED BY <1>6, <1>7

\* The INSERT changes nothing that was selected.
LEMMA InsertKnown ==
  ASSUME NEW rs, NEW fs, NEW n, NEW seen, NEW t \in Transaction,
         Known(t, seen, rs, fs, n), t.pc = "priced",
         NEW pc \in {"booked", "refused"}, NEW u, u = [t EXCEPT !.pc = pc]
  PROVE  u \in Transaction /\ Known(u, seen, rs, fs, n)
<1>1. /\ u.rate = t.rate /\ u.pc = pc /\ u.fee = t.fee
      /\ u.pair = t.pair /\ u.operation_time = t.operation_time
  BY DEF Transaction
<1>2. u \in Transaction
  BY DEF Transaction, Statements
<1>3. Known(u, seen, rs, fs, n)
  <2> QED BY <1>1 DEF Known, Selecting
<1> QED BY <1>2, <1>3

(***************************************************************************)
(* The steps.                                                              *)
(***************************************************************************)
Views == [rate: SUBSET Rates, pair_fee: SUBSET FeeRules, default_fee: SUBSET FeeRules]

\* A view consists of rows.
LEMMA ViewTyped ==
  ASSUME NEW rs \in SUBSET Rates, NEW fs \in SUBSET FeeRules, NEW p, NEW t
  PROVE  View(rs, fs, p, t) \in Views
BY DEF View, Views, InForce

\* IInv without what the foreign key sees to, transaction by transaction.
Sound(h) == /\ tx[h] \in Transaction /\ views[h] \in SUBSET Views
            /\ Known(tx[h], views[h], rates, fees, now)
Tables == /\ now \in Times /\ rates \in SUBSET Rates /\ fees \in SUBSET FeeRules
          /\ transfers \in SUBSET Id
          /\ tx = [h \in Tx |-> tx[h]] /\ views = [h \in Tx |-> views[h]]

LEMMA IInvIsSound ==
  IInv <=> Tables /\ (\A h \in Tx : Sound(h)) /\ RatesOfTransfersRemain
BY DEF IInv, TypeOK, Tables, Sound, Views

\* The types of constants do not change.
LEMMA SoundLater ==
  ASSUME Tables', \A h \in Tx : Sound(h)', RatesOfTransfersRemain'
  PROVE  IInv'
BY DEF IInv, TypeOK, Tables, Sound, Views

\* A statement of one transaction leaves the others alone.
LEMMA OneMoves ==
  ASSUME Tables, \A g \in Tx : Sound(g), NEW h \in Tx, UNCHANGED <<now, rates, fees>>,
         transfers' \in SUBSET Id,
         NEW t \in Transaction, tx' = [tx EXCEPT ![h] = t],
         NEW seen \in SUBSET Views, views' = [views EXCEPT ![h] = seen],
         Known(t, seen, rates, fees, now)
  PROVE  Tables' /\ \A g \in Tx : Sound(g)'
<1>1. Tables'
  BY DEF Tables
<1>2. tx'[h] = t /\ views'[h] = seen
  BY DEF Tables
<1>3. \A g \in Tx \ {h} : tx'[g] = tx[g] /\ views'[g] = views[g]
  BY DEF Tables
<1>4. Sound(h)'
  BY <1>2 DEF Sound
<1>5. \A g \in Tx \ {h} : Sound(g)'
  BY <1>3 DEF Sound
<1> QED BY <1>1, <1>4, <1>5

\* A change of the configuration is seen by all who are still selecting.
LEMMA ConfigurationChanges ==
  ASSUME Tables, \A g \in Tx : Sound(g), rates' \in SUBSET Rates,
         fees' \in SUBSET FeeRules, UNCHANGED <<now, transfers, tx>>,
         views' = Seen(rates', fees')
  PROVE  Tables' /\ \A g \in Tx : Sound(g)'
<1>1. Tables'
  BY DEF Tables, Seen
<1>2. ASSUME NEW g \in Tx
      PROVE  Sound(g)'
  <2> DEFINE view == View(rates', fees', tx[g].pair, tx[g].operation_time)
  <2>1. view \in Views
    BY ViewTyped
  <2>2. views'[g] = IF tx[g].pc \in Selecting THEN views[g] \cup {view} ELSE views[g]
    BY DEF Seen
  <2>3. views'[g] \in SUBSET Views
    <3> HIDE DEF view
    <3> QED BY <2>1, <2>2 DEF Sound
  <2>4. Known(tx[g], views'[g], rates', fees', now)
    BY <2>2, ChangeSeen DEF Sound
  <2> HIDE DEF view
  <2> QED BY <2>3, <2>4 DEF Sound
<1> QED BY <1>1, <1>2

\* Every step keeps what each transaction knows.
LEMMA SoundPreserved ==
  ASSUME IInv, [Next]_vars
  PROVE  Tables' /\ \A g \in Tx : Sound(g)'
<1>0. /\ Tables /\ \A g \in Tx : Sound(g)
      /\ now \in Times /\ rates \subseteq Rates /\ fees \subseteq FeeRules
      /\ rates \in SUBSET Rates /\ fees \in SUBSET FeeRules /\ transfers \in SUBSET Id
  BY IInvIsSound DEF Tables
<1>1. ASSUME NEW h \in Tx
      PROVE  \E t, seen : /\ t = tx[h] /\ seen = views[h]
                          /\ t \in Transaction /\ seen \in SUBSET Views
                          /\ Known(t, seen, rates, fees, now)
                          /\ views = [views EXCEPT ![h] = seen]
  BY <1>0 DEF Sound, Tables
<1>2. ASSUME NEW h \in Tx, NEW p \in Pair, Begin(h, p)
      PROVE  Tables' /\ \A g \in Tx : Sound(g)'
  <2>1. PICK t : t = [NoTransaction EXCEPT !.pc = "rate", !.pair = p, !.operation_time = now]
    OBVIOUS
  <2>2. t \in Transaction /\ Known(t, {View(rates, fees, p, now)}, rates, fees, now)
    BY <1>0, <2>1, BeginKnows
  <2>3. {View(rates, fees, p, now)} \in SUBSET Views
    BY <1>0, ViewTyped
  <2>4. /\ tx' = [tx EXCEPT ![h] = t] /\ UNCHANGED <<now, rates, fees, transfers>>
        /\ views' = [views EXCEPT ![h] = {View(rates, fees, p, now)}]
    BY <1>2, <2>1 DEF Begin
  <2> QED BY <1>0, <2>2, <2>3, <2>4, OneMoves
<1>3. ASSUME NEW h \in Tx, SelectExchangeRate(h)
      PROVE  Tables' /\ \A g \in Tx : Sound(g)'
  <2>1. PICK t, seen : /\ t = tx[h] /\ seen = views[h]
                       /\ t \in Transaction /\ seen \in SUBSET Views
                       /\ Known(t, seen, rates, fees, now)
                       /\ views = [views EXCEPT ![h] = seen]
    BY <1>1
  <2>2. PICK found : found = TheOne(Applicable(rates, t.pair, t.operation_time))
    OBVIOUS
  <2>3. PICK pc : pc = IF Refused(found) THEN "refused" ELSE "pair_fee"
    OBVIOUS
  <2>4. PICK u : u = [t EXCEPT !.rate = found, !.pc = pc]
    OBVIOUS
  <2>5. t.pc = "rate" /\ tx' = [tx EXCEPT ![h] = u]
        /\ UNCHANGED <<now, rates, fees, transfers, views>>
    BY <1>3, <2>1, <2>2, <2>3, <2>4 DEF SelectExchangeRate, At
  <2>6. u \in Transaction /\ Known(u, seen, rates, fees, now)
    BY <1>0, <2>1, <2>2, <2>3, <2>4, <2>5, RateKnown
  <2> QED BY <1>0, <2>1, <2>5, <2>6, OneMoves
<1>4. ASSUME NEW h \in Tx, SelectPairFee(h)
      PROVE  Tables' /\ \A g \in Tx : Sound(g)'
  <2>1. PICK t, seen : /\ t = tx[h] /\ seen = views[h]
                       /\ t \in Transaction /\ seen \in SUBSET Views
                       /\ Known(t, seen, rates, fees, now)
                       /\ views = [views EXCEPT ![h] = seen]
    BY <1>1
  <2>2. PICK found : found = TheOne(Applicable(fees, t.pair, t.operation_time))
    OBVIOUS
  <2>3. PICK pc : pc = IF Refused(found) THEN "refused" ELSE "priced"
    OBVIOUS
  <2>4. PICK u : u = IF found = Unavailable THEN [t EXCEPT !.pc = "default_fee"]
                     ELSE [t EXCEPT !.fee = found, !.pc = pc]
    OBVIOUS
  <2>5. t.pc = "pair_fee" /\ tx' = [tx EXCEPT ![h] = u]
        /\ UNCHANGED <<now, rates, fees, transfers, views>>
    BY <1>4, <2>1, <2>2, <2>3, <2>4 DEF SelectPairFee, At
  <2>6. u \in Transaction /\ Known(u, seen, rates, fees, now)
    <3>1. /\ fees \subseteq FeeRules /\ now \in Times /\ t \in Transaction
          /\ Known(t, seen, rates, fees, now) /\ t.pc = "pair_fee"
      BY <1>0, <2>1, <2>5
    <3>2. u \in IF found = Unavailable THEN {[t EXCEPT !.pc = "default_fee"]}
               ELSE {[t EXCEPT !.fee = found, !.pc = pc]}
      BY <2>4
    <3> QED BY <3>1, <3>2, <2>2, <2>3, PairFeeKnown
  <2> QED BY <1>0, <2>1, <2>5, <2>6, OneMoves
<1>5. ASSUME NEW h \in Tx, SelectDefaultFee(h)
      PROVE  Tables' /\ \A g \in Tx : Sound(g)'
  <2>1. PICK t, seen : /\ t = tx[h] /\ seen = views[h]
                       /\ t \in Transaction /\ seen \in SUBSET Views
                       /\ Known(t, seen, rates, fees, now)
                       /\ views = [views EXCEPT ![h] = seen]
    BY <1>1
  <2>2. PICK found : found = TheOne(Applicable(fees, Default, t.operation_time))
    OBVIOUS
  <2>3. PICK pc : pc = IF Refused(found) THEN "refused" ELSE "priced"
    OBVIOUS
  <2>4. PICK u : u = [t EXCEPT !.fee = found, !.pc = pc]
    OBVIOUS
  <2>5. t.pc = "default_fee" /\ tx' = [tx EXCEPT ![h] = u]
        /\ UNCHANGED <<now, rates, fees, transfers, views>>
    BY <1>5, <2>1, <2>2, <2>3, <2>4 DEF SelectDefaultFee, At
  <2>6. u \in Transaction /\ Known(u, seen, rates, fees, now)
    BY <1>0, <2>1, <2>2, <2>3, <2>4, <2>5, DefaultFeeKnown
  <2> QED BY <1>0, <2>1, <2>5, <2>6, OneMoves
<1>6. ASSUME NEW h \in Tx, InsertTransfer(h)
      PROVE  Tables' /\ \A g \in Tx : Sound(g)'
  <2>1. PICK t, seen : /\ t = tx[h] /\ seen = views[h]
                       /\ t \in Transaction /\ seen \in SUBSET Views
                       /\ Known(t, seen, rates, fees, now)
                       /\ views = [views EXCEPT ![h] = seen]
    BY <1>1
  <2>2. PICK pc \in {"booked", "refused"} : tx' = [tx EXCEPT ![h].pc = pc]
    BY <1>6 DEF InsertTransfer
  <2>3. PICK u : u = [t EXCEPT !.pc = pc]
    OBVIOUS
  <2>4. t.pc = "priced" /\ tx' = [tx EXCEPT ![h] = u]
        /\ UNCHANGED <<now, rates, fees, transfers, views>>
    BY <1>6, <2>1, <2>2, <2>3 DEF InsertTransfer, At
  <2>5. u \in Transaction /\ Known(u, seen, rates, fees, now)
    BY <2>1, <2>3, <2>4, InsertKnown
  <2> QED BY <1>0, <2>1, <2>4, <2>5, OneMoves
<1>7. ASSUME NEW h \in Tx, Commit(h) \/ Rollback(h)
      PROVE  Tables' /\ \A g \in Tx : Sound(g)'
  <2>1. NoTransaction \in Transaction /\ Known(NoTransaction, {}, rates, fees, now)
    BY DEF NoTransaction, Transaction, Statements, Selecting, Answered, Known
  <2>2. /\ tx' = [tx EXCEPT ![h] = NoTransaction] /\ views' = [views EXCEPT ![h] = {}]
        /\ UNCHANGED <<now, rates, fees>>
    BY <1>7 DEF Commit, Rollback
  <2>3. transfers' \in SUBSET Id
    <3>1. CASE Rollback(h)
      BY <1>0, <3>1 DEF Rollback
    <3>2. CASE Commit(h)
      <4>1. tx[h].rate \in Rates
        BY <1>0, <3>2 DEF Commit, At, Sound, Known
      <4>2. tx[h].rate.id \in Id
        BY <4>1 DEF Rates, Row
      <4> QED BY <1>0, <3>2, <4>2 DEF Commit
    <3> QED BY <1>7, <3>1, <3>2
  <2> QED BY <1>0, <2>1, <2>2, <2>3, OneMoves
<1>8. ASSUME \/ \E row \in Rates : PublishRate(row)
             \/ \E row \in FeeRules : PublishFeeRule(row)
             \/ \E row \in rates : WithdrawRate(row)
             \/ \E row \in fees : WithdrawFeeRule(row)
      PROVE  Tables' /\ \A g \in Tx : Sound(g)'
  <2>1. /\ rates' \in SUBSET Rates /\ fees' \in SUBSET FeeRules
        /\ UNCHANGED <<now, transfers, tx>>
    BY <1>0, <1>8 DEF PublishRate, PublishFeeRule, WithdrawRate, WithdrawFeeRule
  <2>2. views' = Seen(rates', fees')
    BY <1>8 DEF PublishRate, PublishFeeRule, WithdrawRate, WithdrawFeeRule
  <2> QED BY <1>0, <2>1, <2>2, ConfigurationChanges
<1>9. ASSUME NEW id \in transfers, DeleteTransfers(id)
      PROVE  Tables' /\ \A g \in Tx : Sound(g)'
  BY <1>0, <1>9 DEF DeleteTransfers, Tables, Sound
<1>10. CASE Tick
  <2>1. now' \in Times /\ now <= now' /\ UNCHANGED <<rates, fees, transfers, tx, views>>
    BY <1>0, <1>10, FxConfigurationAssumption DEF Tick, Times
  <2>2. \A g \in Tx : Known(tx[g], views[g], rates, fees, now')
    BY <1>0, <2>1, StillKnownLater DEF Sound
  <2> QED BY <1>0, <2>1, <2>2 DEF Tables, Sound
<1>11. CASE UNCHANGED vars
  BY <1>0, <1>11 DEF vars, Tables, Sound
<1> QED
  BY <1>2, <1>3, <1>4, <1>5, <1>6, <1>7, <1>8, <1>9, <1>10, <1>11 DEF Next

\* A transaction that books nothing new, with rates that only grow.
LEMMA NothingBooked ==
  ASSUME RatesOfTransfersRemain, rates \subseteq rates', transfers' \subseteq transfers,
         \A g \in Tx : tx'[g].pc = "booked" => tx[g].pc = "booked" /\ tx'[g] = tx[g]
  PROVE  RatesOfTransfersRemain'
<1>1. Ids(rates) \subseteq Ids(rates')
  BY DEF Ids
<1>2. Booked' \subseteq Booked
  BY DEF Booked, At
<1> QED BY <1>1, <1>2 DEF RatesOfTransfersRemain, Ids

\* The foreign key: checked by the INSERT, and by the DELETE.
LEMMA RatesPreserved ==
  ASSUME IInv, [Next]_vars
  PROVE  RatesOfTransfersRemain'
<1>0. RatesOfTransfersRemain /\ tx \in [Tx -> Transaction]
  BY DEF IInv, TypeOK
<1>1. ASSUME NEW h \in Tx, NEW p \in Pair,
             Begin(h, p) \/ SelectExchangeRate(h) \/ SelectPairFee(h)
               \/ SelectDefaultFee(h) \/ Rollback(h)
      PROVE  RatesOfTransfersRemain'
  <2>1. UNCHANGED <<rates, transfers>> /\ \A g \in Tx \ {h} : tx'[g] = tx[g]
    BY <1>0, <1>1 DEF Begin, SelectExchangeRate, SelectPairFee, SelectDefaultFee, Rollback
  <2>2. tx'[h].pc # "booked"
    <3>1. CASE Begin(h, p)
      <4>1. PICK t : /\ t = [NoTransaction EXCEPT !.pc = "rate", !.pair = p,
                                                  !.operation_time = now]
                     /\ tx' = [tx EXCEPT ![h] = t]
        BY <3>1 DEF Begin
      <4>2. t.pc = "rate"
        BY <4>1 DEF NoTransaction
      <4> QED BY <1>0, <4>1, <4>2
    <3>2. CASE Rollback(h)
      <4>1. NoTransaction.pc = "idle"
        BY DEF NoTransaction
      <4> QED BY <1>0, <3>2, <4>1 DEF Rollback
    <3>3. CASE SelectExchangeRate(h) \/ SelectDefaultFee(h)
      BY <1>0, <3>3 DEF SelectExchangeRate, SelectDefaultFee, Transaction
    <3>4. CASE SelectPairFee(h)
      <4> DEFINE found == TheOne(Applicable(fees, tx[h].pair, tx[h].operation_time))
                 pc == IF Refused(found) THEN "refused" ELSE "priced"
      <4>1. tx' = IF found = Unavailable THEN [tx EXCEPT ![h].pc = "default_fee"]
                  ELSE [tx EXCEPT ![h].fee = found, ![h].pc = pc]
        BY <3>4 DEF SelectPairFee
      <4>2. pc # "booked"
        OBVIOUS
      <4> HIDE DEF found, pc
      <4>3. CASE found = Unavailable
        BY <1>0, <4>1, <4>3 DEF Transaction
      <4>4. CASE found # Unavailable
        <5>1. tx' = [tx EXCEPT ![h].fee = found, ![h].pc = pc]
          BY <4>1, <4>4
        <5> QED BY <1>0, <4>2, <5>1 DEF Transaction
      <4> QED BY <4>3, <4>4
    <3> QED BY <1>1, <3>1, <3>2, <3>3, <3>4
  <2> QED BY <1>0, <2>1, <2>2, NothingBooked
<1>2. ASSUME NEW h \in Tx, InsertTransfer(h)
      PROVE  RatesOfTransfersRemain'
  <2>1. UNCHANGED <<rates, transfers>> /\ \A g \in Tx \ {h} : tx'[g] = tx[g]
    BY <1>0, <1>2 DEF InsertTransfer
  <2>2. tx'[h].rate = tx[h].rate /\ (tx'[h].pc = "booked" => tx[h].rate.id \in Ids(rates))
    BY <1>0, <1>2 DEF InsertTransfer, Transaction
  <2>3. Booked' \subseteq Booked \cup Ids(rates)
    BY <2>1, <2>2 DEF Booked, At
  <2> QED BY <1>0, <2>1, <2>3 DEF RatesOfTransfersRemain, Ids
<1>3. ASSUME NEW h \in Tx, Commit(h)
      PROVE  RatesOfTransfersRemain'
  <2>1. UNCHANGED rates /\ transfers' = transfers \cup {tx[h].rate.id}
        /\ \A g \in Tx \ {h} : tx'[g] = tx[g]
    BY <1>0, <1>3 DEF Commit
  <2>2. tx'[h].pc # "booked" /\ tx[h].rate.id \in Booked
    BY <1>0, <1>3 DEF Commit, NoTransaction, Booked, At
  <2>3. Booked' \subseteq Booked
    BY <2>1, <2>2 DEF Booked, At
  <2> QED BY <1>0, <2>1, <2>2, <2>3 DEF RatesOfTransfersRemain, Ids
<1>4. ASSUME NEW row \in rates, WithdrawRate(row)
      PROVE  RatesOfTransfersRemain'
  <2>1. rates' = rates \ {row} /\ UNCHANGED <<transfers, tx>>
        /\ row.id \notin transfers \cup Booked
    BY <1>4 DEF WithdrawRate
  <2>2. Booked' = Booked
    BY <2>1 DEF Booked, At
  <2>3. ASSUME NEW id \in Ids(rates), id # row.id
        PROVE  id \in Ids(rates')
    BY <2>1, <2>3 DEF Ids
  <2>4. transfers \cup Booked \subseteq Ids(rates')
    BY <1>0, <2>1, <2>3 DEF RatesOfTransfersRemain
  <2> QED BY <2>1, <2>2, <2>4 DEF RatesOfTransfersRemain, Ids
<1>5. ASSUME \/ \E row \in Rates : PublishRate(row)
             \/ \E row \in FeeRules : PublishFeeRule(row)
             \/ \E row \in fees : WithdrawFeeRule(row)
             \/ \E id \in transfers : DeleteTransfers(id)
             \/ Tick \/ UNCHANGED vars
      PROVE  RatesOfTransfersRemain'
  <2>1. rates \subseteq rates' /\ transfers' \subseteq transfers /\ tx' = tx
    BY <1>5 DEF PublishRate, PublishFeeRule, WithdrawFeeRule, DeleteTransfers, Tick, vars
  <2> QED BY <1>0, <2>1, NothingBooked
<1> QED
  <2>1. \A h \in Tx : SelectExchangeRate(h) \/ SelectPairFee(h) \/ SelectDefaultFee(h)
                        \/ Rollback(h) => RatesOfTransfersRemain'
    <3> SUFFICES ASSUME NEW h \in Tx, SelectExchangeRate(h) \/ SelectPairFee(h)
                                        \/ SelectDefaultFee(h) \/ Rollback(h)
                 PROVE  RatesOfTransfersRemain'
      OBVIOUS
    <3>1. tx[h].pc # "idle"
      BY DEF SelectExchangeRate, SelectPairFee, SelectDefaultFee, Rollback, At
    <3>2. tx[h].pair \in Pair
      BY <3>1, IInvIsSound DEF Sound, Known
    <3> QED BY <3>2, <1>1
  <2> QED BY <2>1, <1>1, <1>2, <1>3, <1>4, <1>5 DEF Next

(***************************************************************************)
(* The theorems.                                                           *)
(***************************************************************************)
\* The inductive invariant: what each transaction knows after each of its
\* statements, and that rates of transfers remain, whatever is published or
\* withdrawn meanwhile.
THEOREM Knowledge == Spec => []IInv
<1>1. Init => IInv
  <2> SUFFICES ASSUME Init PROVE IInv
    OBVIOUS
  <2>1. \A h \in Tx : tx[h] = NoTransaction /\ views[h] = {}
    BY DEF Init
  <2>2. ASSUME NEW h \in Tx
        PROVE  Sound(h)
    <3>1. NoTransaction \in Transaction /\ {} \in SUBSET Views
      BY DEF NoTransaction, Transaction, Statements, Selecting, Answered
    <3>2. Known(NoTransaction, {}, rates, fees, now)
      BY DEF NoTransaction, Selecting, Known
    <3> QED BY <2>1, <3>1, <3>2 DEF Sound
  <2>3. Tables
    BY FxConfigurationAssumption DEF Init, Tables, Times
  <2>4. Booked = {}
    BY <2>1 DEF Booked, At, NoTransaction
  <2> QED BY <2>2, <2>3, <2>4, IInvIsSound DEF Init, RatesOfTransfersRemain
<1>2. IInv /\ [Next]_vars => IInv'
  BY SoundPreserved, RatesPreserved, SoundLater
<1> QED BY <1>1, <1>2, PTL DEF Spec

\* What is selected once from one part, while the other parts stay, is selected
\* as of one moment.
LEMMA OneMomentExplains ==
  ASSUME NEW t, NEW seen, NEW rs, NEW fs, NEW n, Known(t, seen, rs, fs, n),
         t.pc # "idle", OnePartChanged(seen)
  PROVE  \E view \in seen : Explains(view, t)
<1>1. PICK some \in seen : TRUE
  BY DEF Known
<1>2. /\ t.rate # None => \E v \in seen : Answers(v.rate, t.rate)
      /\ t.fee # None => FeeFound(seen, t.fee)
  BY DEF Known
<1>3. t.fee # None => \E v \in seen : Answers(FeesInForce(v), t.fee)
  <2> SUFFICES ASSUME t.fee # None
               PROVE  \E v \in seen : Answers(FeesInForce(v), t.fee)
    OBVIOUS
  <2>1. CASE \E v \in seen : v.pair_fee # {} /\ Answers(v.pair_fee, t.fee)
    BY <2>1 DEF FeesInForce
  <2>2. ASSUME NEW v \in seen, v.pair_fee = {}, NEW w \in seen, Answers(w.default_fee, t.fee)
        PROVE  \E view \in seen : Answers(FeesInForce(view), t.fee)
    <3>1. CASE \A x, y \in seen : x.default_fee = y.default_fee
      <4>1. w.default_fee = v.default_fee
        BY <3>1
      <4>2. Answers(FeesInForce(v), t.fee)
        BY <2>2, <4>1 DEF FeesInForce
      <4> QED BY <4>2
    <3>2. CASE \A x, y \in seen : x.pair_fee = y.pair_fee
      <4>1. w.pair_fee = {}
        BY <2>2, <3>2
      <4>2. Answers(FeesInForce(w), t.fee)
        BY <2>2, <4>1 DEF FeesInForce
      <4> QED BY <4>2
    <3> QED BY <3>1, <3>2 DEF OnePartChanged
  <2> QED BY <1>2, <2>1, <2>2 DEF FeeFound
<1>4. CASE \A v, w \in seen : v.pair_fee = w.pair_fee /\ v.default_fee = w.default_fee
  <2>1. \A v, w \in seen : FeesInForce(v) = FeesInForce(w)
    BY <1>4 DEF FeesInForce
  <2>2. \A v \in seen : t.fee # None => Answers(FeesInForce(v), t.fee)
    <3> SUFFICES ASSUME NEW v \in seen, t.fee # None
                 PROVE  Answers(FeesInForce(v), t.fee)
      OBVIOUS
    <3>1. PICK w \in seen : Answers(FeesInForce(w), t.fee)
      BY <1>3
    <3>2. FeesInForce(v) = FeesInForce(w)
      BY <2>1
    <3> QED BY <3>1, <3>2
  <2> QED BY <1>1, <1>2, <2>2 DEF Explains
<1>5. CASE \A v, w \in seen : v.rate = w.rate
  <2>1. \A v \in seen : t.rate # None => Answers(v.rate, t.rate)
    <3> SUFFICES ASSUME NEW v \in seen, t.rate # None
                 PROVE  Answers(v.rate, t.rate)
      OBVIOUS
    <3>1. PICK w \in seen : Answers(w.rate, t.rate)
      BY <1>2
    <3>2. v.rate = w.rate
      BY <1>5
    <3> QED BY <3>1, <3>2
  <2> QED BY <1>1, <1>3, <2>1 DEF Explains
<1> QED BY <1>4, <1>5 DEF OnePartChanged

\* The rate and the fee of a transfer, or the reason for refusing it, are those of
\* one moment, though three statements read them, unless two parts change.
THEOREM PricedAsOf == Spec => []PricedAsOfOneMoment
<1>1. IInv => PricedAsOfOneMoment
  BY OneMomentExplains DEF IInv, PricedAsOfOneMoment, At
<1> QED BY <1>1, Knowledge, PTL

\* Whatever changes, a transfer is priced only with a rate and a fee that were at
\* some moment the only ones.
THEOREM PricingFailsClosed == Spec => []FailsClosed
<1>1. ASSUME NEW rows, NEW row, row \in FeeRules, Answers(rows, row)
      PROVE  rows = {row}
  BY <1>1, FxConfigurationAssumption DEF Answers
<1>2. ASSUME IInv, NEW h \in Tx, tx[h].pc \in {"priced", "booked"}
      PROVE  /\ \E v \in views[h] : v.rate = {tx[h].rate}
             /\ \/ \E v \in views[h] : v.pair_fee = {tx[h].fee}
                \/ /\ \E v \in views[h] : v.pair_fee = {}
                   /\ \E v \in views[h] : v.default_fee = {tx[h].fee}
  <2>1. /\ tx[h].rate \in FeeRules /\ tx[h].fee \in FeeRules
        /\ tx[h].rate # None => \E v \in views[h] : Answers(v.rate, tx[h].rate)
        /\ tx[h].fee # None => FeeFound(views[h], tx[h].fee)
    BY <1>2, RatesAreRows DEF IInv, Known
  <2>2. tx[h].rate # None /\ tx[h].fee # None
    BY <2>1, FxConfigurationAssumption
  <2>3. /\ \E v \in views[h] : Answers(v.rate, tx[h].rate)
        /\ FeeFound(views[h], tx[h].fee)
    BY <2>1, <2>2
  <2> QED BY <2>1, <2>3, <1>1 DEF FeeFound
<1>3. IInv => FailsClosed
  BY <1>2 DEF FailsClosed
<1> QED BY <1>3, Knowledge, PTL

\* No rate that a transfer names, committed or about to be, is ever withdrawn.
THEOREM RatesRemain == Spec => []RatesOfTransfersRemain
<1>1. IInv => RatesOfTransfersRemain
  BY DEF IInv
<1> QED BY <1>1, Knowledge, PTL
================================================================================
