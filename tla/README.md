# The ledger service in TLA+

A verification project for the high-performance ledger service (Rust, axum,
SQLx, PostgreSQL). Paths below are relative to the repository; `transfers.rs`
and its like stand for `src/src/api/transfers.rs`. `PROJECT.json` maps every
definition to its lines.

## The system

Stateless service processes share one PostgreSQL. All correctness across
processes comes from what their transactions read, lock and write, in READ
COMMITTED isolation. A process adds a connection pool, metrics and graceful
shutdown; a separate program benchmarks one or more processes.

| Part | State it keeps | Operations | What makes it correct |
|---|---|---|---|
| `create_transfer` (`transfers.rs`) | rows of `accounts`, `transfers`, `account_entries`; locals read under locks | classify the currencies, look the key up, reserve it, price, lock both accounts by ascending id, check, write, COMMIT | no update lost; balance = opening + credits − debits; no overdraft; inactive accounts frozen |
| `reverse_transfer` (`reversals.rs`) | the same | look up, reserve, lock the original, check that it is not reversed, lock the accounts, write, COMMIT | at most one reversal; fee included; may overdraw |
| `create_account` (`accounts.rs`) | `accounts` | reserve, insert, COMMIT | one account per key |
| Idempotency (`idempotency.rs`) | `idempotency_records` | `completed_success`, `reserve`, `store_success` | one effect per key while its record is retained; answers are true and agree |
| FX (`fx.rs`) | reads `exchange_rates`, `fx_fee_rules` | select rate, pair fee, default fee at the operation time; half-up arithmetic | fails closed; one moment for all selections; the rate of a transfer remains |
| History (`history.rs`) | none; the client carries a cursor | one page | nothing repeated, nothing lost, it ends |
| Process (`main.rs`, `config.rs`, `db/mod.rs`, `observability.rs`, `health.rs`) | pool, counters, phase | start, serve, cancel, drain | counters match effects; requests and shutdown end |
| Benchmark (`src/benchmarks/src`) | plan, answers, verdicts | clean, prepare, warm up, measure, verify | a level that says it is valid is exact |
| Amounts and rates as text (`money.rs`, `ExactRate` in `fx.rs`) | none | parse, format, convert | exact or refused; what is shown can be sent back; one rounding, to the nearest |
| Errors and what is told of them (`api_error.rs`, `auth.rs`, the checks of every handler) | none | answer, count | documented statuses; counters say what was answered; retries are replayed |
| Schemas of the OpenAPI document, scripts | none | – | see "Not modelled" |

Hard here: transactions that interleave at statement level; the preliminary
unlocked read of `create_transfer`; three kinds of locks taken in several
statements; requests that are retried while the first is still running; handlers
dropped at any await because their client hung up; COMMIT whose outcome nobody
learns; a pool that lock waits exhaust; pages read while rows commit in their
middle; a benchmark that goes on while the service still works on what it has
given up. `PROJECT.json` lists each hazard at its line with the properties that
watch it.

## Modules

| Module | Models | Composed with |
|---|---|---|
| `LedgerData` | rows, requests, fingerprints, prices, checks and the new rows they lead to | – |
| `LedgerAtomic` | what the service promises: each operation one step on the committed tables | extends `LedgerData` |
| `Ledger` | one action per statement of the three writes, locks, failures, lost answers | extends `LedgerAtomic` and implements its specification |
| `LedgerProofs` | proofs about the two, part 1 about `LedgerAtomic`, part 2 about `Ledger` | extends `Ledger` |
| `OncePerKey`, `OncePerKeyProofs` | what an idempotency key promises while its record is retained, and what follows | – |
| `Idempotency`, `IdempotencyProofs` | the statements around a key, with expiry, purges and COMMITs that outlive their handler | implements `OncePerKey`; `Ledger` has the same statements with the business writes and without time |
| `FxConfiguration`, `FxConfigurationProofs` | selection of rate and fee, and the INSERT that names the rate, while rows come and go | prices what `Ledger`'s `Configure` chooses from |
| `History`, `HistoryProofs` | pages while transfers commit | reads the entries `Ledger` writes |
| `Service`, `ServiceProofs` | process, pool, request lifecycle, metrics, shutdown | runs the transactions of `Ledger`, seen as durable or not |
| `Benchmark`, `BenchmarkProofs` | the account-pool scenario | a client of `Ledger`'s atomic transfers |
| `Money` | amounts and rates as text, the exact conversion | – (`LedgerData` has amounts as integers) |
| `Responses`, `ResponsesProofs` | the checks of every handler in their order, status, code and metric labels | extends `Money`, whose errors it answers |
| `MC*` | instances for TLC | – |

### The write path: `LedgerData`, `LedgerAtomic`, `Ledger`

The tables are functions from ids to rows (`account`, `transfer`, `record`) and
a set (`entry`), holding committed rows only. `tx[h]` is the transaction on
connection `h`: its next statement, the request, the scope of its key, the
rows it has read (`view`) and its locks (`holds`): uncommitted reservations and
rows selected FOR UPDATE. Uncommitted INSERTs and UPDATEs are visible to nobody
else and the rows are locked, so the writes are one action with the COMMIT,
computed from `view` as the handler computes them. An error between two of them
is `Fail`. That the rows in `view` still are the committed ones is a property
(`ReadsStayCurrent`), not an assumption.

A statement that waits is disabled. `Reserve` waits for a competitor's
uncommitted reservation; when the competitor commits, `LoseRace` reads its row.
Connections stand for any number of processes; a crash of one is `Fail` or
`LoseReply` of its transactions. `replies` are the answers clients have got.

Choices a reader may ask about:

- A missing or an ambiguous rate is `Fail` here, though the code answers 422;
  both roll back. `FxConfiguration` models the choice itself.
- The SELECT of an original's owner is merged with the FOR UPDATE: owners never change.
- The check of the amount, which `create_transfer` makes after it has classified
  and before it looks the key up, is part of `Classifiable`.
- Branches no state reaches are left out: an account row missing after
  it was found (nothing deletes accounts), currencies that changed, the unique index on
  `reverses_transfer_id` behind the lock and the EXISTS, foreign keys (that of the
  rate is in `FxConfiguration`; here its error is `Fail`), scale mismatches.
- Only an operator's SQL makes an account inactive (`ChangeStatus`).
- Nothing here deletes an idempotency record, so a key is never free again;
  `Idempotency` is the module about time and expiry.
- `MaxI64` is the largest `i64`; sums are checked against it where the code uses
  `checked_add`.

### `OncePerKey`, `Idempotency`

`OncePerKey` is the documentation's promise: a success is kept under its key for the
retention, counted from the beginning of its request; while it is kept, the key has
no other effect, and a repetition of the request learns of it. `Idempotency` has one
action per statement of `completed_success`, `reserve` and `store_success`. A
handler's `row` is its uncommitted reservation, which competitors wait for
(`Rivals`). `expires_at` is `now()`, the beginning of the transaction, plus the
retention. No code deletes records; the schema has an index on `expires_at` for it, so
`Purge` is external and may take any expired record at any time, also between the
INSERT that met a record and the SELECT that reads it (`idempotency.rs:149`): that
request fails and may be retried. Expired records that are still there keep being
replayed, as in the code. `Abandon` leaves a COMMIT on its way: PostgreSQL
may still perform it, or not (`RollBack`). The promise's variables are
read off these: `kept` is the response of the committed record, `view` that of the
record a handler has found.

### `FxConfiguration`

Three SELECTs of one transaction, all about its `transaction_timestamp()`, and the INSERT
that names the rate. The service only reads the tables; `design.md` leaves them to an
external component, and the publisher the repository has is the benchmark's
`seed_fx_configuration`: it inserts rows that have been valid for an hour and deletes
them by id, each statement a transaction of its own. So a row of any validity, past ones
included, may be published or withdrawn between any two statements, and an id be used
again; rows are not updated in place, as `design.md` says. The constraints are those of
migration 0004: a primary key, an interval that is not empty, and the foreign key of
`transfers`, which is checked by the INSERT and stops the DELETE of a rate that a committed
transfer names, or an uncommitted one that holds its lock. `DeleteTransfers` is the
clean-up of the benchmark, after which a rate may be withdrawn.

`views` is a history variable that no action reads: what was in force for a
transaction's pair and operation time, at its beginning and after each change while it
is selecting. The properties judge what was selected by it. In READ COMMITTED three SELECTs
may see three states of the tables, and so may the code: if the rate and the pair's fee
rule both change between them, a transfer can have the old rate and the new fee; if the
pair's only rule is published while the default one is withdrawn, it can be refused
though there was a rule at every moment. No statement of the code excludes that.
`PricedAsOfOneMoment` therefore supposes that at most one of rate, pair rule and
default rule changes for the operation time; rows for later times or other pairs never
count. `FailsClosed` supposes nothing. What a republished id means is not followed: the
transfer keeps its own copy of the rate it was priced with.

### `History`

A writer begins at a time and commits later: `created_at` is the time of the
beginning, so rows appear in the middle of the order. A traversal keeps what it
has been shown, its cursor, and `due`, the rows that were there when it began.
The two entries of a transfer share an id in the model: ids are compared only
within one account. A page is the rows with fewer than `limit` newer ones; one
more is read to decide about `next_cursor`. Cursor encoding is left out.

### `Service`

`job[r]` is a request with the await it is at, its connection, its verdict and
whether its COMMIT took effect. A request is a transfer, a reversal, an account
creation, a read or a readiness check; the last three are not observed. Each is
made once. `Settle` is the handler's result turned into the statement that ends its
transaction; a read, or an account creation that fails, has none and its connection
goes back as a dropped one does. `Cancel` drops the
handler at any await; the COMMIT it may have sent can still take effect
afterwards (`Commit` on a returning connection). The database comes and goes.
`metrics` are the counters of `observability.rs` and the HTTP counter, by label.
The pool's return of connections (`Return`) is SQLx's. Settings are tried out in
`Configure`; values that cannot be parsed also end in `failed`. A history read makes
two queries where the model makes one. A statement fails only with the database away;
an internal error of the code's own leads to the same states, by `DatabaseFails` and
`DatabaseRecovers`. That connections stay within `max_connections` is what SQLx sees to,
and a guard here, not a property.

### `Benchmark`

A sweep of levels over one topology. `answer` is the client's view, `inService`
what the service still works on, of any level: `TimeOut` separates the two. The
clean-up is one transaction of four DELETEs that block, or are blocked by, late
requests: `doomed` are the rows it has deleted so far, and a row that refers to
one fails it. A transfer is atomic, which is what `ServiceIsAtomic` proves; it
cannot commit between the DELETE of its accounts and the end of the clean-up.
`disturbances` counts what went wrong for the client, up to `MaxDisturbances`.
The unit of money is a planned amount, so that accounts open with 2 rather than
100 units, which is enough for a ring and makes "runs dry" possible. The verification's
check that a transfer's two accounts differ (`verify.rs:396`) is left out: the model accepts
more levels than the code, so what holds of its valid levels holds of the code's.

### `Money`, `Responses`

Pure functions: one state is one call. A text is kept by its parts: sign, digits
before the first point, whether there is a point, digits after it, and whether
there is anything else (blanks, letters, another point), which is all the code
tells apart. Powers of the base are a recursive function, so that they can be
reasoned about. The base of numerals is a constant, ten in the code and four in
the run: it has to be even, or no remainder would be a half. That a text overflows
the `i128` the code computes in and that its value does not fit an `i64` are one
case: both answer `Overflow`, and the first implies the second. The lookup of a
currency by its code is left out.

A handler is the sequence of its checks, each with the error it ends in and the
phase it is made in: before there is a connection, at BEGIN, or in a
transaction that is observed or not. A call is an operation and the checks that would
fail; the first of them decides. A check that replays a stored success is one of
the sequence. The tables that turn errors into statuses, codes and labels
are operators of their own, so that a code forgotten in one of them shows.

## Runs

| Run | Question | Bounds |
|---|---|---|
| `transfers` | lost updates, deadlock, agreement of answers, inactive accounts, atomicity | 3 connections, 2 accounts and one missing, 6 requests with reused keys, an amount of 0; 3 transfer ids |
| `fx` | fees, rounding, overflow, conversion to nothing, an account being opened, one reversal only, undone to the last unit; the inductive invariant, of which exclusive locks are a part | 2 connections, 3 configurations, 6 requests: two keys race to reverse, one's own or the reversal is reversed; `MaxI64` = 6 |
| `live` | every request ends; only a reversal overdraws | 2 connections, opposite transfers and a reversal of money that may be spent |
| `idempotency` | the statements implement the promise; requests end | 3 requests under one key, two of them equal; retention 1, 3 instants |
| `fx_configuration` | prices as of one moment, failing closed, rates of transfers remain, the inductive invariant | 1 connection, 2 pairs, 2 ids per table, 3 rows at a time, 2 instants, 2 views of a transaction |
| `history` | paging, that it ends, the inductive invariant | 1 reader, 2 writers, 4 transfers, 2 instants, limit up to 2 |
| `service` | answers and metrics, a full pool, cancellation, shutdown | 2 requests of 5 kinds, pools of 1 and 2, 6 settings |
| `benchmark` | verdicts of a sweep with late requests, and its end | 2 levels, pool of 3, 3 disturbances |
| `responses` | exact parsing, formatting, one rounding; statuses, labels, replays | every text of up to 3 + 2 digits in base 4, every amount of an `i64` from -15 to 14, scales 0 to 2; any two checks of each of 8 operations |
| `retention`, `readiness`, `benchmark_instances` | disagreements, below | as small as the disagreement allows |

Two connections are enough for every conflict of two transactions, and locks are
exclusive, so a third only adds to chains of waits: `transfers` has it; that no
longer cycle of waits exists is what `WaitingClimbs` proves. Transfer ids bound
the number of committed transfers; a transfer and two attempts to reverse it, or
two transfers and a reversal, need three. `MaxI64` = 6 leaves room for a
reversal to be wrongly repeated, and none for what the highest rate pays out.
Three requests under one key are a success, its repetition and its rival; with
three instants one begins, its record expires, and another takes the key again.
In `fx_configuration` rows with three different intervals meet at an instant or overlap,
three rows are a rate with a rule of the pair and a default one, or an ambiguous one, and
two views are one change between the statements. States beyond the bounds on rows and
views are checked too, but not followed; nor is a refused transaction, which only rolls
back. In `history` two instants let rows tie, and let a later beginning commit first.
In `service` one connection and two requests make the pool full; in `benchmark`
the warm-up goes once round the ring, so that all of it may be lost without a
trace in the balances, and two levels let the first one's late requests meet the
second. In `responses` two checks that fail tell their order, and texts reach
past the scale, past the `i64` and past each limit of a rate, and conversions
end below, at and above a half. Symmetry is used for interchangeable
connections, transfers no request names, pairs and row ids, and requests; never
in a run with a liveness property. Deadlock is not checked in the `history`,
`idempotency`, `benchmark` and `responses` runs, where ids, requests, levels or
the one call run out.

Fairness:

- `Ledger`: weak for statements that do not wait (a handler is polled until it is
  done), strong for those that do, because PostgreSQL queues waiters of a row
  lock. For the wait on a competitor's reservation this is an idealisation:
  a waiter could in principle be overtaken by new requests for ever.
  Requests, failures and lost answers are not fair.
- `Idempotency`: statements end, and a free key is taken by one of those who wait for
  it. Failures, the purge and the clock are not fair.
- `History`: a client that has begun goes on. `TraversalEnds` is checked with finitely many
  commits; endless ones are not part of the model.
- `Service`: statements end in an answer or an error, the acquire timer fires,
  connections come back. Clients, signals and the database are not fair: the
  database may stay away.
- `Benchmark`: the harness goes on, and a request whose client waits is answered
  (in the code, or it times out; `TimeOut` is bounded in the model).

## What the runs found

The other properties hold. Three runs end in a violation of something the
repository says:

- `retention`: `idempotency.rs:132` expects a "validated retention"; nothing
  validates that it fits an `i64`, and a write panics.
- `readiness`: a readiness check whose client hangs up is not counted, though
  `design.md` promises exactly one observation per check.
- `benchmark_instances`: the index that picks a URL starts again in every phase;
  with fewer pool accounts than instances some get no measured transfer, and no level
  can be valid.

Three smaller ones have no run of their own. A pool exhausted by lock waits makes a
readiness check answer "Database is unavailable" (`health.rs:32`). And a request
that timed out in one phase of the benchmark may still run in the next, though
phases "execute sequentially"; `PhasesAreRings` therefore asks for a sweep
without time-outs, and the level is invalid in the end. And `validate`
(`config.rs:163`) calls its bound on the JWT lifetime the "conservative configured
run duration", though it counts one level at the smallest concurrency, while
the tokens, made once, serve the set-up and all levels of all instance counts.

## Proofs

Checked by TLAPS, for any number of connections, accounts, keys and requests.

*Ledger.* `IInv == TypeOK /\ LocksExclusive /\ ReadsStayCurrent /\
HandlersConsistent` is inductive (`InductiveInvariant`). `LocksExclusive` or
`ReadsStayCurrent` alone are not: that a row in `view` is current needs that its
lock is held, and what a handler holds depends on where it is. `HandlersConsistent`
says just that: each handler is on the path of its request, holds exactly
the locks of the statements behind it, and has checked what they check. Each
action has a lemma that the acting handler stays consistent; a general lemma
(`SteadyHandler`) covers all others, whose rows cannot change under their locks.
From `IInv` a commit computes on current rows, so every step is a
step of `LedgerAtomic` or a stutter (`StepRefines`, `ServiceIsAtomic`). The theorems
of part 1 (types with all balances in `i64`, one effect per key, at most one
reversal, agreement of answers, overdraft, frozen accounts) are proved on the
atomic model, where they are short, and carried over to `Ledger` by refinement.
`WaitingClimbs` gives the order of locks that excludes a cycle of waits: whoever waits,
waits for a row above all those it holds. `NothingDeadlocks` draws the conclusion
for sets of any size: of a finite set that waits on itself, take a member with a
minimal set of members that await a later lock than it does; the member it waits for
awaits a later one, and has fewer after it.

Balances are sums over sets of entries. What entries add up to is, instead of a fold
over a set, the number of minor units in them (`Total`), and the
theorems on cardinalities add them up. `AtomicJournalOK` says that the journal has the
two entries of each transfer and no others, and that a reversal is the transfer it
reverses the other way round. From it `BalancesAreTrue` (a commit adds new entries
to the sum and the same amounts to the balances) and `ReversalsUndo` (the four entries of
a transfer and its reversal cancel).

Fees and conversions are the nearest amounts, halves up, at every rate
(`HalfUpIsNearest`).

*Idempotency.* What the promise implies is proved of `OncePerKey`, where it is short
(`PromiseHolds`): a success stays until its time is over, so that a second effect of
the key can only follow after it. `Idempotency`'s invariant says what handlers
rely on between statements: a row that others can see is complete and belongs to
its key, and a reservation is held alone, while its key is free. With it each
statement is a step of `OncePerKey` or a stutter (`ImplementsOncePerKey`), and
`EffectsLieApart` and `AnswersStayTrue` are carried over.

*FxConfiguration.* For any changes, in any number. `Known` says what each transaction has
selected in terms of what it could have seen: as long as it is selecting, the current state
is among its `views`, so what a SELECT finds is in force in one of them; the default is asked for
only after the pair was seen without a rule; and views are only added, so that
nothing becomes wrong (`ChangeSeen`). `FailsClosed` follows at once, and
`PricedAsOfOneMoment` by looking for the view that explains both answers, case by case of the
part that changed (`OneMomentExplains`). That rates remain is inductive by itself
(`RatesPreserved`).

*History.* All three promises about pages hang together (`Paged`): what has
been shown and what is still to come are parted by the cursor, which stands
for the last row of the page. A page of the newest rows below the cursor moves the
cut and leaves nothing behind it (`PageIsNewest`), and rows that commit meanwhile are
added, never changed.

*Service.* The counters are a history of the requests that have ended (`Tallied`):
each is counted under what it ended with, once, which the counting lemmas tie to
cardinalities. What a handler can be at (`JobOK`) excludes that a rejected request has
a COMMIT on its way. `CountersAreTrue` needs both, for a COMMIT may take effect after
its handler has gone.

*Benchmark.* Two invariants, for every pool, seed, workload and sweep of levels. While every
answer comes (`Undisturbed`), each account of the pool is opened under a key nobody has
used, so that the pool has no account twice, and whatever the service works on is of the
running phase. A phase is no longer than the pool, and a destination is a fixed
distance from its source, so its plans have different remainders (`ChunkIsARing`) and the
phases keep to rings (`PhasesKeepToRings`).

The other holds however much is lost, late or fails (`SweepIsInvariant`), and ends in
`ValidLevelsStayExact`. That every answer of a valid level was "ok" says nothing about
the tables by itself: keys are the same at every level, so a late request of an earlier
level may have left a record the clean-up did not see, and the answer would be a replay of
it. `IdsOK` and `RowsOK` exclude it. An account is opened once, and nobody knows its id
before; a clean-up that has passed its first statement leaves records of transfers only of
accounts that are in no later pool. A record that names an account of the pool is
therefore booked (`ReplayIsBooked`), answers are booked (`BookedOK`), and a level in
which all plans were sent and answered has a transfer for each and nothing in service
(`Judged`). The proof needs neither the balances nor the keys that the level reads back.
The attempt also showed an error of an earlier version of the model, which sent
the measured plans as a warm-up when there was none.

From the two, that a sweep in which every answer comes is valid at every level
(`UndisturbedSweepsAreValid`). `Smooth` keeps its accounts: a plan is done when the service
has a record of it, and each account has its first balance less the plans done that
take from it, plus those that give to it. Before a phase of the warm-up these are
equal, for a whole turn takes one from every position and gives it one (`FullTurn`); the
last phase of the warm-up may stop on the way (`PartTurn`), and from then on a position is at
most one behind. No two transfers of a phase have one source, so with two
amounts to begin with none is refused (`Affordable`). The theorem supposes `Ample`: two
amounts, which the code has many times over (`ACCOUNT_POOL_INITIAL_BALANCE_MINOR`
is 100 of them), and a pool as large as the number of instances (or fewer operations than
instances), which nothing in the code ensures: see `benchmark_instances`. With
one amount the property is false; TLC finds the level that fails.

*Money and Responses.* A state is one call, so the invariant is only that what was called
has returned what its function returns (`AnsweredInvariant`). The work is in the functions,
for every base, width of integers, scale, amount and length of text. Powers are a recursive
function and numerals a fold, about which the provers know nothing to begin with, and the
library's induction takes a predicate. `Induction` is therefore about sets, and comes from
the least element of a set of naturals. By it a recursive function exists (`Steps`), a
fold has the value of the last of its partial results (`NumeralIs`), a quotient is unique
(`DivisionUnique`), and the digits of a number are worth the number (`PaddedNumeral`,
`DigitsNumeral`). An amount is then the exact value of its text (`Parsed`), no text has two
values (`ExactOnce`), what is shown is read again (`ShownAndRead`), and half up is
nearest (`HalfUpNearest`, `ConvertedRightly`).

Of the handlers the proof needs which errors their pieces can end in. An error that is counted
has a label of its own (`Told`), its status is documented (`StatusesDocumented`), and
where a key is looked up, it is looked up before all that may have changed since
(`KeyFirst`, for handlers of any length that are built this way). The first of the
checks that would fail is the least of a set, so the answers are right for sets of
any size (`WhicheverChecksFail`).

Assumptions are the named ASSUMEs of the modules, which TLC evaluates: constants have
their types, request, key and answer values are distinct, and connections
are finitely many (for `NothingDeadlocks`).

Only model-checked: liveness under fairness, which is out of the prover's reach. Every invariant
of a passing run is the consequence of a theorem. RECURSIVE operators are used nowhere.

## Not modelled

- What the SELECT of a single read (`get_transfer`, `get_balance`) returns: one
  committed row. Its checks and its connection are modelled.
- Schemas of the OpenAPI document, result files, statistics, progress lines, scripts.
- What a token, a header or a cursor looks like as text: the checks are kept, with
  their order and their errors.
- Durations, logging and request ids.
- The benchmark's other scenarios, JWT lifetimes and its topologies' readiness; runs
  of different seeds on one database, whose FX rows outlive them (`dataset.rs:129`).

## Plan

In the order of importance:

1. `Ledger` composed with the pool of `Service`: requests that hold connections
   while they wait for rows.
2. `Benchmark`: the idempotent-replay scenario and its two snapshots, validation
   of the JWT lifetime against the sweep, seeded FX rows of several runs.
3. The local service's start and stop scripts.
