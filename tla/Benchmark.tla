------------------------------- MODULE Benchmark -------------------------------
(***************************************************************************)
(* The benchmark's account-pool scenario: a sweep of concurrency levels,    *)
(* each of which cleans up after the one before, opens a pool of accounts,  *)
(* sends a warm-up and a measured workload in phases, and judges itself by  *)
(* what it finds in the database. The service under test is external: it    *)
(* takes a request as a whole (module Ledger), answers late or never, and   *)
(* still works on what the client has given up.                             *)
(* The unit of money is the amount of a planned transfer.                   *)
(***************************************************************************)
EXTENDS Integers, FiniteSets, Sequences, Functions

CONSTANTS
  Seed,
  PoolSize,
  WarmupOperations,
  Operations,
  Concurrency,     \* the concurrency of every level, a sequence
  Instances,       \* service URLs
  Initial,         \* a pool account's first balance
  MaxDisturbances, \* bound on the answers and metrics that fail to come
  None             \* no balance

ASSUME BenchmarkAssumption ==
  /\ Seed \in Nat
  /\ PoolSize \in Nat \ {0, 1}
  /\ WarmupOperations \in Nat
  /\ Operations \in Nat /\ Operations > PoolSize
  /\ Concurrency \in Seq(Nat \ {0})
  /\ Instances \in Nat \ {0}
  /\ Initial \in Nat
  /\ MaxDisturbances \in Nat

VARIABLES
  level,        \* number of the running level
  stage,        \* of that level
  at,           \* DELETEs done, or the first plan of the phase
  pool,         \* ids of the accounts opened for the level
  answer,       \* the client's view of the level's requests
  metricsOK,    \* all snapshots of /metrics so far were read
  seen,         \* the balances read for the verification
  verdict,      \* of the levels that have ended
  inService,    \* requests the service is working on, of any level
  account,      \* balances of the accounts, by id
  record,       \* the idempotency records
  transfer,     \* the transfers and their entries
  doomed,       \* rows deleted by the open clean-up transaction
  disturbances

client == <<level, stage, at, pool, answer, metricsOK, seen, verdict>>
tables == <<account, record, transfer>>
vars == <<client, inService, tables, doomed, disturbances>>

Plans == 0 .. WarmupOperations + Operations - 1
Positions == 0 .. PoolSize - 1
Source(i) == (i + Seed) % PoolSize
Destination(i) == (Source(i) + (Seed % (PoolSize - 1)) + 1) % PoolSize

\* Bug: phases one plan longer than the pool.
ChunkTooLong(first) ==
  LET end == IF stage = "warmup" THEN WarmupOperations ELSE WarmupOperations + Operations
  IN {i \in Plans : first <= i /\ i <= first + PoolSize /\ i < end}

\* The plans of the phase of this stage that begins with plan `first`.
Chunk(first) ==
  LET end == IF stage = "warmup" THEN WarmupOperations ELSE WarmupOperations + Operations
  IN {i \in Plans : first <= i /\ i < first + PoolSize /\ i < end}

\* Bug: only the measured plans are simulated.
ExpectedBalancesOfMeasured ==
  LET measured == {i \in Plans : i >= WarmupOperations}
  IN [p \in Positions |->
        Initial - Cardinality({i \in measured : Source(i) = p})
                + Cardinality({i \in measured : Destination(i) = p})]

ExpectedPoolBalances ==
  [p \in Positions |->
     Initial - Cardinality({i \in Plans : Source(i) = p})
             + Cardinality({i \in Plans : Destination(i) = p})]

\* A request; `index` is a pool position or a plan, and an account that is
\* opened has the id <<level, index>>.
Request(kind, index, url, from, to) ==
  [level |-> level, kind |-> kind, index |-> index, url |-> url, from |-> from, to |-> to]
OpenRequest(p) ==
  Request("account", p, p % Instances, <<level, p>>, <<level, p>>)
TransferRequest(i) ==
  Request("transfer", i, (i - at) % Instances, pool[Source(i) + 1], pool[Destination(i) + 1])

\* Keys have no level in them, so that every level uses the same ones.
Key(r) == <<r.kind, r.index>>

Sent == DOMAIN answer
Waiting(r) == r \in Sent /\ answer[r] = "waiting"
Outstanding == {r \in Sent : answer[r] = "waiting"}
SentPlans == {r.index : r \in {s \in Sent : s.kind = "transfer"}}

NothingDoomed == [records |-> {}, entries |-> {}, transfers |-> {}, accounts |-> {}]

-----------------------------------------------------------------------------
\* The client.

EndLevel(v) ==
  /\ verdict' = Append(verdict, v)
  /\ level' = level + 1
  /\ stage' = IF level < Len(Concurrency) THEN "clean" ELSE "ended"
  /\ at' = 0
  /\ pool' = <<>>
  /\ answer' = <<>>
  /\ metricsOK' = TRUE
  /\ seen' = <<>>
  /\ UNCHANGED inService

Enter(s, first) == stage' = s /\ at' = first

\* A row that refers to a deleted one fails the DELETE, and the level with it.
Referenced ==
  \/ at = 2 /\ transfer \ doomed.entries # {}
  \/ at = 3 /\ transfer \ doomed.transfers # {}

\* Bug: the idempotency records stay.
CleanWithoutRecords ==
  /\ stage = "clean"
  /\ ~Referenced
  /\ at' = at + 1
  /\ \/ /\ at < 4
        /\ doomed' = CASE at = 0 -> doomed
                       [] at = 1 -> [doomed EXCEPT !.entries = transfer]
                       [] at = 2 -> [doomed EXCEPT !.transfers = transfer]
                       [] at = 3 -> [doomed EXCEPT !.accounts = DOMAIN account]
        /\ UNCHANGED <<stage, tables>>
     \/ /\ at = 4
        /\ transfer' = transfer \ doomed.transfers
        /\ account' = Restrict(account, DOMAIN account \ doomed.accounts)
        /\ doomed' = NothingDoomed
        /\ stage' = "setup"
        /\ UNCHANGED record
  /\ UNCHANGED <<level, pool, answer, metricsOK, seen, verdict, inService, disturbances>>

Clean ==
  /\ stage = "clean"
  /\ ~Referenced
  /\ at' = at + 1
  /\ \/ /\ at < 4
        /\ doomed' = CASE at = 0 -> [doomed EXCEPT !.records = DOMAIN record]
                       [] at = 1 -> [doomed EXCEPT !.entries = transfer]
                       [] at = 2 -> [doomed EXCEPT !.transfers = transfer]
                       [] at = 3 -> [doomed EXCEPT !.accounts = DOMAIN account]
        /\ UNCHANGED <<stage, tables>>
     \/ /\ at = 4
        /\ record' = Restrict(record, DOMAIN record \ doomed.records)
        /\ transfer' = transfer \ doomed.transfers
        /\ account' = Restrict(account, DOMAIN account \ doomed.accounts)
        /\ doomed' = NothingDoomed
        /\ stage' = "setup"
  /\ UNCHANGED <<level, pool, answer, metricsOK, seen, verdict, inService, disturbances>>

CleanFails ==
  /\ stage = "clean" /\ Referenced
  /\ EndLevel("failed")
  /\ doomed' = NothingDoomed
  /\ UNCHANGED <<tables, disturbances>>

\* The harness's own connection to the database fails it.
ConnectionFails ==
  /\ stage \in {"clean", "verify", "verify keys"}
  /\ disturbances < MaxDisturbances
  /\ EndLevel("failed")
  /\ doomed' = NothingDoomed
  /\ disturbances' = disturbances + 1
  /\ UNCHANGED tables

Send(r) ==
  /\ answer' = [s \in Sent \cup {r} |-> IF s = r THEN "waiting" ELSE answer[s]]
  /\ inService' = inService \cup {r}
  /\ UNCHANGED <<level, stage, at, pool, metricsOK, seen, verdict, tables, doomed, disturbances>>

\* prepare: one account after the other.
OpenAccount ==
  /\ stage = "setup"
  /\ Cardinality(Sent) = Len(pool)
  /\ Len(pool) < PoolSize
  /\ Send(OpenRequest(Len(pool)))

SetupEnds ==
  /\ stage = "setup" /\ Len(pool) = PoolSize
  /\ Enter("warmup", 0)
  /\ UNCHANGED <<level, pool, answer, metricsOK, seen, verdict, inService, tables, doomed,
                 disturbances>>

SetupFails ==
  /\ stage = "setup"
  /\ \E r \in Sent : answer[r] = "failed"
  /\ EndLevel("failed")
  /\ UNCHANGED <<tables, doomed, disturbances>>

\* run_phase: the semaphore lets as many tasks through as the level allows.
SendTransfer ==
  /\ stage \in {"warmup", "measured"}
  /\ Cardinality(Outstanding) < Concurrency[level]
  /\ \E i \in Chunk(at) \ SentPlans : Send(TransferRequest(i))

\* Bug: only answers that are valid count.
PhaseEndsWhenValid ==
  /\ \A r \in Sent : answer[r] = "ok"
  /\ stage \in {"warmup", "measured"}
  /\ Chunk(at) \subseteq SentPlans
  /\ Outstanding = {}
  /\ LET next == at + Cardinality(Chunk(at))
     IN IF Chunk(next) # {} THEN Enter(stage, next)
        ELSE Enter(IF stage = "warmup" THEN "metrics before" ELSE "metrics after", next)
  /\ UNCHANGED <<level, pool, answer, metricsOK, seen, verdict, inService, tables, doomed,
                 disturbances>>

PhaseEnds ==
  /\ stage \in {"warmup", "measured"}
  /\ Chunk(at) \subseteq SentPlans
  /\ Outstanding = {}
  /\ LET next == at + Cardinality(Chunk(at))
     IN IF Chunk(next) # {} THEN Enter(stage, next)
        ELSE Enter(IF stage = "warmup" THEN "metrics before" ELSE "metrics after", next)
  /\ UNCHANGED <<level, pool, answer, metricsOK, seen, verdict, inService, tables, doomed,
                 disturbances>>

ReadMetrics ==
  /\ \/ stage = "metrics before" /\ Enter("measured", at)
     \/ stage = "metrics after" /\ Enter("verify", at)
  /\ \/ UNCHANGED <<metricsOK, disturbances>>
     \/ /\ disturbances < MaxDisturbances
        /\ metricsOK' = FALSE
        /\ disturbances' = disturbances + 1
  /\ UNCHANGED <<level, pool, answer, seen, verdict, inService, tables, doomed>>

\* account_pool reads the balances first and the keys in a second statement.
ReadBalances ==
  /\ stage = "verify"
  /\ seen' = [p \in Positions |->
                IF pool[p + 1] \in DOMAIN account THEN account[pool[p + 1]] ELSE None]
  /\ Enter("verify keys", at)
  /\ UNCHANGED <<level, pool, answer, metricsOK, verdict, inService, tables, doomed, disturbances>>

Measured == {r \in Sent : r.kind = "transfer" /\ r.index >= WarmupOperations}

\* The transfer the record of a request's key names, if it is there.
Mapped(r) == {t \in transfer : t.key = Key(r) /\ Key(r) \in DOMAIN record
                               /\ record[Key(r)] = [from |-> t.from, to |-> t.to]}

EvaluateAccountPool ==
  /\ \A r \in Measured : Cardinality(Mapped(r)) = 1
  /\ Cardinality(UNION {Mapped(r) : r \in Measured}) = Operations
  /\ seen = ExpectedPoolBalances
  /\ \A p \in Positions : seen[p] >= 0

\* The answers to a stage's transfers were all what they should be.
AllValid(requests) == \A r \in requests : answer[r] = "ok"

EveryInstanceReceivedMeasuredTraffic ==
  Operations < Instances \/ {r.url : r \in Measured} = 0 .. Instances - 1

\* Bug: the warm-up's answers are not looked at.
LevelValidWithoutWarmup ==
  /\ AllValid(Measured)
  /\ metricsOK
  /\ EveryInstanceReceivedMeasuredTraffic
  /\ EvaluateAccountPool

LevelValid ==
  /\ AllValid({r \in Sent \ Measured : r.kind = "transfer"})
  /\ AllValid(Measured)
  /\ metricsOK
  /\ EveryInstanceReceivedMeasuredTraffic
  /\ EvaluateAccountPool

Judge ==
  /\ stage = "verify keys"
  /\ EndLevel(IF LevelValid THEN "valid" ELSE "invalid")
  /\ UNCHANGED <<tables, doomed, disturbances>>

-----------------------------------------------------------------------------
\* The service, and what may go wrong between it and the client.

Answered(r, a) ==
  /\ answer' = IF Waiting(r) THEN [answer EXCEPT ![r] = a] ELSE answer
  /\ inService' = inService \ {r}
  /\ UNCHANGED <<level, stage, at, metricsOK, seen, verdict, doomed>>

\* A key that has been used is answered from its record.
Replay(r) ==
  /\ Key(r) \in DOMAIN record
  /\ LET e == record[Key(r)]
     IN IF r.kind = "account"
        THEN /\ Key(r) \notin doomed.records
             /\ pool' = IF Waiting(r) THEN Append(pool, e.from) ELSE pool
             /\ Answered(r, "ok")
        ELSE /\ Answered(r, IF e = [from |-> r.from, to |-> r.to] THEN "ok" ELSE "failed")
             /\ UNCHANGED pool
  /\ UNCHANGED <<tables, disturbances>>

Store(r) ==
  record' = [k \in DOMAIN record \cup {Key(r)} |->
               IF k = Key(r) THEN [from |-> r.from, to |-> r.to] ELSE record[k]]

Open(r) ==
  /\ r.kind = "account" /\ Key(r) \notin DOMAIN record
  /\ account' = [a \in DOMAIN account \cup {r.from} |->
                   IF a = r.from THEN Initial ELSE account[a]]
  /\ Store(r)
  /\ pool' = IF Waiting(r) THEN Append(pool, r.from) ELSE pool
  /\ Answered(r, "ok")
  /\ UNCHANGED <<transfer, disturbances>>

\* The accounts' rows are locked while a clean-up that deletes them is open.
Reachable(r) == r.kind = "transfer" /\ Key(r) \notin DOMAIN record
                /\ {r.from, r.to} \cap doomed.accounts = {}
Funded(r) == {r.from, r.to} \subseteq DOMAIN account /\ account[r.from] >= 1

Move(r) ==
  /\ Reachable(r) /\ Funded(r)
  /\ account' = [account EXCEPT ![r.from] = @ - 1, ![r.to] = @ + 1]
  /\ transfer' = transfer \cup {[key |-> Key(r), from |-> r.from, to |-> r.to]}
  /\ Store(r)
  /\ Answered(r, "ok")
  /\ UNCHANGED <<pool, disturbances>>

Refuse(r) ==
  /\ Reachable(r) /\ ~Funded(r)
  /\ Answered(r, "failed")
  /\ UNCHANGED <<pool, tables, disturbances>>

\* The request fails in the service, or never gets there.
Lose(r) ==
  /\ Waiting(r) => disturbances < MaxDisturbances
  /\ disturbances' = IF Waiting(r) THEN disturbances + 1 ELSE disturbances
  /\ Answered(r, "failed")
  /\ UNCHANGED <<pool, tables>>

\* The client gives up, or the answer is lost; the service knows nothing of it.
TimeOut(r) ==
  /\ Waiting(r)
  /\ disturbances < MaxDisturbances
  /\ disturbances' = disturbances + 1
  /\ answer' = [answer EXCEPT ![r] = "failed"]
  /\ UNCHANGED <<level, stage, at, pool, metricsOK, seen, verdict, inService, tables, doomed>>

Init ==
  /\ level = 1 /\ stage = "clean" /\ at = 0
  /\ pool = <<>> /\ answer = <<>> /\ metricsOK = TRUE /\ seen = <<>> /\ verdict = <<>>
  /\ inService = {}
  /\ account = <<>> /\ record = <<>> /\ transfer = {}
  /\ doomed = NothingDoomed
  /\ disturbances = 0

ClientStep ==
  \/ Clean \/ CleanFails
  \/ OpenAccount \/ SetupEnds \/ SetupFails
  \/ SendTransfer \/ PhaseEnds \/ ReadMetrics
  \/ ReadBalances \/ Judge

Serve(r) == Replay(r) \/ Open(r) \/ Move(r) \/ Refuse(r)

Next ==
  \/ ClientStep \/ ConnectionFails
  \/ \E r \in inService : Serve(r) \/ Lose(r) \/ TimeOut(r)

Spec == Init /\ [][Next]_vars

\* The client goes on whenever it can, and the service works on every request.
FairSpec ==
  /\ Spec
  /\ WF_vars(ClientStep)
  /\ WF_vars(\E r \in Outstanding : r \in inService /\ Serve(r))

-----------------------------------------------------------------------------
\* A level that calls itself valid is what it says (evaluate_account_pool):
\* the transfers of its plan are all committed, each once, and no request of it
\* is still at work that could change the balances it has reported.
ValidLevelsAreExact ==
  \A l \in DOMAIN verdict : verdict[l] = "valid" =>
    /\ \A r \in inService : r.level # l
    /\ l = level - 1 /\ stage \in {"clean", "ended"} /\ at = 0 =>
         /\ {t.key : t \in transfer} = {<<"transfer", i>> : i \in Plans}
         /\ Cardinality(transfer) = Cardinality(Plans)

\* A sweep in which every answer comes is valid at every level: no level trips
\* over the keys, accounts or balances another has left (migrate_and_clean), and
\* no account of the ring runs dry.
UndisturbedLevelsAreValid ==
  disturbances = 0 => \A l \in DOMAIN verdict : verdict[l] = "valid"

\* Transfers under way at one time never share a source or a destination.
RingOfTransfers ==
  \A r, s \in inService :
    r # s /\ r.kind = "transfer" /\ s.kind = "transfer" =>
      r.from # s.from /\ r.to # s.to

\* As long as every answer comes, the phases keep to that (run_operations).
PhasesAreRings == disturbances = 0 => RingOfTransfers

\* As README.md of the benchmarks has it: URLs are assigned round-robin by operation
\* index, so that every URL receives measured traffic when there are enough operations.
OperationsReachEveryInstance ==
  stage = "verify" => EveryInstanceReceivedMeasuredTraffic

\* The sweep comes to its end, whatever times out or fails (run).
SweepEnds == <>(stage = "ended")

=============================================================================
