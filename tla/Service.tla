-------------------------------- MODULE Service --------------------------------
(***************************************************************************)
(* The process around the ledger: startup from configuration, the           *)
(* connection pool, the requests that go through it, the metrics they leave *)
(* behind and graceful shutdown. What a write does to the tables is the     *)
(* business of module Ledger; here a transaction is only durable or not.    *)
(* A client may hang up, and the database fail, between any two awaits.     *)
(***************************************************************************)
EXTENDS Integers, FiniteSets

CONSTANTS
  Request,    \* requests, each made once
  Settings,   \* what the environment may ask for
  MaxI64,     \* the largest i64
  None        \* no configuration, operation or answer

VARIABLES
  phase,     \* of the process
  config,    \* the accepted settings
  database,  \* "up" or "down"
  job,       \* the requests
  metrics    \* the counters of /metrics, by label

vars == <<phase, config, database, job, metrics>>

Phases == {"down", "starting", "serving", "stopping", "stopped", "failed"}
Writes == {"transfer", "reversal", "account"}
Kinds == Writes \cup {"ready", "read"}
Operations == {"transfer", "fx_transfer", "reversal"}
Outcomes == {"success", "rejected", "internal_error"}
IdempotencyOutcomes == {"owner", "replay", "conflict"}
Awaits ==
  {"acquire", "begin", "classify", "idempotency", "work", "commit", "ack", "rollback"}

\* How a request ended for its client.
Answers == {"2xx", "4xx", "5xx", "dropped", "panicked"}

Labels ==
  ({"ledger_operations_total"} \X Operations \X Outcomes)
  \cup ({"ledger_idempotency_outcomes_total"} \X Operations \X IdempotencyOutcomes)
  \cup ({"ledger_pool_acquire"} \X {"transfer"} \X {"success", "failure"})
  \cup ({"ledger_readiness_checks_total"} \X {"ready"} \X {"ready", "not_ready"})
  \cup ({"ledger_http_requests_total"} \X Kinds \X {"2xx", "4xx", "5xx"})

Job ==
  [kind: Kinds \cup {None},
   pc: {"idle", "done"} \cup Awaits,
   operation: Operations \cup {None},        \* its TransactionObservation's
   verdict: Outcomes \cup {None},            \* what the handler has come to
   connection: {"none", "held", "returning"},
   durable: BOOLEAN,                         \* its COMMIT took effect
   answer: Answers \cup {None}]

NoJob ==
  [kind |-> None, pc |-> "idle", operation |-> None, verdict |-> None,
   connection |-> "none", durable |-> FALSE, answer |-> None]

ASSUME ServiceAssumption ==
  /\ IsFiniteSet(Request)
  /\ MaxI64 \in Nat
  /\ Settings \subseteq [max_connections: Nat, min_connections: Nat, retention: Nat]
  /\ None \notin Settings /\ None \notin Kinds \cup Operations \cup Outcomes \cup Answers

At(r, pc) == job[r].pc = pc
InFlight(r) == job[r].pc \in Awaits
Connections == {r \in Request : job[r].connection # "none"}

(***************************************************************************)
(* What the steps are made of.                                             *)
(***************************************************************************)
Count(labels) ==
  metrics' = [l \in Labels |-> metrics[l] + (IF l \in labels THEN 1 ELSE 0)]

Go(r, pc) == job' = [job EXCEPT ![r].pc = pc]

\* Bug: Drop does not look at completed.
ObservedAndDropped(op, outcome) ==
  IF op = None THEN {}
  ELSE {<<"ledger_operations_total", op, outcome>>,
        <<"ledger_operations_total", op, "internal_error">>}

\* complete, after which Drop has nothing to add.
Observed(op, outcome) ==
  IF op = None THEN {} ELSE {<<"ledger_operations_total", op, outcome>>}

\* observe_request counts a response, if the handler comes to one.
Answered(r, answer) ==
  IF answer \in {"2xx", "4xx", "5xx"}
  THEN {<<"ledger_http_requests_total", job[r].kind, answer>>} ELSE {}

\* What AppError's variant, or a drop, means for the operation.
TerminalOutcome(answer) ==
  CASE answer = "2xx" -> "success"
    [] answer = "4xx" -> "rejected"
    [] OTHER -> "internal_error"

\* The handler is over and lets go of its connection, on which a ROLLBACK is
\* queued if the transaction is open.
End(r, answer, op, labels) ==
  /\ job' = [job EXCEPT ![r].pc = "done", ![r].answer = answer, ![r].operation = op,
                        ![r].connection = IF @ = "held" THEN "returning" ELSE "none"]
  /\ Count(labels \cup Observed(op, TerminalOutcome(answer)) \cup Answered(r, answer))

(***************************************************************************)
(* Startup and shutdown.                                                   *)
(***************************************************************************)
\* Config::from_values; other values may be missing or malformed.
Configure(s) ==
  /\ phase = "down"
  /\ \/ /\ s.min_connections <= s.max_connections /\ s.retention # 0
        /\ phase' = "starting" /\ config' = s
     \/ phase' = "failed" /\ config' = config
  /\ UNCHANGED <<database, job, metrics>>

\* create_pool makes a connection, and the listener is bound.
Connect ==
  /\ phase = "starting" /\ database = "up" /\ config.max_connections > 0
  /\ phase' = "serving"
  /\ UNCHANGED <<config, database, job, metrics>>

FailToStart ==
  /\ phase = "starting"
  /\ phase' = "failed"
  /\ UNCHANGED <<config, database, job, metrics>>

\* SIGTERM or Ctrl-C: nothing more is accepted.
Signal ==
  /\ phase = "serving"
  /\ phase' = "stopping"
  /\ UNCHANGED <<config, database, job, metrics>>

\* axum::serve returns when the requests in flight are answered.
Stop ==
  /\ phase = "stopping" /\ \A r \in Request : ~InFlight(r)
  /\ phase' = "stopped"
  /\ UNCHANGED <<config, database, job, metrics>>

(***************************************************************************)
(* A request: from its arrival to its transaction.                         *)
(***************************************************************************)
Arrive(r, kind) ==
  /\ phase = "serving" /\ At(r, "idle")
  /\ job' = [job EXCEPT ![r].kind = kind, ![r].pc = "acquire"]
  /\ UNCHANGED <<phase, config, database, metrics>>

\* Authentication and validation refuse without a connection, and no operation is
\* counted.
Refuse(r, kind) ==
  /\ phase = "serving" /\ At(r, "idle") /\ kind # "ready"
  /\ job' = [job EXCEPT ![r].kind = kind, ![r].pc = "done", ![r].answer = "4xx"]
  /\ Count({<<"ledger_http_requests_total", kind, "4xx">>})
  /\ UNCHANGED <<phase, config, database>>

AcquireLabels(r, outcome) ==
  IF job[r].kind = "transfer" THEN {<<"ledger_pool_acquire", "transfer", outcome>>} ELSE {}

Acquire(r) ==
  /\ At(r, "acquire")
  /\ database = "up" /\ Cardinality(Connections) < config.max_connections
  /\ job' = [job EXCEPT ![r].pc = "begin", ![r].connection = "held"]
  /\ Count(AcquireLabels(r, "success"))
  /\ UNCHANGED <<phase, config, database>>

\* What a request that has no transaction yet counts when it fails: a transfer
\* is not classified, a reversal is, a readiness check has its own counter.
FailWithoutTransaction(r, labels) ==
  /\ End(r, "5xx", IF job[r].kind = "reversal" THEN "reversal" ELSE None,
         labels \cup (IF job[r].kind = "ready"
                      THEN {<<"ledger_readiness_checks_total", "ready", "not_ready">>}
                      ELSE {}))
  /\ UNCHANGED <<phase, config, database>>

\* Bug: no acquire_timeout.
AcquireFailsOnlyIfFull(r) ==
  /\ At(r, "acquire")
  /\ Cardinality(Connections) = config.max_connections
  /\ FailWithoutTransaction(r, AcquireLabels(r, "failure"))

\* acquire_timeout: no connection is free, or none can be made.
AcquireTimeout(r) ==
  /\ At(r, "acquire")
  /\ database = "down" \/ Cardinality(Connections) = config.max_connections
  /\ FailWithoutTransaction(r, AcquireLabels(r, "failure"))

\* BEGIN, the SELECT 1 of a readiness check or the SELECT of a read.
Begin(r) ==
  /\ At(r, "begin") /\ database = "up"
  /\ CASE job[r].kind = "transfer" -> Go(r, "classify") /\ UNCHANGED metrics
       [] job[r].kind = "reversal" ->
            /\ job' = [job EXCEPT ![r].pc = "idempotency", ![r].operation = "reversal"]
            /\ UNCHANGED metrics
       [] job[r].kind = "account" -> Go(r, "idempotency") /\ UNCHANGED metrics
       [] job[r].kind = "ready" ->
            End(r, "2xx", None, {<<"ledger_readiness_checks_total", "ready", "ready">>})
       [] job[r].kind = "read" -> \E answer \in {"2xx", "4xx"} : End(r, answer, None, {})
  /\ UNCHANGED <<phase, config, database>>

BeginFails(r) ==
  /\ At(r, "begin") /\ database = "down"
  /\ FailWithoutTransaction(r, {})

\* The currencies say what a transfer is; without an account it stays unclassified.
Classify(r) ==
  /\ At(r, "classify")
  /\ \/ /\ database = "up"
        /\ \E op \in {"transfer", "fx_transfer"} :
             job' = [job EXCEPT ![r].pc = "idempotency", ![r].operation = op]
        /\ UNCHANGED metrics
     \/ database = "up" /\ End(r, "4xx", None, {})
     \/ database = "down" /\ End(r, "5xx", None, {})
  /\ UNCHANGED <<phase, config, database>>

(***************************************************************************)
(* A request: its transaction.                                             *)
(***************************************************************************)
\* The handler's result decides between COMMIT and ROLLBACK. create_account returns
\* an error at once and leaves the ROLLBACK to the pool.
Settle(r, verdict, labels) ==
  IF job[r].kind = "account" /\ verdict # "success"
  THEN End(r, IF verdict = "rejected" THEN "4xx" ELSE "5xx", None, labels)
  ELSE /\ job' = [job EXCEPT ![r].pc = IF verdict = "success" THEN "commit" ELSE "rollback",
                             ![r].verdict = verdict]
       /\ Count(labels)

KeyLabels(r, outcome) ==
  IF job[r].operation = None THEN {}
  ELSE {<<"ledger_idempotency_outcomes_total", job[r].operation, outcome>>}

\* A transfer's amount that is no amount is rejected before the lookup. The lookup
\* finds a record, or reserve decides; reserve panics if the retention is no i64.
Idempotency(r) ==
  /\ At(r, "idempotency")
  /\ \/ /\ database = "up" /\ config.retention <= MaxI64
        /\ Go(r, "work") /\ Count(KeyLabels(r, "owner"))
     \/ database = "up" /\ Settle(r, "success", KeyLabels(r, "replay"))
     \/ database = "up" /\ Settle(r, "rejected", KeyLabels(r, "conflict"))
     \/ job[r].kind = "transfer" /\ Settle(r, "rejected", {})
     \/ database = "down" /\ Settle(r, "internal_error", {})
     \/ /\ database = "up" /\ config.retention > MaxI64
        /\ End(r, "panicked", job[r].operation, {})
  /\ UNCHANGED <<phase, config, database>>

\* The statements between the reservation and the COMMIT.
Work(r) ==
  /\ At(r, "work")
  /\ \/ database = "up" /\ Settle(r, "success", {})
     \/ database = "up" /\ job[r].kind # "account" /\ Settle(r, "rejected", {})
     \/ database = "down" /\ Settle(r, "internal_error", {})
  /\ UNCHANGED <<phase, config, database>>

\* PostgreSQL commits, though the handler may be gone that has sent the COMMIT.
Commit(r) ==
  /\ job[r].verdict = "success" /\ ~job[r].durable /\ database = "up"
  /\ At(r, "commit") \/ job[r].connection = "returning"
  /\ job' = [job EXCEPT ![r].durable = TRUE, ![r].pc = IF @ = "commit" THEN "ack" ELSE @]
  /\ UNCHANGED <<phase, config, database, metrics>>

\* Bug: success is recorded when COMMIT is sent.
AcknowledgeBeforeCommit(r) ==
  /\ job[r].pc \in {"commit", "ack"} /\ database = "up"
  /\ End(r, "2xx", job[r].operation, {})
  /\ UNCHANGED <<phase, config, database>>

Acknowledge(r) ==
  /\ At(r, "ack") /\ database = "up"
  /\ End(r, "2xx", job[r].operation, {})
  /\ UNCHANGED <<phase, config, database>>

\* COMMIT ends in an error, whether or not it took effect.
CommitFails(r) ==
  /\ job[r].pc \in {"commit", "ack"} /\ database = "down"
  /\ End(r, "5xx", job[r].operation, {})
  /\ UNCHANGED <<phase, config, database>>

\* The result of the ROLLBACK does not matter.
Rollback(r) ==
  /\ At(r, "rollback")
  /\ End(r, IF job[r].verdict = "rejected" THEN "4xx" ELSE "5xx", job[r].operation, {})
  /\ UNCHANGED <<phase, config, database>>

\* The client hangs up and the handler is dropped at its await: only an
\* observation notices.
Cancel(r) ==
  /\ InFlight(r)
  /\ End(r, "dropped", job[r].operation, {})
  /\ UNCHANGED <<phase, config, database>>

\* Bug: the pool forgets a connection that was given back in a transaction.
ReturnUnlessOpen(r) ==
  /\ job[r].connection = "returning" /\ job[r].answer # "dropped"
  /\ job' = [job EXCEPT ![r].connection = "none"]
  /\ UNCHANGED <<phase, config, database, metrics>>

\* SQLx ends the transaction and makes the connection available, or closes it.
Return(r) ==
  /\ job[r].connection = "returning"
  /\ job' = [job EXCEPT ![r].connection = "none"]
  /\ UNCHANGED <<phase, config, database, metrics>>

DatabaseFails ==
  /\ database = "up"
  /\ database' = "down"
  /\ UNCHANGED <<phase, config, job, metrics>>

DatabaseRecovers ==
  /\ database = "down"
  /\ database' = "up"
  /\ UNCHANGED <<phase, config, job, metrics>>

(***************************************************************************)
(* The specification.                                                      *)
(***************************************************************************)
Init ==
  /\ phase = "down"
  /\ config = None
  /\ database = "up"
  /\ job = [r \in Request |-> NoJob]
  /\ metrics = [l \in Labels |-> 0]

\* What a request in flight waits for.
Proceed(r) ==
  \/ Acquire(r) \/ AcquireTimeout(r) \/ Begin(r) \/ BeginFails(r) \/ Classify(r)
  \/ Idempotency(r) \/ Work(r) \/ Commit(r) \/ Acknowledge(r) \/ CommitFails(r)
  \/ Rollback(r)

Next ==
  \/ (\E s \in Settings : Configure(s)) \/ Connect \/ FailToStart \/ Signal \/ Stop
  \/ \E r \in Request :
       (\E kind \in Kinds : Arrive(r, kind) \/ Refuse(r, kind))
       \/ Proceed(r) \/ Cancel(r) \/ Return(r)
  \/ DatabaseFails \/ DatabaseRecovers

Spec == Init /\ [][Next]_vars

\* Statements end, in an answer or an error; timers fire; the server notices when
\* the last request is answered. Clients, signals and the database are free.
FairSpec ==
  /\ Spec
  /\ \A r \in Request : WF_vars(Proceed(r)) /\ WF_vars(Return(r))
  /\ WF_vars(Stop)

(***************************************************************************)
(* Properties.                                                             *)
(***************************************************************************)
TypeOK ==
  /\ phase \in Phases
  /\ config \in Settings \cup {None}
  /\ database \in {"up", "down"}
  /\ job \in [Request -> Job]
  /\ metrics \in [Labels -> Nat]

Outcome(op, outcome) == metrics[<<"ledger_operations_total", op, outcome>>]

\* Once a transaction is classified, its request counts one terminal outcome and
\* not before it ends: whether it is answered, dropped at any await, or panics.
OneTerminalOutcome ==
  \A op \in Operations :
    Outcome(op, "success") + Outcome(op, "rejected") + Outcome(op, "internal_error")
      = Cardinality({r \in Request : job[r].operation = op /\ At(r, "done")})

Effective(op) == {r \in Request : job[r].operation = op /\ job[r].durable}
Ineffective(op) ==
  {r \in Request : job[r].operation = op /\ At(r, "done") /\ ~job[r].durable}

\* Neither the answers nor the counters promise what PostgreSQL has not kept, nor
\* deny what it has: a success is durable and a rejection has no effect, now and
\* later. Only an internal error, or no answer, may be either.
CountersMatchEffects ==
  /\ \A r \in Request :
       /\ job[r].kind \in Writes /\ job[r].answer = "2xx" => job[r].durable
       /\ job[r].answer = "4xx" => ~job[r].durable
  /\ \A op \in Operations :
       /\ Outcome(op, "success") <= Cardinality(Effective(op))
       /\ Outcome(op, "rejected") <= Cardinality(Ineffective(op))

\* A request ends even if the pool stays empty and the database away.
EveryRequestEnds == \A r \in Request : InFlight(r) ~> At(r, "done")

\* Shutdown comes to an end, and all connections are given back.
ShutdownDrains == phase = "stopping" ~> phase = "stopped" /\ Connections = {}

\* An assertion of reserve: the retention has been validated, it fits an i64.
ValidatedRetentionFits == \A r \in Request : job[r].answer # "panicked"

\* As documented, a readiness check whose execution starts reports one observation.
ReadinessCountedOnce ==
  LET Counted(outcome) == metrics[<<"ledger_readiness_checks_total", "ready", outcome>>] IN
  Counted("ready") + Counted("not_ready")
    = Cardinality({r \in Request : job[r].kind = "ready" /\ At(r, "done")})
================================================================================
