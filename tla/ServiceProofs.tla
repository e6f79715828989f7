----------------------------- MODULE ServiceProofs -----------------------------
(***************************************************************************)
(* Proofs about Service, for any number of requests and connections. The    *)
(* counters are the history of the requests that are over: every operation  *)
(* counter is the number of the requests that ended that way.               *)
(***************************************************************************)
EXTENDS Service, FiniteSetTheorems, TLAPS

\* What a request has come to says what it holds, and what it may still change.
JobOK(j) ==
  /\ j.pc = "done" <=> j.answer # None
  /\ j.pc \in {"idle", "acquire"} => j.connection = "none"
  /\ j.pc \in Awaits \ {"acquire"} => j.connection = "held"
  /\ j.pc = "idle" => j.operation = None
  /\ j.pc \in Awaits => j.kind # None
  /\ j.pc = "classify" => j.kind = "transfer"
  /\ j.pc \in {"commit", "ack"} => j.verdict = "success"
  /\ j.pc = "rollback" => j.verdict \in {"rejected", "internal_error"}
  /\ j.pc \in {"idle"} \cup (Awaits \ {"commit", "ack", "rollback"}) => j.verdict = None
  /\ j.pc = "ack" => j.durable
  /\ j.durable => j.verdict = "success"
  /\ j.kind \in Writes /\ j.answer = "2xx" => j.durable
  /\ j.answer = "4xx" => j.verdict # "success"
  /\ j.operation # None => j.kind \in {"transfer", "reversal"}

\* Nothing arrives before the process is configured and serves.
Configured ==
  /\ phase \in {"starting", "serving", "stopping", "stopped"} => config # None
  /\ phase \in {"down", "starting", "failed"} => \A r \in Request : At(r, "idle")

Ended(op, outcome) ==
  {r \in Request : /\ job[r].operation = op /\ At(r, "done")
                   /\ TerminalOutcome(job[r].answer) = outcome}

\* The counters are exact.
Tallied ==
  \A op \in Operations, outcome \in Outcomes :
    Outcome(op, outcome) = Cardinality(Ended(op, outcome))

IInv ==
  /\ TypeOK
  /\ Configured
  /\ \A r \in Request : JobOK(job[r])
  /\ Tallied

\* Labels that count no operation.
Quiet(labels) == \A op, outcome : <<"ledger_operations_total", op, outcome>> \notin labels

OnlyChanges(r) ==
  /\ job' \in [Request -> Job]
  /\ \A q \in Request \ {r} : job'[q] = job[q]

(***************************************************************************)
(* What the steps are made of.                                             *)
(***************************************************************************)
\* A metric is a number and stays one.
LEMMA CountAdds ==
  ASSUME TypeOK, NEW labels, Count(labels)
  PROVE  /\ metrics' \in [Labels -> Nat]
         /\ \A op \in Operations, outcome \in Outcomes :
              Outcome(op, outcome)' = Outcome(op, outcome)
                + (IF <<"ledger_operations_total", op, outcome>> \in labels THEN 1 ELSE 0)
<1>1. \A op \in Operations, outcome \in Outcomes :
        <<"ledger_operations_total", op, outcome>> \in Labels
  BY DEF Labels
<1>2. metrics' \in [Labels -> Nat]
  BY DEF Count, TypeOK
<1> HIDE DEF Labels
<1> QED
  BY <1>1, <1>2 DEF Count, Outcome

\* The requests are finitely many, and so is every set of them.
LEMMA SetsOfRequests ==
  \A S \in SUBSET Request : IsFiniteSet(S) /\ Cardinality(S) \in Nat
BY ServiceAssumption, FS_Subset, FS_CardinalityType DEF ServiceAssumption

\* A step that ends nothing that is observed, and counts nothing of it.
LEMMA MoveKeeps ==
  ASSUME IInv, NEW r \in Request, OnlyChanges(r), JobOK(job'[r]),
         phase \notin {"down", "starting", "failed"}, UNCHANGED <<phase, config, database>>,
         UNCHANGED metrics \/ \E labels : Quiet(labels) /\ Count(labels),
         \/ job'[r].operation = None /\ job[r].operation = None
         \/ job'[r].pc # "done" /\ job[r].pc # "done"
         \/ /\ job'[r].pc = job[r].pc /\ job'[r].operation = job[r].operation
            /\ job'[r].answer = job[r].answer
  PROVE  IInv'
<1>1. metrics' \in [Labels -> Nat] /\ \A op \in Operations, outcome \in Outcomes :
                                        Outcome(op, outcome)' = Outcome(op, outcome)
  <2>1. CASE UNCHANGED metrics
    BY <2>1 DEF IInv, TypeOK, Outcome
  <2>2. ASSUME NEW labels, Quiet(labels), Count(labels)
        PROVE  metrics' \in [Labels -> Nat] /\ \A op \in Operations, outcome \in Outcomes :
                                                Outcome(op, outcome)' = Outcome(op, outcome)
    <3>1. \A op \in Operations, outcome \in Outcomes : Outcome(op, outcome) \in Nat
      BY SetsOfRequests DEF IInv, Tallied, Ended
    <3>2. /\ metrics' \in [Labels -> Nat]
          /\ \A op \in Operations, outcome \in Outcomes :
               Outcome(op, outcome)' = Outcome(op, outcome)
                 + (IF <<"ledger_operations_total", op, outcome>> \in labels THEN 1 ELSE 0)
      BY <2>2, CountAdds DEF IInv
    <3>3. ASSUME NEW op \in Operations, NEW outcome \in Outcomes
          PROVE  Outcome(op, outcome)' = Outcome(op, outcome)
      <4>1. <<"ledger_operations_total", op, outcome>> \notin labels
        BY <2>2 DEF Quiet
      <4>2. Outcome(op, outcome)' = Outcome(op, outcome) + 0
        BY <3>2, <4>1
      <4> QED
        BY <3>1, <4>2
    <3> QED
      BY <3>2, <3>3
  <2> QED
    BY <2>1, <2>2
<1>2. ASSUME NEW op \in Operations, NEW outcome \in Outcomes
      PROVE  Ended(op, outcome)' = Ended(op, outcome)
  <2>1. op # None
    BY ServiceAssumption DEF ServiceAssumption
  <2> QED
    BY <2>1 DEF Ended, OnlyChanges, At
<1>3. Tallied'
  BY <1>1, <1>2 DEF IInv, Tallied
<1>4. TypeOK'
  BY <1>1 DEF IInv, TypeOK, OnlyChanges
<1>5. Configured'
  BY DEF IInv, Configured
<1>6. (\A q \in Request : JobOK(job[q]))'
  BY DEF IInv, OnlyChanges
<1> QED
  BY <1>3, <1>4, <1>5, <1>6 DEF IInv

\* A request that ends is counted as what it ends with.
LEMMA EndKeeps ==
  ASSUME IInv, NEW r \in Request, NEW answer \in Answers, NEW op \in Operations \cup {None},
         NEW labels, Quiet(labels), End(r, answer, op, labels), InFlight(r),
         UNCHANGED <<phase, config, database>>,
         op # None => job[r].kind \in {"transfer", "reversal"},
         answer = "2xx" /\ job[r].kind \in Writes => job[r].durable,
         answer = "4xx" => job[r].verdict # "success"
  PROVE  IInv'
<1> PICK j \in Job : j = job[r]
  BY DEF IInv, TypeOK
<1>1. /\ OnlyChanges(r)
      /\ job'[r] = [j EXCEPT !.pc = "done", !.answer = answer, !.operation = op,
                             !.connection = IF @ = "held" THEN "returning" ELSE "none"]
      /\ Count(labels \cup Observed(op, TerminalOutcome(answer)) \cup Answered(r, answer))
  BY DEF End, OnlyChanges, IInv, TypeOK, Job
<1>2. /\ job'[r].pc = "done" /\ job'[r].answer = answer /\ job'[r].operation = op
      /\ job'[r].kind = j.kind /\ job'[r].verdict = j.verdict /\ job'[r].durable = j.durable
  BY <1>1 DEF Job
<1>3. JobOK(j) /\ j.pc # "done"
  BY DEF IInv, InFlight, Awaits
<1>4. answer # None
  BY ServiceAssumption DEF ServiceAssumption
<1>5. JobOK(job'[r])
  BY <1>2, <1>3, <1>4 DEF JobOK, Awaits
<1>6. phase \notin {"down", "starting", "failed"} /\ config # None
  BY DEF IInv, Configured, InFlight, At, Awaits, TypeOK, Phases
<1> DEFINE counted == labels \cup Observed(op, TerminalOutcome(answer)) \cup Answered(r, answer)
<1>7. /\ metrics' \in [Labels -> Nat]
      /\ \A x \in Operations, o \in Outcomes :
           Outcome(x, o)' = Outcome(x, o)
             + (IF <<"ledger_operations_total", x, o>> \in counted THEN 1 ELSE 0)
  BY <1>1, CountAdds DEF IInv
<1>8. \A x \in Operations, o \in Outcomes :
        <<"ledger_operations_total", x, o>> \in counted <=> x = op /\ o = TerminalOutcome(answer)
  <2>1. TerminalOutcome(answer) \in Outcomes /\ None \notin Operations
    BY ServiceAssumption DEF ServiceAssumption, TerminalOutcome, Outcomes
  <2>2. \A x, o : <<"ledger_operations_total", x, o>> \notin Answered(r, answer)
    BY DEF Answered
  <2>3. \A x \in Operations : \A o : <<"ledger_operations_total", x, o>> \in Observed(op, TerminalOutcome(answer))
                         <=> x = op /\ o = TerminalOutcome(answer)
    BY <2>1 DEF Observed
  <2> QED
    BY <2>2, <2>3 DEF Quiet
<1> HIDE DEF counted
<1>9. Tallied'
  <2> SUFFICES ASSUME NEW x \in Operations, NEW o \in Outcomes
               PROVE  Outcome(x, o)' = Cardinality(Ended(x, o)')
    BY DEF Tallied
  <2>1. /\ Outcome(x, o) = Cardinality(Ended(x, o)) /\ Cardinality(Ended(x, o)) \in Nat
        /\ IsFiniteSet(Ended(x, o)) /\ r \notin Ended(x, o)
    BY <1>3, SetsOfRequests DEF IInv, Tallied, Ended, At
  <2>2. Outcome(x, o)' = Outcome(x, o)
          + (IF <<"ledger_operations_total", x, o>> \in counted THEN 1 ELSE 0)
    BY <1>7
  <2>3. \A q \in Request : q \in Ended(x, o)' <=>
          /\ job'[q].operation = x /\ job'[q].pc = "done"
          /\ TerminalOutcome(job'[q].answer) = o
    BY DEF Ended, At
  <2>4. \A q \in Request \ {r} : q \in Ended(x, o)' <=> q \in Ended(x, o)
    BY <1>1, <2>3 DEF Ended, OnlyChanges, At
  <2>5. r \in Ended(x, o)' <=> x = op /\ o = TerminalOutcome(answer)
    BY <1>2, <2>3
  <2>6. Ended(x, o) \subseteq Request /\ Ended(x, o)' \subseteq Request
    BY DEF Ended
  <2>7. CASE x = op /\ o = TerminalOutcome(answer)
    <3>1. Ended(x, o)' = Ended(x, o) \cup {r}
      BY <2>7, <2>4, <2>5, <2>6
    <3>2. Cardinality(Ended(x, o)') = Cardinality(Ended(x, o)) + 1
      BY <2>1, <3>1, FS_AddElement
    <3>3. Outcome(x, o)' = Outcome(x, o) + 1
      BY <1>8, <2>7, <2>2
    <3> QED
      BY <2>1, <3>2, <3>3
  <2>8. CASE ~(x = op /\ o = TerminalOutcome(answer))
    <3>1. Ended(x, o)' = Ended(x, o)
      BY <2>1, <2>8, <2>4, <2>5, <2>6
    <3>2. Outcome(x, o)' = Outcome(x, o) + 0
      BY <1>8, <2>8, <2>2
    <3> QED
      BY <2>1, <3>1, <3>2
  <2> QED
    BY <2>7, <2>8
<1>10. TypeOK'
  BY <1>1, <1>7 DEF IInv, TypeOK, OnlyChanges
<1>11. Configured'
  BY <1>6 DEF IInv, Configured
<1>12. (\A q \in Request : JobOK(job[q]))'
  BY <1>1, <1>5 DEF IInv, OnlyChanges
<1> QED
  BY <1>9, <1>10, <1>11, <1>12 DEF IInv

(***************************************************************************)
(* The requests.                                                           *)
(***************************************************************************)
\* A request in flight is only found while the process serves or drains.
LEMMA InFlightServed ==
  ASSUME IInv, NEW r \in Request, job[r].pc # "idle"
  PROVE  phase \notin {"down", "starting", "failed"} /\ config # None
BY DEF IInv, Configured, At, TypeOK, Phases

\* From one await to the next.
LEMMA GoKeeps ==
  ASSUME IInv, NEW r \in Request, InFlight(r), NEW pc \in {"classify", "idempotency", "work", "commit", "rollback"},
         NEW op \in Operations \cup {None}, NEW verdict \in Outcomes \cup {None},
         job' = [job EXCEPT ![r].pc = pc, ![r].operation = op, ![r].verdict = verdict],
         job[r].connection = "held",
         op # None => job[r].kind \in {"transfer", "reversal"},
         pc = "classify" => job[r].kind = "transfer",
         pc = "commit" => verdict = "success",
         pc = "rollback" => verdict \in {"rejected", "internal_error"},
         pc \in {"classify", "idempotency", "work"} => verdict = None,
         ~job[r].durable,
         UNCHANGED <<phase, config, database>>,
         UNCHANGED metrics \/ \E labels : Quiet(labels) /\ Count(labels)
  PROVE  IInv'
<1> PICK j \in Job : j = job[r]
  BY DEF IInv, TypeOK
<1>1. OnlyChanges(r)
  <2>1. [j EXCEPT !.pc = pc, !.operation = op, !.verdict = verdict] \in Job
    <3>1. pc \in {"idle", "done"} \cup Awaits
      BY DEF Awaits
    <3> QED
      BY <3>1 DEF Job
  <2> QED
    BY <2>1 DEF OnlyChanges, IInv, TypeOK
<1>2. /\ job'[r].pc = pc /\ job'[r].operation = op /\ job'[r].verdict = verdict
      /\ job'[r].kind = j.kind /\ job'[r].answer = j.answer
      /\ job'[r].connection = j.connection /\ job'[r].durable = j.durable
  BY DEF IInv, TypeOK, Job
<1>3. JobOK(j) /\ j.pc # "done" /\ j.pc # "idle"
  BY DEF IInv, InFlight, Awaits
<1>4. /\ j.answer = None /\ j.kind # None /\ j.connection = "held" /\ ~j.durable /\ j.kind = job[r].kind
      /\ None \notin Answers
  BY <1>3, ServiceAssumption DEF ServiceAssumption, JobOK, InFlight
<1>5. JobOK(job'[r])
  BY <1>2, <1>4 DEF JobOK, Awaits, Answers
<1> QED
  BY <1>1, <1>2, <1>3, <1>5, InFlightServed, MoveKeeps DEF Awaits

\* An operation that is not named stays.
LEMMA UnnamedOperation ==
  ASSUME TypeOK, NEW r \in Request, NEW pc, NEW verdict
  PROVE  [job EXCEPT ![r].pc = pc, ![r].verdict = verdict]
           = [job EXCEPT ![r].pc = pc, ![r].operation = job[r].operation, ![r].verdict = verdict]
<1> PICK j \in Job : j = job[r]
  BY DEF TypeOK
<1>1. [j EXCEPT !.pc = pc, !.verdict = verdict]
        = [j EXCEPT !.pc = pc, !.operation = j.operation, !.verdict = verdict]
  BY DEF Job
<1> QED
  BY <1>1 DEF TypeOK

\* A verdict that is not named stays.
LEMMA UnnamedVerdict ==
  ASSUME TypeOK, NEW r \in Request, NEW pc, NEW op
  PROVE  [job EXCEPT ![r].pc = pc, ![r].operation = op]
           = [job EXCEPT ![r].pc = pc, ![r].operation = op, ![r].verdict = job[r].verdict]
<1> PICK j \in Job : j = job[r]
  BY DEF TypeOK
<1>1. [j EXCEPT !.pc = pc, !.operation = op]
        = [j EXCEPT !.pc = pc, !.operation = op, !.verdict = j.verdict]
  BY DEF Job
<1> QED
  BY <1>1 DEF TypeOK

\* Neither one named: both stay.
LEMMA UnnamedBoth ==
  ASSUME TypeOK, NEW r \in Request, NEW pc
  PROVE  [job EXCEPT ![r].pc = pc]
           = [job EXCEPT ![r].pc = pc, ![r].operation = job[r].operation,
                         ![r].verdict = job[r].verdict]
<1> PICK j \in Job : j = job[r]
  BY DEF TypeOK
<1>1. [j EXCEPT !.pc = pc]
        = [j EXCEPT !.pc = pc, !.operation = j.operation, !.verdict = j.verdict]
  BY DEF Job
<1> QED
  BY <1>1 DEF TypeOK

\* Only observations count operations.
LEMMA QuietLabels ==
  /\ \A r, outcome : Quiet(AcquireLabels(r, outcome)) /\ Quiet(KeyLabels(r, outcome))
  /\ Quiet({})
  /\ \A outcome : Quiet({<<"ledger_readiness_checks_total", "ready", outcome>>})
  /\ \A kind, answer : Quiet({<<"ledger_http_requests_total", kind, answer>>})
  /\ \A S, T : Quiet(S) /\ Quiet(T) => Quiet(S \cup T)
BY DEF Quiet, AcquireLabels, KeyLabels

\* The handler's result becomes the statement that ends the transaction.
LEMMA SettleKeeps ==
  ASSUME IInv, NEW r \in Request, job[r].pc \in {"idempotency", "work"},
         NEW verdict \in Outcomes, NEW labels, Quiet(labels), Settle(r, verdict, labels),
         UNCHANGED <<phase, config, database>>
  PROVE  IInv'
<1>1. /\ InFlight(r) /\ job[r].connection = "held" /\ job[r].verdict = None
      /\ ~job[r].durable /\ job[r].operation \in Operations \cup {None}
      /\ job[r].operation # None => job[r].kind \in {"transfer", "reversal"}
  BY ServiceAssumption
  DEF ServiceAssumption, IInv, JobOK, InFlight, Awaits, TypeOK, Job, Outcomes
<1>2. CASE job[r].kind = "account" /\ verdict # "success"
  <2>1. End(r, IF verdict = "rejected" THEN "4xx" ELSE "5xx", None, labels)
    BY <1>2 DEF Settle
  <2>2. job[r].verdict # "success"
    BY <1>1, ServiceAssumption DEF ServiceAssumption, Outcomes
  <2> QED
    BY <1>1, <2>1, <2>2, EndKeeps DEF Answers
<1>3. CASE ~(job[r].kind = "account" /\ verdict # "success")
  <2> DEFINE pc == IF verdict = "success" THEN "commit" ELSE "rollback"
  <2>1. job' = [job EXCEPT ![r].pc = pc, ![r].verdict = verdict] /\ Count(labels)
    BY <1>3 DEF Settle
  <2>2. job' = [job EXCEPT ![r].pc = pc, ![r].operation = job[r].operation,
                           ![r].verdict = verdict]
    <3> HIDE DEF pc
    <3>1. TypeOK /\ r \in Request
      BY DEF IInv
    <3>2. [job EXCEPT ![r].pc = pc, ![r].verdict = verdict]
            = [job EXCEPT ![r].pc = pc, ![r].operation = job[r].operation,
                          ![r].verdict = verdict]
      BY ONLY <3>1, UnnamedOperation
    <3> QED
      BY ONLY <2>1, <3>2
  <2>3. /\ pc \in {"classify", "idempotency", "work", "commit", "rollback"}
        /\ pc = "commit" => verdict = "success"
        /\ pc = "rollback" => verdict \in {"rejected", "internal_error"}
        /\ pc \notin {"classify", "idempotency", "work"}
    BY DEF Outcomes
  <2>4. \E counted : Quiet(counted) /\ Count(counted)
    BY <2>1
  <2> DEFINE op == job[r].operation
  <2>5. /\ op \in Operations \cup {None}
        /\ op # None => job[r].kind \in {"transfer", "reversal"}
        /\ job' = [job EXCEPT ![r].pc = pc, ![r].operation = op, ![r].verdict = verdict]
    BY <1>1, <2>2
  <2> HIDE DEF pc, op
  <2> QED
    BY <1>1, <2>3, <2>4, <2>5, GoKeeps
<1> QED
  BY <1>2, <1>3

\* The next statement.
LEMMA NextStatementKeeps ==
  ASSUME IInv, NEW r \in Request, job[r].pc \in {"begin", "classify", "idempotency"},
         NEW pc \in {"classify", "idempotency", "work"}, NEW op \in Operations \cup {None},
         pc = "classify" => job[r].kind = "transfer",
         op # None => job[r].kind \in {"transfer", "reversal"},
         \/ job' = [job EXCEPT ![r].pc = pc] /\ op = job[r].operation
         \/ job' = [job EXCEPT ![r].pc = pc, ![r].operation = op],
         UNCHANGED <<phase, config, database>>,
         UNCHANGED metrics \/ \E labels : Quiet(labels) /\ Count(labels)
  PROVE  IInv'
<1>1. /\ InFlight(r) /\ job[r].connection = "held" /\ job[r].verdict = None /\ ~job[r].durable
  BY ServiceAssumption
  DEF ServiceAssumption, IInv, JobOK, InFlight, Awaits, TypeOK, Job, Outcomes
<1>2. job' = [job EXCEPT ![r].pc = pc, ![r].operation = op, ![r].verdict = job[r].verdict]
  <2>0. TypeOK /\ r \in Request
    BY DEF IInv
  <2>1. CASE job' = [job EXCEPT ![r].pc = pc] /\ op = job[r].operation
    <3>1. [job EXCEPT ![r].pc = pc]
            = [job EXCEPT ![r].pc = pc, ![r].operation = job[r].operation,
                          ![r].verdict = job[r].verdict]
      BY ONLY <2>0, UnnamedBoth
    <3> QED
      BY ONLY <2>1, <3>1
  <2>2. CASE job' = [job EXCEPT ![r].pc = pc, ![r].operation = op]
    <3>1. [job EXCEPT ![r].pc = pc, ![r].operation = op]
            = [job EXCEPT ![r].pc = pc, ![r].operation = op, ![r].verdict = job[r].verdict]
      BY ONLY <2>0, UnnamedVerdict
    <3> QED
      BY ONLY <2>2, <3>1
  <2> QED
    BY <2>1, <2>2
<1> DEFINE verdict == job[r].verdict
<1>3. /\ job' = [job EXCEPT ![r].pc = pc, ![r].operation = op, ![r].verdict = verdict]
      /\ verdict = None
  BY <1>1, <1>2
<1> HIDE DEF verdict
<1> QED
  BY <1>1, <1>3, GoKeeps

\* A request comes in, and is let through to the pool or is not.
LEMMA ArrivalKeeps ==
  ASSUME IInv, NEW r \in Request, NEW kind \in Kinds, Arrive(r, kind) \/ Refuse(r, kind)
  PROVE  IInv'
<1> PICK j \in Job : j = job[r]
  BY DEF IInv, TypeOK
<1>1. JobOK(j) /\ j.pc = "idle" /\ phase = "serving"
  BY DEF IInv, Arrive, Refuse, At
<1>2. /\ j.connection = "none" /\ j.operation = None /\ j.verdict = None /\ j.answer = None
      /\ ~j.durable /\ None \notin Outcomes /\ None \notin Answers
  BY <1>1, ServiceAssumption DEF ServiceAssumption, JobOK, Outcomes
<1>3. CASE Arrive(r, kind)
  <2>1. /\ OnlyChanges(r)
        /\ job'[r] = [j EXCEPT !.kind = kind, !.pc = "acquire"]
    <3>1. [j EXCEPT !.kind = kind, !.pc = "acquire"] \in Job
      BY DEF Job, Awaits
    <3> QED
      BY <1>3, <3>1 DEF Arrive, OnlyChanges, IInv, TypeOK
  <2>2. /\ job'[r].pc = "acquire" /\ job'[r].connection = "none" /\ job'[r].operation = None
        /\ job'[r].verdict = None /\ job'[r].answer = None /\ ~job'[r].durable
        /\ job'[r].kind # None
    BY <1>2, <2>1, ServiceAssumption DEF ServiceAssumption, Job
  <2>3. JobOK(job'[r])
    BY <1>2, <2>2 DEF JobOK, Awaits, Answers, Outcomes
  <2> QED
    BY <1>1, <1>2, <1>3, <2>1, <2>2, <2>3, MoveKeeps DEF Arrive
<1>4. CASE Refuse(r, kind)
  <2>1. /\ OnlyChanges(r)
        /\ job'[r] = [j EXCEPT !.kind = kind, !.pc = "done", !.answer = "4xx"]
    <3>1. [j EXCEPT !.kind = kind, !.pc = "done", !.answer = "4xx"] \in Job
      BY DEF Job, Answers
    <3> QED
      BY <1>4, <3>1 DEF Refuse, OnlyChanges, IInv, TypeOK
  <2>2. /\ job'[r].pc = "done" /\ job'[r].connection = "none" /\ job'[r].operation = None
        /\ job'[r].verdict = None /\ job'[r].answer = "4xx" /\ ~job'[r].durable
    BY <1>2, <2>1 DEF Job
  <2>3. JobOK(job'[r])
    BY <1>2, <2>2 DEF JobOK, Awaits, Answers, Outcomes
  <2>4. \E labels : Quiet(labels) /\ Count(labels)
    BY <1>4, QuietLabels DEF Refuse
  <2> QED
    BY <1>1, <1>2, <1>4, <2>1, <2>2, <2>3, <2>4, MoveKeeps DEF Refuse
<1> QED
  BY <1>3, <1>4

\* A connection for a request that waits for one.
LEMMA AcquireKeeps ==
  ASSUME IInv, NEW r \in Request, Acquire(r)
  PROVE  IInv'
<1> PICK j \in Job : j = job[r]
  BY DEF IInv, TypeOK
<1>1. JobOK(j) /\ j.pc = "acquire"
  BY DEF IInv, Acquire, At
<1>2. j.verdict = None /\ ~j.durable /\ j.answer = None /\ None \notin Outcomes
  BY <1>1, ServiceAssumption DEF ServiceAssumption, JobOK, Awaits, Outcomes
<1>3. /\ OnlyChanges(r)
      /\ job'[r] = [j EXCEPT !.pc = "begin", !.connection = "held"]
  <2>1. [j EXCEPT !.pc = "begin", !.connection = "held"] \in Job
    BY DEF Job, Awaits
  <2> QED
    BY <2>1 DEF Acquire, OnlyChanges, IInv, TypeOK
<1>4. /\ job'[r].pc = "begin" /\ job'[r].connection = "held" /\ job'[r].operation = j.operation
      /\ job'[r].verdict = None /\ job'[r].answer = None /\ ~job'[r].durable
      /\ job'[r].kind = j.kind
  BY <1>2, <1>3 DEF Job
<1>5. JobOK(job'[r])
  BY <1>1, <1>2, <1>4, ServiceAssumption DEF ServiceAssumption, JobOK, Awaits, Outcomes, Answers
<1>6. \E labels : Quiet(labels) /\ Count(labels)
  BY QuietLabels DEF Acquire
<1> QED
  BY <1>1, <1>3, <1>4, <1>5, <1>6, InFlightServed, MoveKeeps DEF Acquire

\* A request that fails before it has a transaction.
LEMMA FailKeeps ==
  ASSUME IInv, NEW r \in Request, InFlight(r), NEW labels, Quiet(labels),
         FailWithoutTransaction(r, labels)
  PROVE  IInv'
<1> DEFINE op == IF job[r].kind = "reversal" THEN "reversal" ELSE None
           counted == labels \cup (IF job[r].kind = "ready"
                        THEN {<<"ledger_readiness_checks_total", "ready", "not_ready">>}
                        ELSE {})
<1>1. Quiet(counted)
  BY QuietLabels
<1>2. /\ op \in Operations \cup {None}
      /\ op # None => job[r].kind \in {"transfer", "reversal"}
  BY DEF Operations
<1>3. End(r, "5xx", op, counted) /\ UNCHANGED <<phase, config, database>>
  BY DEF FailWithoutTransaction
<1> HIDE DEF op, counted
<1> QED
  BY <1>1, <1>2, <1>3, EndKeeps DEF Answers

\* COMMIT takes effect, now or when the handler is gone.
LEMMA CommitKeeps ==
  ASSUME IInv, NEW r \in Request, Commit(r)
  PROVE  IInv'
<1> PICK j \in Job : j = job[r]
  BY DEF IInv, TypeOK
<1> DEFINE pc == IF j.pc = "commit" THEN "ack" ELSE j.pc
<1>1. JobOK(j) /\ j.verdict = "success" /\ (j.pc = "commit" \/ j.connection = "returning")
  BY DEF IInv, Commit, At
<1>2. OnlyChanges(r) /\ job'[r] = [j EXCEPT !.durable = TRUE, !.pc = pc]
  <2>1. [j EXCEPT !.durable = TRUE, !.pc = pc] \in Job
    <3>1. pc \in {"idle", "done"} \cup Awaits
      BY DEF Job, Awaits
    <3> HIDE DEF pc
    <3> QED
      BY <3>1 DEF Job
  <2> QED
    BY <2>1 DEF Commit, OnlyChanges, IInv, TypeOK
<1>3. /\ job'[r].pc = pc /\ job'[r].durable /\ job'[r].connection = j.connection
      /\ job'[r].verdict = "success" /\ job'[r].answer = j.answer
      /\ job'[r].operation = j.operation /\ job'[r].kind = j.kind
  BY <1>1, <1>2 DEF Job
<1>4. j.pc # "idle" /\ (j.pc = "commit" \/ j.pc = "done") /\ j.connection # "none"
  BY <1>1, ServiceAssumption DEF ServiceAssumption, JobOK, Awaits, Outcomes, Job
<1>5. JobOK(job'[r])
  BY <1>1, <1>3, <1>4 DEF JobOK, Awaits
<1>6. phase \notin {"down", "starting", "failed"} /\ UNCHANGED <<phase, config, database, metrics>>
  BY <1>4, InFlightServed DEF Commit
<1>7. CASE j.pc = "commit"
  BY <1>2, <1>3, <1>4, <1>5, <1>6, <1>7, MoveKeeps
<1>8. CASE j.pc = "done"
  BY <1>2, <1>3, <1>4, <1>5, <1>6, <1>8, MoveKeeps
<1> QED
  BY <1>4, <1>7, <1>8

\* The connection is back, and nothing else has changed.
LEMMA ReturnKeeps ==
  ASSUME IInv, NEW r \in Request, Return(r)
  PROVE  IInv'
<1> PICK j \in Job : j = job[r]
  BY DEF IInv, TypeOK
<1>1. JobOK(j) /\ j.connection = "returning" /\ j.pc # "idle" /\ j.pc \notin Awaits
  BY DEF IInv, Return, JobOK
<1>2. OnlyChanges(r) /\ job'[r] = [j EXCEPT !.connection = "none"]
  <2>1. [j EXCEPT !.connection = "none"] \in Job
    BY DEF Job
  <2> QED
    BY <2>1 DEF Return, OnlyChanges, IInv, TypeOK
<1>3. /\ job'[r].pc = j.pc /\ job'[r].durable = j.durable /\ job'[r].connection = "none"
      /\ job'[r].verdict = j.verdict /\ job'[r].answer = j.answer
      /\ job'[r].operation = j.operation /\ job'[r].kind = j.kind
  BY <1>2 DEF Job
<1>4. JobOK(job'[r])
  BY <1>1, <1>3 DEF JobOK
<1> QED
  BY <1>1, <1>2, <1>3, <1>4, InFlightServed, MoveKeeps DEF Return

\* What a request in flight waits for has happened.
LEMMA ProceedKeeps ==
  ASSUME IInv, NEW r \in Request, Proceed(r)
  PROVE  IInv'
<1>1. JobOK(job[r]) /\ job[r] \in Job
  BY DEF IInv, TypeOK
<1>2. job[r].operation \in Operations \cup {None}
  BY <1>1 DEF Job
<1>3. job[r].operation # None => job[r].kind \in {"transfer", "reversal"}
  BY <1>1 DEF JobOK
<1>4. ASSUME NEW answer \in Answers, NEW op \in {job[r].operation, None}, NEW labels,
             Quiet(labels), End(r, answer, op, labels), InFlight(r),
             UNCHANGED <<phase, config, database>>,
             answer = "2xx" => job[r].kind \notin Writes \/ job[r].durable,
             answer = "4xx" => job[r].verdict # "success"
      PROVE  IInv'
  BY <1>2, <1>3, <1>4, EndKeeps
<1>5. CASE Acquire(r)
  BY <1>5, AcquireKeeps
<1>6. CASE AcquireTimeout(r) \/ BeginFails(r)
  BY <1>6, QuietLabels, FailKeeps DEF AcquireTimeout, BeginFails, InFlight, At, Awaits
<1>7. CASE Begin(r)
  <2>1. InFlight(r) /\ At(r, "begin") /\ UNCHANGED <<phase, config, database>>
    BY <1>7 DEF Begin, InFlight, At, Awaits
  <2>2. CASE job[r].kind = "transfer" \/ job[r].kind = "account"
    <3>1. \E pc \in {"classify", "idempotency"} :
            /\ pc = "classify" => job[r].kind = "transfer"
            /\ job' = [job EXCEPT ![r].pc = pc] /\ UNCHANGED metrics
      BY <1>7, <2>2 DEF Begin, Go
    <3> QED
      BY <1>2, <1>3, <2>1, <3>1, NextStatementKeeps DEF At
  <2>3. CASE job[r].kind = "reversal"
    <3>1. job' = [job EXCEPT ![r].pc = "idempotency", ![r].operation = "reversal"]
          /\ UNCHANGED metrics
      BY <1>7, <2>3 DEF Begin
    <3> QED
      BY <2>1, <2>3, <3>1, NextStatementKeeps DEF At, Operations
  <2>4. CASE job[r].kind = "ready"
    BY <1>4, <1>7, <2>1, <2>4, QuietLabels DEF Begin, Answers, Writes
  <2>5. CASE job[r].kind = "read"
    <3>1. \E answer \in {"2xx", "4xx"} : End(r, answer, None, {})
      BY <1>7, <2>5 DEF Begin
    <3>2. job[r].verdict # "success"
      BY <1>1, <2>1, ServiceAssumption DEF ServiceAssumption, JobOK, At, Awaits, Outcomes
    <3> QED
      BY <1>4, <2>1, <2>5, <3>1, <3>2, QuietLabels DEF Answers, Writes
  <2>6. job[r].kind \in Kinds \cup {None}
    BY <1>1 DEF Job
  <2>7. job[r].kind # None
    BY <1>1, <2>1 DEF InFlight, JobOK
  <2> QED
    BY <2>2, <2>3, <2>4, <2>5, <2>6, <2>7 DEF Kinds, Writes
<1>8. CASE Classify(r)
  <2>1. InFlight(r) /\ At(r, "classify") /\ UNCHANGED <<phase, config, database>>
    BY <1>8 DEF Classify, InFlight, At, Awaits
  <2>2. job[r].verdict # "success"
    BY <1>1, <2>1, ServiceAssumption DEF ServiceAssumption, JobOK, At, Awaits, Outcomes
  <2>3. ASSUME NEW op \in {"transfer", "fx_transfer"}, UNCHANGED metrics,
               job' = [job EXCEPT ![r].pc = "idempotency", ![r].operation = op]
        PROVE  IInv'
    <3>1. job[r].kind = "transfer"
      BY <1>1, <2>1 DEF JobOK, At
    <3> QED
      BY <2>1, <2>3, <3>1, NextStatementKeeps DEF At, Operations
  <2>4. CASE End(r, "4xx", None, {}) \/ End(r, "5xx", None, {})
    BY <1>4, <2>1, <2>2, <2>4, QuietLabels DEF Answers
  <2> QED
    BY <1>8, <2>3, <2>4 DEF Classify
<1>9. CASE Idempotency(r)
  <2>1. InFlight(r) /\ At(r, "idempotency") /\ UNCHANGED <<phase, config, database>>
    BY <1>9 DEF Idempotency, InFlight, At, Awaits
  <2>2. CASE Go(r, "work") /\ Count(KeyLabels(r, "owner"))
    BY <1>2, <1>3, <2>1, <2>2, QuietLabels, NextStatementKeeps DEF At, Go
  <2>3. ASSUME NEW verdict \in Outcomes, NEW labels, Quiet(labels), Settle(r, verdict, labels)
        PROVE  IInv'
    BY <2>1, <2>3, SettleKeeps DEF At
  <2>4. CASE End(r, "panicked", job[r].operation, {})
    BY <1>4, <2>1, <2>4, QuietLabels DEF Answers
  <2> QED
    BY <1>9, <2>2, <2>3, <2>4, QuietLabels DEF Idempotency, Outcomes
<1>10. CASE Work(r)
  <2>1. InFlight(r) /\ At(r, "work") /\ UNCHANGED <<phase, config, database>>
    BY <1>10 DEF Work, InFlight, At, Awaits
  <2>2. \E verdict \in Outcomes : Settle(r, verdict, {})
    BY <1>10 DEF Work, Outcomes
  <2> QED
    BY <2>1, <2>2, QuietLabels, SettleKeeps DEF At
<1>11. CASE Commit(r)
  BY <1>11, CommitKeeps
<1>12. CASE Acknowledge(r) \/ CommitFails(r)
  <2>1. InFlight(r) /\ (Acknowledge(r) => job[r].durable)
    BY <1>1, <1>12 DEF Acknowledge, CommitFails, InFlight, At, Awaits, JobOK
  <2> QED
    BY <1>4, <1>12, <2>1, QuietLabels DEF Acknowledge, CommitFails, Answers
<1>13. CASE Rollback(r)
  <2>1. InFlight(r) /\ job[r].verdict # "success"
    BY <1>1, <1>13 DEF Rollback, InFlight, At, Awaits, JobOK
  <2> QED
    BY <1>4, <1>13, <2>1, QuietLabels DEF Rollback, Answers
<1> QED
  BY <1>5, <1>6, <1>7, <1>8, <1>9, <1>10, <1>11, <1>12, <1>13 DEF Proceed

\* The process and the database go their way.
LEMMA ProcessKeeps ==
  ASSUME IInv,
         \/ \E s \in Settings : Configure(s)
         \/ Connect \/ FailToStart \/ Signal \/ Stop \/ DatabaseFails \/ DatabaseRecovers
         \/ UNCHANGED vars
  PROVE  IInv'
<1>1. UNCHANGED <<job, metrics>>
  BY DEF Configure, Connect, FailToStart, Signal, Stop, DatabaseFails, DatabaseRecovers, vars
<1>2. TypeOK' /\ Configured'
  BY ServiceAssumption
  DEF ServiceAssumption, IInv, TypeOK, Configured, At, Phases, Configure, Connect, FailToStart,
      Signal, Stop, DatabaseFails, DatabaseRecovers, vars
<1>3. Tallied'
  BY <1>1 DEF IInv, Tallied, Outcome, Ended, At
<1>4. (\A r \in Request : JobOK(job[r]))'
  BY <1>1 DEF IInv
<1> QED
  BY <1>2, <1>3, <1>4 DEF IInv

(***************************************************************************)
(* The theorems.                                                           *)
(***************************************************************************)
\* The counters are exact, however requests are answered, dropped or cut short.
THEOREM InductiveInvariant == Spec => []IInv
<1>1. Init => IInv
  <2> SUFFICES ASSUME Init PROVE IInv
    OBVIOUS
  <2>1. TypeOK /\ Configured
    BY DEF Init, TypeOK, Configured, At, NoJob, Job, Phases
  <2>2. \A r \in Request : JobOK(job[r])
    BY ServiceAssumption DEF ServiceAssumption, Init, NoJob, JobOK, Awaits, Answers, Outcomes
  <2>3. Tallied
    <3> SUFFICES ASSUME NEW op \in Operations, NEW outcome \in Outcomes
                 PROVE  Outcome(op, outcome) = Cardinality(Ended(op, outcome))
      BY DEF Tallied
    <3>1. <<"ledger_operations_total", op, outcome>> \in Labels
      BY DEF Labels
    <3>2. Outcome(op, outcome) = 0
      BY <3>1 DEF Init, Outcome
    <3>3. Ended(op, outcome) = {}
      BY DEF Init, NoJob, Ended, At
    <3> QED
      BY <3>2, <3>3, FS_EmptySet
  <2> QED
    BY <2>1, <2>2, <2>3 DEF IInv, Init
<1>2. IInv /\ [Next]_vars => IInv'
  <2> SUFFICES ASSUME IInv, [Next]_vars PROVE IInv'
    OBVIOUS
  <2>1. ASSUME NEW r \in Request, NEW kind \in Kinds, Arrive(r, kind) \/ Refuse(r, kind)
        PROVE  IInv'
    BY <2>1, ArrivalKeeps
  <2>2. ASSUME NEW r \in Request, Proceed(r) \/ Return(r)
        PROVE  IInv'
    BY <2>2, ProceedKeeps, ReturnKeeps
  <2>3. ASSUME NEW r \in Request, Cancel(r)
        PROVE  IInv'
    <3>1. /\ job[r].operation \in Operations \cup {None}
          /\ job[r].operation # None => job[r].kind \in {"transfer", "reversal"}
      BY DEF IInv, TypeOK, Job, JobOK
    <3> QED
      BY <2>3, <3>1, EndKeeps, QuietLabels DEF Cancel, Answers
  <2> QED
    BY <2>1, <2>2, <2>3, ProcessKeeps DEF Next
<1> QED
  BY <1>1, <1>2, PTL DEF Spec

\* Every classified transaction leaves one terminal outcome, whatever ends its
\* request (TransactionObservation::complete and drop).
THEOREM CountedOnce == Spec => []OneTerminalOutcome
<1>1. IInv => OneTerminalOutcome
  <2> SUFFICES ASSUME IInv, NEW op \in Operations
               PROVE  Outcome(op, "success") + Outcome(op, "rejected") + Outcome(op, "internal_error")
                        = Cardinality({r \in Request : job[r].operation = op /\ At(r, "done")})
    BY DEF OneTerminalOutcome
  <2> DEFINE S == Ended(op, "success")
             R == Ended(op, "rejected")
             E == Ended(op, "internal_error")
  <2>1. /\ Outcome(op, "success") = Cardinality(S) /\ Outcome(op, "rejected") = Cardinality(R)
        /\ Outcome(op, "internal_error") = Cardinality(E)
    BY DEF IInv, Tallied, Outcomes
  <2>2. {r \in Request : job[r].operation = op /\ At(r, "done")} = (S \cup R) \cup E
    BY DEF Ended, TerminalOutcome
  <2>3. S \cap R = {} /\ (S \cup R) \cap E = {}
    BY DEF Ended
  <2>4. /\ IsFiniteSet(S) /\ IsFiniteSet(R) /\ IsFiniteSet(E) /\ IsFiniteSet(S \cup R)
        /\ Cardinality(S) \in Nat /\ Cardinality(R) \in Nat /\ Cardinality(E) \in Nat
    BY SetsOfRequests DEF Ended
  <2> HIDE DEF S, R, E
  <2>5. Cardinality(S \cup R) = Cardinality(S) + Cardinality(R)
    <3>1. Cardinality(S \cup R) = Cardinality(S) + Cardinality(R) - Cardinality(S \cap R)
      BY <2>4, FS_Union
    <3>2. Cardinality(S \cap R) = 0
      BY <2>3, FS_EmptySet
    <3> QED
      BY <2>4, <3>1, <3>2
  <2>6. Cardinality((S \cup R) \cup E) = Cardinality(S \cup R) + Cardinality(E)
    <3>1. Cardinality((S \cup R) \cup E)
            = Cardinality(S \cup R) + Cardinality(E) - Cardinality((S \cup R) \cap E)
      BY <2>4, FS_Union
    <3>2. Cardinality((S \cup R) \cap E) = 0
      BY <2>3, FS_EmptySet
    <3> QED
      BY <2>4, <2>5, <3>1, <3>2
  <2> QED
    BY <2>1, <2>2, <2>5, <2>6
<1> QED
  BY <1>1, InductiveInvariant, PTL

\* Success is durable and a rejection has no effect, for the client and for the
\* counters (create_transfer and reverse_transfer: COMMIT before complete).
THEOREM CountersAreTrue == Spec => []CountersMatchEffects
<1>1. IInv => CountersMatchEffects
  <2> SUFFICES ASSUME IInv PROVE CountersMatchEffects
    OBVIOUS
  <2>1. \A r \in Request : JobOK(job[r])
    BY DEF IInv
  <2>2. \A r \in Request : /\ job[r].kind \in Writes /\ job[r].answer = "2xx" => job[r].durable
                           /\ job[r].answer = "4xx" => ~job[r].durable
    BY <2>1 DEF JobOK
  <2>3. ASSUME NEW op \in Operations, NEW outcome \in Outcomes, NEW S \in SUBSET Request,
               Ended(op, outcome) \subseteq S
        PROVE  Outcome(op, outcome) <= Cardinality(S)
    <3>1. Outcome(op, outcome) = Cardinality(Ended(op, outcome))
      BY DEF IInv, Tallied
    <3> QED
      BY <2>3, <3>1, SetsOfRequests, FS_Subset
  <2>4. ASSUME NEW op \in Operations
        PROVE  /\ \A r \in Ended(op, "success") : job[r].durable = TRUE
               /\ \A r \in Ended(op, "rejected") : job[r].durable = FALSE
    <3>1. \A r \in Request : job[r].operation = op => job[r].kind \in Writes
      BY <2>1, ServiceAssumption DEF ServiceAssumption, JobOK, Writes
    <3>2. \A r \in Ended(op, "success") : job[r].answer = "2xx"
      BY DEF Ended, TerminalOutcome
    <3>3. \A r \in Ended(op, "rejected") : job[r].answer = "4xx"
      BY DEF Ended, TerminalOutcome
    <3>4. \A r \in Request : job[r].durable \in BOOLEAN
      BY DEF IInv, TypeOK, Job
    <3> QED
      BY <2>2, <3>1, <3>2, <3>3, <3>4 DEF Ended
  <2>5. ASSUME NEW op \in Operations
        PROVE  /\ Outcome(op, "success") <= Cardinality(Effective(op))
               /\ Outcome(op, "rejected") <= Cardinality(Ineffective(op))
    <3>1. Ended(op, "success") \subseteq Effective(op) /\ Effective(op) \subseteq Request
      BY <2>4 DEF Ended, Effective
    <3>2. Ended(op, "rejected") \subseteq Ineffective(op) /\ Ineffective(op) \subseteq Request
      BY <2>4 DEF Ended, Ineffective
    <3> QED
      BY <2>3, <3>1, <3>2 DEF Outcomes
  <2> QED
    BY <2>2, <2>5 DEF CountersMatchEffects
<1> QED
  BY <1>1, InductiveInvariant, PTL
================================================================================
