------------------------------ MODULE Idempotency ------------------------------
(***************************************************************************)
(* The idempotency protocol, statement by statement: the lookup, the        *)
(* INSERT that reserves a key, the SELECT after a conflict, store_success   *)
(* and COMMIT, while expired records are purged from outside, handlers are  *)
(* dropped and answers are lost.  It implements OncePerKey.                 *)
(***************************************************************************)
EXTENDS Integers

CONSTANTS
  Request,        \* attempts, each made once; a retry is another one
  Key,            \* scopes: client, operation type and idempotency key
  KeyOf,          \* the key of a request
  FingerprintOf,  \* the fingerprint of a request
  LooksUp,        \* the keys of handlers that look before they reserve
  Retention,      \* IDEMPOTENCY_RETENTION
  MaxTime,        \* bound on PostgreSQL's clock
  None            \* no row, effect, answer or time

Time == 0 .. MaxTime
Effect == [at: Time, until: Nat]
Fingerprints == {FingerprintOf[r] : r \in Request}
Row == [fingerprint: Fingerprints, expires_at: Nat, response: Request \cup {None}]
Success(q) == [status |-> "success", of |-> q]
Other(status) == [status |-> status, of |-> None]
Answers == {Success(q) : q \in Request} \cup {Other("conflict"), Other("refused"), Other("unknown")}

ASSUME IdempotencyAssumption ==
  /\ KeyOf \in [Request -> Key]
  /\ LooksUp \subseteq Key
  /\ Retention \in Nat \ {0} /\ MaxTime \in Nat
  /\ None \notin Request \cup Time \cup Effect \cup Row \cup Answers

VARIABLES
  now,     \* PostgreSQL's clock
  record,  \* the committed idempotency_records
  effect,  \* the committed business writes: when, and retained until when
  job      \* the requests

vars == <<now, record, effect, job>>

\* The row of a handler is its uncommitted reservation.
InTransaction == {"lookup", "reserve", "read", "decide", "work", "commit"}
Job == [pc: InTransaction \cup {"idle", "acknowledge", "done"},
        began: Time \cup {None},
        row: Row \cup {None},
        found: Row \cup {None},
        answer: Answers \cup {None}]
NoJob == [pc |-> "idle", began |-> None, row |-> None, found |-> None, answer |-> None]

At(r, pc) == job[r].pc = pc
Rivals(r) == {q \in Request \ {r} : KeyOf[q] = KeyOf[r] /\ job[q].row # None}

(***************************************************************************)
(* A handler.                                                              *)
(***************************************************************************)
Begin(r) ==
  /\ At(r, "idle")
  /\ job' = [job EXCEPT ![r].began = now,
                        ![r].pc = IF KeyOf[r] \in LooksUp THEN "lookup" ELSE "reserve"]
  /\ UNCHANGED <<now, record, effect>>

\* What completed_success, or the SELECT of reserve, has found decides.
Found(r) == job' = [job EXCEPT ![r].found = record[KeyOf[r]], ![r].pc = "decide"]

Lookup(r) ==
  /\ At(r, "lookup")
  /\ IF record[KeyOf[r]] # None THEN Found(r) ELSE job' = [job EXCEPT ![r].pc = "reserve"]
  /\ UNCHANGED <<now, record, effect>>

\* Bug: the INSERT does not wait for a reservation that is not committed yet.
ReserveAtOnce(r) ==
  /\ At(r, "reserve")
  /\ job' = IF record[KeyOf[r]] # None THEN [job EXCEPT ![r].pc = "read"]
            ELSE [job EXCEPT ![r].pc = "work",
                    ![r].row = [fingerprint |-> FingerprintOf[r], response |-> None,
                                expires_at |-> job[r].began + Retention]]
  /\ UNCHANGED <<now, record, effect>>

\* INSERT ... ON CONFLICT DO NOTHING waits for a competitor's transaction. now() is
\* the time at which the transaction began.
Reserve(r) ==
  /\ At(r, "reserve") /\ Rivals(r) = {}
  /\ job' = IF record[KeyOf[r]] # None THEN [job EXCEPT ![r].pc = "read"]
            ELSE [job EXCEPT ![r].pc = "work",
                    ![r].row = [fingerprint |-> FingerprintOf[r], response |-> None,
                                expires_at |-> job[r].began + Retention]]
  /\ UNCHANGED <<now, record, effect>>

\* Bug: a failed handler leaves its transaction open.
RefuseWithoutRollback(r) ==
  /\ job[r].pc \in InTransaction \ {"commit"}
  /\ job' = [job EXCEPT ![r].pc = "done", ![r].answer = Other("refused")]
  /\ UNCHANGED <<now, record, effect>>

\* The handler ends before its COMMIT and its transaction is rolled back: rejected,
\* failed, panicked or dropped.
Refuse(r) ==
  /\ job[r].pc \in InTransaction \ {"commit"}
  /\ job' = [job EXCEPT ![r].pc = "done", ![r].row = None, ![r].answer = Other("refused")]
  /\ UNCHANGED <<now, record, effect>>

\* Bug: a conflict whose record is gone is taken for a reservation.
ReadTakesOver(r) ==
  /\ At(r, "read")
  /\ IF record[KeyOf[r]] # None THEN Found(r)
     ELSE job' = [job EXCEPT ![r].pc = "work",
                    ![r].row = [fingerprint |-> FingerprintOf[r], response |-> None,
                                expires_at |-> job[r].began + Retention]]
  /\ UNCHANGED <<now, record, effect>>

\* fetch_one, in a snapshot of its own: the record that was in the way may have been
\* purged since, and the request fails (internal_error).
Read(r) ==
  /\ At(r, "read")
  /\ IF record[KeyOf[r]] # None THEN Found(r) ELSE Refuse(r)
  /\ UNCHANGED <<now, record, effect>>

\* Bug: the stored fingerprint is not compared.
DecideReplay(r) ==
  /\ At(r, "decide")
  /\ job' = [job EXCEPT ![r].pc = "done", ![r].answer = Success(job[r].found.response)]
  /\ UNCHANGED <<now, record, effect>>

\* The same fingerprint is a replay, whose transaction commits nothing.
Decide(r) ==
  /\ At(r, "decide")
  /\ job' = [job EXCEPT ![r].pc = "done",
       ![r].answer = IF job[r].found.fingerprint = FingerprintOf[r]
                     THEN Success(job[r].found.response) ELSE Other("conflict")]
  /\ UNCHANGED <<now, record, effect>>

\* The business writes, and store_success.
Work(r) ==
  /\ At(r, "work")
  /\ job' = [job EXCEPT ![r].row.response = r, ![r].pc = "commit"]
  /\ UNCHANGED <<now, record, effect>>

\* COMMIT has been sent: nobody waits for its result, or it never comes.
Abandon(r) ==
  /\ job[r].pc \in {"commit", "acknowledge"} /\ job[r].answer = None
  /\ job' = [job EXCEPT ![r].answer = Other("unknown"),
                        ![r].pc = IF @ = "acknowledge" THEN "done" ELSE @]
  /\ UNCHANGED <<now, record, effect>>

\* PostgreSQL commits, or rolls back, though the handler may be gone.
Commit(r) ==
  /\ At(r, "commit")
  /\ record' = [record EXCEPT ![KeyOf[r]] = job[r].row]
  /\ effect' = [effect EXCEPT ![r] = [at |-> now, until |-> job[r].row.expires_at]]
  /\ job' = [job EXCEPT ![r].row = None,
                        ![r].pc = IF job[r].answer = None THEN "acknowledge" ELSE "done"]
  /\ UNCHANGED now

RollBack(r) ==
  /\ At(r, "commit") /\ job[r].answer # None
  /\ job' = [job EXCEPT ![r].row = None, ![r].pc = "done"]
  /\ UNCHANGED <<now, record, effect>>

Acknowledge(r) ==
  /\ At(r, "acknowledge")
  /\ job' = [job EXCEPT ![r].pc = "done", ![r].answer = Success(r)]
  /\ UNCHANGED <<now, record, effect>>

(***************************************************************************)
(* Outside the service.                                                    *)
(***************************************************************************)
\* Expired records may be deleted at any time.
Purge(k) ==
  /\ record[k] # None /\ record[k].expires_at <= now
  /\ record' = [record EXCEPT ![k] = None]
  /\ UNCHANGED <<now, effect, job>>

Tick ==
  /\ now < MaxTime
  /\ now' = now + 1
  /\ UNCHANGED <<record, effect, job>>

(***************************************************************************)
(* The specification.                                                      *)
(***************************************************************************)
Init ==
  /\ now = 0
  /\ record = [k \in Key |-> None]
  /\ effect = [r \in Request |-> None]
  /\ job = [r \in Request |-> NoJob]

Proceed(r) ==
  \/ Lookup(r) \/ Reserve(r) \/ Read(r) \/ Decide(r) \/ Work(r) \/ Commit(r)
  \/ Acknowledge(r)

Next ==
  \/ \E r \in Request : Begin(r) \/ Proceed(r) \/ Refuse(r) \/ Abandon(r) \/ RollBack(r)
  \/ \E k \in Key : Purge(k)
  \/ Tick

Spec == Init /\ [][Next]_vars

\* Statements end. Clients, failures, the purge and the clock are free.
LiveSpec == Spec /\ \A r \in Request : WF_vars(Proceed(r))

(***************************************************************************)
(* Properties.                                                             *)
(***************************************************************************)
Promise == INSTANCE OncePerKey WITH
  began  <- [r \in Request |-> job[r].began],
  kept   <- [k \in Key |-> IF record[k] = None THEN None ELSE record[k].response],
  view   <- [r \in Request |-> IF job[r].found = None THEN None ELSE job[r].found.response],
  answer <- [r \in Request |-> job[r].answer]

\* The statements of all handlers together keep the promise of the documentation.
KeepsPromise == Promise!Spec

\* Two effects of one key lie apart: the later one is committed after the record of
\* the earlier one has expired.
OneEffectWhileRetained == Promise!OneEffectWhileRetained

\* A replay repeats a committed success of the same request, a conflict has a
\* committed success of another request under its key, and a request that fails
\* leaves nothing, even if its COMMIT was on its way.
AnswersAreTrue == Promise!AnswersAreTrue

\* Every request ends: whoever holds a reservation lets go of it.
EveryRequestEnds == \A r \in Request : job[r].pc \in InTransaction ~> At(r, "done")

TypeOK ==
  /\ now \in Time
  /\ record \in [Key -> Row \cup {None}]
  /\ effect \in [Request -> Effect \cup {None}]
  /\ job \in [Request -> Job]

\* A row that others can see is complete, and is the success of its key.
Complete(row, k) ==
  row # None =>
    /\ row.response # None /\ KeyOf[row.response] = k
    /\ row.fingerprint = FingerprintOf[row.response]
    /\ effect[row.response] # None
    /\ row.expires_at = effect[row.response].until

\* A handler holds a reservation from its INSERT to the end of its transaction, alone
\* and only while its key is free.
HandlerConsistent(r) ==
  /\ job[r].began = None <=> At(r, "idle")
  /\ job[r].row # None <=> job[r].pc \in {"work", "commit"}
  /\ job[r].row # None =>
       /\ job[r].row = [fingerprint |-> FingerprintOf[r], expires_at |-> job[r].began + Retention,
                        response |-> IF At(r, "commit") THEN r ELSE None]
       /\ record[KeyOf[r]] = None /\ Rivals(r) = {}
  /\ At(r, "decide") => job[r].found # None
  /\ job[r].found # None => job[r].pc \in {"decide", "done"} /\ effect[r] = None
  /\ Complete(job[r].found, KeyOf[r])
  /\ At(r, "acknowledge") => effect[r] # None
  /\ effect[r] # None => job[r].pc \in {"acknowledge", "done"}
  /\ job[r].answer # None => job[r].pc \in {"commit", "done"}
  /\ At(r, "commit") => job[r].answer \in {None, Other("unknown")}

\* Inductive: committed records are complete, none is lost before it expires, and
\* handlers hold what their next statement relies on.
IInv ==
  /\ TypeOK
  /\ \A k \in Key : Complete(record[k], k)
  /\ \A r \in Request : HandlerConsistent(r)
================================================================================
