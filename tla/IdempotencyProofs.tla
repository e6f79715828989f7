--------------------------- MODULE IdempotencyProofs ---------------------------
(***************************************************************************)
(* Proofs about Idempotency: the invariant, and that every statement is a   *)
(* step of OncePerKey or none, so that what is proved of OncePerKey holds.  *)
(***************************************************************************)
EXTENDS Idempotency, TLAPS

Theory == INSTANCE OncePerKeyProofs WITH
  began  <- [r \in Request |-> job[r].began],
  kept   <- [k \in Key |-> IF record[k] = None THEN None ELSE record[k].response],
  view   <- [r \in Request |-> IF job[r].found = None THEN None ELSE job[r].found.response],
  answer <- [r \in Request |-> job[r].answer]

\* No reservation, no record.
LEMMA IInvInitially == Init => IInv
BY IdempotencyAssumption
DEF Init, IInv, TypeOK, NoJob, Job, Time, Complete, HandlerConsistent, At, Rivals

\* A handler that moves alone, without touching what others rely on, keeps the
\* invariant if it stays consistent itself: reservations of its key stay exclusive.
LEMMA OneHandlerMoves ==
  ASSUME IInv, NEW r \in Request,
         job' \in [Request -> Job], \A q \in Request \ {r} : job'[q] = job[q],
         UNCHANGED <<now, record, effect>>,
         job[r].row = None => job'[r].row = None \/ Rivals(r) = {},
         HandlerConsistent(r)'
  PROVE  IInv'
<1> USE IdempotencyAssumption
<1>1. TypeOK'
  BY DEF IInv, TypeOK
<1>2. (\A k \in Key : Complete(record[k], k))'
  BY DEF IInv, Complete
<1>3. ASSUME NEW q \in Request, q # r
      PROVE  HandlerConsistent(q)'
  <2>1. HandlerConsistent(q) /\ HandlerConsistent(r) /\ job'[q] = job[q]
    BY <1>3 DEF IInv, TypeOK
  <2>2. job[q].row # None => Rivals(q)' = {}
    BY <1>3, <2>1 DEF HandlerConsistent, Rivals, TypeOK, IInv
  <2> QED
    BY <1>3, <2>1, <2>2 DEF HandlerConsistent, At, Complete
<1> QED
  BY <1>1, <1>2, <1>3 DEF IInv

\* Nobody but the handler of a key's reservation commits a record of the key.
LEMMA CommitKeepsIInv ==
  ASSUME IInv, NEW r \in Request, Commit(r)
  PROVE  IInv'
<1> USE IdempotencyAssumption
<1> DEFINE j == [job[r] EXCEPT !.row = None,
                               !.pc = IF job[r].answer = None THEN "acknowledge" ELSE "done"]
           e == [at |-> now, until |-> job[r].row.expires_at]
<1>1. /\ job[r] \in Job /\ HandlerConsistent(r) /\ KeyOf[r] \in Key
      /\ job[r].row \in Row /\ job[r].row # None /\ effect[r] = None
  BY DEF IInv, TypeOK, Commit, HandlerConsistent, At, Job
<1>2. job[r].row = [fingerprint |-> FingerprintOf[r], response |-> r,
                    expires_at |-> job[r].began + Retention]
  BY <1>1 DEF Commit, HandlerConsistent, At
<1>3. e \in Effect /\ e # None /\ j \in Job
  <2>1. e \in Effect
    BY <1>1 DEF Effect, Row, IInv, TypeOK
  <2>2. j \in Job
    BY <1>1 DEF Job
  <2> QED
    BY <2>1, <2>2
<1>4. /\ job' = [job EXCEPT ![r] = j] /\ effect' = [effect EXCEPT ![r] = e]
      /\ record' = [record EXCEPT ![KeyOf[r]] = job[r].row] /\ now' = now
  BY <1>1 DEF Commit, IInv, TypeOK, Job
<1> HIDE DEF j, e
<1>5. TypeOK'
  BY <1>1, <1>3, <1>4 DEF IInv, TypeOK
<1>6. \A row, k : Complete(row, k) => Complete(row, k)'
  BY <1>1, <1>3, <1>4 DEF IInv, TypeOK, Complete
<1>7. PICK row \in Row : row = job[r].row /\ Complete(row, KeyOf[r])'
  <2>1. effect'[r] = e /\ e.until = job[r].row.expires_at
    BY <1>4 DEF IInv, TypeOK, e
  <2>2. PICK row \in Row : row = job[r].row
    BY <1>1
  <2>3. Complete(row, KeyOf[r])'
    BY <1>1, <1>2, <1>3, <2>1, <2>2 DEF Complete
  <2> QED
    BY <2>2, <2>3
<1>8. (\A k \in Key : Complete(record[k], k))'
  <2> SUFFICES ASSUME NEW k \in Key
               PROVE  Complete(record[k], k)'
    OBVIOUS
  <2>1. CASE k = KeyOf[r]
    BY <1>1, <1>4, <1>7, <2>1 DEF IInv, TypeOK, Complete
  <2>2. CASE k # KeyOf[r]
    BY <1>4, <1>6, <2>2 DEF IInv, TypeOK, Complete
  <2> QED
    BY <2>1, <2>2
<1>9. ASSUME NEW q \in Request
      PROVE  HandlerConsistent(q)'
  <2>1. CASE q = r
    BY <1>1, <1>2, <1>3, <1>4, <2>1
    DEF IInv, TypeOK, HandlerConsistent, At, Commit, Complete, j
  <2>2. CASE q # r
    <3>1. HandlerConsistent(q) /\ job'[q] = job[q] /\ job'[r] = j /\ effect'[q] = effect[q]
      BY <1>4, <2>2 DEF IInv, TypeOK
    <3>2. job[q].row # None => KeyOf[q] # KeyOf[r]
      BY <1>1, <2>2 DEF HandlerConsistent, Rivals
    <3>3. job[q].row # None => record'[KeyOf[q]] = record[KeyOf[q]]
      BY <1>4, <3>2 DEF IInv, TypeOK
    <3>4. job[q].row # None => Rivals(q)' = {}
      BY <1>4, <3>1 DEF HandlerConsistent, Rivals, IInv, TypeOK, j
    <3>5. Complete(job[q].found, KeyOf[q])'
      BY <1>1, <1>3, <1>4, <3>1 DEF HandlerConsistent, Complete, IInv, TypeOK
    <3> QED
      BY <3>1, <3>3, <3>4, <3>5 DEF HandlerConsistent, At
  <2> QED
    BY <2>1, <2>2
<1> QED
  BY <1>5, <1>8, <1>9 DEF IInv

\* A purged record has been seen by those who found it, and guards nobody's INSERT.
LEMMA PurgeKeepsIInv ==
  ASSUME IInv, NEW k \in Key, Purge(k)
  PROVE  IInv'
<1> USE IdempotencyAssumption
<1>1. TypeOK'
  BY DEF IInv, TypeOK, Purge
<1>2. (\A l \in Key : Complete(record[l], l))'
  BY DEF IInv, TypeOK, Purge, Complete
<1>3. ASSUME NEW r \in Request
      PROVE  HandlerConsistent(r)'
  BY DEF IInv, TypeOK, Purge, Complete, HandlerConsistent, At, Rivals
<1> QED
  BY <1>1, <1>2, <1>3 DEF IInv

LEMMA TickKeepsIInv ==
  ASSUME IInv, Tick
  PROVE  IInv'
<1>1. TypeOK'
  BY IdempotencyAssumption DEF IInv, TypeOK, Tick, Time
<1>2. \A k \in Key : Complete(record[k], k)'
  BY DEF IInv, Tick, Complete
<1>3. ASSUME NEW r \in Request
      PROVE  HandlerConsistent(r)'
  BY DEF IInv, Tick, Complete, HandlerConsistent, At, Rivals
<1> QED
  BY <1>1, <1>2, <1>3 DEF IInv

LEMMA StutterKeepsIInv == IInv /\ UNCHANGED vars => IInv'
BY DEF IInv, TypeOK, vars, Complete, HandlerConsistent, At, Rivals

\* Each statement of a handler, from the first to the last.
LEMMA HandlerKeepsIInv ==
  ASSUME IInv, NEW r \in Request,
         Begin(r) \/ Lookup(r) \/ Reserve(r) \/ Refuse(r) \/ Read(r) \/ Decide(r)
           \/ Work(r) \/ Abandon(r) \/ RollBack(r) \/ Acknowledge(r)
  PROVE  IInv'
<1> USE IdempotencyAssumption
<1> DEFINE k == KeyOf[r]
<1>1. /\ job[r] \in Job /\ HandlerConsistent(r) /\ k \in Key /\ Complete(record[k], k)
      /\ record[k] \in Row \cup {None} /\ now \in Time
  BY DEF IInv, TypeOK
<1>2. ASSUME job' \in [Request -> Job], \A q \in Request \ {r} : job'[q] = job[q],
             UNCHANGED <<now, record, effect>>,
             job[r].row = None => job'[r].row = None \/ Rivals(r) = {},
             HandlerConsistent(r)'
      PROVE  IInv'
  BY <1>2, OneHandlerMoves
<1>3. CASE Begin(r)
  <2>1. /\ job' \in [Request -> Job] /\ \A q \in Request \ {r} : job'[q] = job[q]
        /\ UNCHANGED <<now, record, effect>> /\ job'[r].row = job[r].row
    BY <1>1, <1>3 DEF Begin, Job, IInv, TypeOK, InTransaction
  <2>2. HandlerConsistent(r)'
    BY <1>1, <1>3, <2>1 DEF Begin, HandlerConsistent, At, Complete, IInv, TypeOK
  <2> QED
    BY <1>1, <1>2, <1>3, <2>1, <2>2 DEF Begin, HandlerConsistent, At
<1>4. CASE Lookup(r)
  <2>1. /\ job' \in [Request -> Job] /\ \A q \in Request \ {r} : job'[q] = job[q]
        /\ UNCHANGED <<now, record, effect>>
        /\ job[r].row = None => job'[r].row = None \/ Rivals(r) = {}
    BY <1>1, <1>4, SMTT(30) DEF Lookup, At, Job, IInv, TypeOK, InTransaction, HandlerConsistent, Found
  <2>2. /\ job'[r].began = job[r].began /\ job'[r].row = job[r].row
        /\ job'[r].answer = job[r].answer /\ effect[r] = None
        /\ \/ job'[r].pc = "decide" /\ job'[r].found = record[k] /\ record[k] # None
           \/ job'[r].pc = "reserve" /\ job'[r].found = job[r].found
    BY <1>1, <1>4 DEF Lookup, Found, At, IInv, TypeOK, Job, HandlerConsistent
  <2>3. HandlerConsistent(r)'
    BY <1>1, <1>4, <2>1, <2>2 DEF Lookup, HandlerConsistent, At, Complete
  <2> QED
    BY <1>2, <2>1, <2>3
<1>5. CASE Reserve(r)
  <2> DEFINE row == [fingerprint |-> FingerprintOf[r], response |-> None,
                     expires_at |-> job[r].began + Retention]
  <2>1. job[r].began \in Time /\ row \in Row /\ row # None
    BY <1>1, <1>5 DEF Reserve, HandlerConsistent, At, Job, Row, Fingerprints, Time
  <2>2. /\ job' \in [Request -> Job] /\ \A q \in Request \ {r} : job'[q] = job[q]
        /\ UNCHANGED <<now, record, effect>> /\ Rivals(r) = {} /\ effect[r] = None
        /\ job'[r].began = job[r].began /\ job'[r].found = job[r].found
        /\ job'[r].answer = job[r].answer
        /\ \/ job'[r].pc = "read" /\ job'[r].row = job[r].row
           \/ job'[r].pc = "work" /\ job'[r].row = row /\ record[k] = None
    BY <1>1, <1>5, <2>1 DEF Reserve, At, Job, IInv, TypeOK, InTransaction, HandlerConsistent
  <2>3. Rivals(r)' = {}
    BY <2>2 DEF Rivals
  <2>4. HandlerConsistent(r)'
    <3>1. /\ job[r].row = None /\ job[r].answer = None /\ job[r].found = None
          /\ job[r].began # None
      BY <1>1, <1>5 DEF Reserve, HandlerConsistent, At
    <3>2. CASE job'[r].pc = "read" /\ job'[r].row = job[r].row
      BY <2>2, <2>3, <3>1, <3>2 DEF HandlerConsistent, At, Complete
    <3>3. CASE job'[r].pc = "work" /\ job'[r].row = row /\ record[k] = None
      BY <2>1, <2>2, <2>3, <3>1, <3>3 DEF HandlerConsistent, At, Complete
    <3> QED
      BY <2>2, <3>2, <3>3
  <2> QED
    BY <1>2, <2>2, <2>4
<1>6. CASE Refuse(r)
  <2>1. /\ job' \in [Request -> Job] /\ \A q \in Request \ {r} : job'[q] = job[q]
        /\ UNCHANGED <<now, record, effect>>
        /\ job[r].row = None => job'[r].row = None \/ Rivals(r) = {}
    BY <1>1, <1>6 DEF Refuse, At, Job, IInv, TypeOK, InTransaction, HandlerConsistent, Answers, Other
  <2>2. HandlerConsistent(r)'
    BY <1>1, <1>6, <2>1 DEF Refuse, HandlerConsistent, At, Complete, IInv, TypeOK, InTransaction, Other
  <2> QED
    BY <1>2, <2>1, <2>2
<1>7. CASE Read(r)
  <2>1. ~Refuse(r) => job' = [job EXCEPT ![r] = [job[r] EXCEPT !.found = record[k], !.pc = "decide"]]
    BY <1>1, <1>7 DEF Read, Found, IInv, TypeOK, Job
  <2>2. [job[r] EXCEPT !.found = record[k], !.pc = "decide"] \in Job
    BY <1>1 DEF Job, InTransaction
  <2>3. /\ effect[r] = None /\ job[r].row = None /\ job[r].answer = None /\ job[r].began # None
        /\ UNCHANGED <<now, record, effect>> /\ (record[k] # None \/ Refuse(r))
    BY <1>1, <1>7 DEF Read, HandlerConsistent, At, Refuse
  <2>4. CASE ~Refuse(r)
    <3>1. /\ job' \in [Request -> Job] /\ \A q \in Request \ {r} : job'[q] = job[q]
          /\ job'[r].row = None /\ job'[r].answer = None /\ job'[r].began = job[r].began
          /\ job'[r].found = record[k] /\ job'[r].pc = "decide"
      <4>1. PICK j \in Job : j = [job[r] EXCEPT !.found = record[k], !.pc = "decide"]
        BY <2>2
      <4>2. /\ j.pc = "decide" /\ j.row = job[r].row /\ j.began = job[r].began
            /\ j.found = record[k] /\ j.answer = job[r].answer
        BY <1>1, <4>1 DEF Job
      <4>3. job' = [job EXCEPT ![r] = j] /\ job \in [Request -> Job]
        BY <2>1, <2>4, <4>1 DEF IInv, TypeOK
      <4> QED
        BY <2>3, <4>2, <4>3
    <3>2. HandlerConsistent(r)'
      BY <1>1, <2>3, <2>4, <3>1 DEF HandlerConsistent, At, Complete
    <3> QED
      BY <1>2, <2>3, <3>1, <3>2
  <2> QED
    BY <1>6, <2>4
<1>8. CASE Decide(r)
  <2>1. /\ job[r].found \in Row /\ job[r].found.response \in Request
        /\ effect[r] = None /\ job[r].row = None
    BY <1>1, <1>8 DEF Decide, HandlerConsistent, At, Complete, Job, Row
  <2>2. PICK a \in Answers :
          job' = [job EXCEPT ![r] = [job[r] EXCEPT !.pc = "done", !.answer = a]]
    <3>1. Success(job[r].found.response) \in Answers /\ Other("conflict") \in Answers
      BY <2>1 DEF Answers
    <3> QED
      BY <1>1, <1>8, <3>1 DEF Decide, IInv, TypeOK, Job
  <2>3. /\ job' \in [Request -> Job] /\ \A q \in Request \ {r} : job'[q] = job[q]
        /\ UNCHANGED <<now, record, effect>> /\ job'[r].row = None
        /\ job'[r].began = job[r].began /\ job'[r].found = job[r].found
        /\ job'[r].pc = "done"
    <3>1. PICK j \in Job : j = [job[r] EXCEPT !.pc = "done", !.answer = a]
      BY <1>1 DEF Job
    <3>2. /\ j.pc = "done" /\ j.row = job[r].row /\ j.began = job[r].began
          /\ j.found = job[r].found
      BY <1>1, <3>1 DEF Job
    <3>3. /\ job' = [job EXCEPT ![r] = j] /\ job \in [Request -> Job]
          /\ UNCHANGED <<now, record, effect>>
      BY <1>8, <2>2, <3>1 DEF Decide, IInv, TypeOK
    <3> QED
      BY <2>1, <3>2, <3>3
  <2>4. HandlerConsistent(r)'
    BY <1>1, <1>8, <2>1, <2>3 DEF Decide, HandlerConsistent, At, Complete
  <2> QED
    BY <1>2, <2>3, <2>4
<1>9. CASE Work(r)
  <2> DEFINE row == [fingerprint |-> FingerprintOf[r], response |-> r,
                     expires_at |-> job[r].began + Retention]
  <2>1. /\ row \in Row /\ row # None /\ row = [job[r].row EXCEPT !.response = r]
        /\ record[k] = None /\ Rivals(r) = {}
    BY <1>1, <1>9 DEF Work, HandlerConsistent, At, Job, Row, Fingerprints, Time
  <2>2. /\ job' \in [Request -> Job] /\ \A q \in Request \ {r} : job'[q] = job[q]
        /\ UNCHANGED <<now, record, effect>> /\ effect[r] = None
        /\ job'[r].began = job[r].began /\ job'[r].found = job[r].found
        /\ job'[r].answer = job[r].answer /\ job'[r].pc = "commit" /\ job'[r].row = row
    BY <1>1, <1>9, <2>1 DEF Work, At, Job, IInv, TypeOK, InTransaction, HandlerConsistent
  <2>3. Rivals(r)' = {}
    BY <2>1, <2>2 DEF Rivals
  <2>4. HandlerConsistent(r)'
    BY <1>1, <1>9, <2>1, <2>2, <2>3 DEF Work, HandlerConsistent, At, Complete
  <2> QED
    BY <1>2, <2>1, <2>2, <2>4
<1>10. CASE Abandon(r)
  <2>1. /\ job' \in [Request -> Job] /\ \A q \in Request \ {r} : job'[q] = job[q]
        /\ UNCHANGED <<now, record, effect>> /\ job'[r].answer = Other("unknown")
        /\ job'[r].began = job[r].began /\ job'[r].found = job[r].found
        /\ job'[r].row = job[r].row
        /\ job'[r].pc = IF At(r, "acknowledge") THEN "done" ELSE "commit"
    <3>1. Other("unknown") \in Answers
      BY DEF Answers
    <3>2. [job[r] EXCEPT !.answer = Other("unknown"),
                         !.pc = IF @ = "acknowledge" THEN "done" ELSE @] \in Job
      BY <1>1, <3>1 DEF Job
    <3> QED
      BY <1>1, <1>10, <3>2 DEF Abandon, At, Job, IInv, TypeOK
  <2>2. Rivals(r)' = Rivals(r)
    BY <2>1 DEF Rivals
  <2>3. HandlerConsistent(r)'
    BY <1>1, <1>10, <2>1, <2>2 DEF Abandon, HandlerConsistent, At, Complete
  <2> QED
    BY <1>2, <2>1, <2>3
<1>11. CASE RollBack(r)
  <2>1. /\ job' \in [Request -> Job] /\ \A q \in Request \ {r} : job'[q] = job[q]
        /\ UNCHANGED <<now, record, effect>>
        /\ job[r].row = None => job'[r].row = None \/ Rivals(r) = {}
    BY <1>1, <1>11 DEF RollBack, At, Job, IInv, TypeOK, InTransaction, HandlerConsistent
  <2>2. HandlerConsistent(r)'
    BY <1>1, <1>11, <2>1 DEF RollBack, HandlerConsistent, At, Complete, IInv, TypeOK, InTransaction, Rivals
  <2> QED
    BY <1>2, <2>1, <2>2
<1>12. CASE Acknowledge(r)
  <2>1. /\ job' \in [Request -> Job] /\ \A q \in Request \ {r} : job'[q] = job[q]
        /\ UNCHANGED <<now, record, effect>>
        /\ job[r].row = None => job'[r].row = None \/ Rivals(r) = {}
    <3>1. Success(r) \in Answers
      BY DEF Answers
    <3> QED
      BY <1>1, <1>12, <3>1
      DEF Acknowledge, At, Job, IInv, TypeOK, InTransaction, HandlerConsistent
  <2>2. HandlerConsistent(r)'
    BY <1>1, <1>12, <2>1 DEF Acknowledge, HandlerConsistent, At, Complete, IInv, TypeOK, InTransaction, Success
  <2> QED
    BY <1>2, <2>1, <2>2
<1> QED
  BY <1>3, <1>4, <1>5, <1>6, <1>7, <1>8, <1>9, <1>10, <1>11, <1>12

LEMMA IInvIsInductive == IInv /\ [Next]_vars => IInv'
BY HandlerKeepsIInv, CommitKeepsIInv, PurgeKeepsIInv, TickKeepsIInv, StutterKeepsIInv
DEF Next, Proceed

\* A key's reservation is exclusive, and what is committed is complete and stays until
\* it expires.
THEOREM InductiveInvariant == Spec => []IInv
BY IInvInitially, IInvIsInductive, PTL DEF Spec

(***************************************************************************)
(* Refinement.                                                             *)
(***************************************************************************)
LEMMA InitRefines == Init => Promise!Init
BY DEF Init, Promise!Init, NoJob

\* What a statement leaves alone, the promise does not see.
LEMMA InvisibleSteps ==
  ASSUME IInv, UNCHANGED <<now, record, effect>>, job' \in [Request -> Job],
         \A r \in Request : /\ job'[r].began = job[r].began /\ job'[r].found = job[r].found
                            /\ job'[r].answer = job[r].answer
  PROVE  UNCHANGED Promise!vars
BY DEF Promise!vars

\* A handler's last step answers for its own effect, for what it has found, or not
\* at all.
LEMMA AnsweringSteps ==
  ASSUME IInv, UNCHANGED <<now, record, effect>>, NEW r \in Request, NEW a,
         ~At(r, "idle"), job[r].answer = None, job' \in [Request -> Job],
         \A q \in Request :
           /\ job'[q].began = job[q].began /\ job'[q].found = job[q].found
           /\ job'[q].answer = IF q = r THEN a ELSE job[q].answer,
         \/ a = Success(r) /\ effect[r] # None
         \/ a = Other("refused") /\ effect[r] = None
         \/ a = Other("unknown")
         \/ /\ job[r].found # None /\ job[r].found.fingerprint = FingerprintOf[r]
            /\ a = Success(job[r].found.response)
         \/ /\ job[r].found # None /\ job[r].found.fingerprint # FingerprintOf[r]
            /\ a = Other("conflict")
  PROVE  Promise!Answer(r)
<1> USE IdempotencyAssumption
<1> DEFINE answerOf == [q \in Request |-> job[q].answer]
<1>1. answerOf' = [answerOf EXCEPT ![r] = a]
  OBVIOUS
<1>2. job[r].found # None =>
        /\ job[r].found.response # None /\ KeyOf[job[r].found.response] = KeyOf[r]
        /\ job[r].found.fingerprint = FingerprintOf[job[r].found.response]
  BY DEF IInv, HandlerConsistent, Complete
<1>3. job[r].began # None
  BY DEF IInv, HandlerConsistent
<1>4. a \in (IF effect[r] # None THEN {Promise!Success(r)} ELSE {Promise!Other("refused")})
         \cup (IF job[r].found = None THEN {}
               ELSE IF Promise!Same(job[r].found.response, r)
                    THEN {Promise!Success(job[r].found.response)}
                    ELSE {Promise!Other("conflict")})
         \cup {Promise!Other("unknown")}
  BY <1>2 DEF Promise!Success, Promise!Other, Promise!Same, Success, Other
<1> QED
  BY <1>1, <1>2, <1>3, <1>4, ZenonT(40) DEF Promise!Answer

\* The statement that finds a record finds the success that the key keeps; the
\* COMMIT performs; the last step of a handler answers; the others are invisible.
LEMMA StepRefines ==
  ASSUME IInv, IInv', [Next]_vars
  PROVE  [Promise!Next]_(Promise!vars)
<1> USE IdempotencyAssumption
<1> DEFINE beganOf == [r \in Request |-> job[r].began]
           keptOf == [k \in Key |-> IF record[k] = None THEN None ELSE record[k].response]
           viewOf == [r \in Request |-> IF job[r].found = None THEN None ELSE job[r].found.response]
           answerOf == [r \in Request |-> job[r].answer]
<1>1. ASSUME NEW r \in Request, Begin(r)
      PROVE  Promise!Begin(r)
  BY <1>1 DEF Begin, Promise!Begin, IInv, TypeOK, HandlerConsistent, At, Job
<1>2. ASSUME NEW r \in Request, At(r, "lookup") \/ At(r, "read"), record[KeyOf[r]] # None,
             Found(r), UNCHANGED <<now, record, effect>>
      PROVE  Promise!Find(r)
  <2>1. /\ job[r] \in Job /\ HandlerConsistent(r) /\ KeyOf[r] \in Key
        /\ Complete(record[KeyOf[r]], KeyOf[r]) /\ record \in [Key -> Row \cup {None}]
    BY DEF IInv, TypeOK
  <2>2. /\ job[r].began # None /\ effect[r] = None /\ job[r].answer = None
        /\ record[KeyOf[r]].response # None
    BY <1>2, <2>1 DEF HandlerConsistent, At, Complete, Job
  <2>3. \A q \in Request :
          /\ job'[q].began = job[q].began /\ job'[q].answer = job[q].answer
          /\ job'[q].found = IF q = r THEN record[KeyOf[r]] ELSE job[q].found
    BY <1>2 DEF Found, IInv, TypeOK, Job
  <2>4. beganOf' = beganOf /\ answerOf' = answerOf /\ keptOf' = keptOf
    BY <1>2, <2>3
  <2>5. viewOf' = [viewOf EXCEPT ![r] = keptOf[KeyOf[r]]]
    BY <1>2, <2>1, <2>3
  <2>6. beganOf[r] # None /\ answerOf[r] = None /\ keptOf[KeyOf[r]] # None
    BY <1>2, <2>1, <2>2
  <2> QED
    BY <1>2, <2>2, <2>4, <2>5, <2>6 DEF Promise!Find
<1>3. ASSUME NEW r \in Request, Commit(r)
      PROVE  Promise!Perform(r)
  BY <1>3 DEF Commit, Promise!Perform, Promise!Other, IInv, TypeOK, HandlerConsistent, At, Job, Row, Other
<1>4. ASSUME NEW k \in Key, Purge(k)
      PROVE  Promise!Forget(k)
  BY <1>4, ZenonT(40) DEF Purge, Promise!Forget, IInv, TypeOK, Complete, Row
<1>5. ASSUME Tick
      PROVE  Promise!Tick
  BY <1>5 DEF Tick, Promise!Tick
<1>6. ASSUME NEW r \in Request, Decide(r) \/ Refuse(r) \/ Abandon(r) \/ Acknowledge(r)
      PROVE  Promise!Answer(r)
  <2>1. /\ HandlerConsistent(r) /\ ~At(r, "idle") /\ job' \in [Request -> Job]
        /\ UNCHANGED <<now, record, effect>> /\ job[r].answer = None
    BY <1>6 DEF Decide, Refuse, Abandon, Acknowledge, IInv, TypeOK, HandlerConsistent, At,
                InTransaction, Other
  <2>2. \A q \in Request :
          /\ job'[q].began = job[q].began /\ job'[q].found = job[q].found
          /\ job'[q].answer = IF q = r THEN job'[r].answer ELSE job[q].answer
    BY <1>6 DEF Decide, Refuse, Abandon, Acknowledge, IInv, TypeOK, Job
  <2>3. \/ job'[r].answer = Success(r) /\ effect[r] # None
        \/ job'[r].answer = Other("refused") /\ effect[r] = None
        \/ job'[r].answer = Other("unknown")
        \/ /\ job[r].found # None /\ job[r].found.fingerprint = FingerprintOf[r]
           /\ job'[r].answer = Success(job[r].found.response)
        \/ /\ job[r].found # None /\ job[r].found.fingerprint # FingerprintOf[r]
           /\ job'[r].answer = Other("conflict")
    BY <1>6, <2>1 DEF Decide, Refuse, Abandon, Acknowledge, IInv, TypeOK, Job,
                      HandlerConsistent, At, InTransaction
  <2>4. PICK a : a = job'[r].answer
    OBVIOUS
  <2> QED
    BY <2>1, <2>2, <2>3, <2>4, AnsweringSteps
<1>7. ASSUME NEW r \in Request,
             (Lookup(r) /\ record[KeyOf[r]] = None) \/ Reserve(r) \/ Work(r) \/ RollBack(r)
      PROVE  UNCHANGED Promise!vars
  <2>1. job' \in [Request -> Job] /\ UNCHANGED <<now, record, effect>>
    BY <1>7 DEF Lookup, Reserve, Work, RollBack, IInv, TypeOK
  <2>2. \A q \in Request : /\ job'[q].began = job[q].began /\ job'[q].found = job[q].found
                            /\ job'[q].answer = job[q].answer
    BY <1>7 DEF Lookup, Reserve, Work, RollBack, IInv, TypeOK, Job
  <2> QED
    BY <2>1, <2>2, InvisibleSteps
<1>8. ASSUME NEW r \in Request, Lookup(r) \/ Read(r)
      PROVE  Promise!Next \/ UNCHANGED Promise!vars
  BY <1>2, <1>6, <1>7, <1>8 DEF Lookup, Read, At, Promise!Next
<1>9. CASE UNCHANGED vars
  BY <1>9 DEF vars, Promise!vars
<1> QED
  BY <1>1, <1>3, <1>4, <1>5, <1>6, <1>7, <1>8, <1>9 DEF Next, Proceed, Promise!Next

\* Every interleaving of the statements, with failures and purges, keeps the promise.
THEOREM ImplementsOncePerKey == Spec => KeepsPromise
BY InitRefines, StepRefines, InductiveInvariant, PTL DEF Spec, KeepsPromise, Promise!Spec

\* What is proved of the promise, seen through the mapping.
LEMMA PromiseHolds == Spec => []Theory!Promised
<1>1. Theory!WellTypedConstants
  BY IdempotencyAssumption
  DEF Theory!WellTypedConstants, Theory!Time, Theory!Effect, Theory!Answers, Theory!Success,
      Theory!Other, Time, Effect, Answers, Success, Other
<1>2. Theory!Init /\ [][Theory!Next]_(Theory!vars) => []Theory!Promised
  BY <1>1, Theory!PromiseHolds, PTL DEF Theory!Spec
<1>3. Promise!Init => Theory!Init
  BY DEF Promise!Init, Theory!Init
<1>4. [Promise!Next]_(Promise!vars) => [Theory!Next]_(Theory!vars)
  BY DEF Promise!Next, Theory!Next, Promise!vars, Theory!vars, Promise!Begin, Theory!Begin,
         Promise!Perform, Theory!Perform, Promise!Find, Theory!Find, Promise!Answer,
         Theory!Answer, Promise!Forget, Theory!Forget, Promise!Tick, Theory!Tick,
         Promise!Success, Theory!Success, Promise!Other, Theory!Other, Promise!Same, Theory!Same
<1> QED
  BY ImplementsOncePerKey, <1>2, <1>3, <1>4, PTL DEF KeepsPromise, Promise!Spec

\* The effects of a key lie apart, whatever is purged after it has expired.
THEOREM EffectsLieApart == Spec => []OneEffectWhileRetained
<1>1. Theory!Promised => OneEffectWhileRetained
  BY DEF Theory!Promised, Theory!OneEffectWhileRetained, OneEffectWhileRetained,
         Promise!OneEffectWhileRetained
<1> QED
  BY PromiseHolds, <1>1, PTL

\* No replay, conflict or refusal says what is not so.
THEOREM AnswersStayTrue == Spec => []AnswersAreTrue
<1>1. Theory!Promised => AnswersAreTrue
  BY DEF Theory!Promised, Theory!AnswersAreTrue, AnswersAreTrue, Promise!AnswersAreTrue,
         Promise!Success, Theory!Success, Promise!Other, Theory!Other, Promise!Same, Theory!Same
<1> QED
  BY PromiseHolds, <1>1, PTL
================================================================================
