--------------------------- MODULE OncePerKeyProofs ---------------------------
(***************************************************************************)
(* Proofs about OncePerKey.  That two effects of a key lie apart follows    *)
(* from what is retained: while a success is, its key is not free.          *)
(***************************************************************************)
EXTENDS OncePerKey, TLAPS

Promised == TypeOK /\ Retained /\ OneEffectWhileRetained /\ AnswersAreTrue

\* Nothing has happened yet.
LEMMA PromisedInitially == WellTypedConstants /\ Init => Promised
BY DEF WellTypedConstants, Init, Promised, TypeOK, Retained, OneEffectWhileRetained, AnswersAreTrue, Time, Answers,
    Success, Other

\* A new effect meets a free key, so earlier ones have expired.
LEMMA PerformKeepsPromise ==
  ASSUME WellTypedConstants, Promised, NEW r \in Request, Perform(r)
  PROVE  Promised'
<1> USE DEF WellTypedConstants, Promised, Perform
<1>1. /\ effect'[r] = [at |-> now, until |-> began[r] + Retention]
      /\ effect'[r] \in Effect /\ effect'[r] # None
      /\ \A q \in Request \ {r} : effect'[q] = effect[q]
  BY DEF TypeOK, Effect, Time
<1>2. TypeOK'
  BY <1>1 DEF TypeOK
<1>3. Retained'
  <2>1. /\ kept'[KeyOf[r]] = r /\ KeyOf[r] \in Key
        /\ \A k \in Key \ {KeyOf[r]} : kept'[k] = kept[k]
    BY DEF TypeOK
  <2>2. \A q \in Request : effect'[q] # None /\ now' < effect'[q].until => kept'[KeyOf[q]] = q
    BY <1>1, <2>1 DEF TypeOK, Retained
  <2>3. \A k \in Key : kept'[k] # None => effect'[kept'[k]] # None /\ KeyOf[kept'[k]] = k
    BY <1>1, <2>1 DEF TypeOK, Retained
  <2>4. \A q \in Request : view'[q] # None =>
          effect'[q] = None /\ effect'[view'[q]] # None /\ KeyOf[view'[q]] = KeyOf[q]
    BY <1>1 DEF TypeOK, Retained
  <2>5. \A q \in Request : effect'[q] # None => effect'[q].at <= now'
    BY <1>1 DEF TypeOK, Retained, Time
  <2> QED
    BY <2>2, <2>3, <2>4, <2>5 DEF Retained
<1>4. OneEffectWhileRetained'
  <2> SUFFICES ASSUME NEW p \in Request, NEW q \in Request, p # q, KeyOf[p] = KeyOf[q],
                      effect'[p] # None, effect'[q] # None
               PROVE  effect'[p].until <= effect'[q].at \/ effect'[q].until <= effect'[p].at
    BY DEF OneEffectWhileRetained
  <2>1. \A s \in Request : s # r /\ KeyOf[s] = KeyOf[r] /\ effect[s] # None =>
          effect[s].until <= now
    BY DEF TypeOK, Retained, Effect, Time
  <2> QED
    BY <1>1, <2>1 DEF OneEffectWhileRetained
<1>5. AnswersAreTrue'
  <2>1. answer[r] # Other("refused")
    BY DEF Other, Answers
  <2> QED
    BY <1>1, <2>1 DEF AnswersAreTrue
<1> QED
  BY <1>2, <1>3, <1>4, <1>5

\* What is answered is the request's own effect or what it has found.
LEMMA AnswerKeepsPromise ==
  ASSUME WellTypedConstants, Promised, NEW r \in Request, Answer(r)
  PROVE  Promised'
<1> USE DEF WellTypedConstants, Promised, Answer
<1>1. PICK a \in Answers :
        /\ answer' = [answer EXCEPT ![r] = a]
        /\ \/ a = Success(r) /\ effect[r] # None
           \/ a = Other("refused") /\ effect[r] = None
           \/ a = Success(view[r]) /\ view[r] # None /\ Same(view[r], r)
           \/ a = Other("conflict") /\ view[r] # None /\ ~Same(view[r], r)
           \/ a = Other("unknown")
  BY DEF TypeOK, Answers
<1>2. TypeOK' /\ Retained' /\ OneEffectWhileRetained'
  BY <1>1 DEF TypeOK, Retained, OneEffectWhileRetained
<1>3. AnswersAreTrue'
  BY <1>1 DEF AnswersAreTrue, TypeOK, Retained, Success, Other, Same
<1> QED
  BY <1>2, <1>3

\* All other steps leave effects and answers alone.
LEMMA PromiseIsKept == WellTypedConstants /\ Promised /\ [Next]_vars => Promised'
<1> SUFFICES ASSUME WellTypedConstants, Promised, [Next]_vars
             PROVE  Promised'
  OBVIOUS
<1>1. ASSUME NEW r \in Request, Begin(r)
      PROVE  Promised'
  BY <1>1 DEF WellTypedConstants, Promised, Begin, TypeOK, Retained, OneEffectWhileRetained, AnswersAreTrue
<1>2. ASSUME NEW r \in Request, Find(r)
      PROVE  Promised'
  BY <1>2 DEF WellTypedConstants, Promised, Find, TypeOK, Retained, OneEffectWhileRetained, AnswersAreTrue
<1>3. ASSUME NEW k \in Key, Forget(k)
      PROVE  Promised'
  <2>1. \A r \in Request : effect[r] # None /\ now < effect[r].until => KeyOf[r] # k
    BY <1>3 DEF Promised, Forget, Retained, TypeOK, Effect, Time
  <2> QED
    BY <1>3, <2>1
    DEF WellTypedConstants, Promised, Forget, TypeOK, Retained, OneEffectWhileRetained, AnswersAreTrue
<1>4. CASE Tick
  BY <1>4 DEF WellTypedConstants, Promised, Tick, TypeOK, Retained, OneEffectWhileRetained, AnswersAreTrue,
              Time, Effect
<1>5. CASE UNCHANGED vars
  BY <1>5 DEF WellTypedConstants, Promised, vars, TypeOK, Retained, OneEffectWhileRetained, AnswersAreTrue
<1> QED
  BY <1>1, <1>2, <1>3, <1>4, <1>5, PerformKeepsPromise, AnswerKeepsPromise DEF Next

\* Whatever requests, retries and the clock do: a success stays until its time is
\* over, effects of a key lie apart and answers are true.
THEOREM PromiseHolds == ASSUME WellTypedConstants PROVE Spec => []Promised
BY PromisedInitially, PromiseIsKept, PTL DEF Spec
=============================================================================
