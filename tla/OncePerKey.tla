------------------------------ MODULE OncePerKey ------------------------------
(***************************************************************************)
(* What idempotency keys promise: while the success of a key is retained,  *)
(* the key has no other effect, and whoever repeats the request gets that  *)
(* success again.  A success is retained for a time counted from the       *)
(* beginning of its request, and may be forgotten at any time after that.  *)
(***************************************************************************)
EXTENDS Integers

CONSTANTS
  Request,        \* attempts, each made once; a retry is another one
  Key,            \* scopes: client, operation type and idempotency key
  KeyOf,          \* the key of a request
  FingerprintOf,  \* what a request asks for
  Retention,      \* of a success
  MaxTime,        \* bound on the clock
  None            \* no answer, effect or success

Time == 0 .. MaxTime
Effect == [at: Time, until: Nat]

\* "refused" promises that there is no effect; "unknown" promises nothing.
Success(q) == [status |-> "success", of |-> q]
Other(status) == [status |-> status, of |-> None]
Answers == {Success(q) : q \in Request} \cup {Other("conflict"), Other("refused"), Other("unknown")}

\* What the constants are taken to be.
WellTypedConstants ==
  /\ KeyOf \in [Request -> Key]
  /\ Retention \in Nat /\ MaxTime \in Nat
  /\ None \notin Request \cup Time \cup Effect \cup Answers

VARIABLES
  now,     \* the clock
  began,   \* when a request began
  kept,    \* the request whose success a key keeps
  view,    \* the request whose success a request has found under its key
  effect,  \* when a request took effect, and until when it is retained
  answer   \* what a client has learned

vars == <<now, began, kept, view, effect, answer>>

Same(q, r) == KeyOf[q] = KeyOf[r] /\ FingerprintOf[q] = FingerprintOf[r]

Init ==
  /\ now = 0
  /\ began = [r \in Request |-> None]
  /\ kept = [k \in Key |-> None]
  /\ view = [r \in Request |-> None]
  /\ effect = [r \in Request |-> None]
  /\ answer = [r \in Request |-> None]

Begin(r) ==
  /\ began[r] = None
  /\ began' = [began EXCEPT ![r] = now]
  /\ UNCHANGED <<now, kept, view, effect, answer>>

\* The key is free: the request takes effect and its success is kept.
Perform(r) ==
  /\ began[r] # None /\ effect[r] = None /\ view[r] = None
  /\ answer[r] \in {None, Other("unknown")}
  /\ kept[KeyOf[r]] = None
  /\ effect' = [effect EXCEPT ![r] = [at |-> now, until |-> began[r] + Retention]]
  /\ kept' = [kept EXCEPT ![KeyOf[r]] = r]
  /\ UNCHANGED <<now, began, view, answer>>

\* The key keeps a success.
Find(r) ==
  /\ began[r] # None /\ effect[r] = None /\ answer[r] = None
  /\ kept[KeyOf[r]] # None
  /\ view' = [view EXCEPT ![r] = kept[KeyOf[r]]]
  /\ UNCHANGED <<now, began, kept, effect, answer>>

\* A client learns of the effect of its request, of an earlier one of the same
\* request, or that its key was spent on another.
Answer(r) ==
  /\ answer[r] = None /\ began[r] # None
  /\ answer' \in {[answer EXCEPT ![r] = a] : a \in
       (IF effect[r] # None THEN {Success(r)} ELSE {Other("refused")})
       \cup (IF view[r] = None THEN {}
             ELSE IF Same(view[r], r) THEN {Success(view[r])} ELSE {Other("conflict")})
       \cup {Other("unknown")}}
  /\ UNCHANGED <<now, began, kept, view, effect>>

\* A success is forgotten, but not before its time.
Forget(k) ==
  /\ kept[k] # None /\ effect[kept[k]].until <= now
  /\ kept' = [kept EXCEPT ![k] = None]
  /\ UNCHANGED <<now, began, view, effect, answer>>

Tick ==
  /\ now < MaxTime
  /\ now' = now + 1
  /\ UNCHANGED <<began, kept, view, effect, answer>>

Next ==
  \/ \E r \in Request : Begin(r) \/ Perform(r) \/ Find(r) \/ Answer(r)
  \/ \E k \in Key : Forget(k)
  \/ Tick

Spec == Init /\ [][Next]_vars

(***************************************************************************)
(* What follows.                                                           *)
(***************************************************************************)
TypeOK ==
  /\ now \in Time
  /\ began \in [Request -> Time \cup {None}]
  /\ kept \in [Key -> Request \cup {None}]
  /\ view \in [Request -> Request \cup {None}]
  /\ effect \in [Request -> Effect \cup {None}]
  /\ answer \in [Request -> Answers \cup {None}]

\* A success stays until its time is over, and what is kept or found is the
\* effect of the key.
Retained ==
  /\ \A r \in Request : effect[r] # None /\ now < effect[r].until => kept[KeyOf[r]] = r
  /\ \A k \in Key : kept[k] # None => effect[kept[k]] # None /\ KeyOf[kept[k]] = k
  /\ \A r \in Request : view[r] # None =>
       effect[r] = None /\ effect[view[r]] # None /\ KeyOf[view[r]] = KeyOf[r]
  /\ \A r \in Request : effect[r] # None => effect[r].at <= now

\* Two effects of a key lie apart: one is made after the other has expired.
OneEffectWhileRetained ==
  \A q, r \in Request :
    q # r /\ KeyOf[q] = KeyOf[r] /\ effect[q] # None /\ effect[r] # None =>
      effect[q].until <= effect[r].at \/ effect[r].until <= effect[q].at

\* A success that is answered has happened, to the same request; a conflict is
\* answered only when the key was spent on another request, and a request that is
\* refused has, and will have, no effect.
AnswersAreTrue ==
  \A r \in Request :
    /\ \A q \in Request : answer[r] = Success(q) => effect[q] # None /\ Same(q, r)
    /\ answer[r] = Other("conflict") =>
         \E q \in Request : /\ effect[q] # None /\ KeyOf[q] = KeyOf[r]
                            /\ FingerprintOf[q] # FingerprintOf[r]
    /\ answer[r] = Other("refused") => effect[r] = None
=============================================================================
