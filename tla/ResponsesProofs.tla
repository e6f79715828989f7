---------------------------- MODULE ResponsesProofs ----------------------------
(***************************************************************************)
(* Proofs about amounts and answers, for every base of numerals, every     *)
(* width of integers, every text and every amount, and for handlers of     *)
(* which any number of checks would fail.                                  *)
(*                                                                         *)
(* What powers and numerals are is a matter of recursion, so that most of  *)
(* part 1 is induction.  It goes over sets instead of predicates, from the *)
(* least element of a non-empty set of naturals.                           *)
(***************************************************************************)
EXTENDS Responses, WellFoundedInduction, TLAPS

(***************************************************************************)
(* PART 1: INDUCTION, POWERS AND NUMERALS.                                 *)
(***************************************************************************)
\* A set of naturals that is not empty has a least element.
LEMMA Least == \A T \in SUBSET Nat : T # {} => \E n \in T : \A k \in T : n <= k
<1> DEFINE Less == {pair \in Nat \X Nat : pair[1] < pair[2]}
<1>1. Less = OpToRel(<, Nat)
  BY DEF OpToRel
<1>2. IsWellFoundedOn(Less, Nat)
  BY <1>1, NatLessThanWellFounded
<1> HIDE DEF Less
<1>3. \A T \in SUBSET Nat : T # {} => \E n \in T : \A k \in T : <<k, n>> \notin Less
  BY <1>2, WFMin
<1>4. \A n, k \in Nat : <<k, n>> \in Less <=> k < n
  BY DEF Less
<1> SUFFICES ASSUME NEW T \in SUBSET Nat, T # {}
             PROVE  \E n \in T : \A k \in T : n <= k
  OBVIOUS
<1>5. PICK n \in T : \A k \in T : <<k, n>> \notin Less
  BY <1>3
<1>6. \A k \in T : ~(k < n)
  BY <1>4, <1>5
<1>7. \A k \in T : n <= k
  BY <1>6
<1> QED
  BY <1>7

\* Induction up to a bound: what holds at zero and is handed on holds throughout.
LEMMA Climb ==
  ASSUME NEW T, NEW m \in Nat, 0 \in T, \A n \in 0 .. m : n \in T /\ n < m => n + 1 \in T
  PROVE  \A n \in 0 .. m : n \in T
<1> DEFINE Missing == {n \in 0 .. m : n \notin T}
<1> SUFFICES ASSUME Missing # {}
             PROVE  FALSE
  OBVIOUS
<1>1. Missing \in SUBSET Nat
  OBVIOUS
<1>2. PICK n \in Missing : \A k \in Missing : n <= k
  BY <1>1, Least
<1>3. n # 0 /\ n - 1 \in 0 .. m /\ n - 1 < m /\ n - 1 \notin Missing
  BY <1>2
<1>4. (n - 1) + 1 \in T
  BY <1>3
<1> QED
  BY <1>2, <1>4

\* Induction over the naturals.
LEMMA Induction ==
  ASSUME NEW T, 0 \in T, \A n \in Nat : n \in T => n + 1 \in T
  PROVE  \A n \in Nat : n \in T
<1> SUFFICES ASSUME NEW m \in Nat
             PROVE  m \in T
  OBVIOUS
<1>1. \A n \in 0 .. m : n \in T
  BY Climb
<1> QED
  BY <1>1

\* f is what a computation has reached after so many steps.
Computes(f, S, first, next) ==
  /\ f \in [Nat -> S]
  /\ f[0] = first
  /\ \A n \in Nat : f[n + 1] = next[<<n, f[n]>>]

\* What is computed step by step, from a value and the number of the step, is
\* computed by a function: the first m steps are, for every m.
LEMMA Steps ==
  ASSUME NEW S, NEW first \in S, NEW next \in [Nat \X S -> S]
  PROVE  \E f : Computes(f, S, first, next)
<1> DEFINE Is(g, m) == /\ g \in [0 .. m -> S]
                       /\ g[0] = first
                       /\ \A n \in 0 .. m - 1 : g[n + 1] = next[<<n, g[n]>>]
           Begun == {m \in Nat : \E g \in [0 .. m -> S] : Is(g, m)}
<1>1. \A m \in Nat : m \in Begun
  <2>1. 0 \in Begun
    <3>1. Is([n \in 0 .. 0 |-> first], 0)
      OBVIOUS
    <3> QED
      BY <3>1
  <2>2. ASSUME NEW m \in Nat, m \in Begun
        PROVE  m + 1 \in Begun
    <3>1. PICK g \in [0 .. m -> S] : Is(g, m)
      BY <2>2
    <3> DEFINE h == [n \in 0 .. m + 1 |-> IF n = m + 1 THEN next[<<m, g[m]>>] ELSE g[n]]
    <3>2. g[m] \in S /\ next[<<m, g[m]>>] \in S
      OBVIOUS
    <3>3. h \in [0 .. m + 1 -> S]
      BY <3>2
    <3>4. h[0] = first
      BY <3>1
    <3>5. \A n \in 0 .. m : h[n] = g[n]
      OBVIOUS
    <3>6. h[m + 1] = next[<<m, g[m]>>]
      OBVIOUS
    <3> HIDE DEF h
    <3>7. ASSUME NEW n \in 0 .. (m + 1) - 1
          PROVE  h[n + 1] = next[<<n, h[n]>>]
      <4>1. CASE n = m
        BY <3>5, <3>6, <4>1
      <4>2. CASE n # m
        <5>1. n \in 0 .. m - 1 /\ n \in 0 .. m /\ n + 1 \in 0 .. m
          BY <4>2
        <5> QED
          BY <3>1, <3>5, <5>1
      <4> QED
        BY <4>1, <4>2
    <3>8. Is(h, m + 1)
      BY <3>3, <3>4, <3>7
    <3> QED
      BY <3>3, <3>8
  <2> HIDE DEF Begun
  <2> QED
    BY <2>1, <2>2, Induction
<1>2. ASSUME NEW m \in Nat, NEW g, Is(g, m), NEW k \in Nat, NEW h, Is(h, k), m <= k
      PROVE  g[m] = h[m]
  <2> DEFINE Same == {n \in 0 .. m : g[n] = h[n]}
  <2>1. 0 \in Same
    BY <1>2
  <2>2. ASSUME NEW n \in 0 .. m, n \in Same, n < m
        PROVE  n + 1 \in Same
    <3>1. n \in 0 .. m - 1 /\ n \in 0 .. k - 1 /\ n + 1 \in 0 .. m
      BY <1>2, <2>2
    <3>2. g[n + 1] = next[<<n, g[n]>>] /\ h[n + 1] = next[<<n, h[n]>>]
      BY <1>2, <3>1
    <3> QED
      BY <2>2, <3>1, <3>2
  <2> HIDE DEF Same
  <2>3. \A n \in 0 .. m : n \in Same
    BY <2>1, <2>2, Climb
  <2>4. m \in Same
    BY <2>3
  <2> QED
    BY <2>4 DEF Same
<1> DEFINE part(m) == CHOOSE g \in [0 .. m -> S] : Is(g, m)
           f == [m \in Nat |-> part(m)[m]]
<1>3. \A m \in Nat : Is(part(m), m)
  BY <1>1
<1> HIDE DEF part
<1>4. f \in [Nat -> S] /\ f[0] = first
  BY <1>3
<1>5. ASSUME NEW n \in Nat
      PROVE  f[n + 1] = next[<<n, f[n]>>]
  <2>1. Is(part(n), n) /\ Is(part(n + 1), n + 1)
    BY <1>3
  <2>2. part(n)[n] = part(n + 1)[n]
    BY <1>2, <2>1
  <2> QED
    BY <2>1, <2>2
<1> HIDE DEF f
<1>6. Computes(f, S, first, next)
  BY <1>4, <1>5 DEF Computes
<1> QED
  BY <1>6

\* The powers of the base are positive and count its factors (pow10).
LEMMA Powers ==
  /\ Power \in [Nat -> Nat \ {0}]
  /\ Power[0] = 1
  /\ \A n \in Nat : Power[n + 1] = Base * Power[n]
<1> DEFINE times == [p \in Nat \X (Nat \ {0}) |-> Base * p[2]]
<1>1. times \in [Nat \X (Nat \ {0}) -> Nat \ {0}]
  BY MoneyAssumption
<1>2. \A n \in Nat, x \in Nat \ {0} : times[<<n, x>>] = Base * x
  OBVIOUS
<1> HIDE DEF times
<1>3. PICK f \in [Nat -> Nat \ {0}] :
        f[0] = 1 /\ \A n \in Nat : f[n + 1] = times[<<n, f[n]>>]
  <2>1. 1 \in Nat \ {0}
    OBVIOUS
  <2>2. \E f : Computes(f, Nat \ {0}, 1, times)
    BY <1>1, <2>1, Steps, Zenon
  <2> QED
    BY <2>2 DEF Computes
<1>4. \A n \in Nat : f[n + 1] = Base * f[n]
  BY <1>2, <1>3
<1>5. ASSUME NEW n \in Nat
      PROVE  f[n] = IF n = 0 THEN 1 ELSE Base * f[n - 1]
  <2>1. CASE n = 0
    BY <1>3, <2>1
  <2>2. CASE n # 0
    <3>1. n - 1 \in Nat /\ (n - 1) + 1 = n
      BY <2>2
    <3> QED
      BY <1>4, <2>2, <3>1
  <2> QED
    BY <2>1, <2>2
<1>6. f = [n \in Nat |-> IF n = 0 THEN 1 ELSE Base * f[n - 1]]
  BY <1>5
<1>7. Power = [n \in Nat |-> IF n = 0 THEN 1 ELSE Base * Power[n - 1]]
  BY <1>6 DEF Power
<1>8. Power[0] = 1
  BY <1>7
<1>9. \A n \in Nat : Power[n + 1] = Base * Power[n]
  <2> SUFFICES ASSUME NEW n \in Nat
               PROVE  Power[n + 1] = Base * Power[n]
    OBVIOUS
  <2>1. n + 1 \in Nat /\ n + 1 # 0 /\ (n + 1) - 1 = n
    OBVIOUS
  <2> QED
    BY <1>7, <2>1
<1>10. \A n \in Nat : Power[n] \in Nat \ {0}
  <2> DEFINE T == {n \in Nat : Power[n] \in Nat \ {0}}
  <2>1. 0 \in T
    BY <1>8
  <2>2. \A n \in Nat : n \in T => n + 1 \in T
    BY <1>9, MoneyAssumption
  <2> HIDE DEF T
  <2>3. \A n \in Nat : n \in T
    BY <2>1, <2>2, Induction
  <2> QED
    BY <2>3 DEF T
<1>11. DOMAIN Power = Nat
  BY <1>7
<1>12. Power \in [Nat -> Nat \ {0}]
  BY <1>7, <1>10, <1>11
<1> QED
  BY <1>8, <1>9, <1>12

\* Arithmetic that the solver is spared.
LEMMA Products ==
  \A a, b, c \in Int :
    /\ a * b \in Int /\ a * b = b * a
    /\ a * (b * c) = (a * b) * c
    /\ (a + b) * c = a * c + b * c
OBVIOUS

LEMMA Positive == \A a, b \in Nat \ {0} : a * b \in Nat \ {0}
OBVIOUS

LEMMA Cancel ==
  ASSUME NEW a \in Int, NEW b \in Int, NEW p \in Nat \ {0}, a * p = b * p
  PROVE  a = b
<1>1. (a - b) * p = 0
  OBVIOUS
<1> QED
  BY <1>1

LEMMA DivisionUnique ==
  ASSUME NEW d \in Nat \ {0}, NEW q \in Nat, NEW r \in 0 .. d - 1
  PROVE  (q * d + r) \div d = q /\ (q * d + r) % d = r
OBVIOUS

LEMMA Division ==
  ASSUME NEW n \in Nat, NEW d \in Nat \ {0}
  PROVE  n \div d \in Nat /\ n % d \in 0 .. d - 1 /\ n = (n \div d) * d + (n % d)
OBVIOUS

\* Dividing twice is dividing by the product.
LEMMA DivideTwice ==
  ASSUME NEW n \in Nat, NEW a \in Nat \ {0}, NEW b \in Nat \ {0}
  PROVE  n \div (b * a) = (n \div a) \div b
<1> DEFINE m == n \div a
           s == n % a
           q == m \div b
           r == m % b
<1>1. m \in Nat /\ s \in 0 .. a - 1 /\ n = m * a + s
  BY Division
<1>2. q \in Nat /\ r \in 0 .. b - 1 /\ m = q * b + r
  BY <1>1, Division
<1> HIDE DEF m, s, q, r
<1>3. n = q * (b * a) + (r * a + s)
  BY <1>1, <1>2
<1>4. r * a + s \in 0 .. b * a - 1
  <2> DEFINE ra == r * a
             ba == b * a
  <2>1. ra \in Nat /\ ba \in Nat
    BY <1>2
  <2>2. ra <= (b - 1) * a
    BY <1>2
  <2>3. (b - 1) * a = ba - a
    OBVIOUS
  <2> HIDE DEF ra, ba
  <2>4. ra + s \in 0 .. ba - 1
    BY <1>1, <2>1, <2>2, <2>3
  <2> QED
    BY <2>4 DEF ra, ba
<1>5. n \div (b * a) = q
  BY <1>2, <1>3, <1>4, DivisionUnique, Positive
<1> QED
  BY <1>5 DEF q, m

\* Exponents add up.
LEMMA PowersMultiply == \A i, k \in Nat : Power[i + k] = Power[i] * Power[k]
<1> SUFFICES ASSUME NEW i \in Nat
             PROVE  \A k \in Nat : Power[i + k] = Power[i] * Power[k]
  OBVIOUS
<1> DEFINE T == {k \in Nat : Power[i + k] = Power[i] * Power[k]}
<1>1. 0 \in T
  BY Powers
<1>2. ASSUME NEW k \in Nat, k \in T
      PROVE  k + 1 \in T
  <2>1. Power[i + (k + 1)] = Base * Power[i + k]
    <3>1. i + (k + 1) = (i + k) + 1 /\ i + k \in Nat
      OBVIOUS
    <3> QED
      BY <3>1, Powers
  <2>2. Base * (Power[i] * Power[k]) = Power[i] * (Base * Power[k])
    BY Powers, MoneyAssumption
  <2> QED
    BY <1>2, <2>1, <2>2, Powers
<1> HIDE DEF T
<1>3. \A k \in Nat : k \in T
  BY <1>1, <1>2, Induction
<1> QED
  BY <1>3 DEF T

\* A fold of digits from the left goes down from the last of them: what it makes of
\* a set of their positions.
Folds(iter, digits) ==
  iter = [T \in SUBSET DOMAIN digits |->
            IF T = {} THEN 0 ELSE iter[T \ {Max(T)}] * Base + digits[Max(T)]]

\* The fold that a numeral is, if there is one.
LEMMA NumeralFolds ==
  ASSUME NEW digits, \E iter : Folds(iter, digits)
  PROVE  \E iter : Folds(iter, digits) /\ Numeral(digits) = iter[DOMAIN digits]
<1> DEFINE iter == CHOOSE iter : Folds(iter, digits)
<1>1. Folds(iter, digits)
  OBVIOUS
<1>2. Numeral(digits) = iter[DOMAIN digits]
  BY DEF Numeral, FoldLeft, MapThenFoldSet, Folds
<1> QED
  BY <1>1, <1>2

\* The greatest of some positions.
LEMMA Greatest ==
  /\ \A T, n : n \in T /\ T \subseteq Nat /\ (\A k \in T : k <= n) => Max(T) = n
  /\ \A m \in Nat : \A T \in SUBSET (1 .. m) : T # {} => Max(T) \in T
<1>1. ASSUME NEW T, NEW n, n \in T, T \subseteq Nat, \A k \in T : k <= n
      PROVE  Max(T) = n
  <2>1. /\ n \in T /\ \A k \in T : n >= k
        /\ \A i \in T : (\A k \in T : i >= k) => i = n
    BY <1>1
  <2> QED
    BY <2>1 DEF Max
<1>2. ASSUME NEW m \in Nat, NEW T \in SUBSET (1 .. m), T # {}
      PROVE  Max(T) \in T
  <2> DEFINE Above == {k \in Nat : \A i \in T : i <= k}
  <2>1. m \in Above /\ Above \in SUBSET Nat
    OBVIOUS
  <2>2. PICK n \in Above : \A k \in Above : n <= k
    BY <2>1, Least
  <2>3. n \in T
    <3> SUFFICES ASSUME n \notin T
                 PROVE  FALSE
      OBVIOUS
    <3>1. \A i \in T : i \in Nat /\ i <= n /\ i # n
      BY <2>2
    <3>2. n # 0
      <4>1. PICK i \in T : i \in 1 .. m
        BY <1>2
      <4> QED
        BY <3>1, <4>1
    <3>3. \A i \in T : i <= n - 1
      BY <2>2, <3>1
    <3>4. n - 1 \in Above
      BY <2>2, <3>2, <3>3
    <3> QED
      BY <2>2, <3>4
  <2>4. T \subseteq Nat /\ \A k \in T : k <= n
    BY <2>2
  <2> QED
    BY <1>1, <2>3, <2>4
<1> QED
  BY <1>1, <1>2

\* A fold exists: of one position more it is that of the others and one step.
LEMMA FoldExists ==
  ASSUME NEW digits \in Seq(Nat)
  PROVE  \E iter : Folds(iter, digits)
<1> DEFINE Part(iter, m) ==
             /\ DOMAIN iter = SUBSET (1 .. m)
             /\ iter[{}] = 0
             /\ \A T \in SUBSET (1 .. m) :
                  T # {} => iter[T] = iter[T \ {Max(T)}] * Base + digits[Max(T)]
           Reached == {m \in Nat : \E iter : Part(iter, m)}
<1>1. 0 \in Reached
  <2> DEFINE iter == [T \in SUBSET (1 .. 0) |-> 0]
  <2>1. /\ DOMAIN iter = SUBSET (1 .. 0)
        /\ iter[{}] = 0
        /\ \A T \in SUBSET (1 .. 0) : T = {}
    OBVIOUS
  <2> HIDE DEF iter
  <2>2. Part(iter, 0)
    BY <2>1
  <2> QED
    BY <2>2
<1>2. ASSUME NEW m \in Nat, m \in Reached
      PROVE  m + 1 \in Reached
  <2>1. PICK iter : Part(iter, m)
    BY <1>2
  <2> DEFINE more == [T \in SUBSET (1 .. m + 1) |->
                        IF m + 1 \in T THEN iter[T \ {m + 1}] * Base + digits[m + 1]
                        ELSE iter[T]]
  <2>2. \A T \in SUBSET (1 .. m + 1) : m + 1 \notin T => T \in SUBSET (1 .. m)
    OBVIOUS
  <2>3. \A T \in SUBSET (1 .. m + 1) :
          more[T] = IF m + 1 \in T THEN iter[T \ {m + 1}] * Base + digits[m + 1] ELSE iter[T]
    OBVIOUS
  <2>4. DOMAIN more = SUBSET (1 .. m + 1)
    OBVIOUS
  <2> HIDE DEF more
  <2>5. more[{}] = 0
    BY <2>1, <2>3
  <2>6. ASSUME NEW T \in SUBSET (1 .. m + 1), T # {}
        PROVE  more[T] = more[T \ {Max(T)}] * Base + digits[Max(T)]
    <3>1. CASE m + 1 \in T
      <4>1. Max(T) = m + 1
        <5>1. T \subseteq Nat /\ \A k \in T : k <= m + 1
          OBVIOUS
        <5> QED
          BY <3>1, <5>1, Greatest
      <4>2. T \ {m + 1} \in SUBSET (1 .. m + 1) /\ m + 1 \notin T \ {m + 1}
        OBVIOUS
      <4>3. more[T \ {m + 1}] = iter[T \ {m + 1}]
        BY <2>3, <4>2
      <4> QED
        BY <2>3, <3>1, <4>1, <4>3
    <3>2. CASE m + 1 \notin T
      <4>1. T \in SUBSET (1 .. m)
        BY <2>2, <3>2
      <4>2. more[T] = iter[T]
        BY <2>3, <3>2
      <4>3. T \ {Max(T)} \in SUBSET (1 .. m + 1) /\ m + 1 \notin T \ {Max(T)}
        BY <3>2
      <4>4. more[T \ {Max(T)}] = iter[T \ {Max(T)}]
        BY <2>3, <4>3
      <4> QED
        BY <2>1, <2>6, <4>1, <4>2, <4>4
    <3> QED
      BY <3>1, <3>2
  <2> HIDE DEF Part
  <2>7. Part(more, m + 1)
    BY <2>4, <2>5, <2>6 DEF Part
  <2> QED
    BY <2>7
<1> HIDE DEF Reached
<1>3. Len(digits) \in Reached
  BY <1>1, <1>2, Induction
<1>4. PICK iter : Part(iter, Len(digits))
  BY <1>3 DEF Reached
<1>5. DOMAIN digits = 1 .. Len(digits)
  OBVIOUS
<1>6. \A T \in SUBSET DOMAIN digits :
        iter[T] = IF T = {} THEN 0 ELSE iter[T \ {Max(T)}] * Base + digits[Max(T)]
  BY <1>4, <1>5
<1>7. Folds([T \in SUBSET DOMAIN digits |-> iter[T]], digits)
  <2>1. \A T \in SUBSET DOMAIN digits : T \ {Max(T)} \in SUBSET DOMAIN digits
    OBVIOUS
  <2> QED
    BY <1>6, <2>1 DEF Folds
<1> QED
  BY <1>7

\* A numeral is worth what its digits add up to, one after the other, each time
\* after a shift (parse of i128): h is what it is worth up to a position.
LEMMA NumeralIs ==
  ASSUME NEW digits \in Seq(Nat), NEW h,
         h[0] = 0,
         \A n \in 0 .. Len(digits) - 1 : h[n + 1] = h[n] * Base + digits[n + 1]
  PROVE  Numeral(digits) = h[Len(digits)]
<1>1. PICK iter : Folds(iter, digits) /\ Numeral(digits) = iter[DOMAIN digits]
  BY FoldExists, NumeralFolds
<1> DEFINE len == Len(digits)
           T == {n \in 0 .. len : iter[1 .. n] = h[n]}
<1>2. DOMAIN digits = 1 .. len /\ len \in Nat
  OBVIOUS
<1>3. 0 \in T
  BY <1>1, <1>2 DEF Folds
<1>4. ASSUME NEW n \in 0 .. len, n \in T, n < len
      PROVE  n + 1 \in T
  <2> DEFINE S == 1 .. n + 1
  <2>1. S \in SUBSET DOMAIN digits /\ S # {}
    <3>1. n + 1 \in S /\ n + 1 <= len
      BY <1>2, <1>4
    <3>2. S \subseteq 1 .. len
      BY <1>2, <3>1
    <3> HIDE DEF S, len
    <3> QED
      BY <1>2, <3>1, <3>2
  <2>2. Max(S) = n + 1
    <3>1. n + 1 \in S /\ S \subseteq Nat /\ \A k \in S : k <= n + 1
      OBVIOUS
    <3> QED
      BY <3>1, Greatest
  <2>3. S \ {n + 1} = 1 .. n
    OBVIOUS
  <2> HIDE DEF S
  <2>4. iter[S] = iter[S \ {Max(S)}] * Base + digits[Max(S)]
    BY <1>1, <2>1 DEF Folds
  <2>5. iter[S] = h[n] * Base + digits[n + 1]
    BY <1>4, <2>2, <2>3, <2>4
  <2>6. n \in 0 .. len - 1
    BY <1>2, <1>4
  <2> QED
    BY <2>5, <2>6 DEF S
<1> HIDE DEF T
<1>5. \A n \in 0 .. len : n \in T
  BY <1>2, <1>3, <1>4, Climb
<1>6. iter[1 .. len] = h[len]
  BY <1>2, <1>5 DEF T
<1> QED
  BY <1>1, <1>2, <1>6

\* What a numeral is worth up to each position.
PartialSums(digits, h) ==
  /\ \A n \in 0 .. Len(digits) : h[n] \in Nat
  /\ h[0] = 0
  /\ \A n \in 0 .. Len(digits) - 1 : h[n + 1] = h[n] * Base + digits[n + 1]

LEMMA PartialSumsExist ==
  ASSUME NEW digits \in Seq(Nat)
  PROVE  \E h : PartialSums(digits, h) /\ Numeral(digits) = h[Len(digits)]
<1> DEFINE add == [p \in Nat \X Nat |->
                     p[2] * Base + (IF p[1] < Len(digits) THEN digits[p[1] + 1] ELSE 0)]
<1>1. \A n \in Nat : n < Len(digits) => digits[n + 1] \in Nat
  OBVIOUS
<1>2. add \in [Nat \X Nat -> Nat]
  BY <1>1, MoneyAssumption
<1>3. \A n, x \in Nat : n < Len(digits) => add[<<n, x>>] = x * Base + digits[n + 1]
  OBVIOUS
<1>4. 0 \in Nat
  OBVIOUS
<1> HIDE DEF add
<1>5. PICK h : Computes(h, Nat, 0, add)
  BY <1>2, <1>4, Steps, Zenon
<1>6. PartialSums(digits, h)
  <2>1. ASSUME NEW n \in 0 .. Len(digits) - 1
        PROVE  h[n + 1] = h[n] * Base + digits[n + 1]
    <3>1. n \in Nat /\ n < Len(digits)
      OBVIOUS
    <3>2. h[n] \in Nat /\ h[n + 1] = add[<<n, h[n]>>]
      BY <1>5, <3>1 DEF Computes
    <3> QED
      BY <1>3, <3>1, <3>2
  <2> QED
    BY <1>5, <2>1 DEF PartialSums, Computes
<1>7. Numeral(digits) = h[Len(digits)]
  BY <1>6, NumeralIs DEF PartialSums
<1> QED
  BY <1>6, <1>7

\* Digits in front count as many times as the digits behind them allow.
LEMMA NumeralConcatenates ==
  ASSUME NEW a \in Seq(Nat), NEW b \in Seq(Nat)
  PROVE  /\ Numeral(a) \in Nat /\ Numeral(b) \in Nat
         /\ Numeral(a \o b) = Numeral(a) * Power[Len(b)] + Numeral(b)
<1>1. PICK f : PartialSums(a, f) /\ Numeral(a) = f[Len(a)]
  BY PartialSumsExist
<1>2. PICK g : PartialSums(b, g) /\ Numeral(b) = g[Len(b)]
  BY PartialSumsExist
<1> DEFINE i == Len(a)
           k == Len(b)
           v == Numeral(a)
           h == [n \in 0 .. i + k |-> IF n <= i THEN f[n] ELSE v * Power[n - i] + g[n - i]]
<1>3. i \in Nat /\ k \in Nat /\ v \in Nat /\ Numeral(b) \in Nat
  BY <1>1, <1>2 DEF PartialSums
<1>4. a \o b \in Seq(Nat) /\ Len(a \o b) = i + k
  OBVIOUS
<1>5. h[0] = 0
  BY <1>1, <1>3 DEF PartialSums
<1>6. \A n \in 0 .. k : h[i + n] = v * Power[n] + g[n]
  <2> SUFFICES ASSUME NEW n \in 0 .. k
               PROVE  h[i + n] = v * Power[n] + g[n]
    OBVIOUS
  <2>1. CASE n = 0
    <3>1. h[i + n] = v
      BY <1>1, <1>3, <2>1
    <3>2. Power[n] = 1 /\ g[n] = 0
      BY <1>2, <2>1, Powers DEF PartialSums
    <3>3. v * 1 + 0 = v
      BY <1>3
    <3> QED
      BY <3>1, <3>2, <3>3
  <2>2. CASE n # 0
    BY <1>3, <2>2
  <2> QED
    BY <2>1, <2>2
<1>7. \A n \in 0 .. i : h[n] = f[n]
  BY <1>3
<1> HIDE DEF h
<1>8. ASSUME NEW n \in 0 .. Len(a \o b) - 1
      PROVE  h[n + 1] = h[n] * Base + (a \o b)[n + 1]
  <2>1. CASE n < i
    <3>1. (a \o b)[n + 1] = a[n + 1]
      BY <2>1
    <3>2. n \in 0 .. i - 1 /\ n \in 0 .. i /\ n + 1 \in 0 .. i
      BY <1>3, <2>1
    <3> QED
      BY <1>1, <1>7, <3>1, <3>2 DEF PartialSums
  <2>2. CASE i <= n
    <3> DEFINE j == n - i
    <3>1. j \in 0 .. k - 1 /\ j \in 0 .. k /\ j + 1 \in 0 .. k /\ j \in Nat /\ n = i + j
      BY <1>3, <1>4, <2>2
    <3>2. (a \o b)[n + 1] = b[j + 1]
      BY <1>3, <1>4, <2>2
    <3>3. i + (j + 1) = n + 1
      BY <1>3, <1>4
    <3> HIDE DEF j, i, v
    <3>4. h[n + 1] = v * Power[j + 1] + g[j + 1]
      BY <1>6, <3>1, <3>3
    <3>5. h[n] = v * Power[j] + g[j]
      BY <1>6, <3>1
    <3>6. g[j + 1] = g[j] * Base + b[j + 1] /\ g[j] \in Nat /\ b[j + 1] \in Nat
      BY <1>2, <3>1 DEF PartialSums
    <3>7. Power[j + 1] = Base * Power[j] /\ Power[j] \in Nat
      BY <3>1, Powers
    <3>8. v * (Base * Power[j]) = (v * Power[j]) * Base
      BY <1>3, <3>7, MoneyAssumption
    <3>9. (v * Power[j] + g[j]) * Base = (v * Power[j]) * Base + g[j] * Base
      <4>1. v * Power[j] \in Int
        BY <1>3, <3>7, Products
      <4> QED
        BY <3>6, <4>1, Products, MoneyAssumption
    <3> DEFINE x == (v * Power[j]) * Base
               y == g[j] * Base
    <3>10. x \in Int /\ y \in Int
      <4>1. v * Power[j] \in Int
        BY <1>3, <3>7, Products
      <4>2. g[j] \in Int /\ Base \in Int
        BY <3>6, MoneyAssumption
      <4>3. \A p, q \in Int : p * q \in Int
        OBVIOUS
      <4> QED
        BY <4>1, <4>2, <4>3
    <3>11. h[n + 1] = x + (y + b[j + 1])
      BY <3>4, <3>6, <3>7, <3>8
    <3>12. h[n] * Base = x + y
      BY <3>5, <3>9
    <3> HIDE DEF x, y
    <3>13. x + (y + b[j + 1]) = (x + y) + b[j + 1]
      BY <3>6, <3>10
    <3> QED
      BY <3>2, <3>11, <3>12, <3>13
  <2> QED
    BY <1>3, <1>4, <2>1, <2>2
<1>9. Numeral(a \o b) = h[i + k]
  BY <1>4, <1>5, <1>8, NumeralIs
<1> QED
  BY <1>2, <1>3, <1>6, <1>9

LEMMA NoDigits == Numeral(<<>>) = 0
<1>1. <<>> \in Seq(Nat) /\ Len(<<>>) = 0
  OBVIOUS
<1> QED
  BY <1>1, PartialSumsExist DEF PartialSums

\* A number that a width has room for is written in its digits (format_minor_units:
\* the fraction).
LEMMA PaddedNumeral ==
  ASSUME NEW n \in Nat, NEW width \in Nat, n < Power[width]
  PROVE  /\ Padded(n, width) \in Seq(Digit) /\ Padded(n, width) \in Seq(Nat)
         /\ Len(Padded(n, width)) = width
         /\ Numeral(Padded(n, width)) = n
<1> DEFINE digits == Padded(n, width)
           h == [k \in 0 .. width |-> n \div Power[width - k]]
<1>1. \A k \in 0 .. width : Power[width - k] \in Nat \ {0}
  <2>1. \A k \in 0 .. width : width - k \in Nat
    OBVIOUS
  <2> QED
    BY <2>1, Powers
<1>2. \A k \in 1 .. width : (n \div Power[width - k]) % Base \in 0 .. Base - 1
  <2> SUFFICES ASSUME NEW k \in 1 .. width
               PROVE  (n \div Power[width - k]) % Base \in 0 .. Base - 1
    OBVIOUS
  <2>1. n \div Power[width - k] \in Nat
    BY <1>1, Division
  <2>2. Base \in Nat \ {0}
    BY MoneyAssumption
  <2> QED
    BY <2>1, <2>2, Division
<1>3. digits \in [1 .. width -> 0 .. Base - 1]
  BY <1>2 DEF Padded
<1>4. digits \in Seq(Digit) /\ digits \in Seq(Nat) /\ Len(digits) = width
  <2> DEFINE D == 0 .. Base - 1
  <2>1. D \subseteq Nat
    BY MoneyAssumption
  <2> HIDE DEF digits, D
  <2>2. digits \in Seq(D) /\ Len(digits) = width
    <3>1. digits \in [1 .. width -> D]
      BY <1>3 DEF D
    <3> QED
      BY <3>1
  <2>3. \A k \in 1 .. width : digits[k] \in Nat
    BY <1>3, <2>1 DEF D
  <2>4. digits \in Seq(Nat)
    BY <1>3, <2>3
  <2> QED
    BY <2>2, <2>4 DEF Digit, D
<1>5. \A k \in 0 .. width - 1 : digits[k + 1] = (n \div Power[width - (k + 1)]) % Base
  BY DEF Padded
<1> HIDE DEF digits
<1>6. h[0] = 0
  <2>1. n = 0 * Power[width] + n /\ n \in 0 .. Power[width] - 1
    BY Powers
  <2>2. n \div Power[width] = 0
    BY <2>1, DivisionUnique, Powers
  <2> QED
    BY <2>2
<1>7. ASSUME NEW k \in 0 .. width - 1
      PROVE  h[k + 1] = h[k] * Base + digits[k + 1]
  <2> DEFINE j == width - (k + 1)
             m == n \div Power[j]
  <2>1. j \in Nat /\ width - k = j + 1 /\ k + 1 \in 0 .. width /\ k \in 0 .. width
    OBVIOUS
  <2>2. h[k + 1] = m
    BY <2>1
  <2>3. h[k] = m \div Base
    <3>1. h[k] = n \div Power[j + 1]
      BY <2>1
    <3>2. Power[j + 1] = Base * Power[j] /\ Power[j] \in Nat \ {0}
      BY <2>1, Powers
    <3>3. Base \in Nat \ {0}
      BY MoneyAssumption
    <3> QED
      BY <3>1, <3>2, <3>3, DivideTwice
  <2>4. m \in Nat
    BY <2>1, Powers, Division
  <2> HIDE DEF m, h
  <2>5. Base \in Nat \ {0}
    BY MoneyAssumption
  <2>6. m = (m \div Base) * Base + (m % Base)
    BY <2>4, <2>5, Division
  <2>7. digits[k + 1] = m % Base
    BY <1>5 DEF m
  <2> QED
    BY <2>2, <2>3, <2>6, <2>7
<1>8. h[width] = n
  <2>1. h[width] = n \div Power[0]
    OBVIOUS
  <2>2. n = n * 1 + 0 /\ 0 \in 0 .. 1 - 1 /\ 1 \in Nat \ {0}
    OBVIOUS
  <2>3. n \div 1 = n
    BY <2>2, DivisionUnique
  <2> QED
    BY <2>1, <2>3, Powers
<1> HIDE DEF h
<1>9. Numeral(digits) = h[width]
  BY <1>4, <1>6, <1>7, NumeralIs
<1> QED
  BY <1>4, <1>8, <1>9 DEF digits

\* Powers outgrow their exponents.
LEMMA PowersGrow == \A n \in Nat : n < Power[n]
<1> DEFINE T == {n \in Nat : n < Power[n]}
<1>1. 0 \in T
  BY Powers
<1>2. ASSUME NEW n \in Nat, n \in T
      PROVE  n + 1 \in T
  <2>1. Power[n] \in Nat /\ Power[n + 1] = Base * Power[n] /\ n < Power[n]
    BY <1>2, Powers
  <2>2. Base * Power[n] >= 2 * Power[n]
    BY <2>1, MoneyAssumption
  <2>3. Power[n + 1] >= 2 * Power[n] /\ Power[n + 1] \in Nat
    BY <2>1, <2>2, Powers
  <2>4. n + 1 < Power[n + 1]
    BY <2>1, <2>3
  <2> QED
    BY <2>4
<1> HIDE DEF T
<1>3. \A n \in Nat : n \in T
  BY <1>1, <1>2, Induction
<1> QED
  BY <1>3 DEF T

\* As many digits as needed, and one for zero (format_minor_units: the whole).
LEMMA DigitsNumeral ==
  ASSUME NEW n \in Nat
  PROVE  /\ Digits(n) \in Seq(Digit) /\ Digits(n) \in Seq(Nat)
         /\ Digits(n) # <<>>
         /\ Numeral(Digits(n)) = n
<1> DEFINE Fits(w) == n < Power[w] /\ \A v \in 1 .. w - 1 : n >= Power[v]
           Wide == {w \in Nat : w # 0 /\ n < Power[w]}
<1>1. n + 1 \in Wide
  <2>1. n + 1 \in Nat /\ n + 1 < Power[n + 1]
    BY PowersGrow
  <2> QED
    BY <2>1, Powers
<1>2. PICK w \in Wide : \A v \in Wide : w <= v
  BY <1>1, Least
<1>3. w \in 1 .. n + 1 /\ n < Power[w]
  BY <1>1, <1>2
<1>4. \A v \in 1 .. w - 1 : n >= Power[v]
  <2> SUFFICES ASSUME NEW v \in 1 .. w - 1
               PROVE  n >= Power[v]
    OBVIOUS
  <2>1. v \in Nat /\ v # 0 /\ v \notin Wide
    BY <1>2
  <2> QED
    BY <2>1, Powers
<1>5. \E v \in 1 .. n + 1 : Fits(v)
  BY <1>3, <1>4
<1> DEFINE width == CHOOSE v \in 1 .. n + 1 : Fits(v)
<1>6. width \in 1 .. n + 1 /\ Fits(width)
  BY <1>5
<1>7. Digits(n) = Padded(n, width)
  BY DEF Digits
<1> HIDE DEF width
<1>8. width \in Nat /\ width # 0 /\ n < Power[width]
  BY <1>6
<1>9. Padded(n, width) # <<>>
  BY <1>8, PaddedNumeral
<1> QED
  BY <1>7, <1>8, <1>9, PaddedNumeral

(***************************************************************************)
(* PART 2: AMOUNTS.                                                        *)
(***************************************************************************)
LEMMA Constants ==
  /\ Base \in Nat \ {0} /\ Digit \subseteq Nat
  /\ I64 \subseteq Int /\ 0 \in I64 /\ I64 \cap Nat = 0 .. MaxI64
BY MoneyAssumption DEF Digit, I64

\* The value of a text, put together from its two numerals.
LEMMA NumeratorOf ==
  ASSUME NEW text, IsText(text)
  PROVE  /\ text.whole \in Seq(Nat) /\ text.fraction \in Seq(Nat)
         /\ Numeral(text.whole) \in Nat /\ Numeral(text.fraction) \in Nat
         /\ Numeral(text.whole \o text.fraction) \in Nat
         /\ Numeral(text.whole \o text.fraction)
              = Numeral(text.whole) * Power[Len(text.fraction)] + Numeral(text.fraction)
<1>1. text.whole \in Seq(Nat) /\ text.fraction \in Seq(Nat)
  <2>1. \A digits \in Seq(Digit) : digits \in Seq(Nat)
    <3> SUFFICES ASSUME NEW digits \in Seq(Digit)
                 PROVE  digits \in Seq(Nat)
      OBVIOUS
    <3>1. \A k \in 1 .. Len(digits) : digits[k] \in Digit
      OBVIOUS
    <3>2. \A k \in 1 .. Len(digits) : digits[k] \in Nat
      BY <3>1, Constants
    <3> QED
      BY <3>2
  <2> QED
    BY <2>1 DEF IsText
<1> DEFINE w == Numeral(text.whole)
           f == Numeral(text.fraction)
           p == Power[Len(text.fraction)]
<1>2. w \in Nat /\ f \in Nat /\ Numeral(text.whole \o text.fraction) = w * p + f
  BY <1>1, NumeralConcatenates
<1>3. p \in Nat
  <2>1. Len(text.fraction) \in Nat
    BY <1>1
  <2> QED
    BY <2>1, Powers
<1> HIDE DEF w, f, p
<1>4. w * p + f \in Nat
  BY <1>2, <1>3
<1> QED
  BY <1>1, <1>2, <1>4 DEF w, f, p

\* What comes of a text is one of three: it is no decimal, it is too fine for the
\* currency, or its value is taken or is too large (parse_minor_units).
LEMMA Parsed ==
  ASSUME NEW text, IsText(text), NEW scale \in Nat
  PROVE  \/ ~Wellformed(text) /\ ParseMinorUnits(text, scale) = Error("malformed")
         \/ /\ Len(text.fraction) > scale
            /\ ParseMinorUnits(text, scale) = Error("too_many_fractional_digits")
         \/ /\ Wellformed(text)
            /\ Len(text.fraction) <= scale
            /\ \E amount \in Int :
                 /\ amount * Power[Len(text.fraction)] = Numerator(text) * Power[scale]
                 /\ ParseMinorUnits(text, scale) =
                      IF amount \in I64 THEN Ok(amount) ELSE Error("overflow")
<1> DEFINE len == Len(text.fraction)
           w == Numeral(text.whole)
           f == Numeral(text.fraction)
<1>1. /\ len \in Nat /\ w \in Nat /\ f \in Nat
      /\ Numeral(text.whole \o text.fraction) = w * Power[len] + f
  BY NumeratorOf
<1>2. text.negative \in BOOLEAN
  BY DEF IsText
<1>3. CASE ~Wellformed(text)
  BY <1>3 DEF Wellformed, ParseMinorUnits
<1>4. CASE Wellformed(text) /\ len > scale
  BY <1>4 DEF Wellformed, ParseMinorUnits
<1>5. CASE Wellformed(text) /\ ~(len > scale)
  <2> DEFINE absolute == w * Power[scale] + f * Power[scale - len]
             amount == IF text.negative THEN -absolute ELSE absolute
  <2>1. ParseMinorUnits(text, scale) = IF amount \in I64 THEN Ok(amount) ELSE Error("overflow")
    BY <1>5 DEF Wellformed, ParseMinorUnits
  <2>2. len <= scale /\ scale - len \in Nat /\ (scale - len) + len = scale
    BY <1>1, <1>5
  <2>3. /\ Power[scale] \in Nat \ {0} /\ Power[len] \in Nat \ {0} /\ Power[scale - len] \in Nat \ {0}
        /\ Power[scale] = Power[scale - len] * Power[len]
    BY <1>1, <2>2, Powers, PowersMultiply
  <2> HIDE DEF len, w, f
  <2>4. absolute \in Nat
    BY <1>1, <2>3
  <2>5. absolute * Power[len] = (w * Power[len] + f) * Power[scale]
    <3> DEFINE p == Power[scale]
               q == Power[scale - len]
               d == Power[len]
    <3>1. p \in Int /\ q \in Int /\ d \in Int /\ p = q * d
      BY <2>3
    <3> HIDE DEF p, q, d
    <3>2. (w * p + f * q) * d = (w * p) * d + (f * q) * d
      BY <1>1, <3>1
    <3>3. (w * p) * d = (w * d) * p /\ (f * q) * d = f * p
      BY <1>1, <3>1
    <3>4. (w * d + f) * p = (w * d) * p + f * p
      BY <1>1, <3>1
    <3> QED
      BY <3>2, <3>3, <3>4 DEF p, q, d
  <2> HIDE DEF absolute
  <2>6. amount \in Int
    BY <1>2, <2>4
  <2>7. amount * Power[len] = Numerator(text) * Power[scale]
    <3> DEFINE n == w * Power[len] + f
    <3>1. n \in Nat
      BY <1>1, <2>3
    <3>2. Numerator(text) = IF text.negative THEN (-1) * n ELSE 1 * n
      <4>1. Numeral(text.whole \o text.fraction) = n
        BY <1>1
      <4> DEFINE sign == IF text.negative THEN -1 ELSE 1
      <4>2. Numerator(text) = sign * n
        BY <4>1 DEF Numerator
      <4> HIDE DEF n
      <4>3. CASE text.negative
        <5>1. sign = -1
          BY <4>3
        <5> HIDE DEF sign
        <5>2. Numerator(text) = (-1) * n
          BY <4>2, <5>1, Zenon
        <5> QED
          BY <4>3, <5>2
      <4>4. CASE ~text.negative
        <5>1. sign = 1
          BY <4>4
        <5> HIDE DEF sign
        <5>2. Numerator(text) = 1 * n
          BY <4>2, <5>1, Zenon
        <5> QED
          BY <4>4, <5>2
      <4> QED
        BY <4>3, <4>4
    <3>3. absolute * Power[len] = n * Power[scale]
      BY <2>5
    <3> HIDE DEF n
    <3>4. (-absolute) * Power[len] = -(absolute * Power[len])
      BY <2>3, <2>4
    <3>5. ((-1) * n) * Power[scale] = -(n * Power[scale]) /\ 1 * n = n
      BY <2>3, <3>1
    <3> QED
      BY <1>2, <3>2, <3>3, <3>4, <3>5
  <2> QED
    BY <1>5, <2>1, <2>2, <2>6, <2>7 DEF len
<1> QED
  BY <1>3, <1>4, <1>5

\* Whether an amount is worth what a text says.
Exact(text, scale, n) == n * Power[Len(text.fraction)] = Numerator(text) * Power[scale]

\* No text is worth two amounts.
LEMMA ExactOnce ==
  ASSUME NEW text, IsText(text), NEW scale \in Nat, NEW a \in Int, NEW b \in Int,
         Exact(text, scale, a), Exact(text, scale, b)
  PROVE  a = b
<1>1. Power[Len(text.fraction)] \in Nat \ {0}
  <2>1. Len(text.fraction) \in Nat
    BY NumeratorOf
  <2> QED
    BY <2>1, Powers
<1> QED
  BY <1>1, Cancel DEF Exact

\* Amounts below zero are worth less than nothing.
LEMMA ExactSign ==
  ASSUME NEW text, IsText(text), NEW scale \in Nat, NEW a \in Int, Exact(text, scale, a), a < 0
  PROVE  Numerator(text) < 0
<1> DEFINE p == Power[Len(text.fraction)]
           d == Power[scale]
           n == Numerator(text)
<1>1. p \in Nat \ {0} /\ d \in Nat \ {0}
  <2>1. Len(text.fraction) \in Nat
    BY NumeratorOf
  <2> QED
    BY <2>1, Powers
<1>2. n \in Int
  <2>1. Numeral(text.whole \o text.fraction) \in Nat
    BY NumeratorOf
  <2> QED
    BY <2>1 DEF Numerator
<1>3. a * p = n * d
  BY DEF Exact
<1> HIDE DEF p, d, n
<1>4. a * p < 0
  BY <1>1
<1>5. n >= 0 => n * d >= 0
  BY <1>1, <1>2
<1>6. ~(n >= 0)
  <2>1. n * d < 0
    BY <1>3, <1>4, Zenon
  <2>2. n * d \in Int
    BY <1>1, <1>2
  <2> DEFINE x == n * d
  <2>3. x \in Int /\ x < 0 /\ (n >= 0 => x >= 0)
    BY <1>5, <2>1, <2>2
  <2> HIDE DEF x
  <2> QED
    BY <2>3
<1>7. n < 0
  BY <1>2, <1>6
<1> QED
  BY <1>7 DEF n

\* The three outcomes of a text, as they are answered: parse_minor_units, and
\* parse_initial_balance, which refuses what is below zero.
LEMMA ParsedRightly ==
  ASSUME NEW text, IsText(text), NEW scale \in Nat, NEW initial \in BOOLEAN, NEW r,
         r = IF initial THEN ParseInitialBalance(text, scale) ELSE ParseMinorUnits(text, scale)
  PROVE  /\ r.status = "ok" => /\ Wellformed(text) /\ Exact(text, scale, r.value)
                               /\ initial => r.value >= 0
         /\ r.status = "negative" => initial /\ Numerator(text) < 0
         /\ r.status \notin {"ok", "negative"} =>
              \/ ~Wellformed(text)
              \/ Len(text.fraction) > scale
              \/ \A n \in I64 : ~Exact(text, scale, n)
<1> DEFINE parsed == ParseMinorUnits(text, scale)
<1>1. \/ ~Wellformed(text) /\ parsed = Error("malformed")
      \/ Len(text.fraction) > scale /\ parsed = Error("too_many_fractional_digits")
      \/ /\ Wellformed(text)
         /\ \E amount \in Int : /\ Exact(text, scale, amount)
                                /\ parsed = IF amount \in I64 THEN Ok(amount) ELSE Error("overflow")
  BY Parsed DEF Exact
<1>2. r = IF initial /\ parsed.value < 0 THEN Error("negative") ELSE parsed
  BY DEF ParseInitialBalance
<1> HIDE DEF parsed
<1>3. CASE ~Wellformed(text) /\ parsed = Error("malformed")
  BY <1>2, <1>3 DEF Error
<1>4. CASE Len(text.fraction) > scale /\ parsed = Error("too_many_fractional_digits")
  BY <1>2, <1>4 DEF Error
<1>5. CASE /\ Wellformed(text)
           /\ \E amount \in Int : /\ Exact(text, scale, amount)
                                  /\ parsed = IF amount \in I64 THEN Ok(amount)
                                              ELSE Error("overflow")
  <2>1. PICK amount \in Int : /\ Exact(text, scale, amount)
                              /\ parsed = IF amount \in I64 THEN Ok(amount) ELSE Error("overflow")
    BY <1>5
  <2>2. CASE amount \in I64
    <3>1. parsed = Ok(amount) /\ parsed.value = amount /\ parsed.status = "ok"
      BY <2>1, <2>2 DEF Ok
    <3>2. CASE initial /\ amount < 0
      <4>1. r.status = "negative"
        BY <1>2, <3>1, <3>2 DEF Error
      <4>2. Numerator(text) < 0
        BY <2>1, <3>2, ExactSign
      <4> QED
        BY <3>2, <4>1, <4>2
    <3>3. CASE ~(initial /\ amount < 0)
      <4>1. r = parsed
        BY <1>2, <3>1, <3>3
      <4> QED
        BY <1>5, <2>1, <3>1, <3>3, <4>1
    <3> QED
      BY <3>2, <3>3
  <2>3. CASE amount \notin I64
    <3>1. parsed = Error("overflow") /\ r = parsed
      BY <1>2, <2>1, <2>3 DEF Error
    <3>2. \A n \in I64 : ~Exact(text, scale, n)
      BY <2>1, <2>3, ExactOnce, Constants
    <3> QED
      BY <3>1, <3>2 DEF Error
  <2> QED
    BY <2>2, <2>3
<1> QED
  BY <1>1, <1>3, <1>4, <1>5

\* What is shown of an amount is read as that amount (format_minor_units).
LEMMA ShownAndRead ==
  ASSUME NEW amount \in I64, NEW scale \in Nat
  PROVE  ParseMinorUnits(FormatMinorUnits(amount, scale), scale) = Ok(amount)
<1> DEFINE absolute == IF amount < 0 THEN -amount ELSE amount
           d == Power[scale]
           text == FormatMinorUnits(amount, scale)
<1>1. d \in Nat \ {0} /\ absolute \in Nat /\ amount \in Int
  BY Powers, Constants
<1> HIDE DEF d
<1> DEFINE w == absolute \div d
           f == absolute % d
<1>2. w \in Nat /\ f \in 0 .. d - 1 /\ absolute = w * d + f
  BY <1>1, Division
<1>3. /\ text.negative <=> amount < 0
      /\ text.point <=> scale > 0
      /\ text.whole = Digits(w)
      /\ text.fraction = (IF scale > 0 THEN Padded(f, scale) ELSE <<>>) /\ text.other = FALSE
  BY DEF FormatMinorUnits, d
<1> HIDE DEF text, w, f
<1>4. Digits(w) # <<>> /\ Numeral(Digits(w)) = w
  BY <1>2, DigitsNumeral
<1>5. /\ Len(text.fraction) = scale
      /\ Numeral(text.fraction) = f
      /\ text.point => text.fraction # <<>>
  <2>1. CASE scale > 0
    <3>1. f \in Nat /\ f < Power[scale]
      BY <1>1, <1>2 DEF d
    <3>2. Len(Padded(f, scale)) = scale /\ Numeral(Padded(f, scale)) = f
      BY <3>1, PaddedNumeral
    <3>3. Padded(f, scale) # <<>>
      BY <2>1, <3>2
    <3>4. text.fraction = Padded(f, scale)
      BY <1>3, <2>1
    <3> QED
      BY <3>2, <3>3, <3>4
  <2>2. CASE ~(scale > 0)
    <3>1. scale = 0 /\ d = 1
      BY <2>2, Powers DEF d
    <3>2. f = 0
      BY <1>2, <3>1
    <3> QED
      BY <1>3, <2>2, <3>1, <3>2, NoDigits
  <2> QED
    BY <2>1, <2>2
<1>6. Power[scale - Len(text.fraction)] = 1
  <2>1. scale - Len(text.fraction) = 0
    BY <1>5
  <2> QED
    BY <2>1, Powers
<1>7. Numeral(text.whole) * Power[scale] + Numeral(text.fraction) * Power[scale - Len(text.fraction)]
        = absolute
  <2>1. f * 1 = f
    BY <1>1, <1>2
  <2> QED
    BY <1>2, <1>3, <1>4, <1>5, <1>6, <2>1 DEF d
<1>8. (IF text.negative THEN -absolute ELSE absolute) = amount
  <2>1. CASE amount < 0
    <3>1. text.negative /\ -absolute = amount
      BY <1>1, <1>3, <2>1
    <3> HIDE DEF absolute
    <3> QED
      BY <3>1
  <2>2. CASE ~(amount < 0)
    <3>1. ~text.negative /\ absolute = amount
      BY <1>1, <1>3, <2>2
    <3> HIDE DEF absolute
    <3> QED
      BY <3>1
  <2> QED
    BY <2>1, <2>2
<1>9. ~(text.other \/ text.whole = <<>> \/ (text.point /\ text.fraction = <<>>))
  BY <1>3, <1>4, <1>5
<1>10. ~(Len(text.fraction) > scale)
  BY <1>5
<1> HIDE DEF absolute
<1>11. ParseMinorUnits(text, scale) = Ok(amount)
  BY <1>7, <1>8, <1>9, <1>10 DEF ParseMinorUnits
<1> QED
  BY <1>11 DEF text

\* A quotient that is rounded half up is the nearest amount (half_up_divide).
LEMMA HalfUpNearest ==
  ASSUME NEW n \in Nat, NEW d \in Nat \ {0}
  PROVE  /\ HalfUpDivide(n, d) \in Nat
         /\ 2 * (HalfUpDivide(n, d) * d - n) <= d
         /\ 2 * (n - HalfUpDivide(n, d) * d) < d
<1> DEFINE q == n \div d
           r == n % d
<1>1. q \in Nat /\ r \in 0 .. d - 1 /\ n = q * d + r
  BY Division
<1>2. HalfUpDivide(n, d) = q + (IF 2 * r >= d THEN 1 ELSE 0)
  BY DEF HalfUpDivide
<1> HIDE DEF q, r
<1>3. (q + 1) * d = q * d + d /\ q * d \in Nat
  BY <1>1
<1>4. CASE 2 * r >= d
  <2>1. HalfUpDivide(n, d) = q + 1
    BY <1>2, <1>4
  <2> QED
    BY <1>1, <1>3, <1>4, <2>1
<1>5. CASE ~(2 * r >= d)
  <2>1. HalfUpDivide(n, d) = q
    BY <1>1, <1>2, <1>5
  <2> QED
    BY <1>1, <1>3, <1>5, <2>1
<1> QED
  BY <1>4, <1>5

\* A conversion that is made is the nearest amount to the product with a rate that is
\* positive and exact (ExactRate::parse, calculate_destination).
LEMMA ConvertedRightly ==
  ASSUME NEW amount \in Int, NEW from \in Nat, NEW to \in Nat, NEW text, IsText(text),
         ParseRate(text).status = "ok",
         NEW r, r = CalculateDestination(amount, from, to, ParseRate(text).value),
         r.status = "ok"
  PROVE  LET n == amount * Numerator(text) * Power[to]
             d == Power[Len(text.fraction) + from]
         IN  /\ r.value \in 1 .. MaxI64
             /\ 2 * (r.value * d - n) <= d
             /\ 2 * (n - r.value * d) < d
<1> DEFINE coefficient == Numeral(text.whole \o text.fraction)
           len == Len(text.fraction)
<1>1. len \in Nat /\ coefficient \in Nat
  BY NumeratorOf
<1>2. /\ ParseRate(text) = Ok([coefficient |-> coefficient, scale |-> len])
      /\ ~text.negative
  BY DEF ParseRate, Error
<1>3. Numerator(text) = coefficient
  <2>1. Numerator(text) = 1 * coefficient
    BY <1>2 DEF Numerator
  <2> HIDE DEF coefficient
  <2> QED
    BY <1>1, <2>1
<1>4. ParseRate(text).value.coefficient = coefficient /\ ParseRate(text).value.scale = len
  BY <1>2 DEF Ok
<1> HIDE DEF coefficient, len
<1> DEFINE n == amount * coefficient * Power[to]
           d == Power[len] * Power[from]
           q == HalfUpDivide(n, d)
<1>5. r = IF amount <= 0 THEN Error("invalid_amount")
          ELSE IF from > MaxScale \/ to > MaxScale THEN Error("invalid_scale")
          ELSE CASE q = 0 -> Error("destination_too_small")
                 [] q \notin I64 -> Error("overflow")
                 [] OTHER -> Ok(q)
  BY <1>4 DEF CalculateDestination
<1>6. amount > 0 /\ q # 0 /\ q \in I64 /\ r = Ok(q)
  <2> HIDE DEF q
  <2> QED
    BY <1>5 DEF Error, Ok
<1>7. d = Power[len + from] /\ d \in Nat \ {0}
  BY <1>1, Powers, PowersMultiply, Positive
<1>8. n \in Nat
  <2>1. Power[to] \in Nat /\ amount * coefficient \in Nat
    BY <1>1, <1>6, Powers
  <2> QED
    BY <2>1
<1> HIDE DEF n, d
<1>9. q \in Nat /\ 2 * (q * d - n) <= d /\ 2 * (n - q * d) < d
  BY <1>7, <1>8, HalfUpNearest
<1> HIDE DEF q
<1>10. r.value = q /\ q \in 1 .. MaxI64
  BY <1>6, <1>9, Constants DEF Ok
<1> QED
  BY <1>3, <1>7, <1>9, <1>10 DEF n, len

(***************************************************************************)
(* PART 3: ANSWERS.                                                        *)
(***************************************************************************)
Phases == {"entry", "begin", "unobserved", "observed"}

\* All codes.
Codes ==
  LabelledCodes \cup
  {"unauthorized", "missing_idempotency_key", "duplicate_idempotency_key",
   "malformed_idempotency_key", "unsupported_currency", "negative_initial_balance",
   "invalid_limit", "invalid_cursor", "malformed_counterparty_account_id",
   "not_found", "service_unavailable", "internal_error", "replayed"}

\* The errors of some variants.
ErrorsOf(V) == [variant : V, code : Codes]

\* The errors of some variants that are counted under the code that is answered: one
\* of financial_reason's, or the variant itself.
Told(V) ==
  {error \in ErrorsOf(V) :
     /\ error.variant \in {"validation", "business"} => error.code \in LabelledCodes
     /\ error.variant = "internal_error" => error.code = "internal_error"}

\* The checks of some phases: those that are counted have an error that can be told.
ChecksOf(V, P) ==
  {check \in [phase : P, error : ErrorsOf(V)] :
     check.phase \in {"begin", "observed"} => check.error \in Told(V)}

LEMMA Concatenation ==
  ASSUME NEW S, NEW a \in Seq(S), NEW b \in Seq(S)
  PROVE  a \o b \in Seq(S) /\ Len(a \o b) = Len(a) + Len(b)
OBVIOUS

LEMMA Associative ==
  ASSUME NEW S, NEW a \in Seq(S), NEW b \in Seq(S), NEW c \in Seq(S)
  PROVE  (a \o b) \o c = a \o (b \o c)
OBVIOUS

LEMMA Widening ==
  ASSUME NEW S, NEW T, S \subseteq T, NEW a \in Seq(S)
  PROVE  a \in Seq(T)
<1>1. \A i \in 1 .. Len(a) : a[i] \in S
  OBVIOUS
<1>2. \A i \in 1 .. Len(a) : a[i] \in T
  BY <1>1
<1> QED
  BY <1>2

\* A piece of a handler.
LEMMA InKinds ==
  ASSUME NEW S, NEW E, NEW errors \in Seq(E), NEW phase,
         \A e \in E : [phase |-> phase, error |-> e] \in S
  PROVE  In(phase, errors) \in Seq(S) /\ Len(In(phase, errors)) = Len(errors)
<1>1. \A i \in 1 .. Len(errors) : errors[i] \in E
  OBVIOUS
<1>2. DOMAIN errors = 1 .. Len(errors) /\ Len(errors) \in Nat
  OBVIOUS
<1> DEFINE checks == In(phase, errors)
<1>3. checks \in [1 .. Len(errors) -> S]
  BY <1>1, <1>2 DEF In
<1> HIDE DEF checks
<1>4. checks \in Seq(S) /\ Len(checks) = Len(errors)
  BY <1>2, <1>3
<1> QED
  BY <1>4 DEF checks

\* Checks before there is a connection, or that nothing observes, are not counted.
LEMMA Uncounted ==
  ASSUME NEW V, NEW W, V \subseteq W, NEW errors \in Seq(ErrorsOf(V)),
         NEW P, NEW phase \in P, phase \notin {"begin", "observed"}
  PROVE  In(phase, errors) \in Seq(ChecksOf(W, P))
<1>1. \A e \in ErrorsOf(V) : [phase |-> phase, error |-> e] \in ChecksOf(W, P)
  BY DEF ChecksOf, ErrorsOf
<1> QED
  BY <1>1, InKinds

LEMMA Counted ==
  ASSUME NEW V, NEW W, V \subseteq W, NEW errors \in Seq(Told(V)), NEW P, NEW phase \in P
  PROVE  In(phase, errors) \in Seq(ChecksOf(W, P))
<1>1. \A e \in Told(V) : [phase |-> phase, error |-> e] \in ChecksOf(W, P)
  BY DEF ChecksOf, Told, ErrorsOf
<1> QED
  BY <1>1, InKinds

LEMMA Tuples ==
  ASSUME NEW S, NEW a \in S, NEW b \in S, NEW c \in S, NEW d \in S, NEW e \in S
  PROVE  /\ <<a>> \in Seq(S) /\ <<a, b>> \in Seq(S) /\ <<a, b, c>> \in Seq(S)
         /\ <<a, b, c, d>> \in Seq(S) /\ <<a, b, c, d, e>> \in Seq(S)
OBVIOUS

LEMMA Kinds ==
  /\ \A code \in Codes : Validation(code) \in ErrorsOf({"validation"})
  /\ \A code \in LabelledCodes : /\ Validation(code) \in Told({"validation"})
                                 /\ Business(code) \in Told({"business"})
  /\ Internal \in Told({"internal_error"})
  /\ Replayed \in Told({"replayed"})
  /\ \A code \in {"idempotency_conflict", "account_unavailable", "not_found"} :
       Plain(code) \in Told({code})
  /\ \A code \in {"unauthorized", "not_found", "account_unavailable", "service_unavailable",
                   "internal_error"} :
       Plain(code) \in ErrorsOf({code})
  /\ \A V, W : V \subseteq W => ErrorsOf(V) \subseteq ErrorsOf(W) /\ Told(V) \subseteq Told(W)
BY DEF Validation, Business, Internal, Replayed, Plain, ErrorsOf, Told, Codes, LabelledCodes

\* The pieces that handlers are made of.
LEMMA AuthenticationKinds == Authentication \in Seq(ErrorsOf({"unauthorized"}))
BY Kinds, Tuples DEF Authentication

LEMMA IdempotencyKeyKinds == IdempotencyKey \in Seq(ErrorsOf({"validation"}))
BY Kinds, Tuples DEF IdempotencyKey, Codes

LEMMA ReservationKinds ==
  Reservation \in Seq(Told({"internal_error", "idempotency_conflict", "replayed"}))
<1> DEFINE S == Told({"internal_error", "idempotency_conflict", "replayed"})
<1>1. Internal \in S /\ Plain("idempotency_conflict") \in S /\ Replayed \in S
  BY Kinds
<1> HIDE DEF S
<1>2. Reservation \in Seq(S)
  BY <1>1, Tuples DEF Reservation
<1> QED
  BY <1>2 DEF S

LEMMA AmountKinds == Amount \in Seq(Told({"validation"}))
<1> DEFINE S == Told({"validation"})
<1>1. /\ Validation("malformed_amount") \in S
      /\ Validation("too_many_fractional_digits") \in S
      /\ Validation("amount_overflow") \in S
      /\ Validation("non_positive_amount") \in S
  BY Kinds DEF LabelledCodes
<1>2. Amount = <<Validation("malformed_amount"), Validation("too_many_fractional_digits"),
                 Validation("amount_overflow"), Validation("non_positive_amount")>>
  BY DEF Amount, Each, TransferMoneyError, MoneyError
<1> HIDE DEF S
<1>3. Amount \in Seq(S)
  BY <1>1, <1>2, Tuples
<1> QED
  BY <1>3 DEF S

LEMMA ConfigurationKinds == Configuration \in Seq(Told({"business"}))
<1> DEFINE S == Told({"business"})
<1>1. /\ Business("rate_unavailable") \in S
      /\ Business("rate_configuration_ambiguous") \in S
      /\ Business("fee_rule_unavailable") \in S
      /\ Business("fee_rule_configuration_ambiguous") \in S
  BY Kinds DEF LabelledCodes
<1>2. Configuration = <<Business("rate_unavailable"), Business("rate_configuration_ambiguous"),
                        Business("fee_rule_unavailable"),
                        Business("fee_rule_configuration_ambiguous")>>
  BY DEF Configuration, Each, TransferConfigurationError
<1> HIDE DEF S
<1>3. Configuration \in Seq(S)
  BY <1>1, <1>2, Tuples
<1> QED
  BY <1>3 DEF S

LEMMA ConversionKinds == Conversion \in Seq(Told({"business", "internal_error"}))
<1> DEFINE S == Told({"business", "internal_error"})
<1>1. /\ Business("arithmetic_overflow") \in S
      /\ Business("destination_amount_too_small") \in S
      /\ Internal \in S
  BY Kinds DEF LabelledCodes
<1>2. Conversion = <<Business("arithmetic_overflow"), Internal, Internal,
                     Business("destination_amount_too_small"), Business("arithmetic_overflow")>>
  BY DEF Conversion, Each, TransferArithmeticError
<1> HIDE DEF S
<1>3. Conversion \in Seq(S)
  BY <1>1, <1>2, Tuples
<1> QED
  BY <1>3 DEF S

LEMMA BalancesKinds == Balances \in Seq(Told({"business", "internal_error"}))
<1> DEFINE S == Told({"business", "internal_error"})
<1>1. Business("insufficient_funds") \in S /\ Business("arithmetic_overflow") \in S /\ Internal \in S
  BY Kinds DEF LabelledCodes
<1> HIDE DEF S
<1>2. Balances \in Seq(S)
  BY <1>1, Tuples DEF Balances
<1> QED
  BY <1>2 DEF S

LEMMA ParseQueryKinds == ParseQuery \in Seq(ErrorsOf({"validation"}))
<1> DEFINE S == ErrorsOf({"validation"})
<1>1. /\ Validation("invalid_limit") \in S /\ Validation("invalid_cursor") \in S
      /\ Validation("malformed_counterparty_account_id") \in S
  BY Kinds DEF Codes
<1> HIDE DEF S
<1>2. ParseQuery \in Seq(S)
  BY <1>1, Tuples DEF ParseQuery
<1> QED
  BY <1>2 DEF S

(***************************************************************************)
(* The handlers.                                                           *)
(***************************************************************************)
Writes == {"unauthorized", "validation", "internal_error", "idempotency_conflict", "replayed"}
Payments == Writes \cup {"account_unavailable", "business"}
Reversals == Payments \cup {"not_found"}
Reads == {"unauthorized", "validation", "internal_error", "not_found"}

\* Before a key is looked up.
LEMMA EntryKinds ==
  ASSUME NEW errors \in Seq(ErrorsOf({"validation"}))
  PROVE  /\ Authentication \o IdempotencyKey \o errors \in Seq(ErrorsOf({"unauthorized", "validation"}))
         /\ Authentication \o errors \in Seq(ErrorsOf({"unauthorized", "validation"}))
<1> DEFINE S == ErrorsOf({"unauthorized", "validation"})
<1>1. ErrorsOf({"unauthorized"}) \subseteq S /\ ErrorsOf({"validation"}) \subseteq S
  BY Kinds
<1> HIDE DEF S
<1>2. Authentication \in Seq(S) /\ IdempotencyKey \in Seq(S) /\ errors \in Seq(S)
  BY <1>1, AuthenticationKinds, IdempotencyKeyKinds, Widening
<1>3. Authentication \o IdempotencyKey \in Seq(S)
  BY <1>2, Concatenation
<1>4. (Authentication \o IdempotencyKey) \o errors \in Seq(S) /\ Authentication \o errors \in Seq(S)
  BY <1>2, <1>3, Concatenation
<1> QED
  BY <1>4 DEF S

LEMMA CreateAccountKinds == CreateAccount \in Seq(ChecksOf(Writes, {"entry", "unobserved"}))
<1> DEFINE P == {"entry", "unobserved"}
           amounts == Each(MoneyError, <<"malformed", "too_many_fractional_digits",
                                         "overflow", "negative">>)
           E == ErrorsOf({"validation"})
           request == <<Validation("invalid_json"), Validation("unsupported_currency")>>
           keyed == Authentication \o IdempotencyKey \o request
           before == Authentication \o IdempotencyKey \o request \o amounts
           inside == <<Internal>> \o Reservation \o <<Internal>>
<1>1. request \in Seq(E)
  <2>1. Validation("invalid_json") \in E /\ Validation("unsupported_currency") \in E
    BY Kinds DEF Codes, LabelledCodes
  <2> HIDE DEF E
  <2> QED
    BY <2>1, Tuples
<1>2. amounts \in Seq(E)
  <2>1. /\ Validation("malformed_amount") \in E
        /\ Validation("too_many_fractional_digits") \in E
        /\ Validation("amount_overflow") \in E
        /\ Validation("negative_initial_balance") \in E
    BY Kinds DEF Codes, LabelledCodes
  <2>2. amounts = <<Validation("malformed_amount"), Validation("too_many_fractional_digits"),
                    Validation("amount_overflow"), Validation("negative_initial_balance")>>
    BY DEF Each, MoneyError
  <2> HIDE DEF E, amounts
  <2> QED
    BY <2>1, <2>2, Tuples
<1> HIDE DEF amounts
<1>3. before \in Seq(ErrorsOf({"unauthorized", "validation"}))
  <2>1. keyed \in Seq(ErrorsOf({"unauthorized", "validation"}))
    BY <1>1, EntryKinds
  <2>2. amounts \in Seq(ErrorsOf({"unauthorized", "validation"}))
    <3>1. E \subseteq ErrorsOf({"unauthorized", "validation"})
      BY Kinds
    <3> QED
      BY <1>2, <3>1, Widening
  <2> HIDE DEF keyed
  <2>3. keyed \o amounts \in Seq(ErrorsOf({"unauthorized", "validation"}))
    BY <2>1, <2>2, Concatenation
  <2> QED
    BY <2>3 DEF keyed
<1>4. inside \in Seq(ErrorsOf({"internal_error", "idempotency_conflict", "replayed"}))
  <2> DEFINE S == ErrorsOf({"internal_error", "idempotency_conflict", "replayed"})
  <2>1. Internal \in S /\ Plain("idempotency_conflict") \in S /\ Replayed \in S
    BY Kinds DEF Told
  <2> HIDE DEF S
  <2>2. <<Internal>> \in Seq(S) /\ Reservation \in Seq(S)
    BY <2>1, Tuples DEF Reservation
  <2>3. <<Internal>> \o Reservation \in Seq(S)
    BY <2>2, Concatenation
  <2>4. inside \in Seq(S)
    BY <2>2, <2>3, Concatenation
  <2> QED
    BY <2>4 DEF S
<1> HIDE DEF before, inside
<1> DEFINE S == ChecksOf(Writes, P)
<1>5. In("entry", before) \in Seq(S)
  <2>1. {"unauthorized", "validation"} \subseteq Writes
    BY DEF Writes
  <2> QED
    BY <1>3, <2>1, Uncounted
<1>6. In("unobserved", inside) \in Seq(S)
  <2>1. {"internal_error", "idempotency_conflict", "replayed"} \subseteq Writes
    BY DEF Writes
  <2> QED
    BY <1>4, <2>1, Uncounted
<1> HIDE DEF S
<1>7. CreateAccount = In("entry", before) \o In("unobserved", inside)
  BY DEF CreateAccount, before, inside, amounts
<1>8. CreateAccount \in Seq(S)
  BY <1>5, <1>6, <1>7, Concatenation
<1> QED
  BY <1>8 DEF S

LEMMA TransferEntryKinds == TransferEntry \in Seq(ChecksOf(Payments, {"entry", "unobserved"}))
<1> DEFINE request == <<Validation("invalid_json"), Validation("malformed_account_id"),
                        Validation("same_source_and_destination")>>
           before == Authentication \o IdempotencyKey \o request
           first == <<Internal, Plain("account_unavailable")>>
           S == ChecksOf(Payments, {"entry", "unobserved"})
<1>1. before \in Seq(ErrorsOf({"unauthorized", "validation"}))
  <2> DEFINE E == ErrorsOf({"validation"})
  <2>1. /\ Validation("invalid_json") \in E /\ Validation("malformed_account_id") \in E
        /\ Validation("same_source_and_destination") \in E
    BY Kinds DEF Codes, LabelledCodes
  <2> HIDE DEF E
  <2>2. request \in Seq(E)
    BY <2>1, Tuples
  <2> HIDE DEF request
  <2> QED
    BY <2>2, EntryKinds DEF E
<1>2. first \in Seq(ErrorsOf({"internal_error", "account_unavailable"}))
  <2> DEFINE E == ErrorsOf({"internal_error", "account_unavailable"})
  <2>1. Internal \in E /\ Plain("account_unavailable") \in E
    BY Kinds DEF Told
  <2> HIDE DEF E
  <2>2. first \in Seq(E)
    BY <2>1, Tuples
  <2> QED
    BY <2>2 DEF E
<1> HIDE DEF before, first
<1>3. In("entry", before) \in Seq(S)
  <2>1. {"unauthorized", "validation"} \subseteq Payments
    BY DEF Writes, Payments
  <2> QED
    BY <1>1, <2>1, Uncounted
<1>4. In("unobserved", first) \in Seq(S)
  <2>1. {"internal_error", "account_unavailable"} \subseteq Payments
    BY DEF Writes, Payments
  <2> QED
    BY <1>2, <2>1, Uncounted
<1>5. TransferEntry = In("entry", before) \o In("unobserved", first)
  BY DEF TransferEntry, before, first
<1> HIDE DEF S
<1>6. TransferEntry \in Seq(S)
  BY <1>3, <1>4, <1>5, Concatenation
<1> QED
  BY <1>6 DEF S

\* What create_transfer checks after it has looked its key up.
Pricing(fx) ==
  (IF fx THEN Configuration ELSE <<>>) \o <<Plain("account_unavailable")>>
  \o (IF fx THEN Conversion ELSE <<>>) \o Balances

LEMMA PricingKinds ==
  ASSUME NEW fx \in BOOLEAN
  PROVE  Pricing(fx) \in Seq(Told({"account_unavailable", "business", "internal_error"}))
<1> DEFINE S == Told({"account_unavailable", "business", "internal_error"})
           c == IF fx THEN Configuration ELSE <<>>
           d == IF fx THEN Conversion ELSE <<>>
           inactive == <<Plain("account_unavailable")>>
<1>1. /\ Told({"business"}) \subseteq S /\ Told({"business", "internal_error"}) \subseteq S
      /\ Plain("account_unavailable") \in S
  BY Kinds
<1> HIDE DEF S
<1>2. <<>> \in Seq(S) /\ inactive \in Seq(S)
  BY <1>1, Tuples
<1>3. Configuration \in Seq(S) /\ Conversion \in Seq(S) /\ Balances \in Seq(S)
  BY <1>1, ConfigurationKinds, ConversionKinds, BalancesKinds, Widening
<1>4. c \in Seq(S) /\ d \in Seq(S)
  BY <1>2, <1>3
<1> HIDE DEF c, d, inactive
<1>5. c \o inactive \in Seq(S)
  BY <1>2, <1>4, Concatenation
<1>6. (c \o inactive) \o d \in Seq(S)
  BY <1>4, <1>5, Concatenation
<1>7. ((c \o inactive) \o d) \o Balances \in Seq(S)
  BY <1>3, <1>6, Concatenation
<1> QED
  BY <1>7 DEF Pricing, S, c, d, inactive

\* The amount is checked and the key looked up before all that may change.
LEMMA CreateTransferParts ==
  ASSUME NEW fx \in BOOLEAN
  PROVE  CreateTransfer(fx)
           = TransferEntry \o In("observed", (Amount \o Reservation) \o Pricing(fx))
<1> DEFINE E == ErrorsOf(Payments)
           configured == IF fx THEN Configuration ELSE <<>>
           converted == IF fx THEN Conversion ELSE <<>>
           inactive == <<Plain("account_unavailable")>>
           first == Amount \o Reservation
<1>1. \A V : V \subseteq Payments => Told(V) \subseteq E
  BY DEF Told, ErrorsOf
<1>2. /\ Told({"validation"}) \subseteq E /\ Told({"business"}) \subseteq E
      /\ Told({"business", "internal_error"}) \subseteq E
      /\ Told({"internal_error", "idempotency_conflict", "replayed"}) \subseteq E
      /\ Told({"account_unavailable"}) \subseteq E
  BY <1>1 DEF Payments, Writes
<1> HIDE DEF E
<1>3. /\ Amount \in Seq(E) /\ Reservation \in Seq(E)
      /\ Configuration \in Seq(E) /\ Conversion \in Seq(E) /\ Balances \in Seq(E)
  BY <1>2, AmountKinds, ReservationKinds, ConfigurationKinds, ConversionKinds, BalancesKinds, Widening
<1>4. Plain("account_unavailable") \in E
  BY <1>2, Kinds
<1>5. <<>> \in Seq(E) /\ inactive \in Seq(E)
  BY <1>4, Tuples
<1>6. configured \in Seq(E) /\ converted \in Seq(E) /\ first \in Seq(E)
  BY <1>3, <1>5, Concatenation
<1>7. CreateTransfer(fx)
        = TransferEntry \o In("observed", ((((Amount \o Reservation) \o configured) \o inactive) \o converted) \o Balances)
  BY DEF CreateTransfer
<1>8. Pricing(fx) = ((configured \o inactive) \o converted) \o Balances
  BY DEF Pricing
<1> HIDE DEF configured, converted, inactive, first
<1> DEFINE x == configured \o inactive
           y == x \o converted
<1>9. x \in Seq(E) /\ y \in Seq(E)
  <2>1. x \in Seq(E)
    BY <1>5, <1>6, Concatenation
  <2> HIDE DEF x
  <2> QED
    BY <1>6, <2>1, Concatenation
<1>10. (first \o configured) \o inactive = first \o x
  BY <1>5, <1>6, Associative
<1> HIDE DEF x
<1>11. (first \o x) \o converted = first \o y
  BY <1>6, <1>9, Associative
<1> HIDE DEF y
<1>12. (first \o y) \o Balances = first \o (y \o Balances)
  <2> DEFINE z == Balances
  <2>1. first \in Seq(E) /\ y \in Seq(E) /\ z \in Seq(E)
    BY <1>3, <1>6, <1>9
  <2> HIDE DEF z
  <2>2. (first \o y) \o z = first \o (y \o z)
    BY <2>1, Associative
  <2> QED
    BY <2>2 DEF z
<1> QED
  BY <1>7, <1>8, <1>10, <1>11, <1>12 DEF first, x, y

LEMMA CreateTransferKinds ==
  ASSUME NEW fx \in BOOLEAN
  PROVE  CreateTransfer(fx) \in Seq(ChecksOf(Payments, Phases))
<1> DEFINE V == {"validation", "business", "internal_error", "idempotency_conflict", "replayed",
                 "account_unavailable"}
           E == Told(V)
           S == ChecksOf(Payments, Phases)
<1>1. /\ Told({"validation"}) \subseteq E
      /\ Told({"internal_error", "idempotency_conflict", "replayed"}) \subseteq E
      /\ Told({"account_unavailable", "business", "internal_error"}) \subseteq E
  BY Kinds
<1> HIDE DEF E
<1>2. Amount \in Seq(E) /\ Reservation \in Seq(E) /\ Pricing(fx) \in Seq(E)
  BY <1>1, AmountKinds, ReservationKinds, PricingKinds, Widening
<1>3. Amount \o Reservation \in Seq(E)
  BY <1>2, Concatenation
<1>4. (Amount \o Reservation) \o Pricing(fx) \in Seq(E)
  BY <1>2, <1>3, Concatenation
<1>5. In("observed", (Amount \o Reservation) \o Pricing(fx)) \in Seq(S)
  <2>1. V \subseteq Payments /\ "observed" \in Phases
    BY DEF Payments, Writes, Phases
  <2> QED
    BY <1>4, <2>1, Counted DEF E
<1>6. TransferEntry \in Seq(S)
  <2>1. ChecksOf(Payments, {"entry", "unobserved"}) \subseteq S
    BY DEF ChecksOf, Phases
  <2> QED
    BY <2>1, TransferEntryKinds, Widening
<1> HIDE DEF S
<1>7. TransferEntry \o In("observed", (Amount \o Reservation) \o Pricing(fx)) \in Seq(S)
  BY <1>5, <1>6, Concatenation
<1> QED
  BY <1>7, CreateTransferParts DEF S

LEMMA LongTuples ==
  ASSUME NEW S, NEW a \in S, NEW b \in S, NEW c \in S, NEW d \in S, NEW e \in S, NEW f \in S,
         NEW g \in S
  PROVE  <<a, b, c, d, e, f, g>> \in Seq(S)
OBVIOUS

\* What reverse_transfer checks before its transaction, and after the key.
ReversalEntry ==
  In("entry", Authentication \o IdempotencyKey \o <<Validation("malformed_transfer_id")>>)
  \o In("begin", <<Internal>>)
Refusals ==
  <<Plain("not_found"), Business("reversal_of_reversal"), Plain("not_found"),
    Business("transfer_already_reversed"), Plain("account_unavailable"),
    Business("arithmetic_overflow"), Internal>>

LEMMA ReverseTransferParts == ReverseTransfer = ReversalEntry \o In("observed", Reservation \o Refusals)
BY DEF ReverseTransfer, ReversalEntry, Refusals

LEMMA ReversalEntryKinds == ReversalEntry \in Seq(ChecksOf(Reversals, {"entry", "begin"}))
<1> DEFINE request == <<Validation("malformed_transfer_id")>>
           before == Authentication \o IdempotencyKey \o request
           begin == <<Internal>>
           S == ChecksOf(Reversals, {"entry", "begin"})
<1>1. before \in Seq(ErrorsOf({"unauthorized", "validation"}))
  <2> DEFINE E == ErrorsOf({"validation"})
  <2>1. Validation("malformed_transfer_id") \in E
    BY Kinds DEF Codes, LabelledCodes
  <2> HIDE DEF E
  <2>2. request \in Seq(E)
    BY <2>1, Tuples
  <2> HIDE DEF request
  <2> QED
    BY <2>2, EntryKinds DEF E
<1>2. begin \in Seq(Told({"internal_error"}))
  <2> DEFINE E == Told({"internal_error"})
  <2>1. Internal \in E
    BY Kinds
  <2> HIDE DEF E
  <2>2. begin \in Seq(E)
    BY <2>1, Tuples
  <2> QED
    BY <2>2 DEF E
<1> HIDE DEF before, begin
<1>3. In("entry", before) \in Seq(S)
  <2>1. {"unauthorized", "validation"} \subseteq Reversals
    BY DEF Writes, Payments, Reversals
  <2> QED
    BY <1>1, <2>1, Uncounted
<1>4. In("begin", begin) \in Seq(S)
  <2>1. {"internal_error"} \subseteq Reversals
    BY DEF Writes, Payments, Reversals
  <2> QED
    BY <1>2, <2>1, Counted
<1>5. ReversalEntry = In("entry", before) \o In("begin", begin)
  BY DEF ReversalEntry, before, begin
<1> HIDE DEF S
<1>6. ReversalEntry \in Seq(S)
  BY <1>3, <1>4, <1>5, Concatenation
<1> QED
  BY <1>6 DEF S

LEMMA RefusalsKinds ==
  Refusals \in Seq(Told({"not_found", "business", "account_unavailable", "internal_error"}))
<1> DEFINE S == Told({"not_found", "business", "account_unavailable", "internal_error"})
<1>1. /\ Plain("not_found") \in S /\ Plain("account_unavailable") \in S
      /\ Internal \in S
  BY Kinds
<1>2. \A code \in LabelledCodes : Business(code) \in S
  BY Kinds
<1>3. /\ Business("reversal_of_reversal") \in S /\ Business("transfer_already_reversed") \in S
      /\ Business("arithmetic_overflow") \in S
  BY <1>2 DEF LabelledCodes
<1> HIDE DEF S
<1>4. Refusals \in Seq(S)
  BY <1>1, <1>3, LongTuples DEF Refusals
<1> QED
  BY <1>4 DEF S

LEMMA ReverseTransferKinds == ReverseTransfer \in Seq(ChecksOf(Reversals, Phases))
<1> DEFINE V == {"internal_error", "idempotency_conflict", "replayed", "not_found", "business",
                 "account_unavailable"}
           E == Told(V)
           S == ChecksOf(Reversals, Phases)
<1>1. /\ Told({"internal_error", "idempotency_conflict", "replayed"}) \subseteq E
      /\ Told({"not_found", "business", "account_unavailable", "internal_error"}) \subseteq E
  BY Kinds
<1> HIDE DEF E
<1>2. Reservation \in Seq(E) /\ Refusals \in Seq(E)
  BY <1>1, ReservationKinds, RefusalsKinds, Widening
<1>3. Reservation \o Refusals \in Seq(E)
  BY <1>2, Concatenation
<1>4. In("observed", Reservation \o Refusals) \in Seq(S)
  <2>1. V \subseteq Reversals /\ "observed" \in Phases
    BY DEF Reversals, Payments, Writes, Phases
  <2> QED
    BY <1>3, <2>1, Counted DEF E
<1>5. ReversalEntry \in Seq(S)
  <2>1. ChecksOf(Reversals, {"entry", "begin"}) \subseteq S
    BY DEF ChecksOf, Phases
  <2> QED
    BY <2>1, ReversalEntryKinds, Widening
<1> HIDE DEF S
<1>6. ReversalEntry \o In("observed", Reservation \o Refusals) \in Seq(S)
  BY <1>4, <1>5, Concatenation
<1> QED
  BY <1>6, ReverseTransferParts DEF S

\* A handler that only reads: what it makes of its request, and of its statements.
LEMMA Reading ==
  ASSUME NEW errors \in Seq(ErrorsOf({"unauthorized", "validation"})),
         NEW statements \in Seq(ErrorsOf({"internal_error", "not_found"}))
  PROVE  In("entry", errors) \o In("unobserved", statements)
           \in Seq(ChecksOf(Reads, {"entry", "unobserved"}))
<1> DEFINE S == ChecksOf(Reads, {"entry", "unobserved"})
<1>1. {"unauthorized", "validation"} \subseteq Reads /\ {"internal_error", "not_found"} \subseteq Reads
  BY DEF Reads
<1>2. In("entry", errors) \in Seq(S)
  BY <1>1, Uncounted
<1>3. In("unobserved", statements) \in Seq(S)
  BY <1>1, Uncounted
<1> HIDE DEF S
<1>4. In("entry", errors) \o In("unobserved", statements) \in Seq(S)
  BY <1>2, <1>3, Concatenation
<1> QED
  BY <1>4 DEF S

LEMMA Statements ==
  /\ <<Internal, Plain("not_found")>> \in Seq(ErrorsOf({"internal_error", "not_found"}))
  /\ <<Internal, Plain("not_found"), Internal>> \in Seq(ErrorsOf({"internal_error", "not_found"}))
<1> DEFINE S == ErrorsOf({"internal_error", "not_found"})
<1>1. Internal \in S /\ Plain("not_found") \in S
  BY Kinds DEF Told
<1> HIDE DEF S
<1>2. <<Internal, Plain("not_found")>> \in Seq(S) /\ <<Internal, Plain("not_found"), Internal>> \in Seq(S)
  BY <1>1, Tuples
<1> QED
  BY <1>2 DEF S

LEMMA ReadsKinds ==
  /\ GetBalance \in Seq(ChecksOf(Reads, {"entry", "unobserved"}))
  /\ GetTransfer \in Seq(ChecksOf(Reads, {"entry", "unobserved"}))
  /\ GetAccountHistory \in Seq(ChecksOf(Reads, {"entry", "unobserved"}))
<1> DEFINE E == ErrorsOf({"unauthorized", "validation"})
           account == <<Validation("malformed_account_id")>>
           transfer == <<Validation("malformed_transfer_id")>>
           short == <<Internal, Plain("not_found")>>
           long == <<Internal, Plain("not_found"), Internal>>
<1>1. account \in Seq(ErrorsOf({"validation"})) /\ transfer \in Seq(ErrorsOf({"validation"}))
  <2> DEFINE S == ErrorsOf({"validation"})
  <2>1. Validation("malformed_account_id") \in S /\ Validation("malformed_transfer_id") \in S
    BY Kinds DEF Codes, LabelledCodes
  <2> HIDE DEF S
  <2>2. account \in Seq(S) /\ transfer \in Seq(S)
    BY <2>1, Tuples
  <2> QED
    BY <2>2 DEF S
<1> HIDE DEF account, transfer
<1>2. Authentication \o account \in Seq(E) /\ Authentication \o transfer \in Seq(E)
  BY <1>1, EntryKinds
<1>3. (Authentication \o account) \o ParseQuery \in Seq(E)
  <2>1. ErrorsOf({"validation"}) \subseteq E
    BY Kinds
  <2> DEFINE keyed == Authentication \o account
  <2>2. keyed \in Seq(E)
    BY <1>2
  <2> HIDE DEF E, keyed
  <2>3. keyed \o ParseQuery \in Seq(E)
    BY <2>1, <2>2, ParseQueryKinds, Widening, Concatenation
  <2> QED
    BY <2>3 DEF keyed
<1>4. /\ short \in Seq(ErrorsOf({"internal_error", "not_found"}))
      /\ long \in Seq(ErrorsOf({"internal_error", "not_found"}))
  BY Statements
<1> HIDE DEF short, long
<1>5. In("entry", Authentication \o account) \o In("unobserved", short)
        \in Seq(ChecksOf(Reads, {"entry", "unobserved"}))
  BY <1>2, <1>4, Reading
<1>6. In("entry", Authentication \o transfer) \o In("unobserved", short)
        \in Seq(ChecksOf(Reads, {"entry", "unobserved"}))
  BY <1>2, <1>4, Reading
<1>7. In("entry", (Authentication \o account) \o ParseQuery) \o In("unobserved", long)
        \in Seq(ChecksOf(Reads, {"entry", "unobserved"}))
  BY <1>3, <1>4, Reading
<1> QED
  BY <1>5, <1>6, <1>7 DEF GetBalance, GetTransfer, GetAccountHistory, account, transfer, short, long

LEMMA ReadyKinds == Ready \in Seq(ChecksOf({"service_unavailable"}, {"entry", "unobserved"}))
<1> DEFINE S == ErrorsOf({"service_unavailable"})
           errors == <<Plain("service_unavailable")>>
<1>1. Plain("service_unavailable") \in S
  BY Kinds
<1> HIDE DEF S
<1>2. errors \in Seq(S)
  BY <1>1, Tuples
<1> HIDE DEF errors
<1>3. In("unobserved", errors) \in Seq(ChecksOf({"service_unavailable"}, {"entry", "unobserved"}))
  BY <1>2, Uncounted DEF S
<1> QED
  BY <1>3 DEF Ready, errors

(***************************************************************************)
(* The order of the checks.                                                *)
(***************************************************************************)
\* What can change after a success is an inactive account or a rule that refuses.
LEMMA MomentaryKinds ==
  ASSUME NEW check, Momentary(check)
  PROVE  check.phase = "observed" /\ check.error.variant \in {"business", "account_unavailable"}
<1>1. ASSUME NEW E, NEW errors \in Seq(E), NEW e \in ToSet(errors)
      PROVE  e \in E
  <2>1. PICK i \in DOMAIN errors : e = errors[i]
    BY <1>1 DEF ToSet
  <2> QED
    BY <2>1
<1>2. ASSUME NEW e \in ToSet(Configuration)
      PROVE  e.variant = "business"
  <2> DEFINE E == Told({"business"})
             errors == Configuration
  <2>1. errors \in Seq(E) /\ e \in ToSet(errors)
    BY ConfigurationKinds
  <2> HIDE DEF E, errors
  <2>2. e \in E
    BY <1>1, <2>1
  <2> QED
    BY <2>2 DEF E, Told, ErrorsOf
<1>3. ASSUME NEW e \in ToSet(Conversion) \ {Internal}
      PROVE  e.variant = "business"
  <2> DEFINE E == Told({"business", "internal_error"})
             errors == Conversion
  <2>1. errors \in Seq(E) /\ e \in ToSet(errors)
    BY ConversionKinds
  <2> HIDE DEF E, errors
  <2>2. e \in E
    BY <1>1, <2>1
  <2>3. /\ e \in ErrorsOf({"business", "internal_error"})
        /\ e.variant = "internal_error" => e.code = "internal_error"
    BY <2>2 DEF E, Told
  <2>4. e = [variant |-> e.variant, code |-> e.code] /\ e.variant \in {"business", "internal_error"}
    BY <2>3 DEF ErrorsOf
  <2>5. e.variant # "internal_error"
    BY <2>3, <2>4 DEF Internal, Plain
  <2> QED
    BY <2>4, <2>5
<1>4. /\ Plain("account_unavailable").variant = "account_unavailable"
      /\ \A code : Business(code).variant = "business"
  BY DEF Plain, Business
<1>5. check.phase = "observed"
  BY DEF Momentary
<1>6. \/ check.error \in ToSet(Configuration)
      \/ check.error \in ToSet(Conversion) \ {Internal}
      \/ check.error = Plain("account_unavailable")
      \/ check.error \in {Business("insufficient_funds"), Business("transfer_already_reversed"),
                          Business("arithmetic_overflow")}
  BY DEF Momentary
<1> QED
  BY <1>2, <1>3, <1>4, <1>5, <1>6

\* c is made of a and, after it, b.
Joined(a, b, c) ==
  /\ Len(a) \in Nat /\ Len(b) \in Nat
  /\ DOMAIN c = 1 .. Len(a) + Len(b)
  /\ \A k \in 1 .. Len(a) : c[k] = a[k]
  /\ \A k \in Len(a) + 1 .. Len(a) + Len(b) :
       k - Len(a) \in 1 .. Len(b) /\ c[k] = b[k - Len(a)]

LEMMA Pieces ==
  ASSUME NEW S, NEW T, NEW a \in Seq(S), NEW b \in Seq(T)
  PROVE  Joined(a, b, a \o b)
<1>1. Len(a) \in Nat /\ Len(b) \in Nat
  OBVIOUS
<1>2. \A k \in Len(a) + 1 .. Len(a) + Len(b) : k - Len(a) \in 1 .. Len(b)
  BY <1>1
<1>3. /\ DOMAIN (a \o b) = 1 .. Len(a) + Len(b)
      /\ \A k \in 1 .. Len(a) + Len(b) :
           (a \o b)[k] = IF k <= Len(a) THEN a[k] ELSE b[k - Len(a)]
  OBVIOUS
<1>4. \A k \in 1 .. Len(a) : k \in 1 .. Len(a) + Len(b) /\ k <= Len(a)
  BY <1>1
<1>5. \A k \in Len(a) + 1 .. Len(a) + Len(b) : k \in 1 .. Len(a) + Len(b) /\ ~(k <= Len(a))
  BY <1>1
<1> QED
  BY <1>1, <1>2, <1>3, <1>4, <1>5 DEF Joined

\* Where a key is looked up first, a stored response goes before all that may change.
LEMMA KeyFirst ==
  ASSUME NEW W, NEW P, "observed" \notin P, NEW entry \in Seq(ChecksOf(W, P)),
         NEW V, "business" \notin V, "account_unavailable" \notin V, NEW before \in Seq(Told(V)),
         NEW U, "replayed" \notin U, NEW after \in Seq(Told(U)),
         NEW checks, checks = entry \o In("observed", before \o after),
         NEW i \in DOMAIN checks, checks[i].error = Replayed,
         NEW j \in DOMAIN checks, Momentary(checks[j])
  PROVE  i < j
<1> DEFINE errors == before \o after
           last == In("observed", errors)
           E == Told(V) \cup Told(U)
           S == [phase : {"observed"}, error : E]
           C == ChecksOf(W, P)
<1>1. errors \in Seq(E) /\ Len(errors) = Len(before) + Len(after)
  <2>1. Told(V) \subseteq E /\ Told(U) \subseteq E
    OBVIOUS
  <2> HIDE DEF E
  <2>2. before \in Seq(E) /\ after \in Seq(E)
    BY <2>1, Widening
  <2> QED
    BY <2>2, Concatenation
<1>2. /\ \A k \in 1 .. Len(before) : errors[k] = before[k]
      /\ \A k \in Len(before) + 1 .. Len(before) + Len(after) : errors[k] = after[k - Len(before)]
  OBVIOUS
<1>3. \A k \in 1 .. Len(before) : errors[k].variant \in V
  <2>1. \A k \in 1 .. Len(before) : before[k] \in Told(V)
    OBVIOUS
  <2> QED
    BY <1>2, <2>1 DEF Told, ErrorsOf
<1>4. \A k \in Len(before) + 1 .. Len(before) + Len(after) : errors[k].variant \in U
  <2>1. \A k \in Len(before) + 1 .. Len(before) + Len(after) : after[k - Len(before)] \in Told(U)
    OBVIOUS
  <2>2. \A e \in Told(U) : e.variant \in U
    BY DEF Told, ErrorsOf
  <2> HIDE DEF errors
  <2> QED
    BY <1>2, <2>1, <2>2
<1> HIDE DEF errors
<1>5. last \in Seq(S) /\ Len(last) = Len(errors)
  <2>1. \A e \in E : [phase |-> "observed", error |-> e] \in S
    OBVIOUS
  <2> HIDE DEF E, S
  <2> QED
    BY <1>1, <2>1, InKinds
<1>6. \A k \in 1 .. Len(errors) : last[k].error = errors[k]
  <2>1. DOMAIN errors = 1 .. Len(errors)
    BY <1>1
  <2> QED
    BY <2>1 DEF In
<1> HIDE DEF last
<1>7. /\ DOMAIN checks = 1 .. Len(entry) + Len(errors)
      /\ \A k \in 1 .. Len(entry) : checks[k] = entry[k]
      /\ \A k \in Len(entry) + 1 .. Len(entry) + Len(errors) :
           k - Len(entry) \in 1 .. Len(errors) /\ checks[k] = last[k - Len(entry)]
  <2>1. checks = entry \o last
    BY DEF last, errors
  <2>2. entry \in Seq(C)
    OBVIOUS
  <2> HIDE DEF S, C
  <2>3. Joined(entry, last, checks)
    BY <1>5, <2>1, <2>2, Pieces
  <2> QED
    BY <1>5, <2>3 DEF Joined
<1>8. \A k \in 1 .. Len(entry) : entry[k].phase # "observed"
  <2>1. \A k \in 1 .. Len(entry) : entry[k] \in ChecksOf(W, P)
    OBVIOUS
  <2> QED
    BY <2>1 DEF ChecksOf
<1>9. checks[j].phase = "observed" /\ checks[j].error.variant \in {"business", "account_unavailable"}
  BY MomentaryKinds
<1>10. checks[i].error.variant = "replayed"
  BY DEF Replayed, Plain
<1>11. Len(entry) \in Nat /\ Len(before) \in Nat /\ Len(after) \in Nat
  OBVIOUS
<1>12. j > Len(entry) + Len(before)
  <2>1. j > Len(entry)
    BY <1>7, <1>8, <1>9, <1>11
  <2>2. j - Len(entry) \in 1 .. Len(errors) /\ checks[j].error = errors[j - Len(entry)]
    <3>1. Len(errors) \in Nat
      BY <1>1, <1>11
    <3>2. j \in Len(entry) + 1 .. Len(entry) + Len(errors)
      BY <1>7, <1>11, <2>1, <3>1
    <3> QED
      BY <1>6, <1>7, <3>2
  <2>3. j - Len(entry) \notin 1 .. Len(before)
    BY <1>3, <1>9, <2>2
  <2> QED
    BY <1>7, <1>11, <2>2, <2>3
<1>13. i <= Len(entry) + Len(before)
  <2> SUFFICES ASSUME i > Len(entry) + Len(before)
               PROVE  FALSE
    BY <1>1, <1>7, <1>11
  <2>1. /\ i \in Len(entry) + 1 .. Len(entry) + Len(errors)
        /\ i - Len(entry) \in Len(before) + 1 .. Len(before) + Len(after)
    BY <1>1, <1>7, <1>11
  <2>2. checks[i].error = errors[i - Len(entry)]
    BY <1>6, <1>7, <2>1
  <2> QED
    BY <1>4, <1>10, <2>1, <2>2
<1> QED
  BY <1>1, <1>7, <1>11, <1>12, <1>13

\* Every stored response is looked up before all that may have changed.
Ordered(checks) ==
  \A i, j \in DOMAIN checks : checks[i].error = Replayed /\ Momentary(checks[j]) => i < j

LEMMA UnobservedOrdered ==
  ASSUME NEW W, NEW P, "observed" \notin P, NEW checks \in Seq(ChecksOf(W, P))
  PROVE  Ordered(checks)
<1>1. \A j \in DOMAIN checks : checks[j] \in ChecksOf(W, P)
  OBVIOUS
<1>2. \A j \in DOMAIN checks : checks[j].phase # "observed"
  BY <1>1 DEF ChecksOf
<1> QED
  BY <1>2, MomentaryKinds DEF Ordered

LEMMA CreateTransferOrdered ==
  ASSUME NEW fx \in BOOLEAN
  PROVE  Ordered(CreateTransfer(fx))
<1> DEFINE V == {"validation", "internal_error", "idempotency_conflict", "replayed"}
           U == {"account_unavailable", "business", "internal_error"}
           P == {"entry", "unobserved"}
           before == Amount \o Reservation
           after == Pricing(fx)
           checks == CreateTransfer(fx)
<1>1. before \in Seq(Told(V))
  <2>1. /\ Told({"validation"}) \subseteq Told(V)
        /\ Told({"internal_error", "idempotency_conflict", "replayed"}) \subseteq Told(V)
    BY Kinds
  <2> DEFINE E == Told(V)
  <2> HIDE DEF E
  <2>2. Amount \in Seq(E) /\ Reservation \in Seq(E)
    BY <2>1, AmountKinds, ReservationKinds, Widening DEF E
  <2>3. Amount \o Reservation \in Seq(E)
    BY <2>2, Concatenation
  <2> QED
    BY <2>3 DEF E
<1>2. after \in Seq(Told(U))
  BY PricingKinds
<1>3. checks = TransferEntry \o In("observed", before \o after)
  BY CreateTransferParts
<1>4. TransferEntry \in Seq(ChecksOf(Payments, P))
  BY TransferEntryKinds
<1>5. "observed" \notin P /\ "business" \notin V /\ "account_unavailable" \notin V /\ "replayed" \notin U
  OBVIOUS
<1> HIDE DEF V, U, P, before, after, checks
<1>6. ASSUME NEW i \in DOMAIN checks, checks[i].error = Replayed,
             NEW j \in DOMAIN checks, Momentary(checks[j])
      PROVE  i < j
  BY <1>1, <1>2, <1>3, <1>4, <1>5, <1>6, KeyFirst
<1> QED
  BY <1>6 DEF Ordered, checks

LEMMA ReverseTransferOrdered == Ordered(ReverseTransfer)
<1> DEFINE V == {"internal_error", "idempotency_conflict", "replayed"}
           U == {"not_found", "business", "account_unavailable", "internal_error"}
           P == {"entry", "begin"}
           checks == ReverseTransfer
<1>1. Reservation \in Seq(Told(V)) /\ Refusals \in Seq(Told(U))
  BY ReservationKinds, RefusalsKinds
<1>2. checks = ReversalEntry \o In("observed", Reservation \o Refusals)
  BY ReverseTransferParts
<1>3. ReversalEntry \in Seq(ChecksOf(Reversals, P))
  BY ReversalEntryKinds
<1>4. "observed" \notin P /\ "business" \notin V /\ "account_unavailable" \notin V /\ "replayed" \notin U
  OBVIOUS
<1> HIDE DEF V, U, P, checks
<1>5. ASSUME NEW i \in DOMAIN checks, checks[i].error = Replayed,
             NEW j \in DOMAIN checks, Momentary(checks[j])
      PROVE  i < j
  BY <1>1, <1>2, <1>3, <1>4, <1>5, KeyFirst
<1> QED
  BY <1>5 DEF Ordered, checks

\* The variants of error that each operation can answer.
Variants ==
  [create_account |-> Writes, transfer |-> Payments, fx_transfer |-> Payments,
   reversal |-> Reversals, get_balance |-> Reads, get_transfer |-> Reads,
   get_account_history |-> Reads, ready |-> {"service_unavailable"}]

LEMMA Operations ==
  DOMAIN Checks = {"create_account", "transfer", "fx_transfer", "reversal", "get_balance",
                   "get_transfer", "get_account_history", "ready"}
BY DEF Checks

\* Every handler is a sequence of checks of its variants, in the right order.
LEMMA Handlers ==
  ASSUME NEW operation \in DOMAIN Checks
  PROVE  /\ Checks[operation] \in Seq(ChecksOf(Variants[operation], Phases))
         /\ Ordered(Checks[operation])
<1> DEFINE P == {"entry", "unobserved"}
           Good(checks, V) == checks \in Seq(ChecksOf(V, Phases)) /\ Ordered(checks)
<1>1. ASSUME NEW V, NEW checks \in Seq(ChecksOf(V, P))
      PROVE  Good(checks, V)
  <2>1. ChecksOf(V, P) \subseteq ChecksOf(V, Phases)
    BY DEF ChecksOf, Phases
  <2>2. checks \in Seq(ChecksOf(V, Phases))
    BY <2>1, Widening
  <2>3. Ordered(checks)
    <3>1. "observed" \notin P
      OBVIOUS
    <3> HIDE DEF P
    <3> QED
      BY <3>1, UnobservedOrdered
  <2> QED
    BY <2>2, <2>3
<1>2. Good(CreateAccount, Writes)
  BY <1>1, CreateAccountKinds
<1>3. \A fx \in BOOLEAN : Good(CreateTransfer(fx), Payments)
  BY CreateTransferKinds, CreateTransferOrdered
<1>4. Good(ReverseTransfer, Reversals)
  BY ReverseTransferKinds, ReverseTransferOrdered
<1>5. Good(GetBalance, Reads) /\ Good(GetTransfer, Reads) /\ Good(GetAccountHistory, Reads)
  BY <1>1, ReadsKinds
<1>6. Good(Ready, {"service_unavailable"})
  BY <1>1, ReadyKinds
<1> HIDE DEF Good
<1>7. Good(Checks[operation], Variants[operation])
  <2>1. CASE operation = "create_account"
    BY <1>2, <2>1 DEF Checks, Variants
  <2>2. CASE operation = "transfer"
    BY <1>3, <2>2 DEF Checks, Variants
  <2>3. CASE operation = "fx_transfer"
    BY <1>3, <2>3 DEF Checks, Variants
  <2>4. CASE operation = "reversal"
    BY <1>4, <2>4 DEF Checks, Variants
  <2>5. CASE operation \in {"get_balance", "get_transfer", "get_account_history"}
    BY <1>5, <2>5 DEF Checks, Variants
  <2>6. CASE operation = "ready"
    BY <1>6, <2>6 DEF Checks, Variants
  <2> QED
    BY <2>1, <2>2, <2>3, <2>4, <2>5, <2>6, Operations
<1> QED
  BY <1>7 DEF Good

(***************************************************************************)
(* What is answered, whichever checks would fail.                          *)
(***************************************************************************)
LEMMA FirstFault ==
  ASSUME NEW operation \in DOMAIN Checks, NEW faults \in SUBSET DOMAIN Checks[operation],
         faults # {}
  PROVE  /\ Min(faults) \in faults
         /\ \A i \in faults : Min(faults) <= i
         /\ Checks[operation][Min(faults)] \in ChecksOf(Variants[operation], Phases)
<1> DEFINE S == ChecksOf(Variants[operation], Phases)
           checks == Checks[operation]
<1>1. checks \in Seq(S)
  BY Handlers
<1> HIDE DEF S, checks
<1>2. DOMAIN checks \subseteq Nat /\ \A i \in DOMAIN checks : checks[i] \in S
  BY <1>1
<1>3. faults \in SUBSET Nat
  BY <1>2 DEF checks
<1>4. \E i \in faults : \A k \in faults : i <= k
  BY <1>3, Least
<1>5. Min(faults) \in faults /\ \A i \in faults : Min(faults) <= i
  BY <1>4 DEF Min
<1>6. checks[Min(faults)] \in S
  BY <1>2, <1>5 DEF checks
<1> QED
  BY <1>5, <1>6 DEF S, checks

\* Every variant is answered with a status that is documented where it can occur.
LEMMA StatusesDocumented ==
  ASSUME NEW operation \in DOMAIN Checks, NEW error, error.variant \in Variants[operation]
  PROVE  Status(error) \in Documented[operation]
<1>1. CASE operation = "create_account"
  BY <1>1 DEF Variants, Documented, Status, Writes
<1>2. CASE operation \in {"transfer", "fx_transfer"}
  BY <1>2 DEF Variants, Documented, Status, Payments, Writes
<1>3. CASE operation = "reversal"
  BY <1>3 DEF Variants, Documented, Status, Reversals, Payments, Writes
<1>4. CASE operation \in {"get_balance", "get_transfer", "get_account_history"}
  BY <1>4 DEF Variants, Documented, Status, Reads
<1>5. CASE operation = "ready"
  BY <1>5 DEF Variants, Documented, Status
<1> QED
  BY <1>1, <1>2, <1>3, <1>4, <1>5, Operations

LEMMA AnsweredAsDocumented ==
  ASSUME NEW operation \in DOMAIN Checks, NEW faults \in SUBSET DOMAIN Checks[operation]
  PROVE  Response(operation, faults).status \in Documented[operation]
<1>1. CASE faults = {}
  <2>1. Response(operation, faults).status
          = IF operation \in Financial \cup {"create_account"} THEN 201 ELSE 200
    BY <1>1 DEF Response, Success
  <2> QED
    BY <2>1, Operations DEF Documented, Financial
<1>2. CASE faults # {}
  <2> DEFINE check == Checks[operation][Min(faults)]
  <2>1. check \in ChecksOf(Variants[operation], Phases)
    BY <1>2, FirstFault
  <2>2. Response(operation, faults).status = Status(check.error)
    BY <1>2 DEF Response
  <2> HIDE DEF check
  <2>3. check.error.variant \in Variants[operation]
    BY <2>1 DEF ChecksOf, ErrorsOf
  <2> QED
    BY <2>2, <2>3, StatusesDocumented
<1> QED
  BY <1>1, <1>2

\* The classes of the statuses.
LEMMA Classes ==
  /\ StatusClass(201) = "2xx"
  /\ \A status \in {400, 401, 403, 404, 409, 422} : StatusClass(status) = "4xx"
  /\ StatusClass(500) = "5xx"
<1>1. 201 \div 100 = 2 /\ 500 \div 100 = 5
  OBVIOUS
<1>2. \A status \in {400, 401, 403, 404, 409, 422} : status \div 100 = 4
  OBVIOUS
<1>3. StatusClass(201) = "2xx"
  BY <1>1 DEF StatusClass
<1>4. \A status \in {400, 401, 403, 404, 409, 422} : StatusClass(status) = "4xx"
  BY <1>2 DEF StatusClass
<1>5. StatusClass(500) = "5xx"
  BY <1>1 DEF StatusClass
<1> QED
  BY <1>3, <1>4, <1>5

\* What an error is counted as.
LEMMA CountedRightly ==
  ASSUME NEW V, V \subseteq Reversals, NEW error \in Told(V)
  PROVE  /\ FinancialMetricOutcome(error).outcome
              = (CASE StatusClass(Status(error)) = "2xx" -> "success"
                   [] StatusClass(Status(error)) = "4xx" -> "rejected"
                   [] StatusClass(Status(error)) = "5xx" -> "internal_error")
         /\ FinancialMetricOutcome(error).reason
              = IF Status(error) = 201 THEN "none" ELSE error.code
<1>1. error.variant \in Reversals
  BY DEF Told, ErrorsOf
<1>2. CASE error.variant = "internal_error"
  <2>1. error.code = "internal_error"
    BY <1>2 DEF Told
  <2>2. Status(error) = 500
    BY <1>2 DEF Status
  <2>3. FinancialMetricOutcome(error) = [outcome |-> "internal_error", reason |-> "internal_error"]
    BY <1>2 DEF FinancialMetricOutcome
  <2>4. StatusClass(Status(error)) = "5xx"
    BY <2>2, Classes
  <2> QED
    BY <2>1, <2>2, <2>3, <2>4
<1>3. CASE error.variant = "replayed"
  <2>1. Status(error) = 201
    BY <1>3 DEF Status
  <2>2. FinancialMetricOutcome(error) = [outcome |-> "success", reason |-> "none"]
    BY <1>3 DEF FinancialMetricOutcome
  <2>3. StatusClass(Status(error)) = "2xx"
    BY <2>1, Classes
  <2> QED
    BY <2>1, <2>2, <2>3
<1>4. CASE error.variant \in {"validation", "business"}
  <2>1. error.code \in LabelledCodes
    BY <1>4 DEF Told
  <2>2. Status(error) \in {400, 422}
    BY <1>4 DEF Status
  <2>3. FinancialMetricOutcome(error) = [outcome |-> "rejected", reason |-> error.code]
    BY <1>4, <2>1 DEF FinancialMetricOutcome, FinancialReason
  <2>4. StatusClass(Status(error)) = "4xx" /\ Status(error) # 201
    BY <2>2, Classes
  <2> QED
    BY <2>3, <2>4
<1>5. CASE error.variant \in {"unauthorized", "idempotency_conflict", "account_unavailable", "not_found"}
  <2>1. Status(error) \in {401, 404, 409}
    BY <1>5 DEF Status
  <2>2. FinancialMetricOutcome(error) = [outcome |-> "rejected", reason |-> error.code]
    BY <1>5 DEF FinancialMetricOutcome
  <2>3. StatusClass(Status(error)) = "4xx" /\ Status(error) # 201
    BY <2>1, Classes
  <2> QED
    BY <2>2, <2>3
<1> QED
  BY <1>1, <1>2, <1>3, <1>4, <1>5 DEF Reversals, Payments, Writes

LEMMA AnsweredAsCounted ==
  ASSUME NEW operation \in DOMAIN Checks, NEW faults \in SUBSET DOMAIN Checks[operation],
         NEW label \in Response(operation, faults).counted
  PROVE  LET result == Response(operation, faults)
         IN  /\ label.outcome
                  = (CASE StatusClass(result.status) = "2xx" -> "success"
                       [] StatusClass(result.status) = "4xx" -> "rejected"
                       [] StatusClass(result.status) = "5xx" -> "internal_error")
             /\ label.reason = IF result.status = 201 THEN "none" ELSE result.code
<1>1. CASE faults = {}
  <2>1. Response(operation, faults) = Success(operation)
    BY <1>1 DEF Response
  <2>2. operation \in Financial /\ label = [outcome |-> "success", reason |-> "none"]
    BY <2>1 DEF Success
  <2>3. Response(operation, faults).status = 201
    BY <2>1, <2>2 DEF Success
  <2>4. StatusClass(201) = "2xx"
    BY Classes
  <2> QED
    BY <2>2, <2>3, <2>4
<1>2. CASE faults # {}
  <2> DEFINE check == Checks[operation][Min(faults)]
  <2>1. check \in ChecksOf(Variants[operation], Phases)
    BY <1>2, FirstFault
  <2>2. /\ Response(operation, faults).status = Status(check.error)
        /\ Response(operation, faults).code = check.error.code
        /\ Response(operation, faults).counted
             = IF operation \in Financial /\ check.phase \in {"begin", "observed"}
               THEN {FinancialMetricOutcome(check.error)} ELSE {}
    BY <1>2 DEF Response
  <2> HIDE DEF check
  <2>3. /\ operation \in Financial /\ check.phase \in {"begin", "observed"}
        /\ label = FinancialMetricOutcome(check.error)
    BY <2>2
  <2>4. check.error \in Told(Variants[operation])
    BY <2>1, <2>3 DEF ChecksOf
  <2>5. Variants[operation] \subseteq Reversals
    BY <2>3 DEF Financial, Variants, Reversals
  <2>6. /\ label.outcome
             = (CASE StatusClass(Status(check.error)) = "2xx" -> "success"
                  [] StatusClass(Status(check.error)) = "4xx" -> "rejected"
                  [] StatusClass(Status(check.error)) = "5xx" -> "internal_error")
        /\ label.reason = IF Status(check.error) = 201 THEN "none" ELSE check.error.code
    BY <2>3, <2>4, <2>5, CountedRightly
  <2> QED
    BY <2>2, <2>6
<1> QED
  BY <1>1, <1>2

LEMMA AnsweredAgain ==
  ASSUME NEW operation \in DOMAIN Checks, NEW faults \in SUBSET DOMAIN Checks[operation],
         NEW stored, stored = {i \in faults : Checks[operation][i].error = Replayed},
         stored # {}, \A i \in faults \ stored : Momentary(Checks[operation][i])
  PROVE  Response(operation, faults).status = 201
<1> DEFINE checks == Checks[operation]
           first == Min(faults)
<1>1. faults # {}
  OBVIOUS
<1>2. first \in faults /\ \A i \in faults : first <= i
  BY <1>1, FirstFault
<1>3. Ordered(checks)
  BY Handlers
<1>4. faults \subseteq DOMAIN checks
  OBVIOUS
<1>5. DOMAIN checks \subseteq Nat
  <2> DEFINE S == ChecksOf(Variants[operation], Phases)
  <2>1. checks \in Seq(S)
    BY Handlers
  <2> HIDE DEF S, checks
  <2> QED
    BY <2>1
<1> HIDE DEF first
<1>6. first \in stored
  <2> SUFFICES ASSUME first \notin stored
               PROVE  FALSE
    OBVIOUS
  <2>1. first \in DOMAIN checks /\ Momentary(checks[first])
    BY <1>2, <1>4
  <2>2. PICK i \in stored : TRUE
    OBVIOUS
  <2>3. i \in faults /\ i \in DOMAIN checks /\ checks[i].error = Replayed
    BY <1>4, <2>2
  <2> HIDE DEF checks
  <2>4. i < first
    BY <1>3, <2>1, <2>3 DEF Ordered
  <2>5. first <= i /\ i \in Nat /\ first \in Nat
    BY <1>2, <1>5, <2>1, <2>3
  <2> QED
    BY <2>4, <2>5
<1>7. checks[first].error = Replayed
  BY <1>6
<1>8. Response(operation, faults).status = Status(Replayed)
  BY <1>1, <1>7 DEF Response, first
<1> QED
  BY <1>8 DEF Status, Replayed, Plain

(***************************************************************************)
(* PART 4: THE SPECIFICATION.                                              *)
(***************************************************************************)
\* Nothing was called yet, or what was called has returned what its function returns.
Parses == \E text \in Texts, scale \in Scales :
  call = [operation |-> "parse", arguments |-> [text |-> text, scale |-> scale],
          result |-> ParseMinorUnits(text, scale)]
ParsesInitial == \E text \in Texts, scale \in Scales :
  call = [operation |-> "parse_initial", arguments |-> [text |-> text, scale |-> scale],
          result |-> ParseInitialBalance(text, scale)]
Formats == \E amount \in Amounts, scale \in Scales :
  call = [operation |-> "format", arguments |-> [amount |-> amount, scale |-> scale],
          result |-> FormatMinorUnits(amount, scale)]
Converts == \E amount \in Amounts, from, to \in Scales, text \in Texts :
  call = [operation |-> "convert",
          arguments |-> [amount |-> amount, from |-> from, to |-> to, text |-> text],
          result |-> IF ParseRate(text).status = "ok"
                     THEN CalculateDestination(amount, from, to, ParseRate(text).value)
                     ELSE Error("invalid_rate")]
Responds == \E operation \in DOMAIN Checks : \E faults \in SUBSET DOMAIN Checks[operation] :
  call = [operation |-> "respond",
          arguments |-> [operation |-> operation, faults |-> faults],
          result |-> Response(operation, faults)]

Answered == call = None \/ Parses \/ ParsesInitial \/ Formats \/ Converts \/ Responds

LEMMA Faults ==
  ASSUME NEW operation \in DOMAIN Checks
  PROVE  /\ {} \in SUBSET DOMAIN Checks[operation]
         /\ \A i, j \in DOMAIN Checks[operation] : {i, j} \in SUBSET DOMAIN Checks[operation]
OBVIOUS

\* Every call is answered by its function.
LEMMA AnsweredInvariant == ResponsesSpec => []Answered
<1>1. Init => Answered
  BY DEF Init, Answered
<1>2. Answered /\ [ResponsesNext]_call => Answered'
  <2> SUFFICES ASSUME Answered, [ResponsesNext]_call
               PROVE  Answered'
    OBVIOUS
  <2>1. CASE UNCHANGED call
    BY <2>1 DEF Answered, Parses, ParsesInitial, Formats, Converts, Responds
  <2>2. ASSUME NEW text \in Texts, NEW scale \in Scales, Parse(text, scale)
        PROVE  Answered'
    BY <2>2 DEF Answered, Parses, Parse, Call
  <2>3. ASSUME NEW text \in Texts, NEW scale \in Scales, ParseInitial(text, scale)
        PROVE  Answered'
    BY <2>3 DEF Answered, ParsesInitial, ParseInitial, Call
  <2>4. ASSUME NEW amount \in Amounts, NEW scale \in Scales, Format(amount, scale)
        PROVE  Answered'
    BY <2>4 DEF Answered, Formats, Format, Call
  <2>5. ASSUME NEW amount \in Amounts, NEW from \in Scales, NEW to \in Scales, NEW text \in Texts,
               Convert(amount, from, to, text)
        PROVE  Answered'
    BY <2>5 DEF Answered, Converts, Convert, Call
  <2>6. ASSUME NEW operation \in DOMAIN Checks, NEW faults \in SUBSET DOMAIN Checks[operation],
               Respond(operation, faults)
        PROVE  Answered'
    BY <2>6 DEF Answered, Responds, Respond, Call
  <2>7. CASE Next
    BY <2>2, <2>3, <2>4, <2>5, <2>7 DEF Next
  <2>8. CASE ResponsesNext /\ ~Next
    <3>1. PICK operation \in DOMAIN Checks :
            \/ Respond(operation, {})
            \/ \E i, j \in DOMAIN Checks[operation] : Respond(operation, {i, j})
      BY <2>8 DEF ResponsesNext
    <3> QED
      BY <2>6, <3>1, Faults
  <2> QED
    BY <2>1, <2>7, <2>8
<1> QED
  BY <1>1, <1>2, PTL DEF ResponsesSpec

LEMMA AmountsParsed == Answered => ParsedExactlyOrRefused
<1> SUFFICES ASSUME Answered, Called("parse") \/ Called("parse_initial")
             PROVE  ParsedExactlyOrRefused
  BY DEF ParsedExactlyOrRefused
<1>1. Parses \/ ParsesInitial
  BY DEF Answered, Called, Formats, Converts, Responds
<1>2. PICK text \in Texts, scale \in Scales, initial \in BOOLEAN :
        /\ call.arguments = [text |-> text, scale |-> scale]
        /\ call.operation = IF initial THEN "parse_initial" ELSE "parse"
        /\ call.result = IF initial THEN ParseInitialBalance(text, scale)
                         ELSE ParseMinorUnits(text, scale)
  <2>1. CASE Parses
    <3>1. PICK text \in Texts, scale \in Scales :
            call = [operation |-> "parse", arguments |-> [text |-> text, scale |-> scale],
                    result |-> ParseMinorUnits(text, scale)]
      BY <2>1 DEF Parses
    <3>2. /\ call.arguments = [text |-> text, scale |-> scale]
          /\ call.operation = "parse"
          /\ call.result = ParseMinorUnits(text, scale)
      BY <3>1
    <3> QED
      BY <3>2
  <2>2. CASE ParsesInitial
    <3>1. PICK text \in Texts, scale \in Scales :
            call = [operation |-> "parse_initial",
                    arguments |-> [text |-> text, scale |-> scale],
                    result |-> ParseInitialBalance(text, scale)]
      BY <2>2 DEF ParsesInitial
    <3>2. /\ call.arguments = [text |-> text, scale |-> scale]
          /\ call.operation = "parse_initial"
          /\ call.result = ParseInitialBalance(text, scale)
      BY <3>1
    <3> QED
      BY <3>2
  <2> QED
    BY <1>1, <2>1, <2>2
<1>3. IsText(text) /\ scale \in Nat
  BY MoneyAssumption
<1> DEFINE r == call.result
<1>4. /\ r.status = "ok" => /\ Wellformed(text) /\ Exact(text, scale, r.value)
                            /\ initial => r.value >= 0
      /\ r.status = "negative" => initial /\ Numerator(text) < 0
      /\ r.status \notin {"ok", "negative"} =>
           \/ ~Wellformed(text)
           \/ Len(text.fraction) > scale
           \/ \A n \in I64 : ~Exact(text, scale, n)
  BY <1>2, <1>3, ParsedRightly
<1>5. /\ call.arguments.text = text /\ call.arguments.scale = scale
      /\ Called("parse_initial") <=> initial
  BY <1>2 DEF Called
<1> HIDE DEF r
<1> DEFINE answer == CASE r.status = "ok" ->
                            /\ Wellformed(text) /\ Exact(text, scale, r.value)
                            /\ Called("parse_initial") => r.value >= 0
                       [] r.status = "negative" -> Called("parse_initial") /\ Numerator(text) < 0
                       [] OTHER ->
                            \/ ~Wellformed(text)
                            \/ Len(text.fraction) > scale
                            \/ \A n \in I64 : ~Exact(text, scale, n)
<1>6. answer
  <2>1. CASE r.status = "ok"
    BY <1>4, <1>5, <2>1
  <2>2. CASE r.status = "negative"
    BY <1>4, <1>5, <2>2
  <2>3. CASE r.status \notin {"ok", "negative"}
    BY <1>4, <2>3
  <2> QED
    BY <2>1, <2>2, <2>3
<1> QED
  BY <1>5, <1>6 DEF ParsedExactlyOrRefused, Exact, r

LEMMA AmountsShown == Answered => ShownAmountsParseBack
<1> SUFFICES ASSUME Answered, Called("format")
             PROVE  ParseMinorUnits(call.result, call.arguments.scale) = Ok(call.arguments.amount)
  BY DEF ShownAmountsParseBack
<1>1. Formats
  BY DEF Answered, Called, Parses, ParsesInitial, Converts, Responds
<1>2. PICK amount \in Amounts, scale \in Scales :
        call = [operation |-> "format", arguments |-> [amount |-> amount, scale |-> scale],
                result |-> FormatMinorUnits(amount, scale)]
  BY <1>1 DEF Formats
<1>3. /\ call.arguments.amount = amount /\ call.arguments.scale = scale
      /\ call.result = FormatMinorUnits(amount, scale)
  BY <1>2
<1>4. amount \in I64 /\ scale \in Nat
  BY MoneyAssumption DEF I64
<1> QED
  BY <1>3, <1>4, ShownAndRead

LEMMA AmountsConverted == Answered => ConvertedOnceAndNearest
<1> SUFFICES ASSUME Answered, Called("convert"), call.result.status = "ok"
             PROVE  ConvertedOnceAndNearest
  BY DEF ConvertedOnceAndNearest
<1>1. Converts
  BY DEF Answered, Called, Parses, ParsesInitial, Formats, Responds
<1>2. PICK amount \in Amounts, from \in Scales, to \in Scales, text \in Texts :
        call = [operation |-> "convert",
                arguments |-> [amount |-> amount, from |-> from, to |-> to, text |-> text],
                result |-> IF ParseRate(text).status = "ok"
                           THEN CalculateDestination(amount, from, to, ParseRate(text).value)
                           ELSE Error("invalid_rate")]
  BY <1>1 DEF Converts
<1> DEFINE r == call.result
<1>3. /\ call.arguments.amount = amount /\ call.arguments.from = from
      /\ call.arguments.to = to /\ call.arguments.text = text
      /\ r = IF ParseRate(text).status = "ok"
             THEN CalculateDestination(amount, from, to, ParseRate(text).value)
             ELSE Error("invalid_rate")
  BY <1>2
<1> HIDE DEF r
<1>4. r.status = "ok"
  BY DEF r
<1>5. ParseRate(text).status = "ok" /\ r = CalculateDestination(amount, from, to, ParseRate(text).value)
  BY <1>3, <1>4 DEF Error
<1>6. IsText(text) /\ amount \in Int /\ from \in Nat /\ to \in Nat
  BY MoneyAssumption
<1>7. LET n == amount * Numerator(text) * Power[to]
          d == Power[Len(text.fraction) + from]
      IN  /\ r.value \in 1 .. MaxI64
          /\ 2 * (r.value * d - n) <= d
          /\ 2 * (n - r.value * d) < d
  BY <1>4, <1>5, <1>6, ConvertedRightly
<1> QED
  BY <1>3, <1>7 DEF ConvertedOnceAndNearest, r

\* What was answered to a call of an operation, if one was called.
LEMMA RespondedTo ==
  ASSUME Answered, Responded
  PROVE  \E operation \in DOMAIN Checks : \E faults \in SUBSET DOMAIN Checks[operation] :
           /\ Operation = operation /\ call.arguments.faults = faults
           /\ call.result = Response(operation, faults)
<1>1. Responds
  BY DEF Answered, Responded, Called, Parses, ParsesInitial, Formats, Converts
<1>2. PICK operation \in DOMAIN Checks : \E faults \in SUBSET DOMAIN Checks[operation] :
        call = [operation |-> "respond",
                arguments |-> [operation |-> operation, faults |-> faults],
                result |-> Response(operation, faults)]
  BY <1>1 DEF Responds
<1> PICK faults \in SUBSET DOMAIN Checks[operation] :
      call = [operation |-> "respond",
              arguments |-> [operation |-> operation, faults |-> faults],
              result |-> Response(operation, faults)]
  BY <1>2
<1>3. /\ Operation = operation /\ call.arguments.faults = faults
      /\ call.result = Response(operation, faults)
  BY DEF Operation
<1> QED
  BY <1>3

LEMMA Documenting == Answered => OnlyDocumentedStatuses
BY RespondedTo, AnsweredAsDocumented DEF OnlyDocumentedStatuses

LEMMA Counting == Answered => CountedAsAnswered
<1> DEFINE Right(label, result) ==
             /\ label.outcome
                  = (CASE StatusClass(result.status) = "2xx" -> "success"
                       [] StatusClass(result.status) = "4xx" -> "rejected"
                       [] StatusClass(result.status) = "5xx" -> "internal_error")
             /\ label.reason = IF result.status = 201 THEN "none" ELSE result.code
<1> SUFFICES ASSUME Answered, Responded, NEW label \in call.result.counted
             PROVE  Right(label, call.result)
  BY DEF CountedAsAnswered
<1>1. PICK operation \in DOMAIN Checks : \E faults \in SUBSET DOMAIN Checks[operation] :
        call.result = Response(operation, faults)
  BY RespondedTo
<1>2. PICK faults \in SUBSET DOMAIN Checks[operation] : call.result = Response(operation, faults)
  BY <1>1
<1>3. label \in Response(operation, faults).counted
  BY <1>2
<1>4. Right(label, Response(operation, faults))
  BY <1>3, AnsweredAsCounted
<1> HIDE DEF Right
<1> QED
  BY <1>2, <1>4

LEMMA Replaying == Answered => RetriesAreReplayed
<1> DEFINE checks == Checks[Operation]
           stored == {i \in call.arguments.faults : checks[i].error = Replayed}
<1> SUFFICES ASSUME Answered, Responded,
                    stored # {}, \A i \in call.arguments.faults \ stored : Momentary(checks[i])
             PROVE  call.result.status = 201
  BY DEF RetriesAreReplayed
<1>1. PICK operation \in DOMAIN Checks : \E faults \in SUBSET DOMAIN Checks[operation] :
        /\ Operation = operation /\ call.arguments.faults = faults
        /\ call.result = Response(operation, faults)
  BY RespondedTo
<1>2. PICK faults \in SUBSET DOMAIN Checks[operation] :
        /\ Operation = operation /\ call.arguments.faults = faults
        /\ call.result = Response(operation, faults)
  BY <1>1
<1> DEFINE replayed == {i \in faults : Checks[operation][i].error = Replayed}
<1>3. stored = replayed
  BY <1>2
<1>4. replayed # {} /\ \A i \in faults \ replayed : Momentary(Checks[operation][i])
  BY <1>2, <1>3
<1>5. Response(operation, faults).status = 201
  <2> DEFINE s == replayed
  <2>1. s = {i \in faults : Checks[operation][i].error = Replayed}
    OBVIOUS
  <2>2. s # {} /\ \A i \in faults \ s : Momentary(Checks[operation][i])
    BY <1>4
  <2> HIDE DEF s
  <2> QED
    BY <2>1, <2>2, AnsweredAgain
<1> QED
  BY <1>2, <1>5

(***************************************************************************)
(* THEOREMS.                                                               *)
(***************************************************************************)
\* Every text that is sent as an amount is taken for exactly what it says, or refused
\* because it is no decimal, is finer than the currency or does not fit; an initial
\* balance also if it is below zero (parse_minor_units, parse_initial_balance).
THEOREM AmountsTakenExactly == ResponsesSpec => []ParsedExactlyOrRefused
<1>1. Answered => ParsedExactlyOrRefused
  BY AmountsParsed
<1> QED
  BY <1>1, AnsweredInvariant, PTL

\* Every amount that is shown, in every currency, is parsed to the same amount: no
\* digit is lost, none is added, and the smallest i64 has its sign
\* (format_minor_units, parse_minor_units).
THEOREM AmountsShownParseBack == ResponsesSpec => []ShownAmountsParseBack
<1>1. Answered => ShownAmountsParseBack
  BY AmountsShown
<1> QED
  BY <1>1, AnsweredInvariant, PTL

\* Every conversion is the nearest amount to the exact product, and fits (ExactRate::parse,
\* calculate_destination, half_up_divide).
THEOREM ConversionsAreNearest == ResponsesSpec => []ConvertedOnceAndNearest
<1>1. Answered => ConvertedOnceAndNearest
  BY AmountsConverted
<1> QED
  BY <1>1, AnsweredInvariant, PTL

\* Every answer has a status that the interface documents for the operation
\* (response_parts, the utoipa responses).
THEOREM StatusesAreDocumented == ResponsesSpec => []OnlyDocumentedStatuses
<1>1. Answered => OnlyDocumentedStatuses
  BY Documenting
<1> QED
  BY <1>1, AnsweredInvariant, PTL

\* Every outcome is counted as what the client was told (financial_metric_outcome,
\* financial_reason).
THEOREM OutcomesAreCountedAsAnswered == ResponsesSpec => []CountedAsAnswered
<1>1. Answered => CountedAsAnswered
  BY Counting
<1> QED
  BY <1>1, AnsweredInvariant, PTL

\* Every retry of a request that has succeeded gets its answer again, whatever has
\* changed since (the order of the checks in create_transfer and reverse_transfer).
THEOREM RetriesGetTheirAnswer == ResponsesSpec => []RetriesAreReplayed
<1>1. Answered => RetriesAreReplayed
  BY Replaying
<1> QED
  BY <1>1, AnsweredInvariant, PTL

\* The same of handlers of which any number of checks would fail at once, where the
\* specification takes two: a documented status, and the stored response if all else
\* that would fail may have changed since (the early returns of the handlers).
THEOREM WhicheverChecksFail ==
  ASSUME NEW operation \in DOMAIN Checks, NEW faults \in SUBSET DOMAIN Checks[operation]
  PROVE  /\ Response(operation, faults).status \in Documented[operation]
         /\ LET stored == {i \in faults : Checks[operation][i].error = Replayed}
            IN  stored # {} /\ (\A i \in faults \ stored : Momentary(Checks[operation][i]))
                  => Response(operation, faults).status = 201
<1> DEFINE stored == {i \in faults : Checks[operation][i].error = Replayed}
<1>1. ASSUME stored # {}, \A i \in faults \ stored : Momentary(Checks[operation][i])
      PROVE  Response(operation, faults).status = 201
  <2> DEFINE s == stored
  <2>1. s = {i \in faults : Checks[operation][i].error = Replayed}
    OBVIOUS
  <2>2. s # {} /\ \A i \in faults \ s : Momentary(Checks[operation][i])
    BY <1>1
  <2> HIDE DEF s
  <2> QED
    BY <2>1, <2>2, AnsweredAgain
<1> QED
  BY <1>1, AnsweredAsDocumented
================================================================================
