-------------------------- MODULE MoneroWorkProofs --------------------------
(***************************************************************************)
(* Proofs about Numbers and MoneroWork, for every width and every number   *)
(* of transactions: loops with their intermediate results, powers, digits, *)
(* the target a miner is told, and the passes of tree-hash.c.              *)
(***************************************************************************)
EXTENDS MoneroWork, SequenceTheorems, WellFoundedInduction, TLAPS

-------------------------------------------------------------------------------
(* The least element of a set, induction along a set, and loops.           *)

\* A set of numbers that is not empty has a least element.
LEMMA LeastElement ==
  ASSUME NEW T, T \subseteq Nat, T # {}
  PROVE  \E m \in T : \A k \in T : m <= k
<1> DEFINE R == OpToRel(<, Nat)
<1>1. \E x \in T : \A y \in T : ~ (<<y, x>> \in R)
  <2> IsWellFoundedOn(R, Nat)
    BY NatLessThanWellFounded
  <2> HIDE DEF R
  <2> QED
    BY WFMin
<1>2. \A x, y \in Nat : y < x => <<y, x>> \in R
  BY DEF OpToRel
<1> HIDE DEF R
<1>3. PICK m \in T : \A y \in T : ~ (<<y, m>> \in R)
  BY <1>1
<1>4. ASSUME NEW k \in T PROVE ~(k < m)
  BY <1>2, <1>3
<1>5. ASSUME NEW k \in T PROVE m <= k
  <2> m \in Nat /\ k \in Nat
    OBVIOUS
  <2> QED
    BY <1>4
<1> QED
  BY <1>5

\* A set that has 0 and with each number the next one has all of them.
LEMMA InductionAlong ==
  ASSUME NEW T, 0 \in T, \A n \in Nat : n \in T => n + 1 \in T
  PROVE  \A n \in Nat : n \in T
<1> SUFFICES ASSUME Nat \ T # {} PROVE FALSE
  OBVIOUS
<1>1. PICK m \in Nat \ T : \A k \in Nat \ T : m <= k
  BY LeastElement
<1>2. m # 0 /\ m - 1 \in Nat
  BY <1>1
<1>3. m - 1 \in T
  BY <1>1, <1>2
<1> QED
  BY <1>1, <1>2, <1>3

\* f holds the intermediate results of a loop that runs step N times.
IsLoop(f, N, base, step) ==
  f[0] = base /\ \A n \in 1..N : f[n] = step[n][f[n - 1]]

\* The loops f and g agree as long as they agreed in the step before.
StepAlike(f, g, N) == \A n \in 1..N : f[n - 1] = g[n - 1] => f[n] = g[n]

Agree(f, g, N) == \A n \in 0..N : f[n] = g[n]

\* A loop of N steps has a sequence of intermediate results.
LEMMA LoopHasResults ==
  ASSUME NEW N \in Nat, NEW V, NEW base \in V, NEW step \in [1..N -> [V -> V]]
  PROVE  \E f \in [0..N -> V] : IsLoop(f, N, base, step)
<1> DEFINE Results(M, f) ==
      f[0] = base /\ \A n \in 1..M : f[n] = step[n][f[n - 1]]
<1> DEFINE T == {M \in Nat : M <= N => \E f \in [0..M -> V] : Results(M, f)}
<1>1. 0 \in T
  <2> DEFINE f == [n \in 0..0 |-> base]
  <2>1. f \in [0..0 -> V] /\ Results(0, f)
    OBVIOUS
  <2> QED
    BY <2>1
<1>2. ASSUME NEW M \in Nat, M \in T PROVE M + 1 \in T
  <2> SUFFICES ASSUME M + 1 <= N
               PROVE  \E g \in [0..M + 1 -> V] : Results(M + 1, g)
    OBVIOUS
  <2>1. PICK f \in [0..M -> V] : Results(M, f)
    BY <1>2
  <2> DEFINE g == [n \in 0..M + 1 |-> IF n <= M THEN f[n] ELSE step[M + 1][f[M]]]
  <2>2. g \in [0..M + 1 -> V]
    OBVIOUS
  <2>3. ASSUME NEW n \in 1..M + 1
        PROVE  g[n] = step[n][g[n - 1]]
    <3>1. CASE n <= M
      BY <3>1, <2>1
    <3>2. CASE n = M + 1
      BY <3>2
    <3> QED
      BY <3>1, <3>2
  <2>4. g[0] = base
    BY <2>1
  <2>5. Results(M + 1, g)
    BY <2>3, <2>4
  <2> QED
    BY <2>2, <2>5
<1> HIDE DEF T
<1>3. \A M \in Nat : M \in T
  BY <1>1, <1>2, InductionAlong
<1> QED
  BY <1>3 DEF T, IsLoop

\* Two loops that begin alike and step alike agree.
LEMMA LoopsAgree ==
  ASSUME NEW N \in Nat, NEW f, NEW g, f[0] = g[0], StepAlike(f, g, N)
  PROVE  Agree(f, g, N)
<1> DEFINE T == {M \in Nat : M <= N => f[M] = g[M]}
<1>1. 0 \in T
  OBVIOUS
<1>2. ASSUME NEW M \in Nat, M \in T PROVE M + 1 \in T
  BY <1>2 DEF StepAlike
<1> HIDE DEF T
<1>3. \A M \in Nat : M \in T
  BY <1>1, <1>2, InductionAlong
<1> QED
  BY <1>3 DEF T, Agree

-------------------------------------------------------------------------------
(* Sequences and functions.                                                *)

\* A function of the first numbers is a sequence.
LEMMA SeqOfFunction ==
  ASSUME NEW X, NEW N \in Nat, NEW f \in [1..N -> X]
  PROVE  f \in Seq(X) /\ Len(f) = N
OBVIOUS

\* A sequence is a function of its places.
LEMMA FunctionOfSeq ==
  ASSUME NEW X, NEW s \in Seq(X)
  PROVE  /\ Len(s) \in Nat /\ DOMAIN s = 1..Len(s)
         /\ \A i \in 1..Len(s) : s[i] \in X
         /\ s = [i \in 1..Len(s) |-> s[i]]
OBVIOUS

-------------------------------------------------------------------------------
(* Quotients and remainders.                                               *)

\* A number is its quotient and its remainder.
LEMMA DivMod ==
  ASSUME NEW a \in Nat, NEW b \in Nat \ {0}
  PROVE  /\ a = b * (a \div b) + (a % b)
         /\ a \div b \in Nat
         /\ a % b \in 0..(b - 1)
OBVIOUS

\* Nothing else is.
LEMMA DivModUnique ==
  ASSUME NEW b \in Nat \ {0}, NEW q \in Nat, NEW r \in 0..(b - 1)
  PROVE  (b * q + r) \div b = q /\ (b * q + r) % b = r
OBVIOUS

\* Two divisions are one by the product.
LEMMA DivOfDiv ==
  ASSUME NEW a \in Nat, NEW b \in Nat \ {0}, NEW c \in Nat \ {0}
  PROVE  (a \div b) \div c = a \div (b * c)
<1> DEFINE q == a \div b
           p == q \div c
           r == b * (q % c) + (a % b)
<1>1. /\ q \in Nat /\ a = b * q + (a % b) /\ a % b \in 0..(b - 1)
      /\ p \in Nat /\ q = c * p + (q % c) /\ q % c \in 0..(c - 1)
  BY DivMod
<1>2. b * c \in Nat \ {0}
  OBVIOUS
<1>3. a = (b * c) * p + r
  <2>1. \A x, y, z \in Nat : b * (c * x + y) + z = (b * c) * x + (b * y + z)
    OBVIOUS
  <2>2. q % c \in Nat /\ a % b \in Nat /\ p \in Nat
    BY <1>1
  <2>3. a = b * (c * p + (q % c)) + (a % b)
    BY <1>1
  <2> HIDE DEF p, q
  <2> QED
    BY <2>1, <2>2, <2>3
<1>4. r \in 0..(b * c - 1)
  <2>1. b * (q % c) <= b * (c - 1)
    BY <1>1
  <2> QED
    BY <1>1, <2>1
<1> HIDE DEF p, q, r
<1>5. a \div (b * c) = p
  BY <1>1, <1>2, <1>3, <1>4, DivModUnique
<1> QED
  BY <1>5 DEF p, q

\* Products grow with their factors.
LEMMA ProductGrows ==
  ASSUME NEW x \in Nat, NEW y \in Nat, NEW b \in Nat, x < y
  PROVE  (x + 1) * b <= y * b
<1> DEFINE k == y - (x + 1)
<1>1. k \in Nat /\ y = (x + 1) + k
  OBVIOUS
<1> HIDE DEF k
<1>2. y * b = (x + 1) * b + k * b /\ k * b >= 0
  BY <1>1
<1> QED
  BY <1>2

\* A larger number has no smaller quotient.
LEMMA DivGrows ==
  ASSUME NEW a \in Nat, NEW d \in Nat, NEW b \in Nat \ {0}, a <= d
  PROVE  a \div b <= d \div b
<1> DEFINE p == a \div b
           q == d \div b
<1>1. /\ a = b * p + (a % b) /\ p \in Nat /\ a % b \in 0..(b - 1)
      /\ d = b * q + (d % b) /\ q \in Nat /\ d % b \in 0..(b - 1)
  BY DivMod
<1> HIDE DEF p, q
<1>2. CASE p > q
  <2>1. b * p >= b * (q + 1)
    BY <1>1, <1>2
  <2> QED
    BY <1>1, <2>1
<1> QED
  BY <1>1, <1>2 DEF p, q

-------------------------------------------------------------------------------
(* Powers.                                                                 *)

\* Power multiplies in a loop.
LEMMA PowerIsALoop ==
  ASSUME NEW b \in Nat, NEW N \in Nat
  PROVE  \E f \in [0..N -> Nat] :
           /\ f[0] = 1
           /\ \A n \in 1..N : f[n] = b * f[n - 1]
           /\ Power(b, N) = f[N]
<1> DEFINE step == [n \in 1..N |-> [v \in Nat |-> b * v]]
           Results(f) == f = [n \in 0..N |-> IF n = 0 THEN 1 ELSE b * f[n - 1]]
           p == CHOOSE f : Results(f)
<1>1. step \in [1..N -> [Nat -> Nat]] /\ \A n \in 1..N, v \in Nat : step[n][v] = b * v
  OBVIOUS
<1> HIDE DEF step
<1>2. PICK f \in [0..N -> Nat] : IsLoop(f, N, 1, step)
  <2> 1 \in Nat
    OBVIOUS
  <2> QED
    BY <1>1, LoopHasResults
<1>3. f[0] = 1 /\ \A n \in 1..N : f[n] = b * f[n - 1]
  <2>1. \A n \in 1..N : f[n - 1] \in Nat
    OBVIOUS
  <2> HIDE DEF Results, p
  <2> QED
    BY <1>1, <1>2, <2>1 DEF IsLoop
<1>4. Results(f)
  BY <1>3
<1>5. Results(p)
  <2> HIDE DEF Results
  <2> QED
    BY <1>4
<1>6. Power(b, N) = p[N]
  BY DEF Power
<1> HIDE DEF p
<1>7. p[0] = 1 /\ \A n \in 1..N : p[n] = b * p[n - 1]
  BY <1>5
<1> HIDE DEF Results
<1>8. f[0] = p[0] /\ StepAlike(f, p, N)
  BY <1>3, <1>7 DEF StepAlike
<1>9. Agree(f, p, N)
  BY <1>8, LoopsAgree
<1>10. Power(b, N) = f[N]
  BY <1>6, <1>9 DEF Agree
<1> QED
  BY <1>3, <1>10

\* The recurrence of powers.
LEMMA PowerStep ==
  ASSUME NEW b \in Nat, NEW N \in Nat
  PROVE  /\ Power(b, 0) = 1
         /\ Power(b, N) \in Nat
         /\ Power(b, N + 1) = b * Power(b, N)
<1>1. PICK f \in [0..N -> Nat] : /\ f[0] = 1
                                 /\ \A n \in 1..N : f[n] = b * f[n - 1]
                                 /\ Power(b, N) = f[N]
  BY PowerIsALoop
<1>2. PICK g \in [0..N + 1 -> Nat] : /\ g[0] = 1
                                     /\ \A n \in 1..N + 1 : g[n] = b * g[n - 1]
                                     /\ Power(b, N + 1) = g[N + 1]
  <2> N + 1 \in Nat
    OBVIOUS
  <2> QED
    BY PowerIsALoop
<1>3. Agree(f, g, N)
  <2>1. f[0] = g[0] /\ StepAlike(f, g, N)
    BY <1>1, <1>2 DEF StepAlike
  <2> QED
    BY <2>1, LoopsAgree
<1>4. g[N + 1] = b * g[N]
  BY <1>2
<1>5. Power(b, N) = g[N] /\ g[N] \in Nat
  BY <1>1, <1>2, <1>3 DEF Agree
<1>6. Power(b, 0) = 1
  <2>1. PICK h \in [0..0 -> Nat] : h[0] = 1 /\ Power(b, 0) = h[0]
    BY PowerIsALoop
  <2> QED
    BY <2>1
<1> QED
  BY <1>2, <1>4, <1>5, <1>6

\* A power of a base that is not zero is not zero.
LEMMA PowerPositive ==
  ASSUME NEW b \in Nat \ {0}, NEW N \in Nat
  PROVE  Power(b, N) \in Nat \ {0}
<1> DEFINE T == {M \in Nat : Power(b, M) \in Nat \ {0}}
<1>1. 0 \in T
  BY PowerStep
<1>2. ASSUME NEW M \in Nat, M \in T PROVE M + 1 \in T
  <2>1. Power(b, M) \in Nat \ {0} /\ Power(b, M + 1) = b * Power(b, M)
    BY <1>2, PowerStep
  <2> QED
    BY <2>1
<1> HIDE DEF T
<1>3. \A M \in Nat : M \in T
  BY <1>1, <1>2, InductionAlong
<1> QED
  BY <1>3 DEF T

\* Powers of sums.
LEMMA PowerSum ==
  ASSUME NEW b \in Nat, NEW m \in Nat, NEW N \in Nat
  PROVE  Power(b, m + N) = Power(b, m) * Power(b, N)
<1> DEFINE T == {M \in Nat : Power(b, m + M) = Power(b, m) * Power(b, M)}
<1>1. 0 \in T
  BY PowerStep
<1>2. ASSUME NEW M \in Nat, M \in T PROVE M + 1 \in T
  <2>1. Power(b, M + 1) = b * Power(b, M) /\ Power(b, M) \in Nat /\ Power(b, m) \in Nat
    BY PowerStep
  <2>2. Power(b, (m + M) + 1) = b * Power(b, m + M)
    <3> m + M \in Nat
      OBVIOUS
    <3> QED
      BY PowerStep
  <2>3. Power(b, m + M) = Power(b, m) * Power(b, M)
    BY <1>2
  <2>4. (m + M) + 1 = m + (M + 1)
    OBVIOUS
  <2> QED
    BY <2>1, <2>2, <2>3, <2>4
<1> HIDE DEF T
<1>3. \A M \in Nat : M \in T
  BY <1>1, <1>2, InductionAlong
<1> QED
  BY <1>3 DEF T

\* Powers of a base of at least two grow strictly.
LEMMA PowerGrows ==
  ASSUME NEW b \in Nat \ {0, 1}, NEW m \in Nat, NEW n \in Nat, m < n
  PROVE  Power(b, m) < Power(b, n)
<1> DEFINE k == n - m - 1
<1>1. k \in Nat /\ n = m + (k + 1)
  OBVIOUS
<1> HIDE DEF k
<1>2. Power(b, n) = Power(b, m) * Power(b, k + 1)
  BY <1>1, PowerSum
<1>3. Power(b, k + 1) = b * Power(b, k) /\ Power(b, k) \in Nat \ {0}
  BY <1>1, PowerStep, PowerPositive
<1>4. Power(b, k + 1) \in Nat /\ Power(b, k + 1) >= 2
  BY <1>3
<1>5. Power(b, m) \in Nat \ {0}
  BY PowerPositive
<1> QED
  BY <1>2, <1>4, <1>5

-------------------------------------------------------------------------------
(* Digits.                                                                 *)

\* Value is what a loop over the digits computes, the highest first.
LEMMA ValueIsALoop ==
  ASSUME NEW b \in Nat, NEW s \in Seq(Nat)
  PROVE  \E f \in [0..Len(s) -> Nat] :
           /\ f[0] = 0
           /\ \A i \in 1..Len(s) : f[i] = f[i - 1] * b + s[i]
           /\ Value(s, b) = f[Len(s)]
<1>1. PICK N \in Nat : N = Len(s)
  OBVIOUS
<1>2. \A n \in 1..N : s[n] \in Nat
  BY <1>1
<1> DEFINE digit == [n \in 1..N |-> s[n]]
<1> DEFINE step == [n \in 1..N |-> [v \in Nat |-> v * b + digit[n]]]
           Results(f) == f = [n \in 0..N |-> IF n = 0 THEN 0 ELSE f[n - 1] * b + s[n]]
           p == CHOOSE f : Results(f)
<1>3. digit \in [1..N -> Nat] /\ \A n \in 1..N : digit[n] = s[n]
  BY <1>2
<1> HIDE DEF digit
<1>4. step \in [1..N -> [Nat -> Nat]]
  <2>1. \A n \in 1..N, v \in Nat : v * b + digit[n] \in Nat
    BY <1>3
  <2> QED
    BY <2>1
<1>5. \A n \in 1..N, v \in Nat : step[n][v] = v * b + digit[n]
  BY <1>3
<1> HIDE DEF step
<1>6. PICK f \in [0..N -> Nat] : IsLoop(f, N, 0, step)
  <2> 0 \in Nat
    OBVIOUS
  <2> QED
    BY <1>4, LoopHasResults
<1>7. f[0] = 0 /\ \A n \in 1..N : f[n] = f[n - 1] * b + s[n]
  <2>1. \A n \in 1..N : f[n - 1] \in Nat
    OBVIOUS
  <2> HIDE DEF Results, p
  <2> QED
    BY <1>3, <1>5, <1>6, <2>1 DEF IsLoop
<1>8. Results(f)
  BY <1>7
<1>9. Results(p)
  <2> HIDE DEF Results
  <2> QED
    BY <1>8
<1>10. Value(s, b) = p[N]
  BY <1>1 DEF Value
<1> HIDE DEF p
<1>11. p[0] = 0 /\ \A n \in 1..N : p[n] = p[n - 1] * b + s[n]
  BY <1>9
<1> HIDE DEF Results
<1>12. f[0] = p[0] /\ StepAlike(f, p, N)
  BY <1>7, <1>11 DEF StepAlike
<1>13. Agree(f, p, N)
  BY <1>12, LoopsAgree
<1>14. Value(s, b) = f[N]
  BY <1>10, <1>13 DEF Agree
<1> QED
  BY <1>1, <1>7, <1>14

\* The digits of a number are smaller than the base.
LEMMA DigitsType ==
  ASSUME NEW v \in Nat, NEW b \in Nat \ {0}, NEW n \in Nat
  PROVE  /\ Digits(v, b, n) \in Seq(0..(b - 1))
         /\ Len(Digits(v, b, n)) = n
         /\ \A i \in 1..n : Digits(v, b, n)[i] = (v \div Power(b, n - i)) % b
<1>1. ASSUME NEW i \in 1..n
      PROVE  (v \div Power(b, n - i)) % b \in 0..(b - 1)
  <2>1. Power(b, n - i) \in Nat \ {0}
    <3> n - i \in Nat
      OBVIOUS
    <3> QED
      BY PowerPositive
  <2>2. v \div Power(b, n - i) \in Nat
    BY <2>1, DivMod
  <2> QED
    BY <2>2, DivMod
<1> DEFINE d == [i \in 1..n |-> (v \div Power(b, n - i)) % b]
<1>2. d \in [1..n -> 0..(b - 1)]
  BY <1>1
<1>3. Digits(v, b, n) = d
  BY DEF Digits
<1> QED
  BY <1>2, <1>3

\* The number that the first digits make is the quotient that is left without
\* the others.
LEMMA HeadsOfDigits ==
  ASSUME NEW v \in Nat, NEW b \in Nat \ {0}, NEW n \in Nat, NEW i \in 1..n
  PROVE  /\ v \div Power(b, n - i) \in Nat
         /\ v \div Power(b, n - (i - 1)) \in Nat
         /\ v \div Power(b, n - (i - 1)) = (v \div Power(b, n - i)) \div b
         /\ v \div Power(b, n - i)
              = (v \div Power(b, n - (i - 1))) * b + Digits(v, b, n)[i]
<1> DEFINE k == n - i
           h == v \div Power(b, k)
<1>1. k \in Nat /\ n - (i - 1) = k + 1
  OBVIOUS
<1> HIDE DEF k
<1>2. /\ Power(b, k) \in Nat \ {0} /\ Power(b, k + 1) \in Nat \ {0}
      /\ Power(b, k + 1) = Power(b, k) * b
  BY <1>1, PowerPositive, PowerStep
<1>3. h \in Nat
  BY <1>2, DivMod
<1>4. v \div Power(b, k + 1) = h \div b
  BY <1>2, DivOfDiv
<1>5. h = (h \div b) * b + (h % b) /\ h \div b \in Nat
  <2> HIDE DEF h
  <2> QED
    BY <1>3, DivMod
<1>6. Digits(v, b, n)[i] = h % b
  BY DigitsType DEF k
<1> QED
  BY <1>1, <1>3, <1>4, <1>5, <1>6 DEF k

\* The digits of a number that fits make the number again.
LEMMA ValueOfDigits ==
  ASSUME NEW v \in Nat, NEW b \in Nat \ {0}, NEW n \in Nat, v < Power(b, n)
  PROVE  Value(Digits(v, b, n), b) = v
<1> DEFINE d == Digits(v, b, n)
           g == [i \in 0..n |-> v \div Power(b, n - i)]
<1>1. d \in Seq(Nat) /\ Len(d) = n
  <2>1. d \in Seq(0..(b - 1)) /\ Len(d) = n /\ 0..(b - 1) \subseteq Nat
    BY DigitsType
  <2> HIDE DEF d
  <2> QED
    BY <2>1, SeqMonotonic
<1>2. \A i \in 1..n : g[i] = g[i - 1] * b + d[i]
  <2> SUFFICES ASSUME NEW i \in 1..n PROVE g[i] = g[i - 1] * b + d[i]
    OBVIOUS
  <2>1. g[i] = v \div Power(b, n - i) /\ g[i - 1] = v \div Power(b, n - (i - 1))
    OBVIOUS
  <2> HIDE DEF g, d
  <2> QED
    BY <2>1, HeadsOfDigits DEF d
<1>3. g[0] = 0
  <2>1. Power(b, n) \in Nat \ {0} /\ v = Power(b, n) * 0 + v /\ v \in 0..(Power(b, n) - 1)
    BY PowerPositive
  <2>2. v \div Power(b, n) = 0
    BY <2>1, DivModUnique
  <2> QED
    BY <2>2
<1>4. g[n] = v
  <2>1. Power(b, 0) = 1
    BY PowerStep
  <2>2. g[n] = v \div 1
    BY <2>1
  <2> HIDE DEF g
  <2> QED
    BY <2>2
<1> HIDE DEF d, g
<1>5. PICK f \in [0..n -> Nat] : /\ f[0] = 0
                                 /\ \A i \in 1..n : f[i] = f[i - 1] * b + d[i]
                                 /\ Value(d, b) = f[n]
  BY <1>1, ValueIsALoop
<1>6. f[0] = g[0] /\ StepAlike(f, g, n)
  BY <1>2, <1>3, <1>5 DEF StepAlike
<1>7. Agree(f, g, n)
  BY <1>6, LoopsAgree
<1> QED
  BY <1>4, <1>5, <1>7 DEF Agree, d

\* Digits make a number that fits, and no other digits make it.
LEMMA DigitsOfValue ==
  ASSUME NEW b \in Nat \ {0}, NEW s \in Seq(0..(b - 1))
  PROVE  /\ Value(s, b) \in Nat
         /\ Value(s, b) < Power(b, Len(s))
         /\ Digits(Value(s, b), b, Len(s)) = s
<1> DEFINE n == Len(s)
           V == Value(s, b)
<1>1. n \in Nat /\ \A i \in 1..n : s[i] \in 0..(b - 1)
  OBVIOUS
<1>2. s \in Seq(Nat)
  <2> 0..(b - 1) \subseteq Nat
    OBVIOUS
  <2> QED
    BY SeqMonotonic
<1>3. PICK f \in [0..n -> Nat] : /\ f[0] = 0
                                 /\ \A i \in 1..n : f[i] = f[i - 1] * b + s[i]
                                 /\ V = f[n]
  BY <1>2, ValueIsALoop
<1> HIDE DEF V
<1>4. \A i \in 0..n : f[i] < Power(b, i)
  <2> DEFINE T == {i \in Nat : i <= n => f[i] < Power(b, i)}
  <2>1. 0 \in T
    BY <1>3, PowerStep
  <2>2. ASSUME NEW i \in Nat, i \in T PROVE i + 1 \in T
    <3> SUFFICES ASSUME i + 1 <= n PROVE f[i + 1] < Power(b, i + 1)
      OBVIOUS
    <3>1. f[i] < Power(b, i) /\ f[i] \in Nat
      BY <1>1, <2>2
    <3>2. f[i + 1] = f[i] * b + s[i + 1] /\ s[i + 1] \in 0..(b - 1)
      <4> i + 1 \in 1..n /\ (i + 1) - 1 = i
        BY <1>1
      <4> QED
        BY <1>1, <1>3
    <3>3. Power(b, i) \in Nat /\ Power(b, i + 1) = b * Power(b, i)
      BY PowerStep
    <3>4. (f[i] + 1) * b <= Power(b, i) * b
      BY <3>1, <3>3, ProductGrows
    <3> DEFINE x == f[i] * b
               y == b * Power(b, i)
    <3>5. (f[i] + 1) * b = x + b /\ Power(b, i) * b = y /\ x \in Nat /\ y \in Nat
      <4>1. \A g, u \in Nat : (g + 1) * b = g * b + b /\ u * b = b * u
                              /\ g * b \in Nat /\ b * u \in Nat
        OBVIOUS
      <4> QED
        BY <3>1, <3>3, <4>1, Zenon
    <3>6. f[i + 1] = x + s[i + 1] /\ Power(b, i + 1) = y
      BY <3>2, <3>3
    <3> HIDE DEF x, y
    <3> QED
      BY <3>2, <3>4, <3>5, <3>6
  <2> HIDE DEF T
  <2>3. \A i \in Nat : i \in T
    BY <2>1, <2>2, InductionAlong
  <2> QED
    BY <2>3 DEF T
<1>5. V \in Nat /\ V < Power(b, n)
  BY <1>1, <1>3, <1>4
<1>6. \A k \in 0..n : f[n - k] = V \div Power(b, k)
  <2> DEFINE T == {k \in Nat : k <= n => f[n - k] = V \div Power(b, k)}
  <2>1. 0 \in T
    <3>1. V \div Power(b, 0) = V
      BY <1>5, PowerStep
    <3> QED
      BY <1>1, <1>3, <3>1
  <2>2. ASSUME NEW k \in Nat, k \in T PROVE k + 1 \in T
    <3> SUFFICES ASSUME k + 1 <= n PROVE f[n - (k + 1)] = V \div Power(b, k + 1)
      OBVIOUS
    <3>1. f[n - k] = V \div Power(b, k)
      BY <1>1, <2>2
    <3>2. n - k \in 1..n /\ (n - k) - 1 = n - (k + 1) /\ n - (k + 1) \in 0..n
      BY <1>1
    <3>4. f[n - (k + 1)] \in Nat /\ s[n - k] \in 0..(b - 1)
      BY <1>1, <3>2
    <3>3. f[n - k] = b * f[n - (k + 1)] + s[n - k]
      <4>1. f[n - k] = f[n - (k + 1)] * b + s[n - k]
        BY <1>3, <3>2
      <4> QED
        BY <3>4, <4>1
    <3>5. f[n - k] \div b = f[n - (k + 1)]
      BY <3>3, <3>4, DivModUnique
    <3>6. /\ Power(b, k) \in Nat \ {0}
          /\ Power(b, k + 1) = Power(b, k) * b
      <4>1. Power(b, k) \in Nat \ {0} /\ Power(b, k + 1) = b * Power(b, k)
        BY PowerStep, PowerPositive
      <4> QED
        BY <4>1
    <3>7. (V \div Power(b, k)) \div b = V \div (Power(b, k) * b)
      BY <1>5, <3>6, DivOfDiv
    <3> QED
      BY <3>1, <3>5, <3>6, <3>7
  <2> HIDE DEF T
  <2>3. \A k \in Nat : k \in T
    BY <2>1, <2>2, InductionAlong
  <2> QED
    BY <2>3 DEF T
<1> DEFINE d == Digits(V, b, n)
<1>7. d \in Seq(0..(b - 1)) /\ Len(d) = n /\ \A i \in 1..n : d[i] = (V \div Power(b, n - i)) % b
  BY <1>1, <1>5, DigitsType
<1> HIDE DEF d
<1>8. ASSUME NEW i \in 1..n
      PROVE  d[i] = s[i]
  <2>1. n - i \in 0..n /\ n - (n - i) = i /\ i - 1 \in 0..n
    BY <1>1
  <2>2. f[i] = V \div Power(b, n - i)
    BY <1>6, <2>1
  <2>3. f[i - 1] \in Nat /\ s[i] \in 0..(b - 1)
    BY <1>1, <2>1
  <2>4. f[i] = f[i - 1] * b + s[i]
    BY <1>3
  <2>5. f[i] = b * f[i - 1] + s[i]
    BY <2>3, <2>4
  <2>6. (b * f[i - 1] + s[i]) % b = s[i]
    BY <2>3, DivModUnique
  <2> QED
    BY <1>7, <2>2, <2>5, <2>6
<1>9. d = s
  BY <1>1, <1>7, <1>8, SeqEqual
<1> QED
  BY <1>5, <1>9 DEF d, V

\* Numbers that fit are told apart by their digits.
LEMMA DigitsDiffer ==
  ASSUME NEW b \in Nat \ {0}, NEW n \in Nat, NEW v \in Nat, NEW w \in Nat,
         v < Power(b, n), w < Power(b, n), Digits(v, b, n) = Digits(w, b, n)
  PROVE  v = w
BY ValueOfDigits

\* c sorts before d: it is smaller at the first place where they differ.
SortsBefore(c, d, n) ==
  \E i \in 1..n : c[i] < d[i] /\ \A j \in 1..(i - 1) : c[j] = d[j]

\* Digits order numbers as strings are ordered.
LEMMA DigitsKeepOrder ==
  ASSUME NEW b \in Nat \ {0}, NEW n \in Nat, NEW v \in Nat, NEW w \in Nat,
         v < w, w < Power(b, n)
  PROVE  SortsBefore(Digits(v, b, n), Digits(w, b, n), n)
<1> DEFINE c == Digits(v, b, n)
           d == Digits(w, b, n)
           g == [i \in 0..n |-> v \div Power(b, n - i)]
           h == [i \in 0..n |-> w \div Power(b, n - i)]
           T == {i \in 0..n : g[i] # h[i]}
<1>1. \A i \in 1..n : c[i] \in 0..(b - 1) /\ d[i] \in 0..(b - 1)
  <2>1. c \in Seq(0..(b - 1)) /\ Len(c) = n /\ d \in Seq(0..(b - 1)) /\ Len(d) = n
    BY DigitsType
  <2> HIDE DEF c, d
  <2> QED
    BY <2>1
<1>2. /\ \A i \in 0..n : g[i] \in Nat /\ h[i] \in Nat /\ g[i] <= h[i]
      /\ \A i \in 1..n : g[i] = g[i - 1] * b + c[i] /\ h[i] = h[i - 1] * b + d[i]
  <2>1. ASSUME NEW i \in 0..n
        PROVE  g[i] \in Nat /\ h[i] \in Nat /\ g[i] <= h[i]
    <3>1. Power(b, n - i) \in Nat \ {0}
      <4> n - i \in Nat
        OBVIOUS
      <4> QED
        BY PowerPositive
    <3>2. v \div Power(b, n - i) \in Nat /\ w \div Power(b, n - i) \in Nat
      BY <3>1, DivMod
    <3>3. v \div Power(b, n - i) <= w \div Power(b, n - i)
      BY <3>1, DivGrows
    <3> QED
      BY <3>2, <3>3
  <2>2. ASSUME NEW i \in 1..n
        PROVE  g[i] = g[i - 1] * b + c[i] /\ h[i] = h[i - 1] * b + d[i]
    <3>1. /\ g[i] = v \div Power(b, n - i) /\ g[i - 1] = v \div Power(b, n - (i - 1))
          /\ h[i] = w \div Power(b, n - i) /\ h[i - 1] = w \div Power(b, n - (i - 1))
      OBVIOUS
    <3> HIDE DEF g, h, c, d
    <3> QED
      BY <3>1, HeadsOfDigits DEF c, d
  <2> HIDE DEF g, h, c, d
  <2> QED
    BY <2>1, <2>2
<1>3. g[0] = h[0]
  <2>1. ASSUME NEW x \in Nat, x < Power(b, n)
        PROVE  x \div Power(b, n) = 0
    <3>1. Power(b, n) \in Nat \ {0} /\ x = Power(b, n) * 0 + x /\ x \in 0..(Power(b, n) - 1)
      BY <2>1, PowerPositive
    <3> QED
      BY <3>1, DivModUnique
  <2>2. v < Power(b, n)
    BY PowerPositive
  <2>3. v \div Power(b, n) = 0 /\ w \div Power(b, n) = 0
    BY <2>1, <2>2
  <2> QED
    BY <2>3
<1>4. g[n] = v /\ h[n] = w
  <2>1. Power(b, 0) = 1 /\ g[n] = v \div Power(b, n - n) /\ h[n] = w \div Power(b, n - n)
    BY PowerStep
  <2> HIDE DEF g, h
  <2> QED
    BY <2>1
<1> HIDE DEF g, h, c, d
<1>5. T \subseteq Nat /\ n \in T
  BY <1>4
<1>6. PICK i \in T : \A k \in T : i <= k
  BY <1>5, LeastElement
<1>7. i \in 1..n
  BY <1>3, <1>6
<1>8. \A k \in 0..(i - 1) : g[k] = h[k]
  BY <1>6, <1>7
<1>9. c[i] < d[i]
  <2>1. g[i - 1] = h[i - 1] /\ i - 1 \in 0..n /\ g[i] < h[i]
    BY <1>2, <1>6, <1>7, <1>8
  <2>2. g[i] = g[i - 1] * b + c[i] /\ h[i] = g[i - 1] * b + d[i]
    BY <1>2, <1>7, <2>1
  <2>3. g[i - 1] * b \in Nat
    BY <1>2, <2>1
  <2> QED
    BY <1>1, <1>7, <2>1, <2>2, <2>3
<1>10. ASSUME NEW j \in 1..(i - 1)
       PROVE  c[j] = d[j]
  <2>1. j \in 1..n /\ g[j] = h[j] /\ g[j - 1] = h[j - 1] /\ j - 1 \in 0..n
    BY <1>7, <1>8
  <2>2. g[j] = g[j - 1] * b + c[j] /\ g[j] = g[j - 1] * b + d[j]
    BY <1>2, <2>1
  <2>3. g[j - 1] * b \in Nat
    BY <1>2, <2>1
  <2> QED
    BY <1>1, <2>1, <2>2, <2>3
<1> QED
  BY <1>7, <1>9, <1>10 DEF c, d, SortsBefore

-------------------------------------------------------------------------------
(* The target.                                                             *)

\* The width of a byte: its base is an even number of at least four.
LEMMA ByteBaseType ==
  /\ ByteBase \in Nat \ {0, 1, 2, 3}
  /\ Low \in Nat \ {0, 1} /\ ByteBase = 2 * Low
  /\ \A k \in Nat : Power(ByteBase, k) \in Nat \ {0}
<1>1. ByteBits - 1 \in Nat \ {0} /\ (ByteBits - 1) + 1 = ByteBits /\ 2 \in Nat \ {0, 1}
  BY ByteBitsAssumption
<1>2. Low \in Nat \ {0} /\ ByteBase = 2 * Low
  BY <1>1, PowerStep, PowerPositive DEF Low, ByteBase
<1>3. Power(2, 0) < Low /\ Power(2, 0) = 1
  <2>1. 0 \in Nat /\ 0 < ByteBits - 1
    BY <1>1
  <2>2. Power(2, 0) < Power(2, ByteBits - 1)
    BY <1>1, <2>1, PowerGrows
  <2>3. Power(2, 0) = 1
    BY <1>1, PowerStep
  <2> QED
    BY <2>2, <2>3 DEF Low
<1>4. ByteBase \in Nat \ {0, 1, 2, 3}
  BY <1>2, <1>3
<1> QED
  BY <1>2, <1>3, <1>4, PowerPositive

\* Half of a power of the byte base, which is even.
LEMMA HalfPower ==
  ASSUME NEW k \in Nat \ {0}
  PROVE  /\ Power(ByteBase, k) \div 2 \in Nat
         /\ Power(ByteBase, k) = 2 * (Power(ByteBase, k) \div 2)
<1> DEFINE p == Power(ByteBase, k - 1)
           x == Low * p
<1>1. k - 1 \in Nat /\ (k - 1) + 1 = k /\ ByteBase \in Nat
  BY ByteBaseType
<1>2. Power(ByteBase, k) = ByteBase * p /\ p \in Nat
  BY <1>1, PowerStep
<1> HIDE DEF p
<1>3. x \in Nat
  BY <1>2, ByteBaseType
<1>4. (2 * Low) * p = 2 * x
  BY <1>2, ByteBaseType
<1>5. Power(ByteBase, k) = 2 * x
  BY <1>2, <1>4, ByteBaseType
<1> HIDE DEF x
<1> QED
  BY <1>3, <1>5

\* The size that BigInteger.ToByteArray gives a number: the least number of
\* bytes in which it is smaller than half of their range.
LEMMA SignedSizeIsLeast ==
  ASSUME NEW v \in Nat, 2 * v < Power(ByteBase, 2 * TargetSize)
  PROVE  /\ SignedSize(v) \in 1..(2 * TargetSize)
         /\ 2 * v < Power(ByteBase, SignedSize(v))
         /\ \A m \in 1..(SignedSize(v) - 1) : 2 * v >= Power(ByteBase, m)
<1> DEFINE Fits(n) == 2 * v < Power(ByteBase, n)
           T == {n \in 1..(2 * TargetSize) : Fits(n)}
<1>1. TargetSize \in Nat \ {0} /\ 2 * TargetSize \in 1..(2 * TargetSize)
  BY TargetAssumption
<1>2. PICK n \in T : \A k \in T : n <= k
  <2>1. T \subseteq Nat
    BY <1>1
  <2>2. T # {}
    BY <1>1
  <2> HIDE DEF T
  <2> QED
    BY <2>1, <2>2, LeastElement
<1>3. \A k \in 1..(2 * TargetSize) :
        Fits(k) <=> v < Power(ByteBase, k) \div 2
  <2> SUFFICES ASSUME NEW k \in 1..(2 * TargetSize)
               PROVE  Fits(k) <=> v < Power(ByteBase, k) \div 2
    OBVIOUS
  <2> DEFINE h == Power(ByteBase, k) \div 2
  <2>1. h \in Nat /\ Power(ByteBase, k) = 2 * h
    <3> k \in Nat \ {0}
      OBVIOUS
    <3> QED
      BY HalfPower
  <2> HIDE DEF h
  <2>2. Fits(k) <=> v < h
    BY <2>1
  <2> QED
    BY <2>2 DEF h
<1>4. \A k \in 1..(2 * TargetSize) :
        v >= Power(ByteBase, k) \div 2 <=> ~(v < Power(ByteBase, k) \div 2)
  <2>1. \A k \in 1..(2 * TargetSize) : k \in Nat \ {0}
    OBVIOUS
  <2>2. \A k \in 1..(2 * TargetSize) : Power(ByteBase, k) \div 2 \in Nat
    BY <2>1, HalfPower
  <2> HIDE DEF Fits, T
  <2> QED
    BY <2>2
<1> DEFINE Size(s) == v < Power(ByteBase, s) \div 2
                      /\ \A m \in 1..(s - 1) : v >= Power(ByteBase, m) \div 2
<1>5. n \in 1..(2 * TargetSize) /\ Size(n)
  <2>1. n \in 1..(2 * TargetSize) /\ Fits(n)
    BY <1>2
  <2>2. ASSUME NEW m \in 1..(n - 1)
        PROVE  v >= Power(ByteBase, m) \div 2
    <3>1. m \in 1..(2 * TargetSize) /\ ~(n <= m)
      BY <1>1, <2>1
    <3>2. ~Fits(m)
      BY <1>2, <3>1
    <3> HIDE DEF Fits, T
    <3> QED
      BY <1>3, <1>4, <3>1, <3>2
  <2> HIDE DEF Fits, T
  <2> QED
    BY <1>3, <2>1, <2>2
<1> DEFINE size == SignedSize(v)
<1>6. size \in 1..(2 * TargetSize) /\ Size(size)
  <2>1. size = CHOOSE s \in 1..(2 * TargetSize) : Size(s)
    BY DEF SignedSize
  <2> HIDE DEF size, Size
  <2> QED
    BY <1>5, <2>1
<1>7. Fits(size)
  <2> HIDE DEF size, Fits
  <2> QED
    BY <1>3, <1>6
<1>8. ASSUME NEW m \in 1..(size - 1)
      PROVE  2 * v >= Power(ByteBase, m)
  <2>1. m \in 1..(2 * TargetSize) /\ m \in Nat
    <3> HIDE DEF size, Size, Fits
    <3> QED
      BY <1>1, <1>6
  <2>2. v >= Power(ByteBase, m) \div 2
    BY <1>6
  <2>3. ~Fits(m)
    <3> HIDE DEF size, Size, Fits
    <3> QED
      BY <1>3, <1>4, <2>1, <2>2
  <2> QED
    BY <2>1, <2>3, ByteBaseType
<1> QED
  BY <1>6, <1>7, <1>8

\* EncodeTarget's numbers fit twice the bytes of a hash.
LEMMA QuotientFits ==
  ASSUME NEW diff \in Nat \ {0}
  PROVE  Quotient(diff) \in Nat /\ 2 * Quotient(diff) < Power(ByteBase, 2 * TargetSize)
<1> DEFINE d == DiffOne \div diff
           P == Power(ByteBase, TargetSize)
           q == d * (ByteBase - 1)
<1>1. /\ DiffOne \in Nat /\ DiffOne < P /\ P \in Nat \ {0} /\ ByteBase \in Nat
      /\ TargetSize \in Nat \ {0, 1} /\ ByteBase >= 4
  BY TargetAssumption, ByteBaseType
<1>2. d \in Nat /\ d <= DiffOne
  <2>1. DiffOne = diff * d + (DiffOne % diff) /\ d \in Nat /\ DiffOne % diff \in Nat
    <3>1. DiffOne = diff * d + (DiffOne % diff) /\ d \in Nat /\ DiffOne % diff \in 0..(diff - 1)
      <4> DiffOne \in Nat
        BY <1>1
      <4> QED
        BY DivMod
    <3> HIDE DEF d
    <3> QED
      BY <3>1
  <2> HIDE DEF d
  <2>2. diff * d >= d
    BY <2>1
  <2> QED
    BY <1>1, <2>1, <2>2
<1> HIDE DEF d, P
<1>3. q \in Nat /\ q <= P * (ByteBase - 1)
  <2>1. \E k \in Nat : P = d + k
    <3>1. P - d \in Nat /\ P = d + (P - d)
      BY <1>1, <1>2
    <3> QED
      BY <3>1
  <2>2. PICK k \in Nat : P = d + k
    BY <2>1
  <2>3. P * (ByteBase - 1) = q + k * (ByteBase - 1) /\ k * (ByteBase - 1) >= 0 /\ q \in Nat
    BY <1>1, <1>2, <2>2
  <2> DEFINE x == P * (ByteBase - 1)
             y == k * (ByteBase - 1)
  <2>4. x = q + y /\ y >= 0 /\ q \in Nat /\ y \in Nat
    BY <1>1, <2>3
  <2> HIDE DEF q, x, y
  <2>5. q <= x
    BY <2>4
  <2> QED
    BY <2>4, <2>5 DEF x
<1>4. Power(ByteBase, 2 * TargetSize) = P * P
  <2>1. 2 * TargetSize = TargetSize + TargetSize
    BY <1>1
  <2> QED
    BY <1>1, <2>1, PowerSum DEF P
<1>5. P >= 2 * ByteBase
  <2>1. PICK k \in Nat : TargetSize = 2 + k
    <3>1. TargetSize - 2 \in Nat /\ TargetSize = 2 + (TargetSize - 2)
      BY <1>1
    <3> QED
      BY <3>1
  <2>2. Power(ByteBase, 2) = ByteBase * ByteBase
    <3>1. Power(ByteBase, 0) = 1 /\ Power(ByteBase, 0 + 1) = ByteBase * Power(ByteBase, 0)
          /\ Power(ByteBase, 1 + 1) = ByteBase * Power(ByteBase, 1)
      <4> 0 \in Nat /\ 1 \in Nat
        OBVIOUS
      <4> QED
        BY <1>1, PowerStep
    <3>2. 0 + 1 = 1 /\ 1 + 1 = 2 /\ ByteBase * 1 = ByteBase
      BY <1>1
    <3> QED
      BY <3>1, <3>2
  <2>3. P = Power(ByteBase, 2) * Power(ByteBase, k) /\ Power(ByteBase, k) \in Nat \ {0}
    <3>1. 2 \in Nat /\ ByteBase \in Nat
      BY <1>1
    <3>2. Power(ByteBase, 2 + k) = Power(ByteBase, 2) * Power(ByteBase, k)
      BY <3>1, PowerSum
    <3>3. Power(ByteBase, k) \in Nat \ {0}
      BY ByteBaseType
    <3> QED
      BY <2>1, <3>2, <3>3 DEF P
  <2> DEFINE r == Power(ByteBase, k)
             s == ByteBase * ByteBase
  <2>4. s \in Nat /\ s >= 2 * ByteBase
    BY <1>1
  <2>5. P = s * r /\ r \in Nat \ {0}
    BY <2>2, <2>3
  <2> HIDE DEF r, s
  <2>6. s * r >= s
    BY <2>4, <2>5
  <2> QED
    BY <1>1, <2>4, <2>5, <2>6
<1>6. 2 * (P * (ByteBase - 1)) < P * P
  <2>1. PICK k \in Nat : P = 2 * ByteBase + k
    <3>1. P - 2 * ByteBase \in Nat /\ P = 2 * ByteBase + (P - 2 * ByteBase)
      BY <1>1, <1>5
    <3> QED
      BY <3>1
  <2>2. P * P = P * (2 * ByteBase + k)
    BY <2>1
  <2>3. P * (2 * ByteBase + k) = 2 * (P * (ByteBase - 1)) + (2 * P + P * k)
    <3> HIDE <2>1
    <3> QED
      BY <1>1
  <2>4. P * k >= 0 /\ P * k \in Nat
    BY <1>1
  <2>5. P * (ByteBase - 1) \in Nat
    BY <1>1
  <2> QED
    BY <1>1, <2>2, <2>3, <2>4, <2>5
<1>7. q = Quotient(diff)
  BY DEF Quotient, d
<1>8. P * (ByteBase - 1) \in Nat /\ P * P \in Nat
  BY <1>1
<1> HIDE DEF q
<1> QED
  BY <1>3, <1>4, <1>6, <1>7, <1>8

\* A number with leading zeros is its digits behind them: what PaddedQuotient
\* copies to the end.
LEMMA PaddedDigits ==
  ASSUME NEW v \in Nat, NEW size \in 0..TargetSize, v < Power(ByteBase, size)
  PROVE  CopyTo(Digits(v, ByteBase, size), [i \in 1..TargetSize |-> 0], TargetSize - size)
           = Digits(v, ByteBase, TargetSize)
<1> DEFINE zeros == [i \in 1..TargetSize |-> 0]
           short == Digits(v, ByteBase, size)
           at == TargetSize - size
           D(i) == (v \div Power(ByteBase, TargetSize - i)) % ByteBase
<1>1. TargetSize \in Nat /\ at \in 0..TargetSize /\ at + size = TargetSize /\ size \in Nat
  BY TargetAssumption
<1>2. Len(short) = size /\ \A i \in 1..size : short[i] = (v \div Power(ByteBase, size - i)) % ByteBase
  BY <1>1, ByteBaseType, DigitsType
<1> HIDE DEF short
<1>3. CopyTo(short, zeros, at) =
        [i \in 1..TargetSize |-> IF i \in (at + 1)..(at + size) THEN short[i - at] ELSE 0]
  BY <1>2 DEF CopyTo
<1> HIDE DEF zeros
<1>4. ASSUME NEW i \in 1..TargetSize
      PROVE  (IF i \in (at + 1)..(at + size) THEN short[i - at] ELSE 0) = D(i)
  <2>1. CASE i \in (at + 1)..(at + size)
    <3>1. i - at \in 1..size /\ size - (i - at) = TargetSize - i
      BY <1>1, <2>1
    <3>2. short[i - at] = (v \div Power(ByteBase, size - (i - at))) % ByteBase
      BY <1>2, <3>1
    <3>3. short[i - at] = D(i)
      BY <3>1, <3>2
    <3> QED
      BY <2>1, <3>3
  <2>2. CASE i \notin (at + 1)..(at + size)
    <3> DEFINE P == Power(ByteBase, TargetSize - i)
    <3>1. TargetSize - i \in Nat /\ (size = TargetSize - i \/ size < TargetSize - i)
      BY <1>1, <2>2
    <3>2. Power(ByteBase, size) <= P /\ P \in Nat \ {0} /\ Power(ByteBase, size) \in Nat
      BY <1>1, <3>1, ByteBaseType, PowerGrows
    <3> HIDE DEF P
    <3>3. v \in 0..(P - 1) /\ v = P * 0 + v
      BY <3>2
    <3>4. v \div P = 0
      BY <3>2, <3>3, DivModUnique
    <3>5. 0 % ByteBase = 0
      BY ByteBaseType
    <3>6. D(i) = 0
      BY <3>4, <3>5 DEF P
    <3> QED
      BY <2>2, <3>6
  <2> QED
    BY <2>1, <2>2
<1>5. Digits(v, ByteBase, TargetSize) = [i \in 1..TargetSize |-> D(i)]
  BY DEF Digits
<1> HIDE DEF D, at
<1>6. CopyTo(short, zeros, at) = [i \in 1..TargetSize |-> D(i)]
  BY <1>3, <1>4
<1> QED
  BY <1>5, <1>6 DEF short, zeros, at

\* Reverse turns a sequence around.
LEMMA ReverseIsASeq ==
  ASSUME NEW X, NEW s \in Seq(X)
  PROVE  /\ Reverse(s) \in Seq(X) /\ Len(Reverse(s)) = Len(s)
         /\ \A i \in 1..Len(s) : Reverse(s)[i] = s[(Len(s) - i) + 1]
<1> DEFINE N == Len(s)
           r == [i \in 1..N |-> s[(N - i) + 1]]
<1>1. N \in Nat /\ \A i \in 1..N : s[i] \in X
  BY FunctionOfSeq
<1> HIDE DEF N
<1>2. \A i \in 1..N : (N - i) + 1 \in 1..N
  BY <1>1
<1>3. r \in [1..N -> X]
  BY <1>1, <1>2
<1>4. r \in Seq(X) /\ Len(r) = N
  <2> HIDE DEF r
  <2> QED
    BY <1>1, <1>3, SeqOfFunction
<1>5. Reverse(s) = r
  BY DEF Reverse, N
<1>6. \A i \in 1..N : r[i] = s[(N - i) + 1]
  OBVIOUS
<1> HIDE DEF r
<1> QED
  BY <1>4, <1>5, <1>6 DEF N

\* Turned around twice it is as before.
LEMMA ReverseTwice ==
  ASSUME NEW X, NEW s \in Seq(X)
  PROVE  Reverse(Reverse(s)) = s
<1> DEFINE N == Len(s)
           r == Reverse(s)
           t == Reverse(r)
<1>1. N \in Nat
  BY FunctionOfSeq
<1>2. /\ r \in Seq(X) /\ Len(r) = N
      /\ \A i \in 1..N : r[i] = s[(N - i) + 1]
  BY ReverseIsASeq
<1> HIDE DEF r
<1>3. /\ t \in Seq(X) /\ Len(t) = N
      /\ \A i \in 1..N : t[i] = r[(N - i) + 1]
  BY <1>2, ReverseIsASeq
<1> HIDE DEF t
<1>4. \A i \in 1..N : (N - i) + 1 \in 1..N /\ (N - ((N - i) + 1)) + 1 = i
  <2> HIDE DEF N
  <2> QED
    BY <1>1
<1>5. \A i \in 1..N : t[i] = s[i]
  <2> HIDE DEF N
  <2> QED
    BY <1>2, <1>3, <1>4
<1>6. t = s
  BY <1>3, <1>5, SeqEqual
<1> QED
  BY <1>6 DEF t, r

\* The first digits are the digits of the quotient.
LEMMA FirstDigits ==
  ASSUME NEW v \in Nat, NEW b \in Nat \ {0}, NEW n \in Nat, NEW h \in 0..n
  PROVE  SubSeq(Digits(v, b, n), 1, h) = Digits(v \div Power(b, n - h), b, h)
<1> DEFINE d == Digits(v, b, n)
           w == v \div Power(b, n - h)
           e == Digits(w, b, h)
           s == SubSeq(d, 1, h)
<1>1. n - h \in Nat /\ h \in Nat /\ Power(b, n - h) \in Nat \ {0} /\ w \in Nat
  <2>1. n - h \in Nat /\ h \in Nat
    OBVIOUS
  <2>2. Power(b, n - h) \in Nat \ {0}
    BY <2>1, PowerPositive
  <2> QED
    BY <2>1, <2>2, DivMod
<1>2. /\ d \in Seq(0..(b - 1)) /\ Len(d) = n
      /\ \A i \in 1..n : d[i] = (v \div Power(b, n - i)) % b
  BY DigitsType
<1>3. /\ e \in Seq(0..(b - 1)) /\ Len(e) = h
      /\ \A i \in 1..h : e[i] = (w \div Power(b, h - i)) % b
  <2> w \in Nat /\ h \in Nat
    BY <1>1
  <2> HIDE DEF w
  <2> QED
    BY DigitsType
<1> HIDE DEF d, e
<1>4. s \in Seq(0..(b - 1)) /\ Len(s) = h /\ \A i \in 1..h : s[i] = d[i]
  <2>1. \A i \in 1..h : d[i] \in 0..(b - 1)
    BY <1>2, FunctionOfSeq
  <2>2. 1 \in Int /\ h \in Int /\ Len(s) = IF 1 <= h THEN (h - 1) + 1 ELSE 0
    BY <2>1, SubSeqProperties
  <2>3. s \in Seq(0..(b - 1)) /\ \A i \in 1..((h - 1) + 1) : s[i] = d[(1 + i) - 1]
    BY <2>1, SubSeqProperties
  <2>4. \A i \in 1..h : (1 + i) - 1 = i /\ i \in 1..((h - 1) + 1)
    OBVIOUS
  <2> HIDE DEF s
  <2>5. Len(s) = h
    BY <2>2
  <2> QED
    BY <2>3, <2>4, <2>5
<1> HIDE DEF s
<1>5. ASSUME NEW i \in 1..h
      PROVE  s[i] = e[i]
  <2>1. i \in 1..n /\ h - i \in Nat /\ (n - h) + (h - i) = n - i
    OBVIOUS
  <2>2. Power(b, n - i) = Power(b, n - h) * Power(b, h - i)
    BY <1>1, <2>1, PowerSum
  <2>3. Power(b, h - i) \in Nat \ {0}
    BY <2>1, PowerPositive
  <2>4. w \div Power(b, h - i) = v \div (Power(b, n - h) * Power(b, h - i))
    BY <1>1, <2>3, DivOfDiv
  <2> HIDE DEF w
  <2>5. e[i] = d[i]
    BY <1>2, <1>3, <2>1, <2>2, <2>4
  <2> QED
    BY <1>4, <2>5
<1>6. s = e
  BY <1>1, <1>3, <1>4, <1>5, SeqEqual
<1> QED
  BY <1>6 DEF s, d, e

\* MoneroJob.EncodeTarget: the miner is told the leading bytes of the quotient,
\* little-endian, when the quotient with its sign bit is shorter than a hash,
\* and zero bytes otherwise, for every difficulty.
THEOREM EncodeTargetTells ==
  ASSUME NEW diff \in Nat \ {0}
  PROVE  LET q == Quotient(diff)
             told == IF 2 * q < Power(ByteBase, TargetSize - 1)
                     THEN q \div Power(ByteBase, TargetSize - TargetHead) ELSE 0
         IN  /\ told \in Nat /\ told < Power(ByteBase, TargetHead)
             /\ EncodeTarget(diff) = Reverse(Digits(told, ByteBase, TargetHead))
             /\ Value(Reverse(EncodeTarget(diff)), ByteBase) = told
<1> DEFINE q == Quotient(diff)
           small == 2 * q < Power(ByteBase, TargetSize - 1)
           told == IF small THEN q \div Power(ByteBase, TargetSize - TargetHead) ELSE 0
           v == IF small THEN q ELSE 0
           size == SignedSize(q)
           d == Digits(v, ByteBase, TargetSize)
<1>1. /\ ByteBase \in Nat \ {0, 1, 2, 3} /\ TargetSize \in Nat \ {0, 1}
      /\ TargetHead \in 0..TargetSize
  BY TargetAssumption, ByteBaseType
<1>2. q \in Nat /\ 2 * q < Power(ByteBase, 2 * TargetSize)
  BY QuotientFits
<1> HIDE DEF q
<1>3. /\ size \in 1..(2 * TargetSize)
      /\ 2 * q < Power(ByteBase, size)
      /\ \A m \in 1..(size - 1) : 2 * q >= Power(ByteBase, m)
  BY <1>2, SignedSizeIsLeast
<1> HIDE DEF size
<1>4. small <=> size < TargetSize
  <2>1. CASE size < TargetSize
    <3>1. size \in Nat /\ TargetSize - 1 \in Nat
          /\ (size = TargetSize - 1 \/ size < TargetSize - 1)
      BY <1>1, <1>3, <2>1
    <3>2. Power(ByteBase, size) <= Power(ByteBase, TargetSize - 1)
      BY <1>1, <3>1, PowerGrows, ByteBaseType
    <3>3. Power(ByteBase, size) \in Nat /\ Power(ByteBase, TargetSize - 1) \in Nat
      BY <3>1, ByteBaseType
    <3> QED
      BY <1>2, <1>3, <2>1, <3>2, <3>3
  <2>2. CASE ~(size < TargetSize)
    <3>1. TargetSize - 1 \in 1..(size - 1) /\ TargetSize - 1 \in Nat
      BY <1>1, <1>3, <2>2
    <3>2. 2 * q >= Power(ByteBase, TargetSize - 1)
      BY <1>3, <3>1
    <3>3. Power(ByteBase, TargetSize - 1) \in Nat
      BY <3>1, ByteBaseType
    <3> QED
      BY <1>2, <2>2, <3>2, <3>3
  <2> QED
    BY <2>1, <2>2
<1>5. v \in Nat /\ (small => v = q /\ v < Power(ByteBase, size))
  <2>1. Power(ByteBase, size) \in Nat
    <3> size \in Nat
      BY <1>1, <1>3
    <3> QED
      BY ByteBaseType
  <2> QED
    BY <1>2, <1>3, <2>1
<1> HIDE DEF small
<1>6. PaddedQuotient(q) = d
  <2>1. CASE small
    <3>1. size \in 0..TargetSize /\ ~(size >= TargetSize)
      BY <1>1, <1>3, <1>4, <2>1
    <3>2. CopyTo(Digits(v, ByteBase, size), [i \in 1..TargetSize |-> 0], TargetSize - size) = d
      <4> HIDE DEF v
      <4> QED
        BY <1>5, <2>1, <3>1, PaddedDigits
    <3>3. PaddedQuotient(q) =
            CopyTo(Digits(q, ByteBase, size), [i \in 1..TargetSize |-> 0], TargetSize - size)
      BY <3>1, Zenon DEF PaddedQuotient, size
    <3> QED
      BY <1>5, <2>1, <3>2, <3>3
  <2>2. CASE ~small
    <3>1. size >= TargetSize
      BY <1>1, <1>3, <1>4, <2>2
    <3>2. PaddedQuotient(q) = [i \in 1..TargetSize |-> 0]
      BY <3>1, Zenon DEF PaddedQuotient, size
    <3>3. v = 0
      BY <2>2
    <3>4. CopyTo(Digits(0, ByteBase, 0), [i \in 1..TargetSize |-> 0], TargetSize - 0)
            = Digits(0, ByteBase, TargetSize)
      <4>1. 0 \in Nat /\ 0 \in 0..TargetSize /\ 0 < Power(ByteBase, 0)
        BY <1>1, ByteBaseType
      <4> QED
        BY <4>1, PaddedDigits
    <3>5. CopyTo(Digits(0, ByteBase, 0), [i \in 1..TargetSize |-> 0], TargetSize - 0)
            = [i \in 1..TargetSize |-> 0]
      <4> DEFINE none == Digits(0, ByteBase, 0)
      <4>1. Len(none) = 0
        <5> 0 \in Nat
          OBVIOUS
        <5> QED
          BY <1>1, DigitsType
      <4> HIDE DEF none
      <4>2. \A i \in 1..TargetSize : i \notin (TargetSize + 1)..(TargetSize + 0)
        BY <1>1
      <4>3. TargetSize - 0 = TargetSize
        BY <1>1
      <4> QED
        BY <4>1, <4>2, <4>3 DEF CopyTo, none
    <3> QED
      BY <3>2, <3>3, <3>4, <3>5
  <2> QED
    BY <2>1, <2>2
<1> DEFINE head == SubSeq(d, 1, TargetHead)
<1>7. EncodeTarget(diff) = Reverse(head)
  <2>1. EncodeTarget(diff) = Reverse(SubSeq(PaddedQuotient(q), 1, TargetHead))
    BY DEF EncodeTarget, q
  <2> HIDE DEF d
  <2> QED
    BY <1>6, <2>1, Zenon
<1>8. /\ v < Power(ByteBase, TargetSize)
      /\ v \div Power(ByteBase, TargetSize - TargetHead) = told
  <2>1. /\ TargetSize - TargetHead \in Nat
        /\ Power(ByteBase, TargetSize - TargetHead) \in Nat \ {0}
        /\ Power(ByteBase, TargetSize) \in Nat \ {0}
    BY <1>1, ByteBaseType
  <2>2. CASE small
    <3>1. size \in Nat /\ TargetSize \in Nat /\ size < TargetSize
      BY <1>1, <1>3, <1>4, <2>2
    <3>2. Power(ByteBase, size) < Power(ByteBase, TargetSize)
      BY <1>1, <3>1, PowerGrows
    <3>3. Power(ByteBase, size) \in Nat
      BY <3>1, ByteBaseType
    <3>4. v < Power(ByteBase, TargetSize)
      BY <1>5, <2>1, <2>2, <3>2, <3>3
    <3> QED
      BY <2>2, <3>4
  <2>3. CASE ~small
    <3> DEFINE P == Power(ByteBase, TargetSize - TargetHead)
    <3>1. P \in Nat \ {0} /\ v = 0 /\ told = 0
      BY <2>1, <2>3
    <3>2. v < Power(ByteBase, TargetSize)
      BY <2>1, <3>1
    <3>3. 0 \in 0..(P - 1) /\ P * 0 + 0 = 0
      BY <3>1
    <3> HIDE DEF P
    <3>4. 0 \div P = 0
      BY <3>1, <3>3, DivModUnique
    <3> QED
      BY <3>1, <3>2, <3>4 DEF P
  <2> QED
    BY <2>2, <2>3
<1> HIDE DEF v
<1>9. head = Digits(told, ByteBase, TargetHead)
  <2>1. TargetSize \in Nat /\ TargetHead \in 0..TargetSize /\ ByteBase \in Nat \ {0}
    BY <1>1
  <2>2. head = Digits(v \div Power(ByteBase, TargetSize - TargetHead), ByteBase, TargetHead)
    BY <1>5, <2>1, FirstDigits
  <2> QED
    BY <1>8, <2>2
<1>10. told \in Nat /\ told < Power(ByteBase, TargetHead)
  <2> DEFINE P == Power(ByteBase, TargetSize - TargetHead)
             R == Power(ByteBase, TargetHead)
  <2>1. TargetSize - TargetHead \in Nat /\ TargetHead \in Nat
        /\ (TargetSize - TargetHead) + TargetHead = TargetSize /\ ByteBase \in Nat
    BY <1>1
  <2>2. Power(ByteBase, TargetSize) = P * R /\ P \in Nat \ {0} /\ R \in Nat \ {0}
    <3>1. Power(ByteBase, (TargetSize - TargetHead) + TargetHead) = P * R
      BY <2>1, PowerSum
    <3> QED
      BY <2>1, <3>1, ByteBaseType
  <2>3. v = P * told + (v % P) /\ told \in Nat /\ v % P \in 0..(P - 1)
    <3>1. v = P * (v \div P) + (v % P) /\ v \div P \in Nat /\ v % P \in 0..(P - 1)
      <4> HIDE DEF P
      <4> QED
        BY <1>5, <2>2, DivMod
    <3> HIDE DEF told
    <3> QED
      BY <1>8, <3>1
  <2>4. v < P * R
    BY <1>8, <2>2
  <2> HIDE DEF P, R, told
  <2>5. ASSUME told >= R PROVE FALSE
    <3>1. PICK k \in Nat : told = R + k
      <4>1. told - R \in Nat /\ told = R + (told - R)
        BY <2>2, <2>3, <2>5
      <4> QED
        BY <4>1
    <3>2. P * told = P * R + P * k /\ P * k >= 0
      BY <2>2, <3>1
    <3> QED
      BY <2>2, <2>3, <2>4, <3>2
  <2>6. told < R
    BY <2>2, <2>3, <2>5
  <2> QED
    BY <2>3, <2>6 DEF R
<1> HIDE DEF told
<1>11. /\ Digits(told, ByteBase, TargetHead) \in Seq(0..(ByteBase - 1))
       /\ Value(Digits(told, ByteBase, TargetHead), ByteBase) = told
  <2> TargetHead \in Nat /\ ByteBase \in Nat \ {0}
    BY <1>1
  <2> QED
    BY <1>10, DigitsType, ValueOfDigits
<1> HIDE DEF head
<1>12. Reverse(EncodeTarget(diff)) = head
  BY <1>7, <1>9, <1>11, ReverseTwice
<1>13. /\ EncodeTarget(diff) = Reverse(Digits(told, ByteBase, TargetHead))
       /\ Value(Reverse(EncodeTarget(diff)), ByteBase) = told
  BY <1>7, <1>9, <1>11, <1>12
<1> QED
  BY <1>10, <1>13 DEF told, small, q

-------------------------------------------------------------------------------
(* The passes of tree-hash.c.                                              *)

\* The number of hashes of a block is between two powers of two, the smaller
\* one of which tree-hash.c finds.
LEMMA TreeHashPowType ==
  ASSUME NEW n \in Nat, 2 < n, n <= Power(2, 28)
  PROVE  /\ TreeHashPow(n) \in 1..27
         /\ Power(2, TreeHashPow(n)) < n /\ n <= Power(2, TreeHashPow(n) + 1)
<1> DEFINE T == {k \in Nat : n <= Power(2, k + 1)}
           Half(k) == Power(2, k) < n /\ n <= Power(2, k + 1)
<1>1. \A k \in Nat : Power(2, k) \in Nat \ {0} /\ Power(2, k + 1) = 2 * Power(2, k)
  <2> 2 \in Nat \ {0}
    OBVIOUS
  <2> QED
    BY PowerStep, PowerPositive
<1>2. 27 \in T
  <2>1. 27 \in Nat /\ 27 + 1 = 28
    OBVIOUS
  <2> QED
    BY <2>1
<1>3. PICK k \in T : \A m \in T : k <= m
  <2>1. T \subseteq Nat /\ T # {}
    BY <1>2
  <2> HIDE DEF T
  <2> QED
    BY <2>1, LeastElement
<1>4. k \in 0..27
  BY <1>2, <1>3
<1>5. Power(2, k) < n
  <2>1. CASE k = 0
    <3> Power(2, 0) = 1
      BY PowerStep
    <3> QED
      BY <2>1
  <2>2. CASE k # 0
    <3>1. k - 1 \in Nat /\ (k - 1) + 1 = k /\ k \in Nat /\ ~(k <= k - 1)
      BY <1>4, <2>2
    <3>2. ~(k - 1 \in T)
      BY <1>3, <3>1
    <3>3. ~(n <= Power(2, k))
      BY <3>1, <3>2
    <3> QED
      BY <1>1, <3>1, <3>3
  <2> QED
    BY <2>1, <2>2
<1>6. k \in 0..27 /\ Half(k)
  BY <1>3, <1>4, <1>5
<1> DEFINE p == TreeHashPow(n)
<1>7. p \in 0..27 /\ Half(p)
  <2>1. p = CHOOSE j \in 0..27 : Half(j)
    BY DEF TreeHashPow
  <2> HIDE DEF p, Half
  <2> QED
    BY <1>6, <2>1
<1> HIDE DEF p
<1>8. p # 0
  <2>1. Power(2, 0) = 1 /\ Power(2, 0 + 1) = 2 * Power(2, 0)
    BY PowerStep
  <2> QED
    BY <1>7, <2>1
<1> QED
  BY <1>7, <1>8 DEF p

\* ints is an array of n hashes.
IsArray(ints, n) == ints = [i \in 1..n |-> ints[i]]

\* The entries of the array are hashes of two neighbours of the array before.
ArePairs(new, old, cnt) == \A j \in 1..cnt : new[j] = <<old[2 * j - 1], old[2 * j]>>

\* A pass of the while loop, in place, reads every entry before it is
\* overwritten.
LEMMA HalveLayerPairs ==
  ASSUME NEW N \in Nat, NEW cnt \in Nat, 2 * cnt <= N, NEW ints, IsArray(ints, N)
  PROVE  IsArray(HalveLayer(ints, cnt), N) /\ ArePairs(HalveLayer(ints, cnt), ints, cnt)
<1> DEFINE Entry(i, j) == IF i <= j THEN <<ints[2 * i - 1], ints[2 * i]>> ELSE ints[i]
           After(j) == [i \in 1..N |-> Entry(i, j)]
           f == [j \in 0..cnt |-> After(j)]
           Passes(g) == g = [j \in 0..cnt |-> IF j = 0 THEN ints ELSE HashPair(g[j - 1], j)]
           p == CHOOSE g : Passes(g)
<1>1. After(0) = ints
  <2>1. \A i \in 1..N : Entry(i, 0) = ints[i]
    <3> \A i \in 1..N : ~(i <= 0)
      OBVIOUS
    <3> QED
      OBVIOUS
  <2> HIDE DEF Entry
  <2>2. After(0) = [i \in 1..N |-> ints[i]]
    BY <2>1
  <2> QED
    BY <2>2 DEF IsArray
<1>2. ASSUME NEW j \in 1..cnt
      PROVE  HashPair(After(j - 1), j) = After(j)
  <2>1. 2 * j - 1 \in 1..N /\ 2 * j \in 1..N /\ j \in 1..N
    OBVIOUS
  <2>2. ~(2 * j - 1 <= j - 1) /\ ~(2 * j <= j - 1)
    OBVIOUS
  <2>3. After(j - 1)[2 * j - 1] = ints[2 * j - 1] /\ After(j - 1)[2 * j] = ints[2 * j]
    BY <2>1, <2>2
  <2> DEFINE old == After(j - 1)
             new == <<old[2 * j - 1], old[2 * j]>>
  <2>4. HashPair(old, j) = [old EXCEPT ![j] = new]
    BY DEF HashPair, FastHash
  <2>5. new = Entry(j, j)
    <3>1. j <= j
      OBVIOUS
    <3> HIDE DEF old
    <3> QED
      BY <2>3, <3>1 DEF old
  <2>6. \A i \in 1..N : i # j => Entry(i, j - 1) = Entry(i, j)
    <3>1. \A i \in 1..N : i # j => (i <= j - 1 <=> i <= j)
      OBVIOUS
    <3> QED
      BY <3>1
  <2> HIDE DEF Entry, new
  <2>7. [old EXCEPT ![j] = new] = [i \in 1..N |-> IF i = j THEN new ELSE Entry(i, j - 1)]
    BY <2>1
  <2>8. \A i \in 1..N : (IF i = j THEN new ELSE Entry(i, j - 1)) = Entry(i, j)
    BY <2>5, <2>6
  <2>9. [i \in 1..N |-> IF i = j THEN new ELSE Entry(i, j - 1)] = After(j)
    BY <2>8
  <2> QED
    BY <2>4, <2>7, <2>9
<1> HIDE DEF After
<1>3. f[0] = ints /\ \A j \in 1..cnt : f[j] = HashPair(f[j - 1], j)
  <2>1. \A j \in 1..cnt : f[j] = After(j) /\ f[j - 1] = After(j - 1)
    OBVIOUS
  <2>2. f[0] = After(0)
    OBVIOUS
  <2> HIDE DEF f
  <2> QED
    BY <1>1, <1>2, <2>1, <2>2
<1>4. Passes(f)
  <2>1. \A j \in 0..cnt : j # 0 => j \in 1..cnt
    OBVIOUS
  <2>2. \A j \in 0..cnt : f[j] = IF j = 0 THEN ints ELSE HashPair(f[j - 1], j)
    <3> HIDE DEF f
    <3> QED
      BY <1>3, <2>1
  <2>3. f = [j \in 0..cnt |-> f[j]]
    OBVIOUS
  <2> HIDE DEF f
  <2> QED
    BY <2>2, <2>3
<1>5. Passes(p)
  <2> HIDE DEF Passes, f
  <2> QED
    BY <1>4
<1>6. HalveLayer(ints, cnt) = p[cnt]
  BY DEF HalveLayer
<1> HIDE DEF p
<1>7. p[0] = ints /\ \A j \in 1..cnt : p[j] = HashPair(p[j - 1], j)
  <2>1. \A j \in 1..cnt : j \in 0..cnt /\ j # 0
    OBVIOUS
  <2>2. \A j \in 0..cnt : p[j] = IF j = 0 THEN ints ELSE HashPair(p[j - 1], j)
    BY <1>5, Zenon
  <2>3. 0 \in 0..cnt
    OBVIOUS
  <2> HIDE DEF Passes
  <2> QED
    BY <2>1, <2>2, <2>3
<1> HIDE DEF Passes, f
<1>8. Agree(f, p, cnt)
  <2>1. f[0] = p[0]
    BY <1>3, <1>7
  <2>2. StepAlike(f, p, cnt)
    BY <1>3, <1>7 DEF StepAlike
  <2> QED
    BY <2>1, <2>2, LoopsAgree
<1>9. HalveLayer(ints, cnt) = After(cnt)
  <2>1. cnt \in 0..cnt /\ f[cnt] = After(cnt)
    BY DEF f
  <2> QED
    BY <1>6, <1>8, <2>1 DEF Agree
<1>10. IsArray(After(cnt), N)
  BY DEF After, IsArray
<1>11. ArePairs(After(cnt), ints, cnt)
  <2>1. \A j \in 1..cnt : j \in 1..N /\ j <= cnt
    OBVIOUS
  <2> QED
    BY <2>1 DEF After, ArePairs
<1> QED
  BY <1>9, <1>10, <1>11

\* L are the layers of the tree: the first one, and then passes until two
\* hashes are left, whose hash is the root.
AreLayers(L, hashes, pow) ==
  /\ L[0] = FirstLayer(hashes)
  /\ \A k \in 1..(pow - 1) : ArePairs(L[k], L[k - 1], Power(2, pow - k))
  /\ TreeHash(hashes) = <<L[pow - 1][1], L[pow - 1][2]>>

\* The first layer is an array of half a power of two.
LEMMA FirstLayerType ==
  ASSUME NEW hashes, NEW pow, pow = TreeHashPow(Len(hashes))
  PROVE  /\ IsArray(FirstLayer(hashes), Power(2, pow))
         /\ \A j \in 1..Power(2, pow) :
              FirstLayer(hashes)[j] =
                LET whole == 2 * Power(2, pow) - Len(hashes)
                IN  IF j <= whole THEN hashes[j]
                    ELSE <<hashes[2 * j - whole - 1], hashes[2 * j - whole]>>
BY DEF FirstLayer, TreeHashCount, FastHash, IsArray

\* Every block of more than two transactions has its layers.
LEMMA TreeHashHasLayers ==
  ASSUME NEW hashes, Len(hashes) \in Nat, 2 < Len(hashes), Len(hashes) <= Power(2, 28),
         NEW pow, pow = TreeHashPow(Len(hashes))
  PROVE  \E L : AreLayers(L, hashes, pow)
<1>n. Len(hashes) # 1 /\ Len(hashes) # 2
  <2>1. \A n \in Nat : 2 < n => n # 1 /\ n # 2
    OBVIOUS
  <2> QED
    BY <2>1, Zenon
<1>1. pow \in 1..27 /\ pow - 1 \in Nat
  <2>1. pow \in 1..27
    BY TreeHashPowType, Zenon
  <2>2. \A k \in 1..27 : k - 1 \in Nat
    OBVIOUS
  <2> QED
    BY <2>1, <2>2, Zenon
<1> DEFINE first == FirstLayer(hashes)
           Pass(prev, k) == HalveLayer(prev, Power(2, pow - k))
           Results(f, M) == f = [k \in 0..M |-> IF k = 0 THEN first ELSE Pass(f[k - 1], k)]
           p == CHOOSE f : Results(f, pow - 1)
           root == TreeHash(hashes)
<1>2. root = <<p[pow - 1][1], p[pow - 1][2]>>
  <2> QED
    BY <1>n DEF TreeHash, FastHash
<1> HIDE DEF root, first, Pass, p
<1> DEFINE T == {M \in Nat : \E f : Results(f, M)}
<1>3. 0 \in T
  <2> DEFINE f == [k \in 0..0 |-> first]
  <2>1. Results(f, 0)
    OBVIOUS
  <2> QED
    BY <2>1
<1>4. ASSUME NEW M \in Nat, M \in T PROVE M + 1 \in T
  <2>1. PICK f : Results(f, M)
    BY <1>4
  <2> DEFINE g == [k \in 0..(M + 1) |-> IF k <= M THEN f[k] ELSE Pass(f[M], M + 1)]
  <2>2. \A k \in 0..M : f[k] = IF k = 0 THEN first ELSE Pass(f[k - 1], k)
    BY <2>1, Zenon
  <2>3. ASSUME NEW k \in 0..(M + 1)
        PROVE  g[k] = IF k = 0 THEN first ELSE Pass(g[k - 1], k)
    <3>1. CASE k = 0
      <4>1. 0 \in 0..M /\ 0 \in 0..(M + 1) /\ 0 <= M
        OBVIOUS
      <4>2. f[0] = first /\ g[0] = f[0]
        BY <2>2, <4>1
      <4> QED
        BY <3>1, <4>2
    <3>2. CASE k # 0 /\ k <= M
      <4>1. k \in 0..M /\ k - 1 \in 0..(M + 1) /\ k - 1 <= M
        BY <3>2
      <4>2. g[k] = f[k] /\ g[k - 1] = f[k - 1]
        BY <3>2, <4>1
      <4>3. f[k] = Pass(f[k - 1], k)
        BY <2>2, <3>2, <4>1
      <4> HIDE DEF g
      <4> QED
        BY <3>2, <4>2, <4>3
    <3>3. CASE k = M + 1
      <4>1. ~(k <= M) /\ k # 0 /\ k - 1 = M /\ M \in 0..(M + 1) /\ M <= M
        BY <3>3
      <4>2. g[k] = Pass(f[M], M + 1) /\ g[M] = f[M]
        BY <4>1
      <4> HIDE DEF g
      <4> QED
        BY <3>3, <4>1, <4>2
    <3> QED
      BY <3>1, <3>2, <3>3
  <2>4. g = [k \in 0..(M + 1) |-> g[k]]
    OBVIOUS
  <2> HIDE DEF g
  <2>5. Results(g, M + 1)
    BY <2>3, <2>4
  <2> HIDE DEF Results
  <2> QED
    BY <2>5
<1> HIDE DEF Results
<1>5. \E f : Results(f, pow - 1)
  <2> HIDE DEF T
  <2>1. \A M \in Nat : M \in T
    BY <1>3, <1>4, InductionAlong
  <2>2. pow - 1 \in T
    BY <1>1, <2>1
  <2> QED
    BY <2>2 DEF T
<1>6. Results(p, pow - 1)
  BY <1>5 DEF p
<1>7. \A k \in 0..(pow - 1) : p[k] = IF k = 0 THEN first ELSE Pass(p[k - 1], k)
  BY <1>6, Zenon DEF Results
<1>8. p[0] = first /\ \A k \in 1..(pow - 1) : p[k] = Pass(p[k - 1], k)
  <2>1. 0 \in 0..(pow - 1) /\ \A k \in 1..(pow - 1) : k \in 0..(pow - 1) /\ k # 0
    BY <1>1
  <2> QED
    BY <1>7, <2>1
<1>9. \A k \in 0..pow : /\ Power(2, pow - k) \in Nat
                        /\ Power(2, pow - k) <= Power(2, pow)
                        /\ k # 0 => 2 * Power(2, pow - k) = Power(2, pow - (k - 1))
  <2> SUFFICES ASSUME NEW k \in 0..pow
               PROVE  /\ Power(2, pow - k) \in Nat
                      /\ Power(2, pow - k) <= Power(2, pow)
                      /\ k # 0 => 2 * Power(2, pow - k) = Power(2, pow - (k - 1))
    OBVIOUS
  <2>1. pow - k \in Nat /\ pow \in Nat /\ 2 \in Nat \ {0, 1} /\ 2 \in Nat
        /\ (pow - k = pow \/ pow - k < pow) /\ pow - (k - 1) = (pow - k) + 1
    BY <1>1
  <2>2. Power(2, pow - k) \in Nat /\ Power(2, pow) \in Nat
        /\ Power(2, (pow - k) + 1) = 2 * Power(2, pow - k)
    BY <2>1, PowerStep
  <2>3. pow - k < pow => Power(2, pow - k) < Power(2, pow)
    BY <2>1, PowerGrows
  <2>4. Power(2, pow - k) <= Power(2, pow)
    <3> DEFINE a == Power(2, pow - k)
               c == Power(2, pow)
    <3>1. a < c \/ a = c
      BY <2>1, <2>3, Zenon
    <3>2. a \in Nat /\ c \in Nat
      BY <2>2
    <3> HIDE DEF a, c
    <3>3. a <= c
      BY <3>1, <3>2
    <3> QED
      BY <3>3 DEF a, c
  <2>5. 2 * Power(2, pow - k) = Power(2, pow - (k - 1))
    BY <2>1, <2>2
  <2> QED
    BY <2>2, <2>4, <2>5
<1> DEFINE N == Power(2, pow)
           Arrays == {M \in Nat : M <= pow - 1 => IsArray(p[M], N)}
<1>10. 0 \in Arrays
  BY <1>8, FirstLayerType DEF first
<1>11. ASSUME NEW k \in 1..(pow - 1), IsArray(p[k - 1], N)
       PROVE  IsArray(p[k], N) /\ ArePairs(p[k], p[k - 1], Power(2, pow - k))
  <2> DEFINE cnt == Power(2, pow - k)
  <2>1. k \in 0..pow /\ k # 0 /\ k - 1 \in 0..pow /\ 0 \in 0..pow
    BY <1>1
  <2>2. cnt \in Nat /\ 2 * cnt <= N /\ N \in Nat
    <3>1. cnt \in Nat /\ 2 * cnt = Power(2, pow - (k - 1)) /\ Power(2, pow - (k - 1)) <= N
      BY <1>9, <2>1
    <3>2. N \in Nat
      <4> pow \in Nat /\ 2 \in Nat
        BY <1>1
      <4> QED
        BY PowerStep
    <3> HIDE DEF cnt, N
    <3> QED
      BY <3>1, <3>2
  <2> HIDE DEF cnt, N
  <2>3. p[k] = HalveLayer(p[k - 1], cnt)
    BY <1>8 DEF Pass, cnt
  <2>4. IsArray(HalveLayer(p[k - 1], cnt), N) /\ ArePairs(HalveLayer(p[k - 1], cnt), p[k - 1], cnt)
    BY <1>11, <2>2, HalveLayerPairs
  <2> QED
    BY <2>3, <2>4 DEF cnt
<1>12. ASSUME NEW M \in Nat, M \in Arrays PROVE M + 1 \in Arrays
  <2> SUFFICES ASSUME M + 1 <= pow - 1 PROVE IsArray(p[M + 1], N)
    OBVIOUS
  <2>1. M + 1 \in 1..(pow - 1) /\ (M + 1) - 1 = M /\ M <= pow - 1
    BY <1>1
  <2>2. IsArray(p[M], N)
    BY <1>12, <2>1
  <2> HIDE DEF N, Arrays
  <2> QED
    BY <1>11, <2>1, <2>2
<1> HIDE DEF Arrays, N
<1>13. \A M \in Nat : M \in Arrays
  BY <1>10, <1>12, InductionAlong
<1>14. \A k \in 1..(pow - 1) : ArePairs(p[k], p[k - 1], Power(2, pow - k))
  <2> SUFFICES ASSUME NEW k \in 1..(pow - 1)
               PROVE  ArePairs(p[k], p[k - 1], Power(2, pow - k))
    OBVIOUS
  <2>1. k - 1 \in Nat /\ k - 1 <= pow - 1
    BY <1>1
  <2>2. IsArray(p[k - 1], N)
    BY <1>13, <2>1 DEF Arrays
  <2> QED
    BY <1>11, <2>2
<1>15. AreLayers(p, hashes, pow)
  BY <1>2, <1>8, <1>14 DEF AreLayers, root, first
<1> QED
  BY <1>15

\* The root tells blocks apart whose first transactions have different hashes.
LEMMA RootTellsFirstHash ==
  ASSUME NEW s, NEW t, Len(s) \in Nat \ {0}, Len(s) <= Power(2, 28), Len(t) = Len(s),
         TreeHash(s) = TreeHash(t)
  PROVE  s[1] = t[1]
<1>1. CASE Len(s) = 1
  BY <1>1, Zenon DEF TreeHash
<1>2. CASE Len(s) = 2
  <2>1. Len(s) # 1 /\ Len(t) # 1 /\ Len(t) = 2
    <3> 2 # 1
      OBVIOUS
    <3> QED
      BY <1>2, Zenon
  <2>2. <<s[1], s[2]>> = <<t[1], t[2]>>
    BY <1>2, <2>1, Zenon DEF TreeHash, FastHash
  <2> QED
    BY <2>2
<1>3. CASE Len(s) # 1 /\ Len(s) # 2
  <2>1. Len(s) \in Nat /\ 2 < Len(s)
    <3> \A n \in Nat \ {0} : n # 1 /\ n # 2 => n \in Nat /\ 2 < n
      OBVIOUS
    <3> QED
      BY <1>3, Zenon
  <2>2. PICK pow : pow = TreeHashPow(Len(s))
    OBVIOUS
  <2>3. pow \in 1..27
    BY <2>1, <2>2, TreeHashPowType, Zenon
  <2>4. PICK L : AreLayers(L, s, pow)
    BY <2>1, <2>2, TreeHashHasLayers, Zenon
  <2>5. PICK M : AreLayers(M, t, pow)
    BY <2>1, <2>2, TreeHashHasLayers, Zenon
  <2> DEFINE T == {k \in Nat : k <= pow - 1 => L[(pow - 1) - k][1] = M[(pow - 1) - k][1]}
  <2>6. 0 \in T
    <3>1. TreeHash(s) = <<L[pow - 1][1], L[pow - 1][2]>> /\ TreeHash(t) = <<M[pow - 1][1], M[pow - 1][2]>>
      BY <2>4, <2>5, Zenon DEF AreLayers
    <3> DEFINE l == <<L[pow - 1][1], L[pow - 1][2]>>
               m == <<M[pow - 1][1], M[pow - 1][2]>>
    <3>2. l = m
      BY <3>1, Zenon
    <3>3. l[1] = L[pow - 1][1] /\ m[1] = M[pow - 1][1]
      OBVIOUS
    <3> HIDE DEF l, m
    <3>4. L[pow - 1][1] = M[pow - 1][1]
      BY <3>2, <3>3, Zenon
    <3>5. (pow - 1) - 0 = pow - 1
      BY <2>3
    <3> QED
      BY <3>4, <3>5
  <2>7. ASSUME NEW k \in Nat, k \in T PROVE k + 1 \in T
    <3> SUFFICES ASSUME k + 1 <= pow - 1
                 PROVE  L[(pow - 1) - (k + 1)][1] = M[(pow - 1) - (k + 1)][1]
      OBVIOUS
    <3> DEFINE d == (pow - 1) - k
    <3>1. d \in 1..(pow - 1) /\ d - 1 = (pow - 1) - (k + 1) /\ k <= pow - 1 /\ pow - d \in Nat
      BY <2>3
    <3>2. L[d][1] = M[d][1]
      BY <2>7, <3>1
    <3> HIDE DEF d, T
    <3>3. 1 \in 1..Power(2, pow - d) /\ 2 * 1 - 1 = 1 /\ 2 * 1 = 2
      <4> 2 \in Nat \ {0}
        OBVIOUS
      <4>1. Power(2, pow - d) \in Nat \ {0}
        BY <3>1, PowerPositive
      <4> QED
        BY <4>1
    <3>4. ArePairs(L[d], L[d - 1], Power(2, pow - d)) /\ ArePairs(M[d], M[d - 1], Power(2, pow - d))
      BY <2>4, <2>5, <3>1, Zenon DEF AreLayers
    <3> DEFINE l == <<L[d - 1][1], L[d - 1][2]>>
               m == <<M[d - 1][1], M[d - 1][2]>>
    <3>5. L[d][1] = l /\ M[d][1] = m
      <4>1. /\ L[d][1] = <<L[d - 1][2 * 1 - 1], L[d - 1][2 * 1]>>
            /\ M[d][1] = <<M[d - 1][2 * 1 - 1], M[d - 1][2 * 1]>>
        BY <3>3, <3>4, Zenon DEF ArePairs
      <4> QED
        BY <3>3, <4>1, Zenon
    <3>6. l[1] = L[d - 1][1] /\ m[1] = M[d - 1][1]
      OBVIOUS
    <3> HIDE DEF l, m
    <3> QED
      BY <3>1, <3>2, <3>5, <3>6
  <2> HIDE DEF T
  <2>8. \A k \in Nat : k \in T
    BY <2>6, <2>7, InductionAlong
  <2>9. L[0][1] = M[0][1]
    <3>1. pow - 1 \in Nat /\ pow - 1 <= pow - 1 /\ (pow - 1) - (pow - 1) = 0
      BY <2>3
    <3>2. pow - 1 \in T
      BY <2>8, <3>1
    <3> QED
      BY <3>1, <3>2 DEF T
  <2>10. FirstLayer(s)[1] = FirstLayer(t)[1]
    BY <2>4, <2>5, <2>9, Zenon DEF AreLayers
  <2> DEFINE whole == 2 * Power(2, pow) - Len(s)
             First(u) == FirstLayer(u)[1] =
                           IF 1 <= whole THEN u[1]
                           ELSE <<u[2 * 1 - whole - 1], u[2 * 1 - whole]>>
  <2>11. First(s) /\ First(t)
    <3>1. 1 \in 1..Power(2, pow)
      <4> 2 \in Nat \ {0} /\ pow \in Nat
        BY <2>3
      <4>1. Power(2, pow) \in Nat \ {0}
        BY PowerPositive
      <4> QED
        BY <4>1
    <3>2. pow = TreeHashPow(Len(s)) /\ pow = TreeHashPow(Len(t))
      BY <2>2, Zenon
    <3>3. /\ \A j \in 1..Power(2, pow) :
               FirstLayer(s)[j] =
                 LET w == 2 * Power(2, pow) - Len(s)
                 IN  IF j <= w THEN s[j] ELSE <<s[2 * j - w - 1], s[2 * j - w]>>
          /\ \A j \in 1..Power(2, pow) :
               FirstLayer(t)[j] =
                 LET w == 2 * Power(2, pow) - Len(t)
                 IN  IF j <= w THEN t[j] ELSE <<t[2 * j - w - 1], t[2 * j - w]>>
      BY <3>2, FirstLayerType, Zenon
    <3> QED
      BY <3>1, <3>3, Zenon
  <2>12. whole \in Nat
    <3>1. Len(s) <= Power(2, pow + 1)
      BY <2>1, <2>2, TreeHashPowType, Zenon
    <3>2. Power(2, pow + 1) = 2 * Power(2, pow) /\ Power(2, pow) \in Nat
      <4> 2 \in Nat /\ pow \in Nat
        BY <2>3
      <4> QED
        BY PowerStep
    <3>3. \A a, b, c \in Nat : a <= b /\ b = 2 * c => 2 * c - a \in Nat
      OBVIOUS
    <3>4. Power(2, pow + 1) \in Nat
      <4> 2 \in Nat /\ pow + 1 \in Nat
        BY <2>3
      <4> QED
        BY PowerStep
    <3> QED
      BY <2>1, <3>1, <3>2, <3>3, <3>4, Zenon
  <2> HIDE DEF whole
  <2>13. CASE 1 <= whole
    BY <2>10, <2>11, <2>13, Zenon
  <2>14. CASE ~(1 <= whole)
    <3>1. whole = 0 /\ 2 * 1 - 0 - 1 = 1 /\ 2 * 1 - 0 = 2
      <4> \A w \in Nat : ~(1 <= w) => w = 0
        OBVIOUS
      <4> QED
        BY <2>12, <2>14
    <3> DEFINE l == <<s[1], s[2]>>
               m == <<t[1], t[2]>>
    <3>2. FirstLayer(s)[1] = l /\ FirstLayer(t)[1] = m
      <4>1. /\ FirstLayer(s)[1] = <<s[2 * 1 - whole - 1], s[2 * 1 - whole]>>
            /\ FirstLayer(t)[1] = <<t[2 * 1 - whole - 1], t[2 * 1 - whole]>>
        BY <2>11, <2>14, Zenon
      <4>2. 2 * 1 - whole - 1 = 1 /\ 2 * 1 - whole = 2
        BY <3>1
      <4> QED
        BY <4>1, <4>2, Zenon
    <3>3. l[1] = s[1] /\ m[1] = t[1]
      OBVIOUS
    <3> HIDE DEF l, m
    <3> QED
      BY <2>10, <3>2, <3>3, Zenon
  <2> QED
    BY <2>13, <2>14
<1> QED
  BY <1>1, <1>2, <1>3

\* convert_blob_export: blobs of the same other transactions differ when the
\* miner's transactions differ in their reserved bytes, whatever the number of
\* transactions.
THEOREM HashingBlobTellsReserved ==
  ASSUME NEW X, NEW txHashes \in Seq(X), Len(txHashes) < Power(2, 28),
         NEW s, NEW t, s.txHashes = txHashes, t.txHashes = txHashes,
         HashingBlob(s) = HashingBlob(t)
  PROVE  s.reserved = t.reserved
<1> DEFINE a == [reserved |-> s.reserved]
           b == [reserved |-> t.reserved]
           Y == X \cup {a, b}
           S == <<a>> \o txHashes
           T == <<b>> \o txHashes
<1>1. TreeHash(S) = TreeHash(T)
  <2>1. HashingBlob(s).root = HashingBlob(t).root
    BY Zenon
  <2>2. HashingBlob(s).root = TreeHash(S) /\ HashingBlob(t).root = TreeHash(T)
    BY DEF HashingBlob
  <2> HIDE DEF S, T
  <2> QED
    BY <2>1, <2>2
<1>2. a = b => s.reserved = t.reserved
  <2>1. a.reserved = s.reserved /\ b.reserved = t.reserved
    OBVIOUS
  <2> HIDE DEF a, b
  <2> QED
    BY <2>1, Zenon
<1> HIDE DEF a, b
<1>3. <<a>> \in Seq(Y) /\ <<b>> \in Seq(Y) /\ Len(<<a>>) = 1 /\ Len(<<b>>) = 1
      /\ <<a>>[1] = a /\ <<b>>[1] = b
  OBVIOUS
<1>4. txHashes \in Seq(Y) /\ Len(txHashes) \in Nat
  <2> X \subseteq Y
    OBVIOUS
  <2> HIDE DEF Y
  <2>1. txHashes \in Seq(Y)
    BY SeqMonotonic
  <2> QED
    BY <2>1, FunctionOfSeq
<1> HIDE DEF Y
<1>5. ASSUME NEW c, <<c>> \in Seq(Y), Len(<<c>>) = 1, <<c>>[1] = c
      PROVE  Len(<<c>> \o txHashes) = 1 + Len(txHashes) /\ (<<c>> \o txHashes)[1] = c
  <2> DEFINE one == <<c>>
  <2>1. one \in Seq(Y) /\ Len(one) = 1 /\ one[1] = c
    BY <1>5
  <2> HIDE DEF one
  <2>2. /\ Len(one \o txHashes) = Len(one) + Len(txHashes)
        /\ \A i \in 1..(Len(one) + Len(txHashes)) :
             (one \o txHashes)[i] = IF i <= Len(one) THEN one[i] ELSE txHashes[i - Len(one)]
    BY <1>4, <2>1, ConcatProperties
  <2>3. 1 \in 1..(1 + Len(txHashes)) /\ 1 <= 1
    BY <1>4
  <2> QED
    BY <2>1, <2>2, <2>3 DEF one
<1>6. Len(S) = 1 + Len(txHashes) /\ S[1] = a /\ Len(T) = 1 + Len(txHashes) /\ T[1] = b
  BY <1>3, <1>5
<1>7. 1 + Len(txHashes) \in Nat \ {0} /\ 1 + Len(txHashes) <= Power(2, 28)
  <2>1. Power(2, 28) \in Nat
    <3> 2 \in Nat /\ 28 \in Nat
      OBVIOUS
    <3> QED
      BY PowerStep
  <2>2. \A n, m \in Nat : n < m => 1 + n \in Nat \ {0} /\ 1 + n <= m
    OBVIOUS
  <2> QED
    BY <1>4, <2>1, <2>2, Zenon
<1> HIDE DEF S, T
<1>8. Len(S) \in Nat \ {0} /\ Len(S) <= Power(2, 28) /\ Len(T) = Len(S)
  BY <1>6, <1>7, Zenon
<1>9. S[1] = T[1]
  BY <1>1, <1>8, RootTellsFirstHash, Zenon
<1> QED
  BY <1>2, <1>6, <1>9, Zenon

=============================================================================
