---------------------------- MODULE FormatProofs --------------------------
(***************************************************************************)
(* Proofs about the conversions of format.c and the reference definitions  *)
(* of Format, for dwords of every width and texts of every length: what a  *)
(* number prints as reads back as the number, and where the arguments of a *)
(* template are on the stack.                                              *)
(***************************************************************************)
EXTENDS Format, SequenceTheorems, FiniteSetTheorems, WellFoundedInduction, TLAPS

(***************************************************************************)
(* Induction and recursion.  The induction principle is stated about a set *)
(* of numbers, so that no operator is a parameter; a function that is      *)
(* defined by recursion exists because its finite beginnings do.           *)
(***************************************************************************)

(* A set of natural numbers has a least element. *)
LEMMA LeastOf ==
  ASSUME NEW T \in SUBSET Nat, T # {}
  PROVE  \E x \in T : \A y \in T : x <= y
<1> DEFINE Less == OpToRel(<, Nat)
<1>1. Less = {p \in Nat \X Nat : p[1] < p[2]}
  BY DEF OpToRel
<1>2. IsWellFoundedOn(Less, Nat)
  BY NatLessThanWellFounded, Zenon
<1> HIDE DEF Less
<1>3. PICK x \in T : \A y \in T : ~(<<y, x>> \in Less)
  BY <1>2, WFMin
<1>4. \A y \in T : ~(y < x)
  BY <1>1, <1>3
<1> QED BY <1>4

(* A set with 0 and every successor of a member is all of Nat. *)
LEMMA Inductive ==
  ASSUME NEW T \in SUBSET Nat, 0 \in T, \A n \in T : n + 1 \in T
  PROVE  T = Nat
<1> SUFFICES ASSUME Nat \ T # {} PROVE FALSE
  OBVIOUS
<1>1. PICK x \in Nat \ T : \A y \in Nat \ T : x <= y
  BY LeastOf
<1>2. x # 0 /\ x - 1 \in Nat /\ (x - 1) + 1 = x
  BY <1>1
<1>3. x - 1 \in T
  BY <1>1, <1>2
<1> QED BY <1>1, <1>2, <1>3

(* f starts at x0 and takes step H[n] from n to n + 1. *)
Steps(S) == [Nat -> [S -> S]]
Recursive(f, S, x0, H) ==
  f \in [Nat -> S] /\ f[0] = x0 /\ \A n \in Nat : f[n + 1] = H[n][f[n]]

(* A value and a step for each number define a function. *)
LEMMA RecursionExists ==
  ASSUME NEW S, NEW x0 \in S, NEW H \in Steps(S)
  PROVE  \E f : Recursive(f, S, x0, H)
<1>0. H \in [Nat -> [S -> S]]
  BY DEF Steps
<1> DEFINE Upto(f, n) == /\ f \in [Nat -> S] /\ f[0] = x0
                         /\ \A m \in Nat : m < n => f[m + 1] = H[m][f[m]]
           E == {n \in Nat : \E f : Upto(f, n)}
<1>1. E = Nat
  <2>1. 0 \in E
    <3>1. Upto([m \in Nat |-> x0], 0)
      OBVIOUS
    <3> QED BY <3>1
  <2>2. ASSUME NEW n \in E PROVE n + 1 \in E
    <3>1. n \in Nat
      OBVIOUS
    <3>2. PICK f : Upto(f, n)
      OBVIOUS
    <3> DEFINE v == H[n][f[n]]
               g == [m \in Nat |-> IF m = n + 1 THEN v ELSE f[m]]
    <3>3. v \in S
      BY <1>0, <3>1, <3>2
    <3> HIDE DEF v
    <3>4. g \in [Nat -> S] /\ g[0] = x0
      BY <3>1, <3>2, <3>3
    <3>5. ASSUME NEW m \in Nat, m < n + 1 PROVE g[m + 1] = H[m][g[m]]
      <4>1. g[m] = f[m]
        BY <3>1, <3>5
      <4>2. CASE m = n
        BY <3>1, <4>1, <4>2 DEF v
      <4>3. CASE m < n
        <5>1. g[m + 1] = f[m + 1]
          BY <3>1, <4>3
        <5>2. f[m + 1] = H[m][f[m]]
          BY <3>2, <4>3
        <5> QED BY <4>1, <5>1, <5>2
      <4> QED BY <3>1, <3>5, <4>2, <4>3
    <3> HIDE DEF g
    <3>6. Upto(g, n + 1)
      BY <3>4, <3>5
    <3> QED BY <3>1, <3>6
  <2> HIDE DEF E
  <2>3. E \in SUBSET Nat
    BY DEF E
  <2> QED BY <2>1, <2>2, <2>3, Inductive
<1>2. ASSUME NEW f, NEW g, NEW k \in Nat, NEW l \in Nat, Upto(f, k), Upto(g, l), k <= l,
             NEW n \in Nat, n <= k
      PROVE  f[n] = g[n]
  <2> DEFINE Q == {m \in Nat : m <= k => f[m] = g[m]}
  <2>1. 0 \in Q
    BY <1>2
  <2>2. ASSUME NEW m \in Q PROVE m + 1 \in Q
    <3>1. SUFFICES ASSUME m + 1 <= k PROVE f[m + 1] = g[m + 1]
      OBVIOUS
    <3>2. m \in Nat /\ m < k /\ m < l /\ f[m] = g[m]
      BY <1>2, <3>1
    <3>3. f[m + 1] = H[m][f[m]] /\ g[m + 1] = H[m][g[m]]
      BY <1>2, <3>2
    <3> QED BY <3>2, <3>3
  <2>3. Q \in SUBSET Nat
    OBVIOUS
  <2> HIDE DEF Q
  <2>4. Q = Nat
    BY <2>1, <2>2, <2>3, Inductive
  <2> QED BY <1>2, <2>4 DEF Q
<1> DEFINE c == [n \in Nat |-> CHOOSE f : Upto(f, n)]
           F == [n \in Nat |-> c[n][n]]
<1>3. ASSUME NEW n \in Nat PROVE Upto(c[n], n)
  <2>1. \E f : Upto(f, n)
    BY <1>1
  <2>2. c[n] = CHOOSE f : Upto(f, n)
    OBVIOUS
  <2> HIDE DEF Upto, c
  <2> QED BY <2>1, <2>2
<1> HIDE DEF c
<1>4. F \in [Nat -> S]
  <2>1. ASSUME NEW n \in Nat PROVE c[n][n] \in S
    BY <1>3
  <2> QED BY <2>1
<1>5. F[0] = x0
  BY <1>3
<1>6. ASSUME NEW n \in Nat PROVE F[n + 1] = H[n][F[n]]
  <2>1. Upto(c[n], n) /\ Upto(c[n + 1], n + 1)
    BY <1>3
  <2>2. c[n][n] = c[n + 1][n]
    <3> HIDE DEF Upto
    <3>1. n + 1 \in Nat /\ n <= n + 1 /\ n <= n
      OBVIOUS
    <3> QED BY <1>2, <2>1, <3>1
  <2>3. c[n + 1][n + 1] = H[n][c[n + 1][n]]
    BY <2>1
  <2> QED BY <2>2, <2>3
<1> HIDE DEF F
<1> QED BY <1>4, <1>5, <1>6 DEF Recursive

(***************************************************************************)
(* Powers and digits                                                       *)
(***************************************************************************)

(* The loop that multiplies by the base computes its powers. *)
LEMMA Powers ==
  ASSUME NEW sys \in Nat \ {0}
  PROVE  /\ mult(sys) \in [Nat -> Nat] /\ mult(sys)[0] = 1
         /\ \A n \in Nat : mult(sys)[n + 1] = mult(sys)[n] * sys /\ mult(sys)[n] >= 1
<1> DEFINE Step(f) == [n \in Nat |-> IF n = 0 THEN 1 ELSE f[n - 1] * sys]
<1>1. \E f : f = Step(f)
  <2> DEFINE H == [n \in Nat |-> [x \in Nat |-> x * sys]]
  <2>1. H \in Steps(Nat)
    BY DEF Steps
  <2>2. \A n, x \in Nat : H[n][x] = x * sys
    OBVIOUS
  <2> HIDE DEF H
  <2>3. 1 \in Nat
    OBVIOUS
  <2>4. PICK f : Recursive(f, Nat, 1, H)
    BY <2>1, <2>3, RecursionExists
  <2>5. ASSUME NEW n \in Nat PROVE f[n] = IF n = 0 THEN 1 ELSE f[n - 1] * sys
    <3>1. CASE n = 0
      BY <2>4, <3>1 DEF Recursive
    <3>2. CASE n # 0
      <4>1. n - 1 \in Nat /\ (n - 1) + 1 = n
        BY <3>2
      <4>2. f[n] = H[n - 1][f[n - 1]] /\ f[n - 1] \in Nat
        BY <2>4, <4>1 DEF Recursive
      <4> QED BY <2>2, <3>2, <4>1, <4>2
    <3> QED BY <3>1, <3>2
  <2>6. f = Step(f)
    BY <2>4, <2>5 DEF Recursive
  <2> QED BY <2>6
<1>2. mult(sys) = CHOOSE f : f = Step(f)
  BY Zenon DEF mult
<1> DEFINE m == mult(sys)
<1>3. m = Step(m)
  <2> HIDE DEF Step
  <2> QED BY <1>1, <1>2
<1> HIDE DEF m
<1>4. m[0] = 1 /\ \A n \in Nat : m[n + 1] = m[n] * sys
  <2>1. m[0] = 1
    BY <1>3
  <2>2. ASSUME NEW n \in Nat PROVE m[n + 1] = m[n] * sys
    <3>1. n + 1 \in Nat /\ n + 1 # 0 /\ (n + 1) - 1 = n
      OBVIOUS
    <3> QED BY <1>3, <3>1
  <2> QED BY <2>1, <2>2
<1> DEFINE P == {n \in Nat : m[n] \in Nat /\ m[n] >= 1}
<1>5. P = Nat
  <2>1. 0 \in P
    BY <1>4
  <2>2. ASSUME NEW n \in P PROVE n + 1 \in P
    <3>1. m[n] * sys \in Nat /\ m[n] * sys >= 1
      OBVIOUS
    <3> QED BY <1>4, <3>1
  <2>3. P \in SUBSET Nat
    OBVIOUS
  <2> HIDE DEF P
  <2> QED BY <2>1, <2>2, <2>3, Inductive
<1>6. m \in [Nat -> Nat]
  <2>1. m = [n \in Nat |-> m[n]]
    BY <1>3
  <2>2. \A n \in Nat : m[n] \in Nat
    BY <1>5
  <2> QED BY <2>1, <2>2
<1>7. \A n \in Nat : m[n] >= 1
  BY <1>5
<1> QED BY <1>4, <1>6, <1>7, Zenon DEF m

(* The powers of a base from 2 on grow, and faster than the exponent. *)
LEMMA PowersGrow ==
  ASSUME NEW sys \in Nat, sys >= 2, NEW n \in Nat
  PROVE  /\ mult(sys)[n] > n
         /\ \A k \in Nat : k < n => mult(sys)[k] < mult(sys)[n]
<1> DEFINE m == mult(sys)
           P == {l \in Nat : m[l] > l /\ \A k \in Nat : k < l => m[k] < m[l]}
<1>1. m \in [Nat -> Nat] /\ m[0] = 1 /\ \A l \in Nat : m[l + 1] = m[l] * sys /\ m[l] >= 1
  <2>1. sys \in Nat \ {0}
    OBVIOUS
  <2> QED BY <2>1, Powers, Zenon
<1> HIDE DEF m
<1>2. 0 \in P
  BY <1>1
<1>3. ASSUME NEW l \in P PROVE l + 1 \in P
  <2>1. l \in Nat /\ m[l] \in Nat /\ m[l] >= 1 /\ m[l] > l
    BY <1>1
  <2>2. m[l] * sys > m[l]
    <3>1. \A a \in Nat : a >= 1 => a * sys >= a + a
      <4>1. ASSUME NEW a \in Nat PROVE a * sys = a * (sys - 2) + (a + a) /\ a * (sys - 2) >= 0
        OBVIOUS
      <4> QED BY <4>1
    <3> QED BY <2>1, <3>1
  <2>3. m[l + 1] > m[l] /\ m[l + 1] \in Nat
    BY <1>1, <2>1, <2>2
  <2>4. ASSUME NEW k \in Nat, k < l + 1 PROVE m[k] < m[l + 1]
    <3>1. k = l \/ k < l
      BY <2>1, <2>4
    <3>2. m[k] <= m[l] /\ m[k] \in Nat
      BY <1>1, <2>1, <3>1
    <3> QED BY <2>1, <2>3, <3>2
  <2> QED BY <2>1, <2>3, <2>4
<1>4. P \in SUBSET Nat
  OBVIOUS
<1> HIDE DEF P
<1>5. P = Nat
  BY <1>2, <1>3, <1>4, Inductive
<1> QED BY <1>5 DEF P, m

(* There is one number of digits to print, and the loop stops there. *)
LEMMA PowerIs ==
  ASSUME NEW b \in 0 .. Word - 1, NEW sys \in Nat, sys >= 2
  PROVE  /\ Power(b, sys) \in Nat \ {0}
         /\ mult(sys)[Power(b, sys)] > b
         /\ Power(b, sys) = 1 \/ mult(sys)[Power(b, sys) - 1] <= b
<1> DEFINE m == mult(sys)
           P(p) == p \in 1 .. Word /\ m[p] > b /\ (p = 1 \/ m[p - 1] <= b)
           T == {n \in Nat \ {0} : m[n] > b}
<1>0. Word \in Nat \ {0}
  BY FormatAssumption
<1>1. m \in [Nat -> Nat]
  <2>1. sys \in Nat \ {0}
    OBVIOUS
  <2> QED BY <2>1, Powers, Zenon
<1>2. m[Word] > Word
  BY <1>0, PowersGrow
<1> HIDE DEF m
<1>3. Word \in T
  BY <1>0, <1>1, <1>2
<1>4. PICK p \in T : \A y \in T : p <= y
  <2>1. T \in SUBSET Nat
    OBVIOUS
  <2> HIDE DEF T
  <2> QED BY <1>3, <2>1, LeastOf
<1>5. P(p)
  <2>1. p \in 1 .. Word /\ m[p] > b
    BY <1>0, <1>3, <1>4
  <2>2. ASSUME p # 1 PROVE m[p - 1] <= b
    <3>1. p - 1 \in Nat \ {0} /\ p - 1 \notin T
      BY <1>4, <2>1, <2>2
    <3> QED BY <1>1, <3>1
  <2> QED BY <2>1, <2>2
<1>6. Power(b, sys) = CHOOSE q : P(q)
  BY DEF Power, m
<1>7. P(Power(b, sys))
  <2> HIDE DEF P
  <2> QED BY <1>5, <1>6
<1> QED BY <1>7 DEF m

LEMMA PowerOf ==
  ASSUME NEW b \in 0 .. Word - 1, NEW sys \in Nat, sys >= 2, NEW p \in Nat \ {0},
         mult(sys)[p] > b, mult(sys)[p - 1] <= b
  PROVE  Power(b, sys) = p
<1> DEFINE m == mult(sys)
           q == Power(b, sys)
<1>1. m \in [Nat -> Nat]
  <2>1. sys \in Nat \ {0}
    OBVIOUS
  <2> QED BY <2>1, Powers, Zenon
<1>2. q \in Nat \ {0} /\ m[q] > b /\ (q = 1 \/ m[q - 1] <= b)
  BY PowerIs
<1>3. \A k, l \in Nat : k < l => m[k] < m[l]
  BY PowersGrow
<1> HIDE DEF m, q
<1>4. m[p] > b /\ m[p - 1] <= b /\ p - 1 \in Nat
  BY DEF m
<1>5. ~(q < p)
  <2> SUFFICES ASSUME q < p PROVE FALSE
    OBVIOUS
  <2>1. q = p - 1 \/ q < p - 1
    BY <1>2
  <2>2. m[q] <= m[p - 1]
    BY <1>1, <1>2, <1>3, <1>4, <2>1
  <2> QED BY <1>1, <1>2, <1>4, <2>2
<1>6. ~(p < q)
  <2> SUFFICES ASSUME p < q PROVE FALSE
    OBVIOUS
  <2>1. q # 1 /\ q - 1 \in Nat /\ (p = q - 1 \/ p < q - 1)
    BY <1>2
  <2>2. m[p] <= m[q - 1]
    BY <1>1, <1>3, <2>1
  <2> QED BY <1>1, <1>2, <1>4, <2>1, <2>2
<1> QED BY <1>2, <1>5, <1>6 DEF q

(* A quotient is known by its remainder. *)
LEMMA QuotientIs ==
  ASSUME NEW d \in Nat \ {0}, NEW k \in Nat, NEW r \in 0 .. d - 1
  PROVE  (d * k + r) \div d = k
<1> DEFINE a == d * k + r
           l == a \div d
<1>1. a \in Nat /\ l \in Nat /\ a = d * l + (a % d) /\ a % d \in 0 .. d - 1
  OBVIOUS
<1>2. ASSUME NEW x \in Nat, NEW y \in Nat, x < y PROVE d * x + d <= d * y
  <2>1. d * y = d * x + d * (y - x) /\ y - x >= 1
    BY <1>2
  <2>2. \A z \in Nat : z >= 1 => d * z = d * (z - 1) + d /\ d * (z - 1) >= 0
    OBVIOUS
  <2>3. y - x \in Nat /\ d * x \in Nat
    BY <1>2
  <2> QED BY <2>1, <2>2, <2>3
<1> HIDE DEF l
<1>3. a = d * k + r
  OBVIOUS
<1>4. d * k \in Nat /\ d * l \in Nat
  BY <1>1
<1> HIDE DEF a
<1>5. ~(k < l)
  BY <1>1, <1>2, <1>3, <1>4
<1>6. ~(l < k)
  BY <1>1, <1>2, <1>3, <1>4
<1> QED BY <1>1, <1>5, <1>6 DEF l, a

(* The digit that a division by one more power of the base takes off. *)
LEMMA QuotientStep ==
  ASSUME NEW a \in Nat, NEW m \in Nat \ {0}, NEW s \in Nat \ {0}
  PROVE  a \div m = (a \div (m * s)) * s + ((a \div m) % s)
<1> DEFINE q == a \div m
           t == a % m
           k == q \div s
           r == q % s
<1>1. q \in Nat /\ t \in 0 .. m - 1 /\ a = m * q + t
  OBVIOUS
<1>2. k \in Nat /\ r \in 0 .. s - 1 /\ q = s * k + r
  BY <1>1
<1> HIDE DEF q, t, k, r
<1>3. a = (m * s) * k + (m * r + t)
  <2>1. m * q = m * (s * k) + m * r
    BY <1>2
  <2>2. m * (s * k) = (m * s) * k
    BY <1>2
  <2>3. m * (s * k) \in Int /\ m * r \in Int
    BY <1>2
  <2> QED BY <1>1, <2>1, <2>2, <2>3
<1>4. m * s \in Nat \ {0} /\ m * r + t \in 0 .. m * s - 1
  <2>1. m * s = m * r + m * (s - r) /\ s - r \in Nat /\ s - r >= 1
    BY <1>2
  <2>2. \A z \in Nat : z >= 1 => m * z = m * (z - 1) + m /\ m * (z - 1) >= 0
    OBVIOUS
  <2>3. m * (s - r) >= m /\ m * (s - r) \in Nat /\ m * r \in Nat
    BY <1>2, <2>1, <2>2
  <2>4. m * s \in Nat
    OBVIOUS
  <2> QED BY <1>1, <2>1, <2>3, <2>4
<1>5. a \div (m * s) = k
  <2> DEFINE d == m * s
             e == m * r + t
  <2>1. d \in Nat \ {0} /\ e \in 0 .. d - 1 /\ a = d * k + e
    BY <1>3, <1>4
  <2> HIDE DEF d, e
  <2>2. a \div d = k
    BY <1>2, <2>1, QuotientIs
  <2> QED BY <2>2 DEF d
<1>6. q = k * s + r
  BY <1>2
<1>7. q = (a \div (m * s)) * s + r
  BY <1>5, <1>6
<1> QED BY <1>7, Zenon DEF q, r

(* Digits are different characters, and stand for their places. *)
LEMMA DigitsDiffer ==
  ASSUME NEW d \in 0 .. 15, NEW e \in 0 .. 15, Digits[d + 1] = Digits[e + 1]
  PROVE  d = e
BY DEF Digits

LEMMA DigitIs ==
  ASSUME NEW d \in 0 .. 15
  PROVE  DigitValue(Digits[d + 1]) = d
<1> DEFINE P(e) == e \in 0 .. 15 /\ Digits[e + 1] = Digits[d + 1]
           c == CHOOSE e : P(e)
<1>1. P(c)
  <2>1. P(d) OBVIOUS
  <2> HIDE DEF P
  <2> QED BY <2>1
<1>2. c = d
  <2> HIDE DEF c
  <2> QED BY <1>1, DigitsDiffer
<1>3. DigitValue(Digits[d + 1]) = c
  BY DEF DigitValue
<1> QED BY <1>2, <1>3

LEMMA NoDigitIsZero ==
  /\ Digits[1] = "0"
  /\ \A d \in 1 .. 15 : Digits[d + 1] # "0"
<1>1. Digits[0 + 1] = "0"
  BY DEF Digits
<1> QED BY <1>1, DigitsDiffer

(* What a numeral stands for, given the values of its beginnings. *)
LEMMA ValueIs ==
  ASSUME NEW text, Len(text) \in Nat, NEW base \in Nat,
         NEW g \in [0 .. Len(text) -> Nat], g[0] = 0,
         \A n \in 1 .. Len(text) : g[n] = g[n - 1] * base + DigitValue(text[n])
  PROVE  Value(text, base) = g[Len(text)]
<1> DEFINE l == Len(text)
           Step(f) == [n \in 0 .. l |->
                         IF n = 0 THEN 0 ELSE f[n - 1] * base + DigitValue(text[n])]
           v == CHOOSE f : f = Step(f)
<1>1. g = Step(g)
  OBVIOUS
<1>2. v = Step(v)
  <2> HIDE DEF Step
  <2> QED BY <1>1
<1>3. Value(text, base) = v[l]
  BY Zenon DEF Value
<1> HIDE DEF v
<1> DEFINE P == {n \in Nat : n <= l => v[n] = g[n]}
<1>4. 0 \in P
  BY <1>2
<1>5. ASSUME NEW n \in P PROVE n + 1 \in P
  <2>1. SUFFICES ASSUME n + 1 <= l PROVE v[n + 1] = g[n + 1]
    OBVIOUS
  <2>2. n \in Nat /\ v[n] = g[n] /\ n + 1 \in 1 .. l /\ (n + 1) - 1 = n
    BY <2>1
  <2>3. v[n + 1] = v[n] * base + DigitValue(text[n + 1])
    BY <1>2, <2>2
  <2> QED BY <2>2, <2>3
<1>6. P \in SUBSET Nat
  OBVIOUS
<1> HIDE DEF P
<1>7. P = Nat
  BY <1>4, <1>5, <1>6, Inductive
<1> QED BY <1>3, <1>7 DEF P

(***************************************************************************)
(* Numbers read back                                                       *)
(***************************************************************************)

Numerals == {Digits[d] : d \in 1 .. 16}

(* What is left of b when its last k digits are taken off. *)
Quotients(b, sys) == [k \in Nat |-> b \div mult(sys)[k]]

(* p digits are taken off b, the first one not 0. *)
TakenOff(b, sys, p, r) ==
  /\ p \in Nat \ {0} /\ r \in [Nat -> Nat]
  /\ r[p] = 0 /\ r[0] = b /\ r[p - 1] \in 1 .. sys - 1
  /\ \A k \in Nat : r[k] = r[k + 1] * sys + (r[k] % sys)

LEMMA QuotientsAre ==
  ASSUME NEW b \in 1 .. Word - 1, NEW sys \in {2, 10, 16}
  PROVE  TakenOff(b, sys, Power(b, sys), Quotients(b, sys))
<1> DEFINE m == mult(sys)
           p == Power(b, sys)
           q(k) == b \div m[k]
<1>1. Word \in Nat /\ b \in 0 .. Word - 1 /\ b \in Nat \ {0} /\ sys \in Nat \ {0} /\ sys >= 2
  BY FormatAssumption
<1>2. m \in [Nat -> Nat] /\ m[0] = 1 /\ \A n \in Nat : m[n + 1] = m[n] * sys /\ m[n] >= 1
  BY <1>1, Powers, Zenon
<1>3. p \in Nat \ {0} /\ m[p] > b /\ (p = 1 \/ m[p - 1] <= b)
  BY <1>1, PowerIs
<1> HIDE DEF m, p
<1>4. ASSUME NEW k \in Nat PROVE q(k) \in Nat /\ q(k) = q(k + 1) * sys + (q(k) % sys)
  <2> DEFINE d == m[k]
  <2>1. d \in Nat \ {0} /\ m[k + 1] = d * sys
    BY <1>2
  <2> HIDE DEF d
  <2>2. b \div d = (b \div (d * sys)) * sys + ((b \div d) % sys)
    BY <1>1, <2>1, QuotientStep
  <2>3. b \div d \in Nat
    BY <1>1, <2>1
  <2> QED BY <2>1, <2>2, <2>3 DEF d
<1>5. q(p) = 0
  <2> DEFINE d == m[p]
  <2>1. d \in Nat /\ d > b
    BY <1>2, <1>3
  <2> HIDE DEF d
  <2>2. b \div d = 0
    BY <1>1, <2>1
  <2> QED BY <2>2 DEF d
<1>6. q(0) = b
  BY <1>1, <1>2
<1>7. q(p - 1) \in 1 .. sys - 1
  <2>1. p - 1 \in Nat /\ (p - 1) + 1 = p
    BY <1>3
  <2>2. q(p - 1) = q(p) * sys + (q(p - 1) % sys)
    BY <1>4, <2>1
  <2>3. q(p - 1) \in Nat
    BY <1>4, <2>1
  <2>4. q(p - 1) >= 1
    <3> DEFINE d == m[p - 1]
    <3>1. d \in Nat \ {0} /\ d <= b
      BY <1>1, <1>2, <1>3, <2>1
    <3> HIDE DEF d
    <3>2. b \div d >= 1
      BY <1>1, <3>1
    <3> QED BY <3>2 DEF d
  <2> DEFINE e == q(p - 1)
  <2>5. e = 0 * sys + (e % sys)
    BY <1>5, <2>2
  <2> HIDE DEF e
  <2>6. e \in Nat /\ e >= 1
    BY <2>3, <2>4 DEF e
  <2>7. e \in 1 .. sys - 1
    BY <1>1, <2>5, <2>6
  <2> QED BY <2>7 DEF e
<1> DEFINE r == Quotients(b, sys)
<1>8. DOMAIN r = Nat /\ \A k \in Nat : r[k] = q(k) /\ r[k + 1] = q(k + 1)
  BY DEF Quotients, m
<1> HIDE DEF r, q
<1>9. r[p] = 0 /\ r[0] = b /\ r[p - 1] \in 1 .. sys - 1
  <2>1. p \in Nat /\ p - 1 \in Nat /\ 0 \in Nat
    BY <1>3
  <2> QED BY <1>5, <1>6, <1>7, <1>8, <2>1
<1>10. r \in [Nat -> Nat]
  <2>1. r = [k \in Nat |-> r[k]] /\ \A k \in Nat : r[k] \in Nat
    BY <1>4, <1>8 DEF r, Quotients
  <2> QED BY <2>1
<1>11. \A k \in Nat : r[k] = r[k + 1] * sys + (r[k] % sys)
  BY <1>4, <1>8, Zenon
<1>12. TakenOff(b, sys, p, r)
  BY <1>3, <1>9, <1>10, <1>11, Zenon DEF TakenOff
<1> QED BY <1>12 DEF r, p

(* What int_to_string writes is digits without a leading zero, which read  *)
(* back as the number.                                                     *)
LEMMA IntReadsBack ==
  ASSUME NEW b \in 1 .. Word - 1, NEW sys \in {2, 10, 16}
  PROVE  /\ int_to_string(b, sys) \in Seq(Numerals)
         /\ Len(int_to_string(b, sys)) = Power(b, sys)
         /\ IsNumeral(int_to_string(b, sys), b, sys)
<1> DEFINE p == Power(b, sys)
           text == int_to_string(b, sys)
           r == Quotients(b, sys)
<1>0. TakenOff(b, sys, p, r)
  BY QuotientsAre
<1>1. p \in Nat \ {0} /\ p - 1 \in Nat
  <2> HIDE DEF p, r
  <2>1. p \in Nat \ {0}
    BY <1>0 DEF TakenOff
  <2> QED BY <2>1
<1>2. \A d \in 0 .. p : p - d \in Nat
  <2> HIDE DEF p
  <2> QED BY <1>1
<1>3. /\ r \in [Nat -> Nat] /\ r[p] = 0 /\ r[0] = b /\ r[p - 1] \in 1 .. sys - 1
      /\ \A k \in Nat : r[k] = r[k + 1] * sys + (r[k] % sys)
  <2> HIDE DEF p, r
  <2> QED BY <1>0, Zenon DEF TakenOff
<1>4. text = [d \in 1 .. p |-> Digits[(r[p - d] % sys) + 1]]
  <2>1. b # 0
    OBVIOUS
  <2>2. text = [d \in 1 .. p |-> Digits[((b \div mult(sys)[p - d]) % sys) + 1]]
    BY <2>1 DEF int_to_string, atom_to_char
  <2>3. \A d \in 1 .. p : r[p - d] = b \div mult(sys)[p - d]
    <3> HIDE DEF p
    <3>1. \A d \in 1 .. p : p - d \in Nat
      BY <1>2
    <3> QED BY <3>1 DEF Quotients
  <2> HIDE DEF r, p
  <2> QED BY <2>2, <2>3
<1> HIDE DEF r, p, text
<1>5. sys \in Nat \ {0} /\ \A x \in Nat : x % sys \in 0 .. 15 /\ x % sys \in 0 .. sys - 1
  OBVIOUS
<1>6. ASSUME NEW d \in 1 .. p
      PROVE  /\ r[p - d] % sys \in 0 .. 15 /\ r[p - d] % sys \in 0 .. sys - 1
             /\ text[d] = Digits[(r[p - d] % sys) + 1]
  <2>1. p - d \in Nat
    BY <1>2
  <2>2. r[p - d] \in Nat
    BY <1>3, <2>1
  <2> QED BY <1>4, <1>5, <2>2
<1>7. text \in Seq(Numerals) /\ Len(text) = p
  <2>1. ASSUME NEW d \in 1 .. p PROVE Digits[(r[p - d] % sys) + 1] \in Numerals
    <3>1. (r[p - d] % sys) + 1 \in 1 .. 16
      BY <1>6
    <3> QED BY <3>1 DEF Numerals
  <2> QED BY <1>1, <1>4, <2>1
<1>8. Value(text, sys) = b
  <2> DEFINE g == [n \in 0 .. p |-> r[p - n]]
  <2>2. g \in [0 .. p -> Nat] /\ g[0] = 0 /\ g[p] = b
    <3>1. p - 0 = p /\ p - p = 0 /\ 0 \in 0 .. p /\ p \in 0 .. p
      BY <1>1
    <3> QED BY <1>2, <1>3, <3>1
  <2>3. ASSUME NEW n \in 1 .. p PROVE g[n] = g[n - 1] * sys + DigitValue(text[n])
    <3>1. n \in 0 .. p /\ n - 1 \in 0 .. p /\ p - n \in Nat /\ p - (n - 1) = (p - n) + 1
      BY <1>1
    <3>2. r[p - n] = r[(p - n) + 1] * sys + (r[p - n] % sys)
      BY <1>3, <3>1
    <3>3. DigitValue(text[n]) = r[p - n] % sys
      <4>1. r[p - n] % sys \in 0 .. 15 /\ text[n] = Digits[(r[p - n] % sys) + 1]
        BY <1>6
      <4> QED BY <4>1, DigitIs
    <3>4. g[n] = r[p - n] /\ g[n - 1] = r[(p - n) + 1]
      BY <3>1
    <3> QED BY <3>2, <3>3, <3>4
  <2> HIDE DEF g
  <2>4. /\ Len(text) \in Nat /\ sys \in Nat /\ g \in [0 .. Len(text) -> Nat] /\ g[0] = 0
        /\ \A n \in 1 .. Len(text) : g[n] = g[n - 1] * sys + DigitValue(text[n])
    <3>1. Len(text) = p /\ p \in Nat /\ sys \in Nat
      BY <1>1, <1>7
    <3> QED BY <2>2, <2>3, <3>1, Zenon
  <2>5. Value(text, sys) = g[Len(text)]
    BY <2>4, ValueIs, Zenon
  <2> QED BY <1>7, <2>2, <2>5
<1>9. text[1] # "0"
  <2>1. 1 \in 1 .. p
    BY <1>1
  <2>2. text[1] = Digits[(r[p - 1] % sys) + 1]
    BY <1>6, <2>1
  <2>3. \A x \in 1 .. sys - 1 : x % sys = x /\ x \in 1 .. 15
    OBVIOUS
  <2>4. r[p - 1] % sys = r[p - 1] /\ r[p - 1] \in 1 .. 15
    BY <1>3, <2>3, Zenon
  <2> QED BY <2>2, <2>4, NoDigitIsZero
<1>10. IsNumeral(text, b, sys)
  <2>1. Len(text) > 0
    BY <1>1, <1>7
  <2>2. \A n \in 1 .. Len(text) : \E d \in 0 .. sys - 1 : text[n] = Digits[d + 1]
    <3>1. \A n \in 1 .. p : \E d \in 0 .. sys - 1 : text[n] = Digits[d + 1]
      BY <1>6, Zenon
    <3> QED BY <1>7, <3>1
  <2> QED BY <1>8, <1>9, <2>1, <2>2, Zenon DEF IsNumeral
<1> QED BY <1>7, <1>10 DEF text, p

(* The text behind a beginning, and the beginning. *)
LEMMA CutText ==
  ASSUME NEW S, NEW a \in Seq(S), NEW t \in Seq(S)
  PROVE  /\ SubSeq(a \o t, Len(a) + 1, Len(a \o t)) = t
         /\ SubSeq(a \o t, 1, Len(a)) = a
         /\ a \o t \in Seq(S) /\ Len(a \o t) = Len(a) + Len(t)
OBVIOUS

(* A text of one character. *)
LEMMA OneCharacter ==
  ASSUME NEW S, NEW t \in Seq(S), NEW k \in 1 .. Len(t)
  PROVE  SubSeq(t, k, k) = <<t[k]>>
<1>1. SubSeq(t, k, k) \in Seq(S) /\ Len(SubSeq(t, k, k)) = 1 /\ SubSeq(t, k, k)[1] = t[k]
  OBVIOUS
<1>2. SubSeq(t, k, k) = [n \in 1 .. 1 |-> t[k]]
  BY <1>1
<1> QED BY <1>2

(* The magnitude of a dword, which the conversion reduces to a u_dword. *)
LEMMA MagnitudeIs ==
  ASSUME NEW num \in Dwords
  PROVE  LET a == IF num < 0 THEN -num ELSE num
         IN  /\ num \in Int /\ a \in 0 .. Word - 1 /\ a % Word = a
             /\ num # 0 => a \in 1 .. Word - 1
<1>1. Word \in Nat \ {0}
  BY FormatAssumption
<1>2. num \in Int /\ -(Word \div 2) <= num /\ num <= (Word \div 2) - 1
  BY <1>1 DEF Dwords
<1>3. Word \div 2 \in Nat /\ 2 * (Word \div 2) <= Word
  BY <1>1
<1> DEFINE a == IF num < 0 THEN -num ELSE num
<1>4. a \in 0 .. Word - 1 /\ (num # 0 => a \in 1 .. Word - 1)
  BY <1>1, <1>2, <1>3
<1>5. a % Word = a
  <2> HIDE DEF a
  <2> QED BY <1>1, <1>4
<1> QED BY <1>2, <1>4, <1>5

(* The digits of a dword, 0 among them. *)
LEMMA NumeralIs ==
  ASSUME NEW num \in Dwords, NEW sys \in {2, 10, 16}
  PROVE  LET a == IF num < 0 THEN -num ELSE num
             numeral == IF num = 0 THEN <<atom_to_char(0)>> ELSE int_to_string(a % Word, sys)
         IN  numeral \in Seq(Numerals) /\ IsNumeral(numeral, a, sys)
<1> DEFINE a == IF num < 0 THEN -num ELSE num
<1>1. num \in Int /\ a % Word = a /\ (num # 0 => a \in 1 .. Word - 1)
  BY MagnitudeIs
<1>2. CASE num # 0
  <2> HIDE DEF a
  <2>1. int_to_string(a, sys) \in Seq(Numerals) /\ IsNumeral(int_to_string(a, sys), a, sys)
    BY <1>1, <1>2, IntReadsBack
  <2> QED BY <1>1, <1>2, <2>1 DEF a
<1>3. CASE num = 0
  <2> DEFINE t == <<Digits[1]>>
             g == [n \in 0 .. 1 |-> 0]
  <2>1. a = 0 /\ atom_to_char(0) = Digits[1] /\ t \in Seq(Numerals) /\ Len(t) = 1
        /\ t[1] = Digits[0 + 1]
    BY <1>3 DEF atom_to_char, Numerals
  <2>2. DigitValue(t[1]) = 0
    BY <2>1, DigitIs
  <2>3. Value(t, sys) = 0
    <3>1. g \in [0 .. Len(t) -> Nat] /\ g[0] = 0 /\ Len(t) \in Nat /\ sys \in Nat
      BY <2>1
    <3>2. ASSUME NEW n \in 1 .. Len(t) PROVE g[n] = g[n - 1] * sys + DigitValue(t[n])
      <4>1. n = 1 /\ g[1] = 0 /\ g[0] = 0
        BY <2>1
      <4> QED BY <2>2, <4>1
    <3>3. g[Len(t)] = 0
      BY <2>1
    <3> HIDE DEF g, t
    <3> QED BY <3>1, <3>2, <3>3, ValueIs
  <2>4. IsNumeral(t, a, sys)
    <3> HIDE DEF t, a
    <3>1. 0 \in 0 .. sys - 1
      OBVIOUS
    <3> QED BY <2>1, <2>3, <3>1 DEF IsNumeral
  <2> QED BY <1>3, <2>1, <2>4
<1> QED BY <1>2, <1>3

(* The text of a number: its sign, the prefix of its base, its digits. *)
Sign(num) == IF num < 0 THEN <<"-">> ELSE <<>>
Prefix(sys) == CASE sys = 10 -> <<>> [] sys = 16 -> <<"0x">> [] sys = 2 -> <<"0b">>

LEMMA LeadTyped ==
  ASSUME NEW C, "-" \in C, "0x" \in C, "0b" \in C, NEW num, NEW sys \in {2, 10, 16}
  PROVE  Sign(num) \in Seq(C) /\ Prefix(sys) \in Seq(C) /\ Sign(num) \o Prefix(sys) \in Seq(C)
<1>0. <<>> \in Seq(C) /\ <<"-">> \in Seq(C) /\ <<"0x">> \in Seq(C) /\ <<"0b">> \in Seq(C)
  OBVIOUS
<1>1. Sign(num) \in Seq(C)
  BY <1>0, Zenon DEF Sign
<1>2. Prefix(sys) \in Seq(C)
  <2>1. Prefix(10) = <<>> /\ Prefix(16) = <<"0x">> /\ Prefix(2) = <<"0b">>
    BY DEF Prefix
  <2> QED BY <1>0, <2>1
<1> QED BY <1>1, <1>2

LEMMA NumberIs ==
  ASSUME NEW num \in Dwords, NEW sys \in {2, 10, 16}
  PROVE  LET a == IF num < 0 THEN -num ELSE num
         IN  \E numeral \in Seq(Numerals) :
               /\ IsNumeral(numeral, a, sys)
               /\ number_to_string(num, sys).text = (Sign(num) \o Prefix(sys)) \o numeral
<1> DEFINE a == IF num < 0 THEN -num ELSE num
           numeral == IF num = 0 THEN <<atom_to_char(0)>> ELSE int_to_string(a % Word, sys)
           number == IF num = 0 THEN Block(<<atom_to_char(0)>>)
                     ELSE Block(int_to_string(a % Word, sys))
           based  == CASE sys = 10 -> number
                       [] sys = 16 -> Prefixed("0x", number)
                       [] sys = 2  -> Prefixed("0b", number)
<1>1. numeral \in Seq(Numerals) /\ IsNumeral(numeral, a, sys)
  BY NumeralIs
<1>2. number.text = numeral
  BY DEF Block
<1>3. number_to_string(num, sys) = IF num < 0 THEN Prefixed("-", based) ELSE based
  BY DEF number_to_string
<1> HIDE DEF numeral, number
<1>4. based.text = Prefix(sys) \o numeral
  <2>1. CASE sys = 10
    BY <1>1, <1>2, <2>1 DEF Prefix
  <2>2. CASE sys = 16
    BY <1>2, <2>2 DEF Prefix, Prefixed
  <2>3. CASE sys = 2
    BY <1>2, <2>3 DEF Prefix, Prefixed
  <2> QED BY <2>1, <2>2, <2>3
<1> HIDE DEF based
<1> DEFINE C == Numerals \cup {"-", "0x", "0b"}
<1>5. Sign(num) \in Seq(C) /\ Prefix(sys) \in Seq(C) /\ numeral \in Seq(C)
  <2>1. "-" \in C /\ "0x" \in C /\ "0b" \in C
    OBVIOUS
  <2>2. numeral \in Seq(C)
    BY <1>1
  <2> HIDE DEF C
  <2> QED BY <2>1, <2>2, LeadTyped
<1>6. number_to_string(num, sys).text = Sign(num) \o (Prefix(sys) \o numeral)
  <2>1. Prefix(sys) \o numeral \in Seq(C)
    BY <1>5
  <2>2. CASE num < 0
    BY <1>3, <1>4, <2>2 DEF Prefixed, Sign
  <2>3. CASE ~(num < 0)
    BY <1>3, <1>4, <2>1, <2>3 DEF Sign
  <2> QED BY <2>2, <2>3
<1>7. Sign(num) \o (Prefix(sys) \o numeral) = (Sign(num) \o Prefix(sys)) \o numeral
  <2> HIDE DEF C
  <2> QED BY <1>5
<1> QED BY <1>1, <1>6, <1>7

(* Every dword reads back, in every base that format prints. *)
THEOREM DwordsReadBack ==
  ASSUME NEW num \in Dwords, NEW sys \in {2, 10, 16}
  PROVE  ReadsBack(num, sys)
<1> DEFINE a == IF num < 0 THEN -num ELSE num
           text == number_to_string(num, sys).text
           lead == Sign(num) \o Prefix(sys)
           C == Numerals \cup {"-", "0x", "0b"}
<1>1. PICK numeral \in Seq(Numerals) : IsNumeral(numeral, a, sys) /\ text = lead \o numeral
  BY NumberIs
<1>2. lead \in Seq(C)
  <2>1. "-" \in C /\ "0x" \in C /\ "0b" \in C
    OBVIOUS
  <2> HIDE DEF C
  <2> QED BY <2>1, LeadTyped
<1>3. numeral \in Seq(C)
  OBVIOUS
<1> HIDE DEF lead, C, text
<1>4. SubSeq(text, Len(lead) + 1, Len(text)) = numeral
  BY <1>1, <1>2, <1>3, CutText
<1>5. text = lead \o SubSeq(text, Len(lead) + 1, Len(text))
      /\ IsNumeral(SubSeq(text, Len(lead) + 1, Len(text)), a, sys)
  BY <1>1, <1>4
<1> QED BY <1>5, Zenon DEF ReadsBack, text, lead, Sign, Prefix

(* A fraction without a leading zero has AfterComma digits. *)
LEMMA FractionIs ==
  ASSUME NEW n \in Nat, mult(10)[AfterComma - 1] <= n, n < mult(10)[AfterComma]
  PROVE  n \in 1 .. Word - 1 /\ Power(n, 10) = AfterComma
<1>1. AfterComma \in Nat \ {0} /\ Word \in Nat /\ mult(10)[AfterComma] <= Word
  BY FormatAssumption
<1>2. AfterComma - 1 \in Nat
  BY <1>1
<1> DEFINE m == mult(10)
<1>3. m \in [Nat -> Nat] /\ \A k \in Nat : m[k] >= 1
  <2>1. 10 \in Nat \ {0}
    OBVIOUS
  <2> QED BY <2>1, Powers, Zenon
<1> HIDE DEF m
<1>4. m[AfterComma - 1] \in Nat /\ m[AfterComma - 1] >= 1 /\ m[AfterComma] \in Nat
  BY <1>1, <1>2, <1>3
<1>5. n \in 1 .. Word - 1 /\ n \in 0 .. Word - 1
  BY <1>1, <1>4 DEF m
<1>6. Power(n, 10) = AfterComma
  BY <1>1, <1>5, PowerOf
<1> QED BY <1>5, <1>6

(* A float whose whole part is not 0 and whose fraction has no leading     *)
(* zero reads back: both parts, at both sides of the point.                *)
THEOREM FloatsReadBack ==
  ASSUME NEW b, b.whole \in 1 .. Word - 1, b.fraction \in Nat,
         mult(10)[AfterComma - 1] <= b.fraction, b.fraction < mult(10)[AfterComma]
  PROVE  FloatReadsBack(b)
<1> DEFINE A == int_to_string(b.whole, 10)
           B == int_to_string(b.fraction, 10)
           C == Numerals \cup {"."}
           text == float_to_string(b).text
           point == Len(text) - AfterComma
<1>1. b.fraction \in 1 .. Word - 1 /\ Power(b.fraction, 10) = AfterComma
  BY FractionIs
<1>2. A \in Seq(Numerals) /\ IsNumeral(A, b.whole, 10)
  <2>1. 10 \in {2, 10, 16}
    OBVIOUS
  <2> QED BY <2>1, IntReadsBack, Zenon
<1>3. B \in Seq(Numerals) /\ Len(B) = AfterComma /\ IsNumeral(B, b.fraction, 10)
  <2>1. 10 \in {2, 10, 16}
    OBVIOUS
  <2>2. B \in Seq(Numerals) /\ Len(B) = Power(b.fraction, 10) /\ IsNumeral(B, b.fraction, 10)
    BY <1>1, <2>1, IntReadsBack, Zenon
  <2> QED BY <1>1, <2>2, Zenon
<1>4. text = (A \o <<".">>) \o B
  <2>1. b.whole # 0 /\ b.fraction # 0
    BY <1>1
  <2> QED BY <2>1 DEF float_to_string
<1>5. A \in Seq(C) /\ B \in Seq(C) /\ <<".">> \in Seq(C)
  <2> HIDE DEF A, B
  <2> QED BY <1>2, <1>3
<1> HIDE DEF A, B, C, text
<1>6. AfterComma \in Nat
  BY FormatAssumption
<1> DEFINE L == A \o <<".">>
<1>7. L \in Seq(C) /\ Len(L) = Len(A) + 1 /\ L[Len(L)] = "." /\ SubSeq(L, 1, Len(A)) = A
  BY <1>5
<1> HIDE DEF L
<1>8. text = L \o B /\ Len(A) \in Nat /\ Len(B) \in Nat
  BY <1>4, <1>5 DEF L
<1>9. Len(text) = Len(L) + Len(B) /\ point = Len(L) /\ point - 1 = Len(A)
  <2>1. Len(text) = Len(L) + Len(B)
    BY <1>5, <1>7, <1>8, CutText
  <2>2. Len(L) = Len(A) + 1 /\ Len(B) = AfterComma
    BY <1>3, <1>7
  <2> QED BY <1>6, <1>8, <2>1, <2>2
<1>10. text[Len(L)] = "."
  BY <1>5, <1>7, <1>8
<1>11. SubSeq(text, 1, Len(A)) = A
  BY <1>5, <1>7, <1>8
<1>12. SubSeq(text, Len(L) + 1, Len(text)) = B
  BY <1>5, <1>7, <1>8, CutText
<1> HIDE DEF point
<1>13. text[point] = "." /\ IsNumeral(SubSeq(text, 1, point - 1), b.whole, 10)
       /\ IsNumeral(SubSeq(text, point + 1, Len(text)), b.fraction, 10)
  BY <1>2, <1>3, <1>9, <1>10, <1>11, <1>12
<1> QED BY <1>13, Zenon DEF FloatReadsBack, text, point

(***************************************************************************)
(* Texts                                                                   *)
(***************************************************************************)

(* A conversion of a value of its type is a text. *)
LEMMA ConvertedTyped ==
  ASSUME NEW kind \in Kinds, NEW arg, OfKind(kind, arg)
  PROVE  Converted(kind, arg).text \in Seq(Characters)
<1>1. /\ Words \subseteq Characters /\ Numerals \subseteq Characters
      /\ \A w \in {"-", ".", ".null", "0x", "0b", "true", "false"} : w \in Characters
  BY FormatAssumption DEF Words, Numerals
<1>2. ASSUME NEW t \in Seq(Numerals) PROVE t \in Seq(Characters)
  <2> HIDE DEF Numerals
  <2> QED BY <1>1
<1>3. CASE kind = "l"
  BY <1>1, <1>3 DEF Converted, boolean_to_string, Block
<1>4. CASE kind = "p"
  <2>1. arg \in 0 .. Word - 1
    BY <1>4 DEF OfKind
  <2>2. CASE arg = 0
    <3>1. Converted(kind, arg) = Block(<<".null">>)
      BY <1>4, <2>2 DEF Converted, pointer_to_string
    <3>2. <<".null">> \in Seq(Characters)
      BY <1>1
    <3> QED BY <3>1, <3>2 DEF Block
  <2>3. CASE arg # 0
    <3>1. arg \in 1 .. Word - 1 /\ 16 \in {2, 10, 16}
      BY <2>1, <2>3, FormatAssumption
    <3>2. int_to_string(arg, 16) \in Seq(Characters)
      BY <1>2, <3>1, IntReadsBack
    <3>3. Converted(kind, arg).text = <<".">> \o int_to_string(arg, 16)
      BY <1>4, <2>3 DEF Converted, pointer_to_string, Block, Prefixed
    <3> QED BY <1>1, <3>2, <3>3
  <2> QED BY <2>2, <2>3
<1>5. ASSUME NEW sys \in {2, 10, 16}, arg \in Dwords
      PROVE  number_to_string(arg, sys).text \in Seq(Characters)
  <2>1. PICK numeral \in Seq(Numerals) :
          number_to_string(arg, sys).text = (Sign(arg) \o Prefix(sys)) \o numeral
    BY <1>5, NumberIs
  <2>2. Sign(arg) \o Prefix(sys) \in Seq(Characters)
    BY <1>1, LeadTyped
  <2> QED BY <1>2, <2>1, <2>2
<1>6. CASE kind = "d"
  BY <1>5, <1>6 DEF Converted, OfKind
<1>7. CASE kind = "h"
  BY <1>5, <1>7 DEF Converted, OfKind
<1>8. CASE kind = "b"
  BY <1>5, <1>8 DEF Converted, OfKind
<1>9. CASE kind = "f"
  <2> DEFINE part(n) == IF n = 0 THEN arg.unwritten ELSE int_to_string(n, 10)
  <2>1. /\ arg.whole \in 0 .. Word - 1 /\ arg.unwritten \in Seq(Characters)
        /\ arg.fraction \in 0 .. mult(10)[AfterComma] - 1
    BY <1>9 DEF OfKind
  <2>2. arg.fraction \in 0 .. Word - 1
    <3>1. AfterComma \in Nat /\ Word \in Nat /\ mult(10)[AfterComma] <= Word
      BY FormatAssumption
    <3>2. mult(10)[AfterComma] \in Nat
      BY <3>1, Powers
    <3> QED BY <2>1, <3>1, <3>2
  <2>3. ASSUME NEW n \in 0 .. Word - 1 PROVE part(n) \in Seq(Characters)
    <3>1. CASE n = 0
      BY <2>1, <3>1
    <3>2. CASE n # 0
      <4>1. n \in 1 .. Word - 1 /\ 10 \in {2, 10, 16}
        BY <3>2, FormatAssumption
      <4>2. int_to_string(n, 10) \in Seq(Characters)
        BY <1>2, <4>1, IntReadsBack
      <4> QED BY <3>2, <4>2
    <3> QED BY <3>1, <3>2
  <2>4. Converted(kind, arg).text = part(arg.whole) \o <<".">> \o part(arg.fraction)
    BY <1>9 DEF Converted, float_to_string
  <2>5. part(arg.whole) \in Seq(Characters) /\ part(arg.fraction) \in Seq(Characters)
    BY <2>1, <2>2, <2>3
  <2> HIDE DEF part
  <2> QED BY <1>1, <2>4, <2>5
<1>10. CASE kind = "c"
  BY <1>10 DEF Converted, OfKind, Block
<1>11. CASE kind = "s"
  BY <1>11 DEF Converted, OfKind, Block
<1> QED BY <1>3, <1>4, <1>6, <1>7, <1>8, <1>9, <1>10, <1>11 DEF Kinds

(* The concatenations of the first texts of a sequence. *)
Texts == Seq(Characters)
Appends(a) == [n \in Nat |-> [x \in Texts |-> IF n < Len(a) THEN x \o a[n + 1] ELSE x]]
Gathered(a) == CHOOSE f : Recursive(f, Texts, <<>>, Appends(a))

LEMMA GatheredIs ==
  ASSUME NEW a \in Seq(Texts)
  PROVE  /\ Gathered(a)[0] = <<>>
         /\ \A n \in 0 .. Len(a) : Gathered(a)[n] \in Texts
         /\ \A n \in 1 .. Len(a) : Gathered(a)[n] = Gathered(a)[n - 1] \o a[n]
<1> DEFINE H == Appends(a)
           G == Gathered(a)
<1>1. \A n \in Nat : n < Len(a) => a[n + 1] \in Texts
  <2> HIDE DEF Texts
  <2> QED OBVIOUS
<1>2. H \in Steps(Texts)
  <2>1. ASSUME NEW n \in Nat, NEW x \in Texts
        PROVE  (IF n < Len(a) THEN x \o a[n + 1] ELSE x) \in Texts
    BY <1>1 DEF Texts
  <2> HIDE DEF Texts
  <2> QED BY <2>1 DEF Steps, Appends
<1>3. <<>> \in Texts
  BY DEF Texts
<1>4. Recursive(G, Texts, <<>>, H)
  <2>1. \E f : Recursive(f, Texts, <<>>, H)
    BY <1>2, <1>3, RecursionExists, Zenon
  <2> QED BY <2>1 DEF Gathered
<1>5. G[0] = <<>> /\ G \in [Nat -> Texts] /\ \A n \in Nat : G[n + 1] = H[n][G[n]]
  BY <1>4 DEF Recursive
<1>6. ASSUME NEW n \in 1 .. Len(a) PROVE G[n] = G[n - 1] \o a[n]
  <2>1. n - 1 \in Nat /\ (n - 1) + 1 = n /\ n - 1 < Len(a)
    OBVIOUS
  <2>2. G[n] = H[n - 1][G[n - 1]] /\ G[n - 1] \in Texts
    BY <1>5, <2>1
  <2>3. \A x \in Texts : H[n - 1][x] = x \o a[n]
    BY <2>1 DEF Appends
  <2> QED BY <2>2, <2>3
<1> HIDE DEF G
<1>7. ASSUME NEW n \in 0 .. Len(a) PROVE G[n] \in Texts
  <2>1. n \in Nat
    OBVIOUS
  <2> QED BY <1>5, <2>1
<1> QED BY <1>5, <1>6, <1>7 DEF G

(* FlattenSeq concatenates them all. *)
LEMMA FlattenIs ==
  ASSUME NEW a \in Seq(Texts)
  PROVE  FlattenSeq(a) = Gathered(a)[Len(a)]
<1> DEFINE l == Len(a)
           G == Gathered(a)
           Step(f) == [i \in 1 .. l |-> IF i = 1 THEN a[i] ELSE f[i - 1] \o a[i]]
           v == CHOOSE f : f = Step(f)
           g == [i \in 1 .. l |-> G[i]]
<1>0. l \in Nat
  OBVIOUS
<1>1. G[0] = <<>> /\ \A n \in 1 .. l : G[n] = G[n - 1] \o a[n]
  BY GatheredIs
<1> HIDE DEF G
<1>2. CASE l = 0
  <2>1. a = <<>>
    BY <1>2
  <2>2. FlattenSeq(a) = a
    BY <1>2 DEF FlattenSeq
  <2> QED BY <1>1, <1>2, <2>1, <2>2 DEF G
<1>3. CASE l # 0
  <2>1. ASSUME NEW i \in 1 .. l PROVE g[i] = IF i = 1 THEN a[i] ELSE g[i - 1] \o a[i]
    <3>1. CASE i = 1
      <4>1. G[1] = G[1 - 1] \o a[1]
        BY <1>1, <3>1
      <4>2. a[1] \in Seq(Characters)
        BY <3>1 DEF Texts
      <4>3. <<>> \o a[1] = a[1]
        BY <4>2
      <4>4. 1 - 1 = 0 /\ g[1] = G[1]
        BY <3>1
      <4>5. g[1] = a[1]
        BY <1>1, <4>1, <4>3, <4>4
      <4> QED BY <3>1, <4>5
    <3>2. CASE i # 1
      <4>1. i - 1 \in 1 .. l
        BY <1>0, <3>2
      <4> QED BY <1>1, <3>2, <4>1
    <3> QED BY <3>1, <3>2
  <2>2. g = Step(g)
    BY <2>1
  <2>3. v = Step(v)
    <3> HIDE DEF Step, g
    <3> QED BY <2>2
  <2>4. FlattenSeq(a) = v[l]
    BY <1>3, Zenon DEF FlattenSeq
  <2> HIDE DEF v
  <2> DEFINE P == {n \in Nat : n + 1 <= l => v[n + 1] = g[n + 1]}
  <2>5. 0 \in P
    <3>1. l >= 1 => v[1] = a[1] /\ g[1] = a[1]
      <4>1. l >= 1 => 1 \in 1 .. l
        BY <1>0
      <4> QED BY <2>1, <2>3, <4>1
    <3> QED BY <1>0, <3>1
  <2>6. ASSUME NEW n \in P PROVE n + 1 \in P
    <3>1. SUFFICES ASSUME n + 2 <= l PROVE v[n + 2] = g[n + 2]
      <4>1. (n + 1) + 1 = n + 2 /\ n + 1 \in Nat
        OBVIOUS
      <4> QED BY <4>1
    <3>2. /\ n \in Nat /\ v[n + 1] = g[n + 1]
          /\ n + 2 \in 1 .. l /\ n + 2 # 1 /\ (n + 2) - 1 = n + 1
      BY <1>0, <3>1
    <3>3. v[n + 2] = v[n + 1] \o a[n + 2]
      BY <2>3, <3>2
    <3>4. g[n + 2] = g[n + 1] \o a[n + 2]
      <4> HIDE DEF g
      <4> QED BY <2>1, <3>2
    <3> QED BY <3>2, <3>3, <3>4
  <2>7. P \in SUBSET Nat
    OBVIOUS
  <2> HIDE DEF P
  <2>8. P = Nat
    BY <2>5, <2>6, <2>7, Inductive
  <2>9. v[l] = g[l]
    <3>1. l - 1 \in Nat /\ (l - 1) + 1 = l /\ l <= l
      BY <1>0, <1>3
    <3> QED BY <2>8, <3>1 DEF P
  <2>10. g[l] = G[l]
    BY <1>0, <1>3
  <2> QED BY <2>4, <2>9, <2>10 DEF G
<1> QED BY <1>2, <1>3

(***************************************************************************)
(* Placeholders and the stack                                              *)
(***************************************************************************)

(* The letter of a placeholder starts none. *)
LEMMA PlaceholdersApart ==
  ASSUME NEW t, NEW n \in Placeholders(t)
  PROVE  n + 1 \notin Placeholders(t)
BY DEF Placeholders, Kinds

LEMMA PlaceholdersFinite ==
  ASSUME NEW t \in Seq(Characters)
  PROVE  /\ IsFiniteSet(Placeholders(t)) /\ Cardinality(Placeholders(t)) \in Nat
         /\ Placeholders(t) \subseteq Nat \ {0}
<1>1. IsFiniteSet(1 .. Len(t) - 1)
  <2>1. Len(t) - 1 \in Int /\ 1 \in Int
    OBVIOUS
  <2> QED BY <2>1, FS_Interval
<1>2. Placeholders(t) \subseteq 1 .. Len(t) - 1
  BY DEF Placeholders
<1> HIDE DEF Placeholders
<1>3. IsFiniteSet(Placeholders(t))
  BY <1>1, <1>2, FS_Subset, Zenon
<1>4. Cardinality(Placeholders(t)) \in Nat
  BY <1>3, FS_CardinalityType
<1>5. 1 .. Len(t) - 1 \subseteq Nat \ {0}
  OBVIOUS
<1> QED BY <1>2, <1>3, <1>4, <1>5

(* How many placeholders are among the first n characters. *)
LEMMA OrdinalIs ==
  ASSUME NEW t \in Seq(Characters)
  PROVE  /\ Ordinal(t, 0) = 0
         /\ \A n \in Nat : Ordinal(t, n) \in 0 .. Cardinality(Placeholders(t))
         /\ \A n \in Nat : Ordinal(t, n + 1) =
              IF n + 1 \in Placeholders(t) THEN Ordinal(t, n) + 1 ELSE Ordinal(t, n)
         /\ \A n \in Placeholders(t), m \in Nat : m < n => Ordinal(t, m) < Ordinal(t, n)
<1> DEFINE P == Placeholders(t)
           First(n) == {m \in P : m <= n}
<1>1. IsFiniteSet(P) /\ P \subseteq Nat \ {0} /\ Cardinality(P) \in Nat
  BY PlaceholdersFinite
<1>0. \A m \in P : m \in Nat /\ m >= 1
  <2>1. \A m \in Nat \ {0} : m \in Nat /\ m >= 1
    OBVIOUS
  <2> HIDE DEF P
  <2> QED BY <1>1, <2>1, Zenon
<1> HIDE DEF P
<1>2. ASSUME NEW n \in Nat
      PROVE  /\ IsFiniteSet(First(n)) /\ Cardinality(First(n)) \in Nat
             /\ Cardinality(First(n)) <= Cardinality(P)
  <2>1. First(n) \in SUBSET P
    OBVIOUS
  <2> HIDE DEF First
  <2>2. IsFiniteSet(First(n)) /\ Cardinality(First(n)) <= Cardinality(P)
    BY <1>1, <2>1, FS_Subset
  <2> QED BY <2>2, FS_CardinalityType
<1>3. \A n : Ordinal(t, n) = Cardinality(First(n))
  BY DEF Ordinal, P
<1>4. Ordinal(t, 0) = 0
  <2>1. First(0) = {}
    BY <1>0
  <2> QED BY <1>3, <2>1, FS_EmptySet
<1>5. ASSUME NEW n \in Nat
      PROVE  Ordinal(t, n + 1) = IF n + 1 \in P THEN Ordinal(t, n) + 1 ELSE Ordinal(t, n)
  <2>1. CASE n + 1 \in P
    <3>1. First(n + 1) = First(n) \cup {n + 1} /\ n + 1 \notin First(n)
      BY <1>0, <2>1
    <3> HIDE DEF First
    <3>2. Cardinality(First(n) \cup {n + 1}) = Cardinality(First(n)) + 1
      BY <1>2, <3>1, FS_AddElement
    <3> QED BY <1>3, <2>1, <3>1, <3>2
  <2>2. CASE n + 1 \notin P
    <3>1. First(n + 1) = First(n)
      BY <1>0, <2>2
    <3> QED BY <1>3, <2>2, <3>1
  <2> QED BY <2>1, <2>2
<1>6. ASSUME NEW n \in P, NEW m \in Nat, m < n PROVE Ordinal(t, m) < Ordinal(t, n)
  <2>0. n \in Nat
    BY <1>0
  <2>1. First(m) \in SUBSET (First(n) \ {n}) /\ n \in First(n)
    BY <1>0, <1>6
  <2>2. IsFiniteSet(First(n)) /\ Cardinality(First(n)) \in Nat /\ Cardinality(First(m)) \in Nat
    BY <1>2, <2>0
  <2> HIDE DEF First
  <2>3. IsFiniteSet(First(n) \ {n}) /\ Cardinality(First(n) \ {n}) = Cardinality(First(n)) - 1
    BY <2>1, <2>2, FS_RemoveElement
  <2>4. Cardinality(First(m)) <= Cardinality(First(n) \ {n})
    BY <2>1, <2>3, FS_Subset
  <2> QED BY <1>3, <2>2, <2>3, <2>4
<1>7. ASSUME NEW n \in Nat PROVE Ordinal(t, n) \in 0 .. Cardinality(P)
  <2> DEFINE x == Cardinality(First(n))
             y == Cardinality(P)
  <2>1. x \in Nat /\ y \in Nat /\ x <= y
    BY <1>1, <1>2
  <2>2. x \in 0 .. y
    <3> HIDE DEF x, y
    <3> QED BY <2>1
  <2> QED BY <1>3, <2>2
<1> QED BY <1>4, <1>5, <1>6, <1>7 DEF P

(* Where the k-th argument starts. *)
LEMMA StartOfIs ==
  ASSUME template \in Seq(Characters)
  PROVE  /\ StartOf(1) = 1
         /\ \A k \in Nat : StartOf(k) \in Nat
         /\ \A k, l \in Nat : k < l => StartOf(k) < StartOf(l)
         /\ \A n \in Placeholders(template) :
              StartOf(Ordinal(template, n) + 1)
                = StartOf(Ordinal(template, n)) + Width(template[n + 1])
<1> DEFINE P == Placeholders(template)
           o == [n \in Nat |-> Ordinal(template, n)]
           F(k) == {n \in P : o[n] < k /\ template[n + 1] = "f"}
<1>1. IsFiniteSet(P) /\ \A n \in P : n \in Nat /\ n >= 1
  <2>1. \A m \in Nat \ {0} : m \in Nat /\ m >= 1
    OBVIOUS
  <2>2. IsFiniteSet(P) /\ P \subseteq Nat \ {0}
    BY PlaceholdersFinite
  <2> HIDE DEF P
  <2> QED BY <2>1, <2>2, Zenon
<1>2. /\ o \in [Nat -> Nat] /\ o[0] = 0
      /\ \A n \in P, m \in Nat : m < n => o[m] < o[n]
  <2>1. /\ \A n \in Nat : Ordinal(template, n) \in 0 .. Cardinality(P)
        /\ \A n \in P, m \in Nat : m < n => Ordinal(template, m) < Ordinal(template, n)
        /\ Ordinal(template, 0) = 0
    BY OrdinalIs, Zenon
  <2>2. Cardinality(P) \in Nat
    BY PlaceholdersFinite
  <2>3. \A c \in Nat : 0 .. c \subseteq Nat
    OBVIOUS
  <2> HIDE DEF P
  <2> QED BY <1>1, <2>1, <2>2, <2>3
<1>0. \A n \in P : o[n] \in Nat
  <2> HIDE DEF P, o
  <2> QED BY <1>1, <1>2
<1>3. \A k : StartOf(k) = k + Cardinality(F(k))
  <2>1. \A k : F(k) = {n \in P : Ordinal(template, n) < k /\ template[n + 1] = "f"}
    <3> HIDE DEF P
    <3> QED BY <1>1
  <2> QED BY <2>1 DEF StartOf
<1> HIDE DEF P, o
<1>4. ASSUME NEW k \in Nat PROVE IsFiniteSet(F(k)) /\ Cardinality(F(k)) \in Nat
  <2>1. F(k) \in SUBSET P
    OBVIOUS
  <2> HIDE DEF F
  <2>2. IsFiniteSet(F(k))
    BY <1>1, <2>1, FS_Subset
  <2> QED BY <2>2, FS_CardinalityType
<1>5. StartOf(1) = 1
  <2>1. F(1) = {}
    BY <1>1, <1>2
  <2>2. Cardinality(F(1)) = 0
    BY <2>1, FS_EmptySet
  <2> HIDE DEF F
  <2> QED BY <1>3, <2>2
<1>6. ASSUME NEW k \in Nat PROVE StartOf(k) \in Nat
  <2>1. Cardinality(F(k)) \in Nat
    BY <1>4
  <2> HIDE DEF F
  <2> QED BY <1>3, <2>1
<1>7. ASSUME NEW k \in Nat, NEW l \in Nat, k < l PROVE StartOf(k) < StartOf(l)
  <2>1. F(k) \in SUBSET F(l)
    <3>1. \A x \in Nat : x < k => x < l
      BY <1>7
    <3> QED BY <1>0, <3>1, Zenon
  <2>2. IsFiniteSet(F(l)) /\ Cardinality(F(l)) \in Nat /\ Cardinality(F(k)) \in Nat
    BY <1>4
  <2> HIDE DEF F
  <2>3. Cardinality(F(k)) <= Cardinality(F(l))
    BY <2>1, <2>2, FS_Subset
  <2> QED BY <1>3, <1>7, <2>2, <2>3
<1>8. ASSUME NEW n \in P PROVE StartOf(o[n] + 1) = StartOf(o[n]) + Width(template[n + 1])
  <2>1. n \in Nat /\ o[n] \in Nat
    BY <1>1, <1>2
  <2>2. ASSUME NEW m \in P, o[m] = o[n] PROVE m = n
    <3>1. m \in Nat /\ o[m] \in Nat
      BY <1>1, <1>2
    <3>2. ~(m < n) /\ ~(n < m)
      BY <1>2, <2>1, <2>2, <3>1
    <3> QED BY <2>1, <3>1, <3>2
  <2>3. \A m \in P : o[m] < o[n] + 1 <=> o[m] < o[n] \/ o[m] = o[n]
    <3>1. \A x \in Nat : x < o[n] + 1 <=> x < o[n] \/ x = o[n]
      BY <2>1
    <3> QED BY <1>0, <3>1, Zenon
  <2>4. IsFiniteSet(F(o[n])) /\ Cardinality(F(o[n])) \in Nat
    BY <1>4, <2>1
  <2>5. CASE template[n + 1] = "f"
    <3>1. F(o[n] + 1) = F(o[n]) \cup {n} /\ n \notin F(o[n])
      <4>1. ASSUME NEW x \in P
            PROVE  x \in F(o[n] + 1) <=> x \in F(o[n]) \/ x = n
        BY <2>2, <2>3, <2>5
      <4>2. ~(o[n] < o[n])
        BY <2>1
      <4> QED BY <4>1, <4>2
    <3> HIDE DEF F
    <3>2. Cardinality(F(o[n] + 1)) = Cardinality(F(o[n])) + 1
      BY <2>4, <3>1, FS_AddElement
    <3>3. Width(template[n + 1]) = 2
      BY <2>5 DEF Width
    <3>4. StartOf(o[n] + 1) = (o[n] + 1) + (Cardinality(F(o[n])) + 1)
      BY <1>3, <3>2
    <3>5. StartOf(o[n]) = o[n] + Cardinality(F(o[n]))
      BY <1>3
    <3> QED BY <2>1, <2>4, <3>3, <3>4, <3>5
  <2>6. CASE template[n + 1] # "f"
    <3>1. F(o[n] + 1) = F(o[n])
      BY <2>2, <2>3, <2>6
    <3> HIDE DEF F
    <3> QED BY <1>3, <2>1, <2>4, <2>6, <3>1 DEF Width
  <2> QED BY <2>5, <2>6
<1>9. ASSUME NEW n \in P
      PROVE  StartOf(Ordinal(template, n) + 1)
               = StartOf(Ordinal(template, n)) + Width(template[n + 1])
  <2>1. o[n] = Ordinal(template, n)
    BY <1>1 DEF o
  <2> QED BY <1>8, <2>1
<1> QED BY <1>5, <1>6, <1>7, <1>9 DEF P

(* The dword where the k-th argument starts is the k-th argument. *)
LEMMA SlotIs ==
  ASSUME template \in Seq(Characters), Len(args) \in Nat, NEW k \in 1 .. Len(args)
  PROVE  Slot(StartOf(k)) = args[k]
<1> DEFINE P(l) == l \in 1 .. Len(args) /\ StartOf(l) = StartOf(k)
           c == CHOOSE l : P(l)
<1>1. P(c)
  <2>1. P(k) OBVIOUS
  <2> HIDE DEF P
  <2> QED BY <2>1
<1>2. c \in Nat /\ k \in Nat /\ StartOf(c) = StartOf(k)
  BY <1>1
<1> HIDE DEF c
<1>3. ~(c < k) /\ ~(k < c)
  <2>1. \A m \in Nat : StartOf(m) \in Nat
    BY StartOfIs
  <2>2. \A m, l \in Nat : m < l => StartOf(m) < StartOf(l)
    BY StartOfIs, Zenon
  <2>3. ASSUME NEW m \in Nat, NEW l \in Nat, StartOf(m) = StartOf(l) PROVE ~(m < l)
    <3>1. \A s \in Nat : ~(s < s)
      OBVIOUS
    <3> QED BY <2>1, <2>2, <2>3, <3>1, Zenon
  <2> QED BY <1>2, <2>3, Zenon
<1>4. c = k
  BY <1>2, <1>3
<1>5. Slot(StartOf(k)) = args[c]
  BY DEF Slot, c
<1> QED BY <1>4, <1>5

(***************************************************************************)
(* format                                                                  *)
(***************************************************************************)

(* What callers pass is of the types that the placeholders name. *)
LEMMA RequestTyped ==
  ASSUME request \in DOMAIN Requests, request # 0
  PROVE  /\ template \in Seq(Characters) /\ Len(args) \in Nat
         /\ Len(args) >= Cardinality(Placeholders(template))
         /\ \A n \in Placeholders(template) :
              OfKind(template[n + 1], args[Ordinal(template, n)])
<1>1. template = Requests[request].template /\ args = Requests[request].args
  BY DEF template, args
<1> QED BY <1>1, FormatAssumption, Zenon

Pieces == [n \in 1 .. Len(template) |-> Piece(template, args, n)]

(* What the first n characters of the template stand for. *)
Expanded(n) == Gathered(Pieces)[n]

(* What a character stands for is a text. *)
LEMMA PiecesTyped ==
  ASSUME request \in DOMAIN Requests, request # 0
  PROVE  Pieces \in Seq(Texts) /\ Len(Pieces) = Len(template)
<1>1. /\ template \in Seq(Characters)
      /\ \A n \in Placeholders(template) :
           OfKind(template[n + 1], args[Ordinal(template, n)])
  BY RequestTyped
<1>2. ASSUME NEW n \in 1 .. Len(template) PROVE Piece(template, args, n) \in Texts
  <2>1. CASE n \in Placeholders(template)
    <3>1. template[n + 1] \in Kinds
      BY <2>1 DEF Placeholders
    <3>2. Converted(template[n + 1], args[Ordinal(template, n)]).text \in Seq(Characters)
      BY <1>1, <2>1, <3>1, ConvertedTyped
    <3> QED BY <2>1, <3>2 DEF Piece, Texts
  <2>2. CASE n \notin Placeholders(template)
    <3>1. <<template[n]>> \in Seq(Characters) /\ <<>> \in Seq(Characters)
      BY <1>1
    <3> QED BY <2>2, <3>1, Zenon DEF Piece, Texts
  <2> QED BY <2>1, <2>2
<1> HIDE DEF Texts
<1> QED BY <1>1, <1>2 DEF Pieces

(* One character further on, or past a placeholder. *)
LEMMA ExpandedStep ==
  ASSUME request \in DOMAIN Requests, request # 0
  PROVE  /\ Expanded(0) = <<>> /\ Expansion(template, args) = Expanded(Len(template))
         /\ \A n \in 0 .. Len(template) : Expanded(n) \in Seq(Characters)
         /\ \A n \in 1 .. Len(template) :
              Expanded(n) = Expanded(n - 1) \o Piece(template, args, n)
<1>1. Pieces \in Seq(Texts) /\ Len(Pieces) = Len(template)
  BY PiecesTyped
<1>2. /\ Gathered(Pieces)[0] = <<>>
      /\ \A n \in 0 .. Len(template) : Gathered(Pieces)[n] \in Texts
      /\ \A n \in 1 .. Len(template) :
           Gathered(Pieces)[n] = Gathered(Pieces)[n - 1] \o Pieces[n]
  BY <1>1, GatheredIs
<1>3. \A n \in 1 .. Len(template) : Pieces[n] = Piece(template, args, n)
  BY DEF Pieces
<1>4. FlattenSeq(Pieces) = Gathered(Pieces)[Len(template)]
  BY <1>1, FlattenIs
<1>5. Expansion(template, args) = FlattenSeq(Pieces)
  BY DEF Expansion, Pieces
<1> QED BY <1>2, <1>3, <1>4, <1>5, Zenon DEF Expanded, Texts

(* The loop of format, at index jj with pp printed characters: the result  *)
(* and the characters that wait for the next placeholder are what the      *)
(* template stands for so far, and arg is where the next argument starts.  *)
Loops(jj, pp, res, arg) ==
  /\ jj \in 0 .. Len(template) /\ pp \in 0 .. jj /\ jj \notin Placeholders(template)
  /\ res \in Seq(Characters)
  /\ res \o SubSeq(template, pp + 1, jj) = Expanded(jj)
  /\ arg = StartOf(Ordinal(template, jj) + 1)

Looping == request \in DOMAIN Requests /\ Loops(j, printed, result, argumentor)

LEMMA LoopingNext ==
  ASSUME request \in DOMAIN Requests, request' = request,
         Loops(j', printed', result', argumentor')
  PROVE  Looping'
<1>1. template' = template /\ args' = args
  BY DEF template, args
<1>2. Pieces' = Pieces
  BY <1>1 DEF Pieces
<1>3. \A k : StartOf(k)' = StartOf(k)
  BY <1>1 DEF StartOf
<1> QED BY <1>1, <1>2, <1>3 DEF Looping, Loops, Expanded

(* The loop begins: nothing printed, and the first argument behind the     *)
(* template.                                                               *)
LEMMA LoopBegins ==
  request \in DOMAIN Requests /\ request # 0 /\ result = <<>> /\ j = 0 /\ printed = 0
    /\ argumentor = 1 => Looping
<1> SUFFICES ASSUME request \in DOMAIN Requests, request # 0, result = <<>>, j = 0,
                    printed = 0, argumentor = 1
             PROVE  Looping
  OBVIOUS
<1>1. template \in Seq(Characters) /\ Expanded(0) = <<>>
  BY RequestTyped, ExpandedStep
<1>2. Ordinal(template, 0) = 0 /\ 0 \notin Placeholders(template)
  BY <1>1, OrdinalIs, PlaceholdersFinite
<1>3. StartOf(1) = 1
  BY <1>1, StartOfIs
<1>4. SubSeq(template, 0 + 1, 0) = <<>> /\ <<>> \in Seq(Characters) /\ <<>> \o <<>> = <<>>
  BY <1>1
<1>5. 0 \in 0 .. Len(template) /\ 0 \in 0 .. 0 /\ 0 + 1 = 1
  BY <1>1
<1>6. <<>> \o SubSeq(template, 0 + 1, 0) = Expanded(0)
  BY <1>1, <1>4
<1>7. Loops(0, 0, <<>>, 1)
  BY <1>2, <1>3, <1>4, <1>5, <1>6 DEF Loops
<1> QED BY <1>7 DEF Looping

LEMMA BeginLoops ==
  ASSUME NEW r \in DOMAIN Requests, r # 0, FormatBegin(r)
  PROVE  Looping'
<1>1. (request \in DOMAIN Requests /\ request # 0 /\ result = <<>> /\ j = 0 /\ printed = 0
         /\ argumentor = 1)'
  BY DEF FormatBegin
<1> QED BY <1>1, LoopBegins, PTL

(* What holds of the template and the locals in the loop. *)
LEMMA LoopFacts ==
  ASSUME Looping, request # 0
  PROVE  /\ template \in Seq(Characters)
         /\ Len(template) \in Nat /\ j \in Nat /\ j <= Len(template)
         /\ printed \in Nat /\ printed <= j /\ j \notin Placeholders(template)
         /\ result \in Seq(Characters) /\ Lead \in Seq(Characters)
         /\ result \o Lead = Expanded(j) /\ Expanded(j) \in Seq(Characters)
         /\ argumentor = StartOf(Ordinal(template, j) + 1)
<1>1. /\ j \in 0 .. Len(template) /\ printed \in 0 .. j /\ j \notin Placeholders(template)
      /\ result \in Seq(Characters) /\ result \o Lead = Expanded(j)
      /\ argumentor = StartOf(Ordinal(template, j) + 1)
      /\ request \in DOMAIN Requests
  BY DEF Looping, Loops, Lead
<1>2. template \in Seq(Characters)
  BY <1>1, RequestTyped
<1>3. /\ Len(template) \in Nat /\ j \in Nat /\ j <= Len(template)
      /\ printed \in Nat /\ printed <= j
  BY <1>1, <1>2
<1>4. Lead \in Seq(Characters)
  BY <1>2, <1>3 DEF Lead
<1>5. Expanded(j) \in Seq(Characters)
  BY <1>1, ExpandedStep
<1> QED BY <1>1, <1>2, <1>3, <1>4, <1>5

(* The template is longer than an index at which a character other than    *)
(* the end was read, and that character is there.                          *)
LEMMA CharRead ==
  ASSUME template \in Seq(Characters), NEW at \in Nat, CharAt(at) # "NUL"
  PROVE  at < Len(template) /\ at + 1 \in 1 .. Len(template) /\ CharAt(at) = template[at + 1]
<1>1. at < Len(template) /\ CharAt(at) = template[at + 1]
  BY DEF CharAt
<1> QED BY <1>1

(* At a placeholder, in the code's terms and in those of the reference. *)
LEMMA AtPlaceholder ==
  ASSUME template \in Seq(Characters), j \in Nat
  PROVE  j + 1 \in Placeholders(template) <=> CharAt(j) = "%" /\ CharAt(j + 1) \in Kinds
<1>1. ASSUME CharAt(j) = "%", CharAt(j + 1) \in Kinds
      PROVE  j + 1 \in Placeholders(template)
  <2>1. CharAt(j) # "NUL" /\ CharAt(j + 1) # "NUL"
    BY <1>1 DEF Kinds
  <2>2. j + 1 < Len(template) /\ CharAt(j) = template[j + 1]
        /\ CharAt(j + 1) = template[(j + 1) + 1]
    BY <2>1, CharRead
  <2>3. j + 1 \in 1 .. Len(template) - 1
    BY <2>2
  <2> QED BY <1>1, <2>2, <2>3 DEF Placeholders
<1>2. ASSUME j + 1 \in Placeholders(template)
      PROVE  CharAt(j) = "%" /\ CharAt(j + 1) \in Kinds
  <2>1. j + 1 \in 1 .. Len(template) - 1 /\ template[j + 1] = "%"
        /\ template[(j + 1) + 1] \in Kinds
    BY <1>2 DEF Placeholders
  <2>2. j < Len(template) /\ j + 1 < Len(template)
    BY <2>1
  <2> QED BY <2>1, <2>2 DEF CharAt
<1> QED BY <1>1, <1>2

(* A character that is no placeholder stands for itself. *)
LEMMA PlainExpands ==
  ASSUME Looping, request # 0, j < Len(template), j + 1 \notin Placeholders(template)
  PROVE  /\ j + 1 \in 0 .. Len(template)
         /\ Expanded(j + 1) = Expanded(j) \o <<template[j + 1]>>
         /\ Ordinal(template, j + 1) = Ordinal(template, j)
<1>1. /\ template \in Seq(Characters) /\ j \in Nat /\ j \notin Placeholders(template)
      /\ Len(template) \in Nat
  BY LoopFacts
<1>2. j + 1 \in 0 .. Len(template) /\ j + 1 \in 1 .. Len(template) /\ (j + 1) - 1 = j
  BY <1>1
<1>3. Piece(template, args, j + 1) = <<template[j + 1]>>
  BY <1>1, <1>2 DEF Piece
<1>4. Expanded(j + 1) = Expanded(j) \o Piece(template, args, j + 1)
  <2>1. request \in DOMAIN Requests
    BY DEF Looping
  <2>2. Expanded(j + 1) = Expanded((j + 1) - 1) \o Piece(template, args, j + 1)
    BY <1>2, <2>1, ExpandedStep
  <2> QED BY <1>2, <2>2
<1>5. Ordinal(template, j + 1) = Ordinal(template, j)
  BY <1>1, OrdinalIs
<1> QED BY <1>2, <1>3, <1>4, <1>5

LEMMA CharLoops ==
  ASSUME Looping, request # 0, FormatChar
  PROVE  Looping'
<1>1. /\ template \in Seq(Characters) /\ Len(template) \in Nat /\ j \in Nat
      /\ printed \in Nat /\ printed <= j /\ result \in Seq(Characters)
      /\ result \o Lead = Expanded(j) /\ Lead \in Seq(Characters)
      /\ argumentor = StartOf(Ordinal(template, j) + 1)
  BY LoopFacts
<1>2. /\ j < Len(template) /\ CharAt(j) # "%" /\ j' = j + 1 /\ request' = request
      /\ printed' = printed /\ argumentor' = argumentor /\ result' = result
  BY DEF FormatChar
<1>3. j + 1 \notin Placeholders(template)
  BY <1>1, <1>2, AtPlaceholder
<1>4. /\ j + 1 \in 0 .. Len(template)
      /\ Expanded(j + 1) = Expanded(j) \o <<template[j + 1]>>
      /\ Ordinal(template, j + 1) = Ordinal(template, j)
  BY <1>2, <1>3, PlainExpands
<1>5. SubSeq(template, printed + 1, j + 1) = Lead \o <<template[j + 1]>>
  BY <1>1, <1>2 DEF Lead
<1>6. result \o (Lead \o <<template[j + 1]>>) = (result \o Lead) \o <<template[j + 1]>>
  <2> DEFINE c == <<template[j + 1]>>
  <2>1. c \in Seq(Characters)
    BY <1>1, <1>2
  <2> HIDE DEF c
  <2>2. result \in Seq(Characters) /\ Lead \in Seq(Characters)
    BY <1>1
  <2>3. result \o (Lead \o c) = (result \o Lead) \o c
    BY <2>1, <2>2
  <2> QED BY <2>3 DEF c
<1>7. printed \in 0 .. j + 1
  BY <1>1
<1>8. Loops(j + 1, printed, result, argumentor)
  BY <1>1, <1>3, <1>4, <1>5, <1>6, <1>7 DEF Loops
<1>9. request \in DOMAIN Requests
  BY DEF Looping
<1> QED BY <1>2, <1>8, <1>9, LoopingNext

LEMMA PlainLoops ==
  ASSUME Looping, request # 0, FormatPlain
  PROVE  Looping'
<1>1. /\ template \in Seq(Characters) /\ Len(template) \in Nat /\ j \in Nat
      /\ result \o Lead = Expanded(j) /\ Expanded(j) \in Seq(Characters)
      /\ argumentor = StartOf(Ordinal(template, j) + 1)
  BY LoopFacts
<1>2. /\ CharAt(j) = "%" /\ CharAt(j + 1) \notin Kinds /\ j' = j + 1 /\ request' = request
      /\ printed' = j /\ argumentor' = argumentor /\ result' = result \o Lead
  BY DEF FormatPlain
<1>3. j < Len(template) /\ j + 1 \notin Placeholders(template)
  <2>1. CharAt(j) # "NUL"
    BY <1>2
  <2> QED BY <1>1, <1>2, <2>1, AtPlaceholder, CharRead
<1>4. /\ j + 1 \in 0 .. Len(template)
      /\ Expanded(j + 1) = Expanded(j) \o <<template[j + 1]>>
      /\ Ordinal(template, j + 1) = Ordinal(template, j)
  BY <1>3, PlainExpands
<1>5. SubSeq(template, j + 1, j + 1) = <<template[j + 1]>>
  <2>1. j + 1 \in 1 .. Len(template)
    BY <1>1, <1>3
  <2> QED BY <1>1, <2>1, OneCharacter
<1>6. j \in 0 .. j + 1
  BY <1>1
<1>7. Loops(j + 1, j, Expanded(j), argumentor)
  BY <1>1, <1>3, <1>4, <1>5, <1>6 DEF Loops
<1>8. request \in DOMAIN Requests
  BY DEF Looping
<1> QED BY <1>1, <1>2, <1>7, <1>8, LoopingNext

LEMMA PlaceholderLoops ==
  ASSUME Looping, request # 0, FormatPlaceholder
  PROVE  Looping'
<1> DEFINE n == j + 1
           k == Ordinal(template, n)
<1>0. request \in DOMAIN Requests
  BY DEF Looping
<1>1. /\ template \in Seq(Characters) /\ Len(template) \in Nat /\ j \in Nat
      /\ result \in Seq(Characters) /\ Lead \in Seq(Characters)
      /\ result \o Lead = Expanded(j) /\ Expanded(j) \in Seq(Characters)
      /\ argumentor = StartOf(Ordinal(template, j) + 1)
  BY LoopFacts
<1>2. CharAt(j) = "%" /\ CharAt(j + 1) \in Kinds
  BY DEF FormatPlaceholder
<1>3. n \in Placeholders(template)
  BY <1>1, <1>2, AtPlaceholder
<1>4. /\ n \in 1 .. Len(template) /\ n + 1 \in 1 .. Len(template) /\ template[n + 1] \in Kinds
      /\ n \in Nat /\ (n + 1) - 1 = n /\ n - 1 = j
      /\ n + 1 \in 0 .. Len(template)
  BY <1>1, <1>3 DEF Placeholders
<1>5. CharAt(j + 1) = template[n + 1]
  BY <1>1, <1>4 DEF CharAt
<1>6. n + 1 \notin Placeholders(template)
  BY <1>3, PlaceholdersApart
<1>7. k = Ordinal(template, j) + 1 /\ Ordinal(template, n + 1) = k /\ k \in 1 .. Len(args)
  <2>1. k = Ordinal(template, j) + 1 /\ Ordinal(template, n + 1) = k
    BY <1>1, <1>3, <1>4, <1>6, OrdinalIs
  <2>2. /\ Ordinal(template, j) \in 0 .. Cardinality(Placeholders(template))
        /\ k \in 0 .. Cardinality(Placeholders(template))
    BY <1>1, <1>4, OrdinalIs
  <2>3. Len(args) \in Nat /\ Len(args) >= Cardinality(Placeholders(template))
    BY <1>0, RequestTyped
  <2>4. Cardinality(Placeholders(template)) \in Nat
    BY <1>1, PlaceholdersFinite
  <2> HIDE DEF k, n
  <2> QED BY <2>1, <2>2, <2>3, <2>4
<1>8. Slot(argumentor) = args[k]
  <2>1. Len(args) \in Nat
    BY <1>0, RequestTyped
  <2> HIDE DEF k
  <2> QED BY <1>1, <1>7, <2>1, SlotIs
<1> DEFINE text == Converted(template[n + 1], args[k]).text
<1>9. /\ result' = result \o Lead \o text /\ argumentor' = argumentor + Width(template[n + 1])
      /\ printed' = n + 1 /\ j' = n + 1 /\ request' = request
  <2>1. n + 1 = j + 2
    BY <1>1
  <2> HIDE DEF n, k
  <2> QED BY <1>5, <1>8, <2>1 DEF FormatPlaceholder
<1>10. text \in Seq(Characters)
  <2>1. OfKind(template[n + 1], args[k])
    BY <1>0, <1>3, RequestTyped
  <2> QED BY <1>4, <2>1, ConvertedTyped
<1>11. Piece(template, args, n) = text /\ Piece(template, args, n + 1) = <<>>
  <2> HIDE DEF n
  <2> QED BY <1>3, <1>4, <1>6 DEF Piece
<1>12. Expanded(n) = Expanded(j) \o text /\ Expanded(n + 1) = Expanded(n) \o <<>>
  <2> HIDE DEF text
  <2>1. Expanded(n) = Expanded(n - 1) \o Piece(template, args, n)
    BY <1>0, <1>4, ExpandedStep
  <2>2. Expanded(n + 1) = Expanded((n + 1) - 1) \o Piece(template, args, n + 1)
    BY <1>0, <1>4, ExpandedStep
  <2> QED BY <1>4, <1>11, <2>1, <2>2
<1> HIDE DEF text
<1>13. Expanded(n + 1) = result' /\ result' \in Seq(Characters)
  <2>1. Expanded(j) \o text \in Seq(Characters)
    BY <1>1, <1>10
  <2>2. Expanded(n) \o <<>> = Expanded(n)
    BY <1>12, <2>1
  <2> QED BY <1>1, <1>9, <1>12, <2>1, <2>2
<1>14. argumentor' = StartOf(k + 1)
  BY <1>1, <1>3, <1>7, <1>9, StartOfIs
<1> HIDE DEF n, k
<1>15. SubSeq(template, (n + 1) + 1, n + 1) = <<>> /\ result' \o <<>> = result'
  BY <1>1, <1>4, <1>13
<1>16. n + 1 \in 0 .. n + 1
  BY <1>4
<1>17. Loops(n + 1, n + 1, result', argumentor')
  BY <1>4, <1>6, <1>7, <1>13, <1>14, <1>15, <1>16 DEF Loops
<1> QED BY <1>0, <1>9, <1>17, LoopingNext

(* substring_beg(template, printed): the rest, and the text is complete. *)
LEMMA EndExpands ==
  ASSUME Looping, request # 0, FormatEnd
  PROVE  result' = Expansion(template, args)
<1>1. /\ Len(template) \in Nat /\ j \in Nat /\ j <= Len(template)
      /\ result \o Lead = Expanded(j)
  BY LoopFacts
<1>2. j = Len(template)
  BY <1>1 DEF FormatEnd
<1>3. result' = result \o Lead
  BY <1>2 DEF FormatEnd, Lead
<1>4. Expansion(template, args) = Expanded(Len(template))
  BY ExpandedStep DEF Looping
<1> QED BY <1>1, <1>2, <1>3, <1>4
============================================================================
