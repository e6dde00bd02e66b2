---------------------------- MODULE BasicProofs -----------------------------
(***************************************************************************)
(* What the provers lack and more than one of the proofs needs: induction, *)
(* functions defined by recursion, products and quotients, powers of two,  *)
(* flattened sequences.                                                    *)
(***************************************************************************)
EXTENDS Integers, SequencesExt, FiniteSetTheorems, SequenceTheorems, WellFoundedInduction,
        TLAPS

-----------------------------------------------------------------------------
(***************************************************************************)
(* Numbers and powers of two                                               *)
(***************************************************************************)

\* Induction: a set that holds zero and the successor of each of its numbers
\* holds them all.
LEMMA SetInduction ==
    ASSUME NEW S \in SUBSET Nat, 0 \in S, \A n \in S : n + 1 \in S
    PROVE  S = Nat
<1> SUFFICES ASSUME Nat \ S # {} PROVE FALSE
  OBVIOUS
<1>1. (Nat \ S) \subseteq Nat
  OBVIOUS
<1>2. \E x \in Nat \ S : \A y \in Nat \ S : ~(<<y, x>> \in OpToRel(<, Nat))
  BY <1>1, WFMin, NatLessThanWellFounded, Zenon
<1>3. PICK x \in Nat \ S : \A y \in Nat \ S : ~(<<y, x>> \in OpToRel(<, Nat))
  BY <1>2
<1>4. x - 1 \in Nat \ S
  <2>1. x # 0
    OBVIOUS
  <2>2. x - 1 \in Nat /\ x = (x - 1) + 1
    BY <2>1
  <2> QED
    BY <2>2
<1>5. <<x - 1, x>> \in OpToRel(<, Nat)
  BY <1>4 DEF OpToRel
<1> QED
  BY <1>3, <1>4, <1>5

\* Numbers have a least one,
LEMMA LeastNumber ==
    ASSUME NEW S \in SUBSET Nat, S # {}
    PROVE  \E x \in S : \A y \in S : x <= y
<1>2. \E x \in S : \A y \in S : ~(<<y, x>> \in OpToRel(<, Nat))
  BY WFMin, NatLessThanWellFounded, Zenon
<1>3. PICK x \in S : \A y \in S : ~(<<y, x>> \in OpToRel(<, Nat))
  BY <1>2
<1>4. ASSUME NEW y \in S
      PROVE  x <= y
  <2>1. x \in Nat /\ y \in Nat
    OBVIOUS
  <2>2. SUFFICES ASSUME y < x PROVE FALSE
    BY <2>1
  <2>3. <<y, x>> \in OpToRel(<, Nat)
    BY <2>1, <2>2 DEF OpToRel
  <2> QED
    BY <1>3, <2>3
<1> QED
  BY <1>4

\* and a greatest one if they are bounded.
LEMMA GreatestNumber ==
    ASSUME NEW S \in SUBSET Nat, S # {}, NEW m \in Nat, \A x \in S : x <= m
    PROVE  \E x \in S : \A y \in S : y <= x
<1> DEFINE T == {d \in Nat : m - d \in S}
<1>1. T # {}
  <2>1. PICK x \in S : TRUE
    OBVIOUS
  <2>2. m - x \in Nat /\ m - (m - x) = x
    BY <2>1
  <2>3. m - x \in T
    BY <2>1, <2>2
  <2> QED
    BY <2>3
<1>2. PICK d \in T : \A e \in T : d <= e
  <2>1. T \in SUBSET Nat
    OBVIOUS
  <2> HIDE DEF T
  <2> QED
    BY <1>1, <2>1, LeastNumber
<1>3. m - d \in S /\ d \in Nat
  BY <1>2
<1>4. ASSUME NEW y \in S
      PROVE  y <= m - d
  <2>1. y \in Nat /\ y <= m
    OBVIOUS
  <2>2. m - y \in Nat /\ m - (m - y) = y
    BY <2>1
  <2>3. m - y \in T
    BY <2>2
  <2>4. d <= m - y
    BY <1>2, <2>3
  <2> QED
    BY <1>3, <2>1, <2>2, <2>4
<1> QED
  BY <1>3, <1>4

\* Powers of two.
LEMMA PowerOfZero == 2^0 = 1
<1>1. IsFiniteSet(1 .. 0) /\ Cardinality(1 .. 0) = 0
  BY FS_Interval
<1>2. Cardinality(SUBSET (1 .. 0)) = 2^0
  BY <1>1, FS_SUBSET
<1>3. SUBSET (1 .. 0) = {{}}
  OBVIOUS
<1> QED
  BY <1>2, <1>3, FS_Singleton

LEMMA PowerFacts == \A n \in Nat : 2^n \in Nat /\ 2^n > 0
<1> SUFFICES ASSUME NEW n \in Nat PROVE 2^n \in Nat /\ 2^n > 0
    OBVIOUS
<1>1. IsFiniteSet(1 .. n) /\ Cardinality(1 .. n) = n
    BY FS_Interval
<1>2. IsFiniteSet(SUBSET (1 .. n)) /\ Cardinality(SUBSET (1 .. n)) = 2^n
    BY <1>1, FS_SUBSET
<1>3. Cardinality(SUBSET (1 .. n)) \in Nat
    BY <1>2, FS_CardinalityType
<1>4. Cardinality(SUBSET (1 .. n)) # 0
    BY <1>2, FS_EmptySet
<1> QED
    BY <1>2, <1>3, <1>4

LEMMA PowerNext == \A n \in Nat : 2^(n + 1) = 2 * 2^n
<1> SUFFICES ASSUME NEW n \in Nat PROVE 2^(n + 1) = 2 * 2^n
  OBVIOUS
<1> DEFINE A == SUBSET (1 .. n)
           B == SUBSET (1 .. n + 1)
           C == B \ A
<1>1. /\ IsFiniteSet(A) /\ Cardinality(A) = 2^n
      /\ IsFiniteSet(B) /\ Cardinality(B) = 2^(n + 1)
  <2>1. /\ IsFiniteSet(1 .. n) /\ Cardinality(1 .. n) = n
        /\ IsFiniteSet(1 .. n + 1) /\ Cardinality(1 .. n + 1) = n + 1
    BY FS_Interval
  <2> QED
    BY <2>1, FS_SUBSET
<1>2. ExistsBijection(A, C)
  <2> DEFINE g == [s \in A |-> s \cup {n + 1}]
  <2>0. n + 1 \notin 1 .. n /\ 1 .. n + 1 = (1 .. n) \cup {n + 1}
    OBVIOUS
  <2>1. ASSUME NEW s \in A
        PROVE  s \cup {n + 1} \in C /\ n + 1 \notin s
    BY <2>0
  <2>2. g \in [A -> C]
    BY <2>1
  <2>3. \A s, t \in A : g[s] = g[t] => s = t
    BY <2>1
  <2>4. ASSUME NEW t \in C
        PROVE  \E s \in A : g[s] = t
    <3>1. t \ {n + 1} \in A /\ n + 1 \in t
      BY <2>0
    <3>2. g[t \ {n + 1}] = t
      BY <3>1
    <3> QED
      BY <3>1, <3>2
  <2> HIDE DEF g, A, C
  <2>5. g \in Bijection(A, C)
    BY <2>2, <2>3, <2>4 DEF Bijection, Injection, Surjection, IsInjective
  <2> QED
    BY <2>5 DEF ExistsBijection
<1>3. IsFiniteSet(C) /\ Cardinality(C) = 2^n
  <2> HIDE DEF A, C
  <2> QED
    BY <1>1, <1>2, FS_Bijection
<1>4. Cardinality(B) = Cardinality(A) + Cardinality(C)
  <2>1. A \cup C = B /\ A \cap C = {}
    BY 1 .. n \subseteq 1 .. n + 1
  <2> HIDE DEF A, B, C
  <2>2. Cardinality(A \cup C) = Cardinality(A) + Cardinality(C) - Cardinality(A \cap C)
    BY <1>1, <1>3, FS_Union
  <2>3. Cardinality(A) \in Nat /\ Cardinality(C) \in Nat
    BY <1>1, <1>3, FS_CardinalityType
  <2>4. Cardinality(A \cap C) = 0
    BY <2>1, FS_EmptySet
  <2>5. Cardinality(B) = Cardinality(A) + Cardinality(C) - 0
    BY <2>1, <2>2, <2>4
  <2> QED
    BY <2>3, <2>5
<1>5. 2^n \in Nat
  BY PowerFacts
<1> HIDE DEF A, B, C
<1> QED
  BY <1>1, <1>3, <1>4, <1>5

LEMMA PowerSum == \A a, b \in Nat : 2^(a + b) = 2^a * 2^b
<1> SUFFICES ASSUME NEW a \in Nat PROVE \A b \in Nat : 2^(a + b) = 2^a * 2^b
  OBVIOUS
<1> DEFINE S == {b \in Nat : 2^(a + b) = 2^a * 2^b}
<1>1. 0 \in S
  BY PowerOfZero, PowerFacts
<1>2. ASSUME NEW b \in S
      PROVE  b + 1 \in S
  <2>1. 2^(a + (b + 1)) = 2 * 2^(a + b) /\ 2^(b + 1) = 2 * 2^b
    <3>1. a + (b + 1) = (a + b) + 1 /\ a + b \in Nat
      OBVIOUS
    <3> QED
      BY <3>1, PowerNext
  <2>2. 2^(a + b) = 2^a * 2^b
    OBVIOUS
  <2>3. PICK x \in Nat, y \in Nat : x = 2^a /\ y = 2^b
    BY PowerFacts
  <2>4. 2 * (x * y) = x * (2 * y)
    OBVIOUS
  <2> QED
    BY <2>1, <2>2, <2>3, <2>4
<1>3. S = Nat
  <2>1. S \in SUBSET Nat
    OBVIOUS
  <2> HIDE DEF S
  <2> QED
    BY <1>1, <1>2, <2>1, SetInduction
<1> QED
  BY <1>3

\* A larger exponent gives no smaller power.
LEMMA PowerGrows ==
    ASSUME NEW a \in Nat, NEW b \in Nat, a <= b
    PROVE  2^a <= 2^b
<1>1. b - a \in Nat /\ a + (b - a) = b
  OBVIOUS
<1>2. PICK p \in Nat, q \in Nat : p = 2^a /\ q = 2^(b - a) /\ q > 0
  BY <1>1, PowerFacts
<1>3. 2^b = p * q
  BY <1>1, <1>2, PowerSum
<1>4. p * q >= p
  <2>1. PICK r \in Nat : q = r + 1
    BY <1>2, q - 1 \in Nat
  <2>2. p * (r + 1) = p * r + p /\ p * r \in Nat
    OBVIOUS
  <2> QED
    BY <2>1, <2>2
<1> QED
  BY <1>2, <1>3, <1>4

\* No number reaches its power of two.
LEMMA PowerExceeds == \A n \in Nat : n < 2^n
<1> DEFINE T == {n \in Nat : n < 2^n}
<1>1. 0 \in T
  BY PowerOfZero
<1>2. ASSUME NEW n \in T
      PROVE  n + 1 \in T
  <2>1. PICK p \in Nat, q \in Nat : p = 2^n /\ p > 0 /\ q = 2^(n + 1) /\ q = 2 * p
    BY PowerFacts, PowerNext
  <2> QED
    BY <2>1
<1>3. T = Nat
  <2>1. T \in SUBSET Nat
    OBVIOUS
  <2> HIDE DEF T
  <2> QED
    BY <1>1, <1>2, <2>1, SetInduction
<1> QED
  BY <1>3

\* Products of numbers.
LEMMA Products ==
    \A a, b, c \in Nat : a * b \in Nat /\ a * (b * c) \in Nat /\ (a * b) * c = a * (b * c)
OBVIOUS

\* Division is determined by quotient and remainder.
LEMMA Division ==
    ASSUME NEW w \in Nat, NEW p \in Nat, p > 0
    PROVE  /\ w \div p \in Nat /\ w % p \in Nat /\ w % p < p
           /\ w = (w \div p) * p + (w % p)
OBVIOUS

\* Quotient and rest are the only ones.
LEMMA DivisionUnique ==
    ASSUME NEW p \in Nat, p > 0, NEW q \in Nat, NEW r \in Nat, r < p
    PROVE  (q * p + r) \div p = q /\ (q * p + r) % p = r
<1> DEFINE w == q * p + r
           d == w \div p
           s == w % p
<1>1. w \in Nat
  OBVIOUS
<1>2. d \in Nat /\ s \in Nat /\ s < p /\ w = d * p + s
  BY <1>1, Division
<1>3. q * p + r = d * p + s
  BY <1>2
<1> HIDE DEF d, s, w
<1>4. d = q
  <2>1. CASE d > q
    <3>1. d >= q + 1
      BY <1>2, <2>1
    <3>2. d * p >= (q + 1) * p
      BY <1>2, <3>1
    <3>3. (q + 1) * p = q * p + p
      OBVIOUS
    <3> QED
      BY <1>2, <1>3, <3>2, <3>3
  <2>2. CASE d < q
    <3>1. q >= d + 1
      BY <1>2, <2>2
    <3>2. q * p >= (d + 1) * p
      BY <1>2, <3>1
    <3>3. (d + 1) * p = d * p + p
      BY <1>2
    <3> QED
      BY <1>2, <1>3, <3>2, <3>3
  <2> QED
    BY <1>2, <2>1, <2>2
<1>5. s = r
  BY <1>2, <1>3, <1>4
<1> QED
  BY <1>4, <1>5 DEF d, s, w

\* A quotient by p is twice the one by 2 * p, and one more if it is odd.
LEMMA DivisionByTwice ==
    ASSUME NEW w \in Nat, NEW p \in Nat, p > 0
    PROVE  w \div p = 2 * (w \div (2 * p)) + ((w \div p) % 2)
<1> DEFINE a == w \div (2 * p)
           r == w % (2 * p)
<1>1. a \in Nat /\ r \in Nat /\ r < 2 * p /\ w = a * (2 * p) + r
  <2>1. PICK d \in Nat : d = 2 * p /\ d > 0
    OBVIOUS
  <2> QED
    BY <2>1, Division
<1> SUFFICES w \div p = 2 * a + ((w \div p) % 2)
  OBVIOUS
<1> HIDE DEF a, r
<1>2. CASE r < p
  <2>1. w = (2 * a) * p + r
    BY <1>1
  <2>2. w \div p = 2 * a
    BY <1>1, <1>2, <2>1, DivisionUnique
  <2>3. (w \div p) % 2 = 0
    <3>1. (2 * a) % 2 = 0
      BY <1>1
    <3> QED
      BY <2>2, <3>1
  <2> QED
    BY <1>1, <2>2, <2>3
<1>3. CASE r >= p
  <2>1. w = (2 * a + 1) * p + (r - p) /\ r - p \in Nat /\ r - p < p
    BY <1>1, <1>3
  <2>2. w \div p = 2 * a + 1
    BY <1>1, <2>1, DivisionUnique
  <2>3. (w \div p) % 2 = 1
    <3>1. (2 * a + 1) % 2 = 1
      BY <1>1
    <3> QED
      BY <2>2, <3>1
  <2> QED
    BY <1>1, <2>2, <2>3
<1> QED
  BY <1>1, <1>2, <1>3

\* The remainder of the next number.
LEMMA NextRemainder ==
    ASSUME NEW c \in Nat, NEW m \in Nat
    PROVE  /\ c % (m + 1) \in 0 .. m
           /\ (c + 1) % (m + 1) = IF c % (m + 1) = m THEN 0 ELSE (c % (m + 1)) + 1
<1>1. PICK p \in Nat : p = m + 1 /\ p > 0
  OBVIOUS
<1>2. PICK q \in Nat, r \in Nat : r < p /\ r = c % p /\ c = q * p + r
  BY <1>1, Division
<1>3. CASE r = m
  <2>1. PICK x \in Nat : x = q * p
    BY Products
  <2>2. (q + 1) * p = q * p + p
    OBVIOUS
  <2>3. c + 1 = (q + 1) * p + 0
    BY <1>1, <1>2, <1>3, <2>1, <2>2
  <2>4. ((q + 1) * p + 0) % p = 0
    BY <1>1, DivisionUnique
  <2> QED
    BY <1>1, <1>2, <1>3, <2>3, <2>4
<1>4. CASE r # m
  <2>1. r + 1 \in Nat /\ r + 1 < p
    BY <1>1, <1>2, <1>4
  <2>2. (q * p + (r + 1)) % p = r + 1
    BY <1>1, <2>1, DivisionUnique
  <2>3. c + 1 = q * p + (r + 1)
    <3>1. PICK x \in Nat : x = q * p
      BY Products
    <3> QED
      BY <1>2, <3>1
  <2> QED
    BY <1>1, <1>2, <1>4, <2>2, <2>3
<1> QED
  BY <1>3, <1>4

\* Quotients of any integer by twice a number.
LEMMA HalvedQuotient ==
    ASSUME NEW v \in Int, NEW p \in Nat, p > 0
    PROVE  /\ v \div p \in Int /\ v \div (2 * p) \in Int /\ (v \div p) % 2 \in {0, 1}
           /\ v \div p = 2 * (v \div (2 * p)) + ((v \div p) % 2)
<1>1. PICK a \in Int, r \in Nat : a = v \div p /\ r < p /\ v = a * p + r
  OBVIOUS
<1>2. PICK c \in Int, d \in {0, 1} : a = 2 * c + d /\ d = a % 2
  OBVIOUS
<1>3. PICK s \in Nat : s = d * p + r /\ s < 2 * p
  <2>1. CASE d = 0
    BY <1>1, <2>1
  <2>2. CASE d = 1
    <3>1. p + r \in Nat /\ p + r < 2 * p /\ 1 * p = p
      BY <1>1
    <3> QED
      BY <2>2, <3>1
  <2> QED
    BY <2>1, <2>2
<1>4. PICK q \in Nat : q = 2 * p /\ q > 0
  OBVIOUS
<1>5. v = c * q + s
  <2>1. (2 * c + d) * p = (2 * c) * p + d * p /\ (2 * c) * p = c * (2 * p)
    OBVIOUS
  <2>2. c * q \in Int /\ d * p \in Int /\ c * q = (2 * c) * p
    BY <1>4, <2>1
  <2> QED
    BY <1>1, <1>2, <1>3, <2>1, <2>2
<1>6. v \div q = c
  <2>1. PICK e \in Int, t \in Nat : e = v \div q /\ t < q /\ v = e * q + t
    BY <1>4
  <2>2. \A x, y \in Int : x >= y + 1 => x * q >= y * q + q
    <3> SUFFICES ASSUME NEW x \in Int, NEW y \in Int, x >= y + 1
                 PROVE  x * q >= y * q + q
      OBVIOUS
    <3>1. PICK z \in Nat : x = y + 1 + z
      BY x - (y + 1) \in Nat
    <3>2. (y + 1 + z) * q = y * q + q + z * q /\ z * q \in Nat
      OBVIOUS
    <3>3. y * q \in Int
      OBVIOUS
    <3> QED
      BY <3>1, <3>2, <3>3
  <2>3. e * q \in Int /\ c * q \in Int
    OBVIOUS
  <2>4. ~(e >= c + 1)
    BY <1>3, <1>4, <1>5, <2>1, <2>2, <2>3
  <2>5. ~(c >= e + 1)
    BY <1>3, <1>4, <1>5, <2>1, <2>2, <2>3
  <2> QED
    BY <2>1, <2>4, <2>5
<1> QED
  BY <1>1, <1>2, <1>4, <1>6

\* Two intervals of the same size, at its multiples, that share a number are the
\* same.
LEMMA Between ==
    ASSUME NEW h \in Nat, NEW w \in Nat, NEW x \in Nat, NEW y \in Nat,
           h * y <= x, x < (h + 1) * y, w * y <= x, x < (w + 1) * y
    PROVE  h = w
<1>1. \A a, b \in Nat : a >= b + 1 => a * y >= (b + 1) * y
  OBVIOUS
<1>2. \A a \in Nat : a * y \in Nat /\ (a + 1) * y \in Nat
  OBVIOUS
<1>3. ~(h >= w + 1)
  BY <1>1, <1>2
<1>4. ~(w >= h + 1)
  BY <1>1, <1>2
<1> QED
  BY <1>3, <1>4

-----------------------------------------------------------------------------
(***************************************************************************)
(* Functions defined by recursion                                          *)
(***************************************************************************)

\* A function on the numbers is given by its first value and its steps.
StepsOf(R) == [Nat \X R -> R]

IsSeries(g, R, a, step) ==
    g \in [Nat -> R] /\ g[0] = a /\ \A n \in Nat : g[n + 1] = step[<<n, g[n]>>]

\* There is such a series for any start and steps.
LEMMA RecursionOnNat ==
    ASSUME NEW R, NEW a, a \in R, NEW step, step \in StepsOf(R)
    PROVE  \E g : IsSeries(g, R, a, step)
<1> USE DEF StepsOf
<1> DEFINE Steps(h, m) ==
               /\ h \in [0 .. m -> R]
               /\ h[0] = a
               /\ \A n \in 0 .. m - 1 : h[n + 1] = step[<<n, h[n]>>]
           S == {m \in Nat : \E h : Steps(h, m)}
           h == [m \in Nat |-> CHOOSE q : Steps(q, m)]
           g == [m \in Nat |-> h[m][m]]
<1>1. 0 \in S
  <2>1. Steps([i \in 0 .. 0 |-> a], 0)
    OBVIOUS
  <2> QED
    BY <2>1
<1>2. ASSUME NEW m \in S
      PROVE  m + 1 \in S
  <2>1. PICK q : Steps(q, m)
    OBVIOUS
  <2>2. m \in Nat
    OBVIOUS
  <2> DEFINE r == [i \in 0 .. m + 1 |-> IF i = m + 1 THEN step[<<m, q[m]>>] ELSE q[i]]
  <2>3. q[m] \in R /\ step[<<m, q[m]>>] \in R
    BY <2>1, <2>2
  <2>4. r \in [0 .. m + 1 -> R]
    BY <2>1, <2>2, <2>3
  <2>5. r[0] = a
    BY <2>1, <2>2
  <2>6. ASSUME NEW n \in 0 .. (m + 1) - 1
        PROVE  r[n + 1] = step[<<n, r[n]>>]
    <3>1. r[n] = q[n] /\ n \in 0 .. m
      BY <2>2
    <3>2. CASE n = m
      <4>1. m + 1 \in 0 .. m + 1 /\ r[m + 1] = step[<<m, q[m]>>]
        BY <2>2
      <4> HIDE DEF r
      <4> QED
        BY <3>1, <3>2, <4>1
    <3>3. CASE n # m
      <4>1. n \in 0 .. m - 1 /\ n + 1 \in 0 .. m + 1 /\ n + 1 # m + 1
        BY <2>2, <3>1, <3>3
      <4> QED
        BY <2>1, <3>1, <4>1
    <3> QED
      BY <3>2, <3>3
  <2> HIDE DEF r
  <2>7. Steps(r, m + 1)
    BY <2>4, <2>5, <2>6
  <2> HIDE DEF Steps
  <2> QED
    BY <2>2, <2>7
<1>3. \A m \in Nat : \E q : Steps(q, m)
  <2>1. S \in SUBSET Nat
    OBVIOUS
  <2>2. S = Nat
    <3> HIDE DEF S
    <3> QED
      BY <1>1, <1>2, <2>1, SetInduction
  <2> HIDE DEF Steps
  <2> QED
    BY <2>2
<1>4. \A m \in Nat : Steps(h[m], m)
  <2> HIDE DEF Steps
  <2> QED
    BY <1>3
<1>5. \A m, n \in Nat : n <= m => h[m][n] = h[n][n]
  <2> SUFFICES ASSUME NEW m \in Nat
               PROVE  \A n \in Nat : n <= m => h[m][n] = h[n][n]
    OBVIOUS
  <2> DEFINE T == {n \in Nat : \A k \in Nat : n <= m /\ n <= k => h[m][n] = h[k][n]}
  <2>0. \A k \in Nat : /\ h[k][0] = a
                       /\ \A n \in 0 .. k - 1 : h[k][n + 1] = step[<<n, h[k][n]>>]
    BY <1>4
  <2> HIDE DEF h
  <2>1. 0 \in T
    BY <2>0
  <2>2. ASSUME NEW n \in T
        PROVE  n + 1 \in T
    <3>1. ASSUME NEW k \in Nat, n + 1 <= m, n + 1 <= k
          PROVE  h[m][n + 1] = h[k][n + 1]
      <4>1. n \in 0 .. m - 1 /\ n \in 0 .. k - 1 /\ n \in Nat /\ n <= m /\ n <= k
        BY <3>1
      <4>2. h[m][n] = h[k][n]
        BY <4>1
      <4> QED
        BY <2>0, <4>1, <4>2
    <3> QED
      BY <3>1
  <2>3. T = Nat
    <3>1. T \in SUBSET Nat
      OBVIOUS
    <3> HIDE DEF T
    <3> QED
      BY <2>1, <2>2, <3>1, SetInduction
  <2> QED
    BY <2>3
<1>6. g \in [Nat -> R]
  <2>1. \A m \in Nat : h[m] \in [0 .. m -> R]
    BY <1>4
  <2> HIDE DEF h
  <2> QED
    BY <2>1
<1>7. g[0] = a
  <2>1. h[0][0] = a
    BY <1>4
  <2> HIDE DEF h
  <2> QED
    BY <2>1
<1>8. ASSUME NEW n \in Nat
      PROVE  g[n + 1] = step[<<n, g[n]>>]
  <2>1. n + 1 \in Nat /\ n \in 0 .. (n + 1) - 1
    OBVIOUS
  <2>2. h[n + 1][n + 1] = step[<<n, h[n + 1][n]>>]
    BY <1>4, <2>1
  <2>3. h[n + 1][n] = h[n][n]
    <3> HIDE DEF h
    <3> QED
      BY <1>5, <2>1
  <2> HIDE DEF h
  <2> QED
    BY <2>1, <2>2, <2>3
<1> HIDE DEF g
<1> QED
  BY <1>6, <1>7, <1>8 DEF IsSeries

\* The same on all numbers or the first ones, in the form of a recursive definition.
IsRecursive(g, D, R, a, step) ==
    g \in [D -> R] /\ g = [n \in D |-> IF n = 0 THEN a ELSE step[<<n, g[n - 1]>>]]

IsInitial(D) == D \in SUBSET Nat /\ \A n \in D : n # 0 => n - 1 \in D

\* So there is a function that is defined by recursion on any such part of the
\* numbers, which is what CHOOSE needs to find it.
LEMMA Recursion ==
    ASSUME NEW R, NEW a, a \in R, NEW step, step \in StepsOf(R), NEW D, IsInitial(D)
    PROVE  \E g : IsRecursive(g, D, R, a, step)
<1> DEFINE next == [q \in Nat \X R |-> step[<<q[1] + 1, q[2]>>]]
<1>1. next \in StepsOf(R)
  BY DEF StepsOf
<1>2. \E h : IsSeries(h, R, a, next)
  <2> HIDE DEF next
  <2> QED
    BY <1>1, RecursionOnNat
<1>3. PICK h \in [Nat -> R] : h[0] = a /\ \A n \in Nat : h[n + 1] = next[<<n, h[n]>>]
  BY <1>2 DEF IsSeries
<1>4. \A n \in Nat : h[n + 1] = step[<<n + 1, h[n]>>]
  BY <1>3
<1> HIDE DEF next
<1> DEFINE g == [n \in D |-> h[n]]
<1>5. g \in [D -> R]
  BY <1>3 DEF IsInitial
<1>6. ASSUME NEW n \in D
      PROVE  g[n] = IF n = 0 THEN a ELSE step[<<n, g[n - 1]>>]
  <2>1. CASE n = 0
    BY <1>3, <2>1
  <2>2. CASE n # 0
    <3>1. n - 1 \in D /\ n \in Nat /\ n - 1 \in Nat /\ (n - 1) + 1 = n
      BY <2>2 DEF IsInitial
    <3>2. g[n - 1] = h[n - 1] /\ g[n] = h[n]
      BY <3>1
    <3>3. h[n] = step[<<n, h[n - 1]>>]
      BY <1>4, <3>1
    <3> HIDE DEF g
    <3> QED
      BY <2>2, <3>2, <3>3
  <2> QED
    BY <2>1, <2>2
<1>7. g = [n \in D |-> g[n]]
  OBVIOUS
<1> HIDE DEF g
<1> QED
  BY <1>5, <1>6, <1>7 DEF IsRecursive

\* Induction along such a definition.
LEMMA AlongRecursion ==
    ASSUME NEW R, NEW D, IsInitial(D), NEW h, 0 \in D => h[0] \in R,
           \A n \in D : n # 0 /\ h[n - 1] \in R => h[n] \in R
    PROVE  \A n \in D : h[n] \in R
<1> DEFINE S == {n \in Nat : n \in D => h[n] \in R}
<1>1. 0 \in S
  OBVIOUS
<1>2. ASSUME NEW n \in S
      PROVE  n + 1 \in S
  <2>1. ASSUME n + 1 \in D
        PROVE  h[n + 1] \in R
    <3>1. n + 1 # 0 /\ (n + 1) - 1 = n
      OBVIOUS
    <3>2. n \in D
      BY <2>1, <3>1 DEF IsInitial
    <3> QED
      BY <2>1, <3>1, <3>2
  <2> QED
    BY <2>1
<1>3. S = Nat
  <2>1. S \in SUBSET Nat
    OBVIOUS
  <2> HIDE DEF S
  <2> QED
    BY <1>1, <1>2, <2>1, SetInduction
<1> QED
  BY <1>3 DEF IsInitial

\* All numbers, and those up to one of them, are such a set.
LEMMA NatIsInitial == IsInitial(Nat) /\ \A m \in Nat : IsInitial(0 .. m)
BY DEF IsInitial

\* Rounding up to a multiple.
LEMMA Ceiling ==
    ASSUME NEW t \in Nat, NEW y \in Nat, y > 0
    PROVE  \E e \in Nat : e = (t + y - 1) \div y /\ e * y \in Nat /\ t <= e * y /\ e * y < t + y
<1>1. t + y - 1 \in Nat
  OBVIOUS
<1>2. PICK e \in Nat, r \in Nat : e = (t + y - 1) \div y /\ r < y /\ t + y - 1 = e * y + r
  BY <1>1, Division
<1>3. PICK x \in Nat : x = e * y
  BY Products
<1> QED
  BY <1>2, <1>3

\* A product grows with its factor.
LEMMA ProductGrows ==
    ASSUME NEW a \in Nat, NEW b \in Nat, a <= b, NEW y \in Nat
    PROVE  a * y \in Nat /\ b * y \in Nat /\ a * y <= b * y
<1>1. PICK d \in Nat : b = a + d
  BY b - a \in Nat
<1>2. (a + d) * y = a * y + d * y /\ a * y \in Nat /\ d * y \in Nat
  OBVIOUS
<1> QED
  BY <1>1, <1>2

-----------------------------------------------------------------------------
(***************************************************************************)
(* Sequences                                                               *)
(***************************************************************************)

\* A function on the numbers up to n is a sequence.
LEMMA FunctionAsSeq ==
    ASSUME NEW n \in Nat, NEW S, NEW g \in [1 .. n -> S]
    PROVE  g \in Seq(S) /\ Len(g) = n /\ DOMAIN g = 1 .. n
<1>1. g \in Seq(S)
  BY SeqDef
<1>2. PICK l \in Nat : l = Len(g) /\ DOMAIN g = 1 .. l
  BY <1>1, LenProperties
<1>3. 1 .. l = 1 .. n
  BY <1>2
<1>4. l = n
  <2>1. l > n => l \in 1 .. l /\ l \notin 1 .. n
    OBVIOUS
  <2>2. n > l => n \in 1 .. n /\ n \notin 1 .. l
    OBVIOUS
  <2> QED
    BY <1>3, <2>1, <2>2
<1> QED
  BY <1>1, <1>2, <1>4

\* Flattening is defined by recursion.
IsFlattening(F, n, S, ss) ==
    /\ F \in [1 .. n -> Seq(S)]
    /\ F[1] = ss[1]
    /\ \A i \in 1 .. n : i # 1 => F[i] = F[i - 1] \o ss[i]
    /\ FlattenSeq(ss) = F[n]

\* The function with which FlattenSeq is defined.
LEMMA FlattenDefinition ==
    ASSUME NEW n \in Nat \ {0}, NEW S, NEW ss \in [1 .. n -> Seq(S)]
    PROVE  \E F : IsFlattening(F, n, S, ss)
<1> DEFINE R == Seq(S)
           IsFlat(F) == F = [i \in 1 .. n |-> IF i = 1 THEN ss[i] ELSE F[i - 1] \o ss[i]]
           step == [q \in Nat \X R |-> IF q[1] + 2 \in 1 .. n THEN q[2] \o ss[q[1] + 2] ELSE q[2]]
           f == CHOOSE F : IsFlat(F)
<1>0. 1 \in 1 .. n /\ n \in 1 .. n
  OBVIOUS
<1>1. \A s, t \in R : s \o t \in R
  BY ConcatProperties
<1>2. ss[1] \in R /\ \A i \in 1 .. n : ss[i] \in R
  BY <1>0
<1>3. step \in StepsOf(R)
  <2>1. ASSUME NEW q \in Nat \X R
        PROVE  (IF q[1] + 2 \in 1 .. n THEN q[2] \o ss[q[1] + 2] ELSE q[2]) \in R
    <3>1. q[2] \in R
      OBVIOUS
    <3> HIDE DEF R
    <3> QED
      BY <1>1, <1>2, <3>1
  <2> HIDE DEF R
  <2> QED
    BY <2>1 DEF StepsOf
<1>4. \E g : IsSeries(g, R, ss[1], step)
  <2> HIDE DEF R, step
  <2> QED
    BY <1>2, <1>3, RecursionOnNat
<1>5. PICK g : g \in [Nat -> R] /\ g[0] = ss[1] /\ \A k \in Nat : g[k + 1] = step[<<k, g[k]>>]
  BY <1>4 DEF IsSeries
<1>6. \E F : IsFlat(F)
  <2> DEFINE F == [i \in 1 .. n |-> g[i - 1]]
  <2>1. ASSUME NEW i \in 1 .. n
        PROVE  F[i] = IF i = 1 THEN ss[i] ELSE F[i - 1] \o ss[i]
    <3>1. CASE i = 1
      BY <1>5, <3>1
    <3>2. CASE i # 1
      <4>1. /\ i - 2 \in Nat /\ (i - 2) + 1 = i - 1 /\ (i - 2) + 2 = i
            /\ i - 1 \in 1 .. n /\ (i - 1) - 1 = i - 2
        <5>1. i \in Nat /\ 1 < i /\ i <= n
          BY <3>2
        <5>2. \A m \in Nat : 1 < m /\ m <= n =>
                  /\ m - 2 \in Nat /\ (m - 2) + 1 = m - 1 /\ (m - 2) + 2 = m
                  /\ m - 1 \in 1 .. n /\ (m - 1) - 1 = m - 2
          OBVIOUS
        <5> HIDE DEF R, IsFlat, step, f, F
        <5> QED
          BY <5>1, <5>2, Zenon
      <4>2. g[i - 1] = step[<<i - 2, g[i - 2]>>]
        BY <1>5, <4>1
      <4>3. g[i - 2] \in R
        <5> HIDE DEF R, IsFlat, step, f, F
        <5> QED
          BY <1>5, <4>1
      <4>4. step[<<i - 2, g[i - 2]>>] = g[i - 2] \o ss[i]
        <5>1. <<i - 2, g[i - 2]>> \in Nat \X R
          BY <4>1, <4>3
        <5> HIDE DEF R
        <5> QED
          BY <4>1, <5>1
      <4>5. F[i] = g[i - 1] /\ F[i - 1] = g[i - 2]
        BY <4>1
      <4> QED
        BY <3>2, <4>2, <4>4, <4>5
    <3> QED
      BY <3>1, <3>2
  <2>2. F = [i \in 1 .. n |-> F[i]]
    OBVIOUS
  <2> HIDE DEF F
  <2>3. IsFlat(F)
    BY <2>1, <2>2
  <2> QED
    BY <2>3
<1>7. IsFlat(f)
  BY <1>6
<1>8. FlattenSeq(ss) = f[n]
  <2>1. Len(ss) = n
    BY FunctionAsSeq
  <2> QED
    BY <2>1 DEF FlattenSeq
<1> HIDE DEF f
<1>9. f[1] = ss[1] /\ \A i \in 1 .. n : i # 1 => f[i] = f[i - 1] \o ss[i]
  BY <1>0, <1>7
<1>10. f \in [1 .. n -> R]
  <2> DEFINE T == {k \in Nat : k + 1 \in 1 .. n => f[k + 1] \in R}
  <2>1. 0 \in T
    BY <1>2, <1>9
  <2>2. ASSUME NEW k \in T
        PROVE  k + 1 \in T
    <3>1. ASSUME (k + 1) + 1 \in 1 .. n
          PROVE  f[(k + 1) + 1] \in R
      <4>1. k + 1 \in 1 .. n /\ (k + 1) + 1 # 1 /\ ((k + 1) + 1) - 1 = k + 1
        BY <3>1
      <4>2. f[k + 1] \in R /\ ss[(k + 1) + 1] \in R
        BY <1>2, <3>1, <4>1
      <4>3. f[(k + 1) + 1] = f[k + 1] \o ss[(k + 1) + 1]
        BY <1>9, <3>1, <4>1
      <4> HIDE DEF R
      <4> QED
        BY <1>1, <4>2, <4>3
    <3> QED
      BY <3>1
  <2>3. T = Nat
    <3>1. T \in SUBSET Nat
      OBVIOUS
    <3> HIDE DEF T
    <3> QED
      BY <2>1, <2>2, <3>1, SetInduction
  <2>4. ASSUME NEW i \in 1 .. n
        PROVE  f[i] \in R
    <3>1. i - 1 \in Nat /\ (i - 1) + 1 = i
      OBVIOUS
    <3>2. i - 1 \in T
      BY <2>3, <3>1
    <3> QED
      BY <3>1, <3>2
  <2>5. f = [i \in 1 .. n |-> f[i]]
    BY <1>7
  <2> HIDE DEF R
  <2> QED
    BY <2>4, <2>5
<1> QED
  BY <1>8, <1>9, <1>10 DEF IsFlattening

-----------------------------------------------------------------------------
(***************************************************************************)
(* What is left of a flattened sequence                                    *)
(***************************************************************************)

\* G[i] is what the first i of n sequences make.
IsPrefixes(G, ss, n, S) ==
    /\ G \in [0 .. n -> Seq(S)] /\ G[0] = <<>>
    /\ \A i \in 1 .. n : G[i] = G[i - 1] \o ss[i]

\* r is what the sequences from the i-th on make.
IsRest(r, ss, n, S, i) ==
    r \in Seq(S) /\ \E G : IsPrefixes(G, ss, n, S) /\ G[i - 1] \o r = G[n]

\* Concatenation, as facts that can be used together.
Concatenates(S) ==
    /\ <<>> \in Seq(S)
    /\ \A s \in Seq(S) : s \o <<>> = s /\ <<>> \o s = s
    /\ \A s, t \in Seq(S) : s \o t \in Seq(S)
    /\ \A s, t \in Seq(S) : s \o t = s => t = <<>>
    /\ \A s, t, u \in Seq(S) : (s \o t) \o u = s \o (t \o u)
    /\ \A s, t, u \in Seq(S) : s \o t = s \o u => t = u

\* They hold for the sequences of any set.
LEMMA Concat == \A S : Concatenates(S)
<1> SUFFICES ASSUME NEW S PROVE Concatenates(S)
  OBVIOUS
<1>1. <<>> \in Seq(S)
  OBVIOUS
<1>2. \A s \in Seq(S) : s \o <<>> = s /\ <<>> \o s = s
  BY ConcatEmptySeq
<1>3. \A s, t \in Seq(S) : s \o t \in Seq(S)
  BY ConcatProperties
<1>4. \A s, t \in Seq(S) : s \o t = s => t = <<>>
  BY ConcatSimplifications
<1>5. \A s, t, u \in Seq(S) : (s \o t) \o u = s \o (t \o u)
  BY ConcatAssociative
<1>6. \A s, t, u \in Seq(S) : s \o t = s \o u => t = u
  BY ConcatSimplifications
<1> QED
  BY <1>1, <1>2, <1>3, <1>4, <1>5, <1>6, Zenon DEF Concatenates

\* Concatenation is associative,
LEMMA Regroup ==
    ASSUME NEW S, NEW p, NEW a, NEW q, p \in Seq(S), a \in Seq(S), q \in Seq(S)
    PROVE  (p \o a) \o q = p \o (a \o q) /\ a \o q \in Seq(S)
<1>1. (p \o a) \o q = p \o (a \o q)
  BY ConcatAssociative
<1>2. a \o q \in Seq(S)
  BY ConcatProperties
<1> QED
  BY <1>1, <1>2

\* and a common beginning can be dropped.
LEMMA Cancel ==
    ASSUME NEW S, NEW p, NEW a, NEW b, p \in Seq(S), a \in Seq(S), b \in Seq(S),
           p \o a = p \o b
    PROVE  a = b
<1>1. Concatenates(S)
  BY Concat
<1> QED
  BY <1>1, Zenon DEF Concatenates

\* All of them.
LEMMA RestOfAll ==
    ASSUME NEW n, n \in Nat, NEW S, NEW ss, ss \in [1 .. n -> Seq(S)]
    PROVE  IsRest(FlattenSeq(ss), ss, n, S, 1)
<1>0. Concatenates(S)
  BY Concat
<1>1. <<>> \in Seq(S) /\ \A s \in Seq(S) : <<>> \o s = s
  BY <1>0 DEF Concatenates
<1>2. CASE n = 0
  <2>1. ss = <<>>
    BY <1>2
  <2>2. FlattenSeq(ss) = <<>>
    BY <2>1 DEF FlattenSeq
  <2> DEFINE G == [i \in 0 .. 0 |-> <<>>]
  <2>3. G \in [0 .. n -> Seq(S)] /\ G[0] = <<>> /\ \A i \in 1 .. n : FALSE
    BY <1>1, <1>2
  <2>4. IsPrefixes(G, ss, n, S) /\ G[1 - 1] \o <<>> = G[n]
    BY <1>1, <1>2, <2>3 DEF IsPrefixes
  <2> QED
    BY <1>1, <2>2, <2>4 DEF IsRest
<1>3. CASE n # 0
  <2>1. n \in Nat \ {0}
    BY <1>3
  <2>2. PICK F : IsFlattening(F, n, S, ss)
    BY <2>1, FlattenDefinition
  <2>3. /\ F \in [1 .. n -> Seq(S)] /\ F[1] = ss[1]
        /\ \A i \in 1 .. n : i # 1 => F[i] = F[i - 1] \o ss[i]
        /\ FlattenSeq(ss) = F[n]
    BY <2>2 DEF IsFlattening
  <2> DEFINE G == [i \in 0 .. n |-> IF i = 0 THEN <<>> ELSE F[i]]
  <2>4. /\ G \in [0 .. n -> Seq(S)] /\ G[0] = <<>> /\ G[n] = F[n]
        /\ \A i \in 1 .. n : G[i] = F[i]
    <3>1. \A i \in 0 .. n : i # 0 => i \in 1 .. n
      OBVIOUS
    <3>2. 0 \in 0 .. n /\ n \in 0 .. n /\ \A i \in 1 .. n : i \in 0 .. n /\ i # 0
      OBVIOUS
    <3> QED
      BY <1>1, <1>3, <2>3, <3>1, <3>2
  <2> HIDE DEF G
  <2>5. ASSUME NEW i \in 1 .. n
        PROVE  G[i] = G[i - 1] \o ss[i]
    <3>1. CASE i = 1
      <4>1. ss[1] \in Seq(S) /\ i - 1 = 0
        BY <3>1
      <4> QED
        BY <1>1, <2>3, <2>4, <3>1, <4>1
    <3>2. CASE i # 1
      <4>1. i - 1 \in 1 .. n
        BY <3>2
      <4> QED
        BY <2>3, <2>4, <3>2, <4>1
    <3> QED
      BY <3>1, <3>2
  <2>6. IsPrefixes(G, ss, n, S)
    BY <2>4, <2>5 DEF IsPrefixes
  <2>7. F[n] \in Seq(S)
    BY <2>1, <2>3
  <2>8. G[1 - 1] \o FlattenSeq(ss) = G[n]
    <3>1. <<>> \o F[n] = F[n]
      BY <1>1, <2>7, Zenon
    <3>2. G[1 - 1] = <<>>
      BY <2>4, 1 - 1 = 0
    <3> QED
      BY <2>3, <2>4, <3>1, <3>2, Zenon
  <2> QED
    BY <2>3, <2>6, <2>7, <2>8 DEF IsRest
<1> QED
  BY <1>2, <1>3

\* x begins with p.
IsPrefixOf(p, x, S) == \E q \in Seq(S) : x = p \o q

\* A prefix of the whole.
LEMMA PrefixOfAll ==
    ASSUME NEW n \in Nat, NEW S, NEW ss \in [1 .. n -> Seq(S)],
           NEW G, IsPrefixes(G, ss, n, S), NEW i \in 0 .. n
    PROVE  IsPrefixOf(G[i], G[n], S)
<1>0. Concatenates(S)
  BY Concat
<1> DEFINE Begins(d) == IsPrefixOf(G[n - d], G[n], S)
           T == {d \in Nat : d <= n => Begins(d)}
<1>1. 0 \in T
  <2>1. G[n] \in Seq(S) /\ n - 0 = n
    BY DEF IsPrefixes
  <2> QED
    BY <2>1, <1>0 DEF Concatenates, IsPrefixOf
<1>2. ASSUME NEW d \in T
      PROVE  d + 1 \in T
  <2>1. ASSUME d + 1 <= n
        PROVE  Begins(d + 1)
    <3>1. d \in Nat /\ d <= n /\ Begins(d)
      BY <2>1
    <3>2. PICK m \in 1 .. n : m = n - d /\ m - 1 = n - (d + 1) /\ m - 1 \in 0 .. n
      <4>1. n - d \in 1 .. n /\ (n - d) - 1 = n - (d + 1) /\ (n - d) - 1 \in 0 .. n
        BY <2>1, <3>1
      <4> QED
        BY <4>1, Zenon
    <3>3. PICK q \in Seq(S) : G[n] = G[m] \o q
      BY <3>1, <3>2, Zenon DEF IsPrefixOf
    <3>4. PICK p \in Seq(S), a \in Seq(S) : p = G[m - 1] /\ a = ss[m] /\ G[m] = p \o a
      BY <3>2 DEF IsPrefixes
    <3>5. (p \o a) \o q = p \o (a \o q) /\ a \o q \in Seq(S)
      BY Regroup
    <3>6. G[n] = p \o (a \o q)
      BY <3>3, <3>4, <3>5, Zenon
    <3> QED
      BY <3>2, <3>4, <3>5, <3>6, Zenon DEF IsPrefixOf
  <2>2. d + 1 \in Nat
    OBVIOUS
  <2> QED
    BY <2>1, <2>2
<1>3. T = Nat
  <2>1. T \in SUBSET Nat
    OBVIOUS
  <2> HIDE DEF T
  <2> QED
    BY <1>1, <1>2, <2>1, SetInduction
<1>4. n - i \in T /\ n - i <= n /\ n - (n - i) = i
  <2>1. n - i \in Nat
    OBVIOUS
  <2> HIDE DEF T
  <2> QED
    BY <1>3, <2>1
<1> QED
  BY <1>4

\* The next of them, and what is left then.
LEMMA RestNext ==
    ASSUME NEW n, n \in Nat, NEW S, NEW ss, ss \in [1 .. n -> Seq(S)], NEW i, i \in 1 .. n,
           NEW r, IsRest(r, ss, n, S, i)
    PROVE  \E q : r = ss[i] \o q /\ IsRest(q, ss, n, S, i + 1)
<1>0. Concatenates(S)
  BY Concat
<1>1. PICK G : IsPrefixes(G, ss, n, S) /\ G[i - 1] \o r = G[n]
  BY DEF IsRest
<1>2. PICK q \in Seq(S) : G[n] = G[i] \o q
  <2>1. i \in 0 .. n
    OBVIOUS
  <2>2. IsPrefixOf(G[i], G[n], S)
    BY <1>1, <2>1, PrefixOfAll
  <2> QED
    BY <2>2, Zenon DEF IsPrefixOf
<1>3. /\ G[i] = G[i - 1] \o ss[i] /\ G[i - 1] \in Seq(S) /\ ss[i] \in Seq(S)
      /\ r \in Seq(S)
  <2>1. i - 1 \in 0 .. n
    OBVIOUS
  <2> QED
    BY <1>1, <2>1 DEF IsPrefixes, IsRest
<1>4. PICK p \in Seq(S), a \in Seq(S) : p = G[i - 1] /\ a = ss[i] /\ G[i] = p \o a
  BY <1>3, Zenon
<1>5. r = ss[i] \o q
  <2>0. (p \o a) \o q = p \o (a \o q) /\ a \o q \in Seq(S)
    BY Regroup
  <2>1. G[n] = p \o (a \o q) /\ a \o q \in Seq(S)
    BY <1>2, <1>4, <2>0, Zenon
  <2>2. p \o r = p \o (a \o q)
    BY <1>1, <1>4, <2>1, Zenon
  <2>3. r = a \o q
    BY <1>3, <2>1, <2>2, Cancel, Zenon
  <2> QED
    BY <1>4, <2>3, Zenon
<1>6. (i + 1) - 1 = i
  OBVIOUS
<1>7. IsRest(q, ss, n, S, i + 1)
  BY <1>1, <1>2, <1>6 DEF IsRest
<1> QED
  BY <1>5, <1>7

\* Nothing is left at the end.
LEMMA RestAtEnd ==
    ASSUME NEW n, n \in Nat, NEW S, NEW ss, ss \in [1 .. n -> Seq(S)],
           NEW r, IsRest(r, ss, n, S, n + 1)
    PROVE  r = <<>>
<1>0. Concatenates(S)
  BY Concat
<1>1. PICK G : IsPrefixes(G, ss, n, S) /\ G[(n + 1) - 1] \o r = G[n]
  BY DEF IsRest
<1>2. (n + 1) - 1 = n /\ G[n] \in Seq(S) /\ r \in Seq(S)
  BY <1>1 DEF IsPrefixes, IsRest
<1>3. G[n] \o r = G[n]
  BY <1>1, <1>2
<1> QED
  BY <1>2, <1>3, <1>0 DEF Concatenates

\* Empty ones may be passed over.
LEMMA RestSkip ==
    ASSUME NEW n, n \in Nat, NEW S, NEW ss, ss \in [1 .. n -> Seq(S)],
           NEW i, NEW j, i \in 1 .. n + 1, j \in i .. n + 1,
           \A l \in i .. j - 1 : ss[l] = <<>>,
           NEW r, IsRest(r, ss, n, S, i)
    PROVE  IsRest(r, ss, n, S, j)
<1>0. Concatenates(S)
  BY Concat
<1> DEFINE T == {d \in Nat : i + d <= j => IsRest(r, ss, n, S, i + d)}
<1>1. 0 \in T
  BY i + 0 = i
<1>2. ASSUME NEW d \in T
      PROVE  d + 1 \in T
  <2> SUFFICES ASSUME i + (d + 1) <= j PROVE IsRest(r, ss, n, S, i + (d + 1))
    OBVIOUS
  <2>1. PICK l \in 1 .. n : l = i + d /\ l + 1 = i + (d + 1) /\ l \in i .. j - 1
    <3>1. i + d \in 1 .. n /\ i + d \in i .. j - 1 /\ (i + d) + 1 = i + (d + 1)
      OBVIOUS
    <3> QED
      BY <3>1
  <2>2. IsRest(r, ss, n, S, l) /\ ss[l] = <<>>
    <3>1. i + d <= j
      OBVIOUS
    <3> QED
      BY <2>1, <3>1
  <2>3. PICK q : r = ss[l] \o q /\ IsRest(q, ss, n, S, l + 1)
    BY <2>2, RestNext
  <2>4. q \in Seq(S)
    BY <2>3 DEF IsRest
  <2>5. r = q
    BY <2>2, <2>3, <2>4, <1>0 DEF Concatenates
  <2> QED
    BY <2>1, <2>3, <2>5
<1>3. T = Nat
  <2>1. T \in SUBSET Nat
    OBVIOUS
  <2> HIDE DEF T
  <2> QED
    BY <1>1, <1>2, <2>1, SetInduction
<1>4. j - i \in T /\ i + (j - i) = j
  <2>1. j - i \in Nat /\ i + (j - i) = j
    OBVIOUS
  <2> HIDE DEF T
  <2> QED
    BY <1>3, <2>1
<1> QED
  BY <1>4

=============================================================================
