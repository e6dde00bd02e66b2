---------------------------- MODULE HuffmanProofs ----------------------------
(***************************************************************************)
(* Proofs about Entropy's tables: the codes that CodingTable_new counts up *)
(* are those of the standards, and its table finds each of them, whatever  *)
(* bits follow it.                                                         *)
(***************************************************************************)
EXTENDS Entropy, BasicProofs

-----------------------------------------------------------------------------
(***************************************************************************)
(* The number that bits are                                                *)
(***************************************************************************)

\* A number's bits read as the most and as the least significant ones first.
High(bits) ==
    LET N[n \in 0 .. Len(bits)] == IF n = 0 THEN 0 ELSE 2 * N[n - 1] + bits[n]
    IN  N

Low(bits) ==
    LET N[n \in 0 .. Len(bits)] == IF n = 0 THEN 0 ELSE N[n - 1] + bits[n] * 2^(n - 1)
    IN  N

\* Both are defined by recursion; Number is one of them.
LEMMA HighFacts ==
    ASSUME NEW bits \in Seq(Bit)
    PROVE  /\ High(bits)[0] = 0
           /\ \A n \in 0 .. Len(bits) : High(bits)[n] \in Nat
           /\ \A n \in 1 .. Len(bits) : High(bits)[n] = 2 * High(bits)[n - 1] + bits[n]
<1> DEFINE m == Len(bits)
<1>a. m \in Nat /\ \A n \in 1 .. m : bits[n] \in {0, 1}
  BY DEF Bit
<1> HIDE DEF m
<1> DEFINE G(n, x) == 2 * x + bits[n]
           step == [q \in Nat \X Nat |->
                       IF q[1] \in 0 .. m /\ q[1] # 0 THEN G(q[1], q[2]) ELSE 0]
<1>1. 0 \in Nat /\ \A n \in 0 .. m, x \in Nat : n # 0 => G(n, x) \in Nat
  BY <1>a
<1>2. IsInitial(0 .. m)
  BY <1>a, NatIsInitial
<1>3. step \in StepsOf(Nat) /\ \A n \in 0 .. m, x \in Nat : n # 0 => step[<<n, x>>] = G(n, x)
  <2> HIDE DEF G
  <2> QED
    BY <1>1, <1>2 DEF StepsOf, IsInitial
<1>4. \E g : IsRecursive(g, 0 .. m, Nat, 0, step)
  <2> HIDE DEF step, G
  <2> QED
    BY <1>1, <1>2, <1>3, Recursion
<1>5. \E g : g = [n \in 0 .. m |-> IF n = 0 THEN 0 ELSE G(n, g[n - 1])]
  <2>1. PICK g : IsRecursive(g, 0 .. m, Nat, 0, step)
    BY <1>4
  <2> HIDE DEF step, G
  <2>2. \A n \in 0 .. m : n # 0 => step[<<n, g[n - 1]>>] = G(n, g[n - 1])
    BY <1>2, <1>3, <2>1 DEF IsRecursive, IsInitial
  <2>3. g = [n \in 0 .. m |-> IF n = 0 THEN 0 ELSE G(n, g[n - 1])]
    BY <2>1, <2>2 DEF IsRecursive
  <2> QED
    BY <2>3
<1> HIDE DEF step
<1>6. High(bits) = [n \in 0 .. m |-> IF n = 0 THEN 0 ELSE G(n, High(bits)[n - 1])]
  BY <1>5 DEF High, m
<1> HIDE DEF G
<1>7. 0 \in 0 .. m => High(bits)[0] = 0
  BY <1>6
<1>8. \A n \in 0 .. m : n # 0 => High(bits)[n] = G(n, High(bits)[n - 1])
  BY <1>6
<1>9. \A n \in 0 .. m : High(bits)[n] \in Nat
  <2> DEFINE h == High(bits)
  <2>1. \A n \in 0 .. m : n # 0 /\ h[n - 1] \in Nat => h[n] \in Nat
    BY <1>1, <1>8
  <2>2. 0 \in 0 .. m => h[0] \in Nat
    BY <1>1, <1>7
  <2> HIDE DEF h
  <2>3. \A n \in 0 .. m : h[n] \in Nat
    BY <1>2, <2>1, <2>2, AlongRecursion
  <2> QED
    BY <2>3 DEF h
<1> QED
  BY <1>a, <1>7, <1>8, <1>9 DEF G, m

LEMMA LowFacts ==
    ASSUME NEW bits \in Seq(Bit)
    PROVE  /\ Low(bits)[0] = 0
           /\ \A n \in 0 .. Len(bits) : Low(bits)[n] \in Nat
           /\ \A n \in 1 .. Len(bits) : Low(bits)[n] = Low(bits)[n - 1] + bits[n] * 2^(n - 1)
<1> DEFINE m == Len(bits)
<1>a. m \in Nat /\ \A n \in 1 .. m : bits[n] \in {0, 1}
  BY DEF Bit
<1> HIDE DEF m
<1> DEFINE G(n, x) == x + bits[n] * 2^(n - 1)
           step == [q \in Nat \X Nat |->
                       IF q[1] \in 0 .. m /\ q[1] # 0 THEN G(q[1], q[2]) ELSE 0]
<1>1. 0 \in Nat /\ \A n \in 0 .. m, x \in Nat : n # 0 => G(n, x) \in Nat
  <2>1. ASSUME NEW n \in 0 .. m, NEW x \in Nat, n # 0
        PROVE  G(n, x) \in Nat
    <3>1. n \in 1 .. m /\ n - 1 \in Nat
      BY <1>a, <2>1
    <3>2. 2^(n - 1) \in Nat /\ bits[n] \in {0, 1}
      BY <1>a, <3>1, PowerFacts
    <3> QED
      BY <3>2
  <2> QED
    BY <2>1
<1>2. IsInitial(0 .. m)
  BY <1>a, NatIsInitial
<1>3. step \in StepsOf(Nat) /\ \A n \in 0 .. m, x \in Nat : n # 0 => step[<<n, x>>] = G(n, x)
  <2> HIDE DEF G
  <2> QED
    BY <1>1, <1>2 DEF StepsOf, IsInitial
<1>4. \E g : IsRecursive(g, 0 .. m, Nat, 0, step)
  <2> HIDE DEF step, G
  <2> QED
    BY <1>1, <1>2, <1>3, Recursion
<1>5. \E g : g = [n \in 0 .. m |-> IF n = 0 THEN 0 ELSE G(n, g[n - 1])]
  <2>1. PICK g : IsRecursive(g, 0 .. m, Nat, 0, step)
    BY <1>4
  <2> HIDE DEF step, G
  <2>2. \A n \in 0 .. m : n # 0 => step[<<n, g[n - 1]>>] = G(n, g[n - 1])
    BY <1>2, <1>3, <2>1 DEF IsRecursive, IsInitial
  <2>3. g = [n \in 0 .. m |-> IF n = 0 THEN 0 ELSE G(n, g[n - 1])]
    BY <2>1, <2>2 DEF IsRecursive
  <2> QED
    BY <2>3
<1> HIDE DEF step
<1>6. Low(bits) = [n \in 0 .. m |-> IF n = 0 THEN 0 ELSE G(n, Low(bits)[n - 1])]
  BY <1>5 DEF Low, m
<1> HIDE DEF G
<1>7. 0 \in 0 .. m => Low(bits)[0] = 0
  BY <1>6
<1>8. \A n \in 0 .. m : n # 0 => Low(bits)[n] = G(n, Low(bits)[n - 1])
  BY <1>6
<1>9. \A n \in 0 .. m : Low(bits)[n] \in Nat
  <2> DEFINE h == Low(bits)
  <2>1. \A n \in 0 .. m : n # 0 /\ h[n - 1] \in Nat => h[n] \in Nat
    BY <1>1, <1>8
  <2>2. 0 \in 0 .. m => h[0] \in Nat
    BY <1>1, <1>7
  <2> HIDE DEF h
  <2>3. \A n \in 0 .. m : h[n] \in Nat
    BY <1>2, <2>1, <2>2, AlongRecursion
  <2> QED
    BY <2>3 DEF h
<1> QED
  BY <1>a, <1>7, <1>8, <1>9 DEF G, m

LEMMA NumberFacts ==
    ASSUME NEW bits \in Seq(Bit)
    PROVE  Number(bits) = (IF file.jpeg THEN High(bits) ELSE Low(bits))[Len(bits)]
<1> DEFINE m == Len(bits)
           F == CHOOSE N : N = [n \in 0 .. m |->
                    IF n = 0 THEN 0
                    ELSE IF file.jpeg THEN 2 * N[n - 1] + bits[n]
                    ELSE N[n - 1] + bits[n] * 2^(n - 1)]
<1>a. m \in Nat /\ \A n \in 1 .. m : bits[n] \in {0, 1}
  BY DEF Bit
<1>b. Number(bits) = F[m]
  BY DEF Number
<1> HIDE DEF m
<1> DEFINE G(n, x) == IF file.jpeg THEN 2 * x + bits[n] ELSE x + bits[n] * 2^(n - 1)
           step == [q \in Nat \X Nat |->
                       IF q[1] \in 0 .. m /\ q[1] # 0 THEN G(q[1], q[2]) ELSE 0]
<1>1. 0 \in Nat /\ \A n \in 0 .. m, x \in Nat : n # 0 => G(n, x) \in Nat
  <2>1. ASSUME NEW n \in 0 .. m, NEW x \in Nat, n # 0
        PROVE  G(n, x) \in Nat
    <3>1. n \in 1 .. m /\ n - 1 \in Nat
      BY <1>a, <2>1
    <3>2. 2^(n - 1) \in Nat /\ bits[n] \in {0, 1}
      BY <1>a, <3>1, PowerFacts
    <3> QED
      BY <3>2
  <2> QED
    BY <2>1
<1>2. IsInitial(0 .. m)
  BY <1>a, NatIsInitial
<1>3. step \in StepsOf(Nat) /\ \A n \in 0 .. m, x \in Nat : n # 0 => step[<<n, x>>] = G(n, x)
  <2> HIDE DEF G
  <2> QED
    BY <1>1, <1>2 DEF StepsOf, IsInitial
<1>4. \E g : IsRecursive(g, 0 .. m, Nat, 0, step)
  <2> HIDE DEF step, G
  <2> QED
    BY <1>1, <1>2, <1>3, Recursion
<1>5. \E g : g = [n \in 0 .. m |-> IF n = 0 THEN 0 ELSE G(n, g[n - 1])]
  <2>1. PICK g : IsRecursive(g, 0 .. m, Nat, 0, step)
    BY <1>4
  <2> HIDE DEF step, G
  <2>2. \A n \in 0 .. m : n # 0 => step[<<n, g[n - 1]>>] = G(n, g[n - 1])
    BY <1>2, <1>3, <2>1 DEF IsRecursive, IsInitial
  <2>3. g = [n \in 0 .. m |-> IF n = 0 THEN 0 ELSE G(n, g[n - 1])]
    BY <2>1, <2>2 DEF IsRecursive
  <2> QED
    BY <2>3
<1> HIDE DEF step
<1>6. F = [n \in 0 .. m |-> IF n = 0 THEN 0 ELSE G(n, F[n - 1])]
  BY <1>5 DEF F
<1> HIDE DEF G
<1>7. 0 \in 0 .. m => F[0] = 0
  BY <1>6
<1>8. \A n \in 0 .. m : n # 0 => F[n] = G(n, F[n - 1])
  BY <1>6
<1>9. \A n \in 0 .. m : F[n] \in Nat
  <2> DEFINE h == F
  <2>1. \A n \in 0 .. m : n # 0 /\ h[n - 1] \in Nat => h[n] \in Nat
    BY <1>1, <1>8
  <2>2. 0 \in 0 .. m => h[0] \in Nat
    BY <1>1, <1>7
  <2> HIDE DEF h
  <2>3. \A n \in 0 .. m : h[n] \in Nat
    BY <1>2, <2>1, <2>2, AlongRecursion
  <2> QED
    BY <2>3 DEF h
<1> HIDE DEF F
<1> DEFINE H == IF file.jpeg THEN High(bits) ELSE Low(bits)
           S == {n \in Nat : n <= m => F[n] = H[n]}
<1>10. 0 \in S
  BY <1>a, <1>7, HighFacts, LowFacts
<1>11. ASSUME NEW n \in S
       PROVE  n + 1 \in S
  <2>1. SUFFICES ASSUME n + 1 <= m
                 PROVE  F[n + 1] = H[n + 1]
    OBVIOUS
  <2>2. n + 1 \in 0 .. m /\ n + 1 # 0 /\ n + 1 \in 1 .. m /\ (n + 1) - 1 = n /\ n <= m
    BY <1>a, <2>1
  <2>3. F[n] = H[n]
    BY <2>2
  <2>4. F[n + 1] = G(n + 1, F[n])
    BY <1>8, <2>2
  <2>5. H[n + 1] = G(n + 1, H[n])
    BY <2>2, HighFacts, LowFacts DEF G, m
  <2> HIDE DEF H
  <2> QED
    BY <2>3, <2>4, <2>5
<1>12. S = Nat
  <2>1. S \in SUBSET Nat
    OBVIOUS
  <2> HIDE DEF S
  <2> QED
    BY <1>10, <1>11, <2>1, SetInduction
<1> QED
  BY <1>a, <1>b, <1>12 DEF m

\* The bits behind the first m ones add less than one to their number.
LEMMA HighRange ==
    ASSUME NEW bits \in Seq(Bit), NEW m \in Nat, NEW n \in Nat, m + n <= Len(bits)
    PROVE  /\ High(bits)[m] * 2^n <= High(bits)[m + n]
           /\ High(bits)[m + n] < (High(bits)[m] + 1) * 2^n
<1> DEFINE h == High(bits)[m]
           S == {k \in Nat : m + k <= Len(bits) =>
                    /\ h * 2^k <= High(bits)[m + k]
                    /\ High(bits)[m + k] < (h + 1) * 2^k}
<1>1. h \in Nat /\ Len(bits) \in Nat
  BY HighFacts
<1>2. 0 \in S
  BY <1>1, PowerOfZero
<1>3. ASSUME NEW k \in S
      PROVE  k + 1 \in S
  <2>1. SUFFICES ASSUME m + (k + 1) <= Len(bits)
                 PROVE  /\ h * 2^(k + 1) <= High(bits)[m + (k + 1)]
                        /\ High(bits)[m + (k + 1)] < (h + 1) * 2^(k + 1)
    OBVIOUS
  <2>2. m + (k + 1) = (m + k) + 1 /\ m + k \in Nat /\ k \in Nat /\ m + k <= Len(bits)
    BY <1>1, <2>1
  <2>3. PICK g \in Nat : g = High(bits)[m + k]
    BY <1>1, <2>2, HighFacts
  <2>4. PICK b \in {0, 1} : High(bits)[m + (k + 1)] = 2 * g + b
    <3>1. m + (k + 1) \in 1 .. Len(bits) /\ (m + (k + 1)) - 1 = m + k
      BY <1>1, <2>1, <2>2
    <3>2. bits[m + (k + 1)] \in {0, 1}
      BY <3>1 DEF Bit
    <3> QED
      BY <2>3, <3>1, <3>2, HighFacts
  <2>5. PICK p \in Nat : p = 2^k /\ 2^(k + 1) = 2 * p
    BY <2>2, PowerFacts, PowerNext
  <2>6. h * p <= g /\ g < (h + 1) * p
    BY <2>2, <2>3, <2>5
  <2>7. h * (2 * p) = 2 * (h * p) /\ (h + 1) * (2 * p) = 2 * ((h + 1) * p)
    BY <1>1
  <2>8. PICK x \in Nat, y \in Nat : x = h * p /\ y = (h + 1) * p
    BY <1>1
  <2>9. 2 * x <= 2 * g + b /\ 2 * g + b < 2 * y
    BY <2>6, <2>8
  <2> HIDE DEF h
  <2> QED
    BY <2>4, <2>5, <2>7, <2>8, <2>9
<1>4. S = Nat
  <2>1. S \in SUBSET Nat
    OBVIOUS
  <2> HIDE DEF S
  <2> QED
    BY <1>2, <1>3, <2>1, SetInduction
<1>5. n \in S
  <2> HIDE DEF S
  <2> QED
    BY <1>4
<1> QED
  BY <1>5

\* So a division finds the number of the first bits again.
LEMMA HighOfFirst ==
    ASSUME NEW bits \in Seq(Bit), NEW m \in Nat, NEW n \in Nat, m + n <= Len(bits)
    PROVE  High(bits)[m + n] \div 2^n = High(bits)[m]
<1>1. Len(bits) \in Nat
  OBVIOUS
<1>2. PICK h \in Nat, g \in Nat : h = High(bits)[m] /\ g = High(bits)[m + n]
  <2>1. m \in 0 .. Len(bits) /\ m + n \in 0 .. Len(bits)
    BY <1>1
  <2> QED
    BY <2>1, HighFacts
<1>3. PICK p \in Nat : p = 2^n /\ p > 0
  BY PowerFacts
<1>4. h * p <= g /\ g < (h + 1) * p
  BY <1>2, <1>3, HighRange
<1>5. (h + 1) * p = h * p + p
  OBVIOUS
<1>6. PICK r \in Nat : g = h * p + r /\ r < p
  <2>1. g - h * p \in Nat /\ g = h * p + (g - h * p) /\ g - h * p < p
    BY <1>4, <1>5
  <2> QED
    BY <2>1
<1> QED
  BY <1>2, <1>3, <1>6, DivisionUnique

\* Bits that begin alike have the same number there.
LEMMA HighOfSame ==
    ASSUME NEW bits \in Seq(Bit), NEW others \in Seq(Bit), NEW m \in Nat,
           m <= Len(bits), m <= Len(others), \A k \in 1 .. m : bits[k] = others[k]
    PROVE  High(bits)[m] = High(others)[m]
<1> DEFINE S == {k \in Nat : k <= m => High(bits)[k] = High(others)[k]}
<1>1. 0 \in S
  BY HighFacts
<1>2. ASSUME NEW k \in S
      PROVE  k + 1 \in S
  <2>1. SUFFICES ASSUME k + 1 <= m
                 PROVE  High(bits)[k + 1] = High(others)[k + 1]
    OBVIOUS
  <2>2. k + 1 \in 1 .. Len(bits) /\ k + 1 \in 1 .. Len(others) /\ k + 1 \in 1 .. m
        /\ (k + 1) - 1 = k /\ High(bits)[k] = High(others)[k]
    BY <2>1
  <2> QED
    BY <2>2, HighFacts
<1>3. S = Nat
  <2>1. S \in SUBSET Nat
    OBVIOUS
  <2> HIDE DEF S
  <2> QED
    BY <1>1, <1>2, <2>1, SetInduction
<1> QED
  BY <1>3

\* The bits of a word, as an encoder writes them.
IsWord(bits, w, n) == \A k \in 1 .. n : bits[k] = (w \div 2^(n - k)) % 2

\* The bits of a word have its number.
LEMMA HighOfWord ==
    ASSUME NEW bits \in Seq(Bit), NEW w \in Nat, NEW n \in Nat, n <= Len(bits), w < 2^n,
           IsWord(bits, w, n)
    PROVE  High(bits)[n] = w
<1> DEFINE S == {k \in Nat : k <= n => High(bits)[k] = w \div 2^(n - k)}
<1>1. 0 \in S
  <2>1. PICK p \in Nat : p = 2^n /\ p > 0
    BY PowerFacts
  <2>2. w = 0 * p + w
    OBVIOUS
  <2>3. w \div p = 0
    BY <2>1, <2>2, DivisionUnique
  <2>4. n - 0 = n
    OBVIOUS
  <2> QED
    BY <2>1, <2>3, <2>4, HighFacts
<1>2. ASSUME NEW k \in S
      PROVE  k + 1 \in S
  <2>1. SUFFICES ASSUME k + 1 <= n
                 PROVE  High(bits)[k + 1] = w \div 2^(n - (k + 1))
    OBVIOUS
  <2>2. /\ k + 1 \in 1 .. Len(bits) /\ k + 1 \in 1 .. n /\ (k + 1) - 1 = k
        /\ n - (k + 1) \in Nat /\ n - k = (n - (k + 1)) + 1 /\ k <= n /\ k \in Nat
    BY <2>1
  <2>3. PICK p \in Nat : p = 2^(n - (k + 1)) /\ p > 0 /\ 2^(n - k) = 2 * p
    BY <2>2, PowerFacts, PowerNext
  <2>4. High(bits)[k] = w \div (2 * p)
    BY <2>2, <2>3
  <2>5. bits[k + 1] = (w \div p) % 2
    BY <2>2, <2>3 DEF IsWord
  <2>6. High(bits)[k + 1] = 2 * High(bits)[k] + bits[k + 1]
    BY <2>2, HighFacts
  <2>7. w \div p = 2 * (w \div (2 * p)) + ((w \div p) % 2)
    BY <2>3, DivisionByTwice
  <2> QED
    BY <2>3, <2>4, <2>5, <2>6, <2>7
<1>3. S = Nat
  <2>1. S \in SUBSET Nat
    OBVIOUS
  <2> HIDE DEF S
  <2> QED
    BY <1>1, <1>2, <2>1, SetInduction
<1>4. High(bits)[n] = w \div 2^(n - n)
  <2>1. n \in S
    BY <1>3
  <2> QED
    BY <2>1
<1>5. n - n = 0 /\ w \div 1 = w
  OBVIOUS
<1> QED
  BY <1>4, <1>5, PowerOfZero

\* Bits that are each no larger have no larger number.
LEMMA HighMonotone ==
    ASSUME NEW bits \in Seq(Bit), NEW others \in Seq(Bit), NEW m \in Nat,
           m <= Len(bits), m <= Len(others), \A k \in 1 .. m : bits[k] <= others[k]
    PROVE  High(bits)[m] <= High(others)[m]
<1> DEFINE D == 0 .. m
           S == {n \in Nat : n \in D => High(bits)[n] <= High(others)[n]}
<1>1. /\ Len(bits) \in Nat /\ Len(others) \in Nat
      /\ \A k \in 1 .. Len(bits) : bits[k] \in Bit
      /\ \A k \in 1 .. Len(others) : others[k] \in Bit
  BY LenProperties, ElementOfSeq
<1>2. 0 \in S
  BY HighFacts
<1>3. ASSUME NEW n \in S
      PROVE  n + 1 \in S
  <2>1. n \in Nat
    OBVIOUS
  <2>2. CASE n + 1 \in D
    <3>1. n \in D /\ n + 1 \in 1 .. m /\ (n + 1) - 1 = n
          /\ n + 1 \in 1 .. Len(bits) /\ n + 1 \in 1 .. Len(others)
          /\ n \in 0 .. Len(bits) /\ n \in 0 .. Len(others)
      BY <1>1, <2>1, <2>2
    <3>2. High(bits)[n] <= High(others)[n] /\ High(bits)[n] \in Nat /\ High(others)[n] \in Nat
      BY <3>1, HighFacts
    <3>3. /\ High(bits)[n + 1] = 2 * High(bits)[n] + bits[n + 1]
          /\ High(others)[n + 1] = 2 * High(others)[n] + others[n + 1]
      BY <3>1, HighFacts
    <3>4. bits[n + 1] \in Nat /\ others[n + 1] \in Nat /\ bits[n + 1] <= others[n + 1]
      BY <1>1, <3>1 DEF Bit
    <3>5. PICK g \in Nat, h \in Nat, a \in Nat, b \in Nat :
              /\ g = High(bits)[n] /\ h = High(others)[n] /\ g <= h
              /\ a = bits[n + 1] /\ b = others[n + 1] /\ a <= b
      BY <3>2, <3>4
    <3>6. 2 * g + a <= 2 * h + b
      <4>1. g <= h /\ a <= b
        BY <3>5
      <4> QED
        BY <4>1
    <3>7. High(bits)[n + 1] <= High(others)[n + 1]
      BY <3>3, <3>5, <3>6
    <3> QED
      BY <2>1, <3>7
  <2> QED
    BY <2>1, <2>2
<1>4. S = Nat
  <2>1. S \in SUBSET Nat
    OBVIOUS
  <2> HIDE DEF S
  <2> QED
    BY <1>2, <1>3, <2>1, SetInduction
<1>5. m \in S /\ m \in D
  <2>1. m \in D
    OBVIOUS
  <2> HIDE DEF S
  <2> QED
    BY <1>4, <2>1
<1> QED
  BY <1>5

\* Bits read from the least significant one: a rest finds the first ones again,
LEMMA LowOfFirst ==
    ASSUME NEW bits \in Seq(Bit), NEW m \in Nat, NEW n \in Nat, m + n <= Len(bits)
    PROVE  Low(bits)[m] < 2^m /\ Low(bits)[m + n] % 2^m = Low(bits)[m]
<1>0. Len(bits) \in Nat /\ m \in 0 .. Len(bits)
  OBVIOUS
<1>1. Low(bits)[m] < 2^m
  <2> DEFINE S == {k \in Nat : k <= m => Low(bits)[k] < 2^k}
  <2>1. 0 \in S
    BY LowFacts, PowerOfZero
  <2>2. ASSUME NEW k \in S
        PROVE  k + 1 \in S
    <3>1. SUFFICES ASSUME k + 1 <= m
                   PROVE  Low(bits)[k + 1] < 2^(k + 1)
      OBVIOUS
    <3>2. /\ k + 1 \in 1 .. Len(bits) /\ k \in 0 .. Len(bits) /\ (k + 1) - 1 = k /\ k \in Nat
          /\ k <= m
      BY <1>0, <3>1
    <3>3. PICK p \in Nat : p = 2^k /\ 2^(k + 1) = 2 * p
      BY <3>2, PowerFacts, PowerNext
    <3>4. PICK l \in Nat : l = Low(bits)[k] /\ l < p
      BY <3>2, <3>3, LowFacts
    <3>5. bits[k + 1] \in {0, 1} /\ Low(bits)[k + 1] = l + bits[k + 1] * p
      BY <3>2, <3>3, <3>4, LowFacts DEF Bit
    <3>6. bits[k + 1] * p <= p /\ bits[k + 1] * p \in Nat
      <4>1. CASE bits[k + 1] = 0
        BY <4>1
      <4>2. CASE bits[k + 1] = 1
        BY <4>2
      <4> QED
        BY <3>5, <4>1, <4>2
    <3> QED
      BY <3>3, <3>4, <3>5, <3>6
  <2>3. S = Nat
    <3>1. S \in SUBSET Nat
      OBVIOUS
    <3> HIDE DEF S
    <3> QED
      BY <2>1, <2>2, <3>1, SetInduction
  <2> QED
    BY <2>3
<1>2. \E t \in Nat : Low(bits)[m + n] = t * 2^m + Low(bits)[m]
  <2> DEFINE S == {k \in Nat : m + k <= Len(bits) =>
                       \E t \in Nat : Low(bits)[m + k] = t * 2^m + Low(bits)[m]}
  <2>0. PICK p \in Nat, l \in Nat : p = 2^m /\ l = Low(bits)[m]
    BY <1>0, PowerFacts, LowFacts
  <2>1. 0 \in S
    <3>1. Low(bits)[m + 0] = 0 * 2^m + Low(bits)[m]
      BY <2>0
    <3> QED
      BY <3>1
  <2>2. ASSUME NEW k \in S
        PROVE  k + 1 \in S
    <3>1. SUFFICES ASSUME m + (k + 1) <= Len(bits)
                   PROVE  \E t \in Nat : Low(bits)[m + (k + 1)] = t * 2^m + Low(bits)[m]
      OBVIOUS
    <3>2. /\ m + (k + 1) \in 1 .. Len(bits) /\ (m + (k + 1)) - 1 = m + k
          /\ k \in Nat /\ m + k <= Len(bits)
      BY <1>0, <3>1
    <3>3. PICK t \in Nat : Low(bits)[m + k] = t * p + l
      BY <2>0, <3>2
    <3>4. PICK q \in Nat : q = 2^k /\ 2^(m + k) = p * q
      BY <2>0, <3>2, PowerFacts, PowerSum
    <3>5. PICK b \in {0, 1} : Low(bits)[m + (k + 1)] = (t * p + l) + b * (p * q)
      <4>1. bits[m + (k + 1)] \in {0, 1}
        BY <3>2 DEF Bit
      <4> QED
        BY <3>2, <3>3, <3>4, <4>1, LowFacts
    <3>6. (t * p + l) + b * (p * q) = (t + b * q) * p + l /\ t + b * q \in Nat
      <4>1. CASE b = 0
        BY <4>1
      <4>2. CASE b = 1
        BY <4>2
      <4> QED
        BY <4>1, <4>2
    <3> QED
      BY <2>0, <3>5, <3>6
  <2>3. S = Nat
    <3>1. S \in SUBSET Nat
      OBVIOUS
    <3> HIDE DEF S
    <3> QED
      BY <2>1, <2>2, <3>1, SetInduction
  <2>4. n \in S
    <3> HIDE DEF S
    <3> QED
      BY <2>3
  <2> QED
    BY <2>4
<1>3. PICK p \in Nat, l \in Nat : p = 2^m /\ p > 0 /\ l = Low(bits)[m]
  BY <1>0, PowerFacts, LowFacts
<1>4. PICK t \in Nat : Low(bits)[m + n] = t * p + l
  BY <1>2, <1>3
<1>5. l < p
  BY <1>1, <1>3
<1>6. (t * p + l) % p = l
  BY <1>3, <1>5, DivisionUnique
<1> QED
  BY <1>1, <1>3, <1>4, <1>6

\* and their number tells what they are.
LEMMA LowUnique ==
    ASSUME NEW bits \in Seq(Bit), NEW others \in Seq(Bit), NEW m \in Nat,
           m <= Len(bits), m <= Len(others), Low(bits)[m] = Low(others)[m]
    PROVE  \A k \in 1 .. m : bits[k] = others[k]
<1> DEFINE S == {n \in Nat : n <= m /\ Low(bits)[n] = Low(others)[n] =>
                     \A k \in 1 .. n : bits[k] = others[k]}
<1>1. 0 \in S
  OBVIOUS
<1>2. ASSUME NEW n \in S
      PROVE  n + 1 \in S
  <2>1. SUFFICES ASSUME n + 1 <= m, Low(bits)[n + 1] = Low(others)[n + 1]
                 PROVE  \A k \in 1 .. n + 1 : bits[k] = others[k]
    OBVIOUS
  <2>2. /\ n + 1 \in 1 .. Len(bits) /\ n + 1 \in 1 .. Len(others) /\ (n + 1) - 1 = n
        /\ n \in Nat /\ n + 0 <= Len(bits) /\ n + 0 <= Len(others) /\ n <= m
        /\ n \in 0 .. Len(bits) /\ n \in 0 .. Len(others)
    BY <2>1
  <2>3. PICK p \in Nat : p = 2^n
    BY <2>2, PowerFacts
  <2>4. PICK x \in Nat, y \in Nat : x = Low(bits)[n] /\ y = Low(others)[n]
    BY <2>2, LowFacts
  <2>5. x < p /\ y < p
    BY <2>2, <2>3, <2>4, LowOfFirst
  <2>6. PICK b \in {0, 1}, c \in {0, 1} : b = bits[n + 1] /\ c = others[n + 1]
    BY <2>2 DEF Bit
  <2>7. x + b * p = y + c * p
    BY <2>1, <2>2, <2>3, <2>4, <2>6, LowFacts
  <2>8. b = c /\ x = y
    BY <2>5, <2>7
  <2>9. \A k \in 1 .. n : bits[k] = others[k]
    BY <2>2, <2>4, <2>8
  <2>10. ASSUME NEW k \in 1 .. n + 1
         PROVE  bits[k] = others[k]
    <3>1. k \in 1 .. n \/ k = n + 1
      BY <2>2
    <3> QED
      BY <2>6, <2>8, <2>9, <3>1
  <2> QED
    BY <2>10
<1>3. S = Nat
  <2>1. S \in SUBSET Nat
    OBVIOUS
  <2> HIDE DEF S
  <2> QED
    BY <1>1, <1>2, <2>1, SetInduction
<1> QED
  BY <1>3

\* The bits of a word from the least significant one have its number.
LEMMA LowOfBits ==
    ASSUME NEW bits \in Seq(Bit), NEW w \in Nat, NEW m \in Nat, m <= Len(bits), w < 2^m,
           \A k \in 1 .. m : bits[k] = (w \div 2^(k - 1)) % 2
    PROVE  Low(bits)[m] = w
<1> DEFINE D == 0 .. m
           S == {n \in Nat : n \in D => Low(bits)[n] = w % 2^n}
<1>1. Len(bits) \in Nat
  BY LenProperties
<1>2. 0 \in S
  BY LowFacts, PowerOfZero
<1>3. ASSUME NEW n \in S
      PROVE  n + 1 \in S
  <2>1. n \in Nat
    OBVIOUS
  <2>2. CASE n + 1 \in D
    <3>1. n \in D /\ n + 1 \in 1 .. m /\ (n + 1) - 1 = n /\ n + 1 \in 1 .. Len(bits)
      BY <1>1, <2>1, <2>2
    <3>2. PICK p \in Nat : p = 2^n /\ p > 0 /\ 2 * p = 2^(n + 1)
      BY <2>1, PowerFacts, PowerNext
    <3>3. PICK q \in Nat, r \in Nat : q = w \div p /\ r = w % p /\ r < p /\ w = q * p + r
      BY <3>2, Division
    <3>4. PICK h \in Nat, b \in Nat : b = q % 2 /\ b < 2 /\ q = h * 2 + b
      BY Division, 2 \in Nat, 2 > 0
    <3>5. Low(bits)[n + 1] = r + b * p
      BY <3>1, <3>2, <3>3, <3>4, LowFacts
    <3>6. w = h * (2 * p) + (b * p + r)
      <4>1. (h * 2 + b) * p = h * (2 * p) + b * p
        BY Products
      <4>2. q * p = (h * 2 + b) * p
        BY <3>4
      <4>3. PICK x \in Nat, z \in Nat : x = h * (2 * p) /\ z = b * p
        BY Products
      <4>4. w = (x + z) + r
        BY <3>3, <4>1, <4>2, <4>3
      <4> QED
        BY <4>3, <4>4
    <3>7. b * p + r \in Nat /\ b * p + r < 2 * p /\ r + b * p = b * p + r
      <4>1. CASE b = 0
        BY <3>3, <4>1
      <4>2. CASE b = 1
        BY <3>3, <4>2
      <4> QED
        BY <3>4, <4>1, <4>2
    <3>8. w % (2 * p) = b * p + r
      <4>1. 2 * p \in Nat /\ 2 * p > 0
        BY <3>2
      <4> QED
        BY <3>6, <3>7, <4>1, DivisionUnique
    <3>9. Low(bits)[n + 1] = w % 2^(n + 1)
      BY <3>2, <3>5, <3>7, <3>8
    <3> QED
      BY <2>1, <3>9
  <2> QED
    BY <2>1, <2>2
<1>4. S = Nat
  <2>1. S \in SUBSET Nat
    OBVIOUS
  <2> HIDE DEF S
  <2> QED
    BY <1>2, <1>3, <2>1, SetInduction
<1>5. m \in S /\ m \in D
  <2>1. m \in D
    OBVIOUS
  <2> HIDE DEF S
  <2> QED
    BY <1>4, <2>1
<1>6. w % 2^m = w
  <2>1. PICK p \in Nat : p = 2^m /\ p > 0
    BY PowerFacts
  <2>2. w = 0 * p + w
    BY <2>1
  <2> QED
    BY <2>1, <2>2, DivisionUnique
<1> QED
  BY <1>5, <1>6

\* reverse_bits is defined by recursion;
LEMMA ReverseFacts ==
    ASSUME NEW w \in Nat, NEW n \in Nat
    PROVE  \E F : /\ reverse_bits(w, n) = F[n]
                  /\ F[0] = 0
                  /\ \A k \in 0 .. n : F[k] \in Nat
                  /\ \A k \in 1 .. n : F[k] = 2 * F[k - 1] + ((w \div 2^(k - 1)) % 2)
<1> DEFINE F == CHOOSE R : R = [k \in 0 .. n |->
                    IF k = 0 THEN 0
                    ELSE 2 * R[k - 1] + ((w \div 2^(k - 1)) % 2)]
<1>b. reverse_bits(w, n) = F[n]
  BY DEF reverse_bits
<1> DEFINE G(k, x) == 2 * x + ((w \div 2^(k - 1)) % 2)
           step == [q \in Nat \X Nat |->
                       IF q[1] \in 0 .. n /\ q[1] # 0 THEN G(q[1], q[2]) ELSE 0]
<1>1. 0 \in Nat /\ \A k \in 0 .. n, x \in Nat : k # 0 => G(k, x) \in Nat
  <2>1. ASSUME NEW k \in 0 .. n, NEW x \in Nat, k # 0
        PROVE  G(k, x) \in Nat
    <3>1. k - 1 \in Nat
      BY <2>1
    <3>2. PICK p \in Nat : p = 2^(k - 1) /\ p > 0
      BY <3>1, PowerFacts
    <3>3. (w \div p) % 2 \in Nat
      BY <3>2, Division
    <3> QED
      BY <3>2, <3>3
  <2> QED
    BY <2>1
<1>2. IsInitial(0 .. n)
  BY NatIsInitial
<1>3. step \in StepsOf(Nat) /\ \A k \in 0 .. n, x \in Nat : k # 0 => step[<<k, x>>] = G(k, x)
  <2> HIDE DEF G
  <2> QED
    BY <1>1, <1>2 DEF StepsOf, IsInitial
<1>4. \E g : IsRecursive(g, 0 .. n, Nat, 0, step)
  <2> HIDE DEF step, G
  <2> QED
    BY <1>1, <1>2, <1>3, Recursion
<1>5. \E g : g = [k \in 0 .. n |-> IF k = 0 THEN 0 ELSE G(k, g[k - 1])]
  <2>1. PICK g : IsRecursive(g, 0 .. n, Nat, 0, step)
    BY <1>4
  <2> HIDE DEF step, G
  <2>2. \A k \in 0 .. n : k # 0 => step[<<k, g[k - 1]>>] = G(k, g[k - 1])
    BY <1>2, <1>3, <2>1 DEF IsRecursive, IsInitial
  <2>3. g = [k \in 0 .. n |-> IF k = 0 THEN 0 ELSE G(k, g[k - 1])]
    BY <2>1, <2>2 DEF IsRecursive
  <2> QED
    BY <2>3
<1> HIDE DEF step
<1>6. F = [k \in 0 .. n |-> IF k = 0 THEN 0 ELSE G(k, F[k - 1])]
  BY <1>5 DEF F
<1> HIDE DEF G
<1>7. 0 \in 0 .. n => F[0] = 0
  BY <1>6
<1>8. \A k \in 0 .. n : k # 0 => F[k] = G(k, F[k - 1])
  BY <1>6
<1>9. \A k \in 0 .. n : F[k] \in Nat
  <2> DEFINE h == F
  <2>1. \A k \in 0 .. n : k # 0 /\ h[k - 1] \in Nat => h[k] \in Nat
    BY <1>1, <1>8
  <2>2. 0 \in 0 .. n => h[0] \in Nat
    BY <1>1, <1>7
  <2> HIDE DEF h
  <2>3. \A k \in 0 .. n : h[k] \in Nat
    BY <1>2, <2>1, <2>2, AlongRecursion
  <2> QED
    BY <2>3 DEF h
<1>10. \A k \in 1 .. n : k \in 0 .. n /\ k # 0
  OBVIOUS
<1>11. 0 \in 0 .. n
  OBVIOUS
<1> QED
  BY <1>b, <1>7, <1>8, <1>9, <1>10, <1>11 DEF G

\* it turns the one reading of bits into the other.
LEMMA ReverseOfHigh ==
    ASSUME NEW bits \in Seq(Bit), NEW n \in Nat, n <= Len(bits)
    PROVE  reverse_bits(High(bits)[n], n) = Low(bits)[n]
<1>0. Len(bits) \in Nat
  OBVIOUS
<1>1. PICK w \in Nat : w = High(bits)[n]
  BY <1>0, HighFacts
<1>2. PICK R : /\ reverse_bits(w, n) = R[n]
               /\ R[0] = 0
               /\ \A k \in 0 .. n : R[k] \in Nat
               /\ \A k \in 1 .. n : R[k] = 2 * R[k - 1] + ((w \div 2^(k - 1)) % 2)
  BY ReverseFacts
<1>3. ASSUME NEW k \in 1 .. n
      PROVE  (w \div 2^(k - 1)) % 2 = bits[n - (k - 1)] /\ bits[n - (k - 1)] \in {0, 1}
  <2>1. /\ n - (k - 1) \in Nat /\ k - 1 \in Nat /\ (n - (k - 1)) + (k - 1) = n
        /\ n - (k - 1) \in 1 .. Len(bits) /\ n - (k - 1) <= Len(bits)
    BY <1>0
  <2>2. w \div 2^(k - 1) = High(bits)[n - (k - 1)]
    BY <1>1, <2>1, HighOfFirst
  <2>3. PICK h \in Nat : h = High(bits)[(n - (k - 1)) - 1]
    <3>1. (n - (k - 1)) - 1 \in 0 .. Len(bits)
      BY <2>1
    <3> QED
      BY <3>1, HighFacts
  <2>4. PICK b \in {0, 1} : b = bits[n - (k - 1)]
    BY <2>1 DEF Bit
  <2>5. High(bits)[n - (k - 1)] = 2 * h + b
    BY <2>1, <2>3, <2>4, HighFacts
  <2>6. (2 * h + b) % 2 = b
    OBVIOUS
  <2> QED
    BY <2>2, <2>4, <2>5, <2>6
<1> DEFINE S == {k \in Nat : k <= n => Low(bits)[n] = Low(bits)[n - k] + 2^(n - k) * R[k]}
<1>4. 0 \in S
  <2>1. n - 0 = n /\ n \in 0 .. Len(bits)
    BY <1>0
  <2>2. Low(bits)[n] \in Nat /\ 2^n \in Nat
    BY <2>1, LowFacts, PowerFacts
  <2> QED
    BY <1>2, <2>1, <2>2
<1>5. ASSUME NEW k \in S
      PROVE  k + 1 \in S
  <2>1. SUFFICES ASSUME k + 1 <= n
                 PROVE  Low(bits)[n] = Low(bits)[n - (k + 1)] + 2^(n - (k + 1)) * R[k + 1]
    OBVIOUS
  <2> DEFINE j == n - (k + 1)
  <2>2. /\ j \in Nat /\ n - k = j + 1 /\ j + 1 \in 1 .. Len(bits) /\ (j + 1) - 1 = j
        /\ k + 1 \in 1 .. n /\ (k + 1) - 1 = k /\ j \in 0 .. Len(bits) /\ k \in 0 .. n
        /\ k \in Nat /\ n - ((k + 1) - 1) = j + 1
    BY <1>0, <2>1
  <2> HIDE DEF j
  <2>3. PICK p \in Nat : p = 2^j /\ 2^(j + 1) = 2 * p
    BY <2>2, PowerFacts, PowerNext
  <2>4. PICK b \in {0, 1} : b = bits[j + 1] /\ b = (w \div 2^k) % 2
    BY <1>3, <2>2
  <2>5. PICK r \in Nat : r = R[k] /\ R[k + 1] = 2 * r + b
    BY <1>2, <2>2, <2>4
  <2>6. PICK l \in Nat : l = Low(bits)[j] /\ Low(bits)[j + 1] = l + b * p
    BY <2>2, <2>3, <2>4, LowFacts
  <2>7. Low(bits)[n] = (l + b * p) + (2 * p) * r
    <3>1. k <= n
      BY <2>2
    <3>2. Low(bits)[n] = Low(bits)[n - k] + 2^(n - k) * R[k]
      BY <3>1
    <3> QED
      BY <2>2, <2>3, <2>5, <2>6, <3>2
  <2>8. (l + b * p) + (2 * p) * r = l + p * (2 * r + b)
    <3>1. CASE b = 0
      BY <3>1
    <3>2. CASE b = 1
      BY <3>2
    <3> QED
      BY <3>1, <3>2
  <2> QED
    BY <2>3, <2>5, <2>6, <2>7, <2>8 DEF j
<1>6. S = Nat
  <2>1. S \in SUBSET Nat
    OBVIOUS
  <2> HIDE DEF S
  <2> QED
    BY <1>4, <1>5, <2>1, SetInduction
<1>7. Low(bits)[n] = Low(bits)[n - n] + 2^(n - n) * R[n]
  <2>1. n \in S
    BY <1>6
  <2> QED
    BY <2>1
<1>8. n - n = 0 /\ R[n] \in Nat
  BY <1>2
<1>9. Low(bits)[n] = 0 + 1 * R[n]
  BY <1>7, <1>8, LowFacts, PowerOfZero
<1> QED
  BY <1>1, <1>2, <1>8, <1>9

-----------------------------------------------------------------------------
(***************************************************************************)
(* What a file says of its code                                            *)
(***************************************************************************)

\* The types of what a file is made of.
LEMMA FileFacts ==
    ASSUME NEW f \in Files
    PROVE  /\ f.jpeg \in BOOLEAN
           /\ f.sent \in Seq(Items) /\ f.data \in Seq(Byte)
           /\ f.marker \in Nat /\ f.behind \in Byte
           /\ f.lens \in Seq(0 .. MaxLength)
           /\ f.numbers \in Seq(Nat) /\ f.values \in Seq(Nat)
           /\ Len(f.lens) \in Nat /\ DOMAIN f.lens = 1 .. Len(f.lens)
           /\ MaxLength \in Nat \ {0}
           /\ \A i \in DOMAIN f.lens : i \in Nat /\ f.lens[i] \in 0 .. MaxLength
           /\ HasCode(f) \subseteq DOMAIN f.lens
           /\ \A i \in HasCode(f) : /\ i \in Nat /\ f.lens[i] \in 1 .. MaxLength
                                    /\ f.words[i] \in Nat /\ f.words[i] < 2^f.lens[i]
           /\ IsFiniteSet(HasCode(f))
<1>1. /\ f.jpeg \in BOOLEAN
      /\ f.sent \in Seq(Items) /\ f.data \in Seq(Byte)
      /\ f.marker \in Nat /\ f.behind \in Byte
      /\ f.lens \in Seq(0 .. MaxLength)
      /\ f.numbers \in Seq(Nat) /\ f.values \in Seq(Nat) /\ f.words \in Seq(Nat)
  BY FilesAssumption
<1>2. MaxLength \in Nat \ {0}
  BY SizeAssumption
<1>3. Len(f.lens) \in Nat /\ DOMAIN f.lens = 1 .. Len(f.lens)
  BY <1>1, LenProperties
<1>4. \A i \in DOMAIN f.lens : i \in Nat /\ f.lens[i] \in 0 .. MaxLength
  <2>1. \A i \in 1 .. Len(f.lens) : f.lens[i] \in 0 .. MaxLength
    BY <1>1, ElementOfSeq
  <2> QED
    BY <1>3, <2>1
<1>5. HasCode(f) \subseteq DOMAIN f.lens
  BY DEF HasCode
<1>6. CanonicalCode(f)
  BY StandardAssumption
<1>7. \A i \in HasCode(f) : i \in Nat /\ f.lens[i] \in 1 .. MaxLength
  BY <1>2, <1>4 DEF HasCode
<1>8. \A i \in DOMAIN f.words : f.words[i] \in Nat
  BY <1>1, ElementOfSeq, LenProperties
<1>9. \A i \in HasCode(f) : f.words[i] \in Nat /\ f.words[i] < 2^f.lens[i]
  BY <1>5, <1>6, <1>8 DEF CanonicalCode
<1>10. IsFiniteSet(HasCode(f))
  <2>1. IsFiniteSet(1 .. Len(f.lens))
    BY <1>3, FS_Interval
  <2>2. HasCode(f) \in SUBSET (1 .. Len(f.lens))
    BY <1>3, <1>5
  <2> QED
    BY <2>1, <2>2, FS_Subset
<1> QED
  BY <1>1, <1>2, <1>3, <1>4, <1>5, <1>7, <1>9, <1>10

\* Values are numbers.
LEMMA ValueFacts ==
    ASSUME NEW f \in Files, NEW i \in HasCode(f)
    PROVE  ValueOf(f, i) \in Nat
<1>1. i \in DOMAIN f.lens /\ i \in 1 .. Len(f.lens) /\ Len(f.lens) \in Nat
  BY FileFacts
<1>2. CASE f.jpeg
  <2>1. Len(f.values) = Len(f.lens)
    BY <1>2, StandardAssumption DEF TableOf
  <2>2. f.values \in Seq(Nat)
    BY FileFacts
  <2>3. f.values[i] \in Nat
    BY <1>1, <2>1, <2>2, ElementOfSeq
  <2> QED
    BY <1>2, <2>3 DEF ValueOf
<1>3. CASE ~f.jpeg
  BY <1>1, <1>3 DEF ValueOf
<1> QED
  BY <1>2, <1>3

\* Numbers of codes of a length, or of part of them, are numbers.
LEMMA CountFacts ==
    ASSUME NEW f \in Files, NEW S, S \subseteq DOMAIN f.lens
    PROVE  IsFiniteSet(S) /\ Cardinality(S) \in Nat
<1>1. DOMAIN f.lens = 1 .. Len(f.lens) /\ Len(f.lens) \in Nat
  BY FileFacts
<1>2. IsFiniteSet(1 .. Len(f.lens))
  BY <1>1, FS_Interval
<1>3. IsFiniteSet(S)
  <2>1. S \in SUBSET (1 .. Len(f.lens))
    BY <1>1
  <2> QED
    BY <1>2, <2>1, FS_Subset
<1> QED
  BY <1>3, FS_CardinalityType

\* A set that holds all numbers up to each of its own is an interval.
LEMMA FirstNumbers ==
    ASSUME NEW m \in Nat, NEW S \in SUBSET (1 .. m), \A i \in S : \A j \in 1 .. i : j \in S
    PROVE  S = 1 .. Cardinality(S)
<1>1. CASE S = {}
  BY <1>1, FS_EmptySet
<1>2. CASE S # {}
  <2>1. S \in SUBSET Nat /\ \A i \in S : i <= m
    OBVIOUS
  <2>2. PICK g \in S : \A i \in S : i <= g
    BY <1>2, <2>1, GreatestNumber
  <2>3. S = 1 .. g /\ g \in Nat /\ g > 0
    <3>1. g \in 1 .. m /\ \A j \in 1 .. g : j \in S
      BY <2>2
    <3>2. \A i \in S : i \in 1 .. g
      BY <2>2, <3>1
    <3>3. S \subseteq 1 .. g /\ 1 .. g \subseteq S
      BY <3>1, <3>2
    <3>4. g \in Nat /\ g > 0
      BY <3>1
    <3> QED
      BY <3>3, <3>4
  <2>4. Cardinality(1 .. g) = g
    BY <2>3, FS_Interval
  <2> QED
    BY <2>3, <2>4
<1> QED
  BY <1>1, <1>2

\* How the codes of a DHT segment are counted is defined by recursion.
LEMMA CodesUpToFacts ==
    ASSUME file \in Files, file.jpeg
    PROVE  /\ CodesUpTo[0] = 0
           /\ \A n \in 0 .. MaxLength : CodesUpTo[n] \in Nat
           /\ \A n \in 1 .. MaxLength : CodesUpTo[n] = CodesUpTo[n - 1] + file.numbers[n]
<1> DEFINE m == MaxLength
<1>a. m \in Nat /\ \A n \in 1 .. m : file.numbers[n] \in Nat
  <2>1. DOMAIN file.numbers = 1 .. MaxLength
    BY StandardAssumption DEF TableOf
  <2> QED
    BY <2>1, FileFacts, ElementOfSeq, LenProperties
<1> HIDE DEF m
<1> DEFINE G(n, x) == x + file.numbers[n]
           step == [q \in Nat \X Nat |->
                       IF q[1] \in 0 .. m /\ q[1] # 0 THEN G(q[1], q[2]) ELSE 0]
<1>1. 0 \in Nat /\ \A n \in 0 .. m, x \in Nat : n # 0 => G(n, x) \in Nat
  BY <1>a
<1>2. IsInitial(0 .. m)
  BY <1>a, NatIsInitial
<1>3. step \in StepsOf(Nat) /\ \A n \in 0 .. m, x \in Nat : n # 0 => step[<<n, x>>] = G(n, x)
  <2> HIDE DEF G
  <2> QED
    BY <1>1, <1>2 DEF StepsOf, IsInitial
<1>4. \E g : IsRecursive(g, 0 .. m, Nat, 0, step)
  <2> HIDE DEF step, G
  <2> QED
    BY <1>1, <1>2, <1>3, Recursion
<1>5. \E g : g = [n \in 0 .. m |-> IF n = 0 THEN 0 ELSE G(n, g[n - 1])]
  <2>1. PICK g : IsRecursive(g, 0 .. m, Nat, 0, step)
    BY <1>4
  <2> HIDE DEF step, G
  <2>2. \A n \in 0 .. m : n # 0 => step[<<n, g[n - 1]>>] = G(n, g[n - 1])
    BY <1>2, <1>3, <2>1 DEF IsRecursive, IsInitial
  <2>3. g = [n \in 0 .. m |-> IF n = 0 THEN 0 ELSE G(n, g[n - 1])]
    BY <2>1, <2>2 DEF IsRecursive
  <2> QED
    BY <2>3
<1> HIDE DEF step
<1>6. CodesUpTo = [n \in 0 .. m |-> IF n = 0 THEN 0 ELSE G(n, CodesUpTo[n - 1])]
  BY <1>5 DEF CodesUpTo, m
<1> HIDE DEF G
<1>7. 0 \in 0 .. m => CodesUpTo[0] = 0
  BY <1>6
<1>8. \A n \in 0 .. m : n # 0 => CodesUpTo[n] = G(n, CodesUpTo[n - 1])
  BY <1>6
<1>9. \A n \in 0 .. m : CodesUpTo[n] \in Nat
  <2> DEFINE h == CodesUpTo
  <2>1. \A n \in 0 .. m : n # 0 /\ h[n - 1] \in Nat => h[n] \in Nat
    BY <1>1, <1>8
  <2>2. 0 \in 0 .. m => h[0] \in Nat
    BY <1>1, <1>7
  <2> HIDE DEF h
  <2>3. \A n \in 0 .. m : h[n] \in Nat
    BY <1>2, <2>1, <2>2, AlongRecursion
  <2> QED
    BY <2>3 DEF h
<1> QED
  BY <1>a, <1>7, <1>8, <1>9 DEF G, m

\* A JPEG file's numbers give each value the length of its code.
LEMMA LengthsFound ==
    ASSUME file \in Files, file.jpeg, NEW i \in DOMAIN file.lens
    PROVE  file.lens[i] = CHOOSE n \in 1 .. MaxLength : CodesUpTo[n - 1] < i /\ i <= CodesUpTo[n]
<1> DEFINE D == DOMAIN file.lens
           Short(n) == {j \in D : file.lens[j] <= n}
           Same(n) == {j \in D : file.lens[j] = n}
<1>1. /\ \A j \in D : j \in Nat /\ file.lens[j] \in 1 .. MaxLength
      /\ D = 1 .. Len(file.lens) /\ Len(file.lens) \in Nat /\ MaxLength \in Nat
      /\ \A j, k \in D : j < k => file.lens[j] <= file.lens[k]
      /\ \A n \in 1 .. MaxLength : file.numbers[n] = Cardinality(Same(n))
  <2>1. TableOf(file)
    BY StandardAssumption
  <2> QED
    BY <2>1, FileFacts DEF TableOf
<1> HIDE DEF D
<1>2. \A n \in Nat : IsFiniteSet(Short(n)) /\ IsFiniteSet(Same(n)) /\ Cardinality(Short(n)) \in Nat
  <2>1. \A n \in Nat : Short(n) \subseteq DOMAIN file.lens /\ Same(n) \subseteq DOMAIN file.lens
    BY DEF D
  <2> QED
    BY <2>1, CountFacts
<1> DEFINE S == {n \in Nat : n <= MaxLength => CodesUpTo[n] = Cardinality(Short(n))}
<1>3. 0 \in S
  <2>1. Short(0) = {}
    BY <1>1
  <2> QED
    BY <2>1, FS_EmptySet, CodesUpToFacts
<1>4. ASSUME NEW n \in S
      PROVE  n + 1 \in S
  <2>1. SUFFICES ASSUME n + 1 <= MaxLength
                 PROVE  CodesUpTo[n + 1] = Cardinality(Short(n + 1))
    OBVIOUS
  <2>2. n + 1 \in 1 .. MaxLength /\ n \in Nat /\ n + 1 \in Nat /\ (n + 1) - 1 = n /\ n <= MaxLength
    BY <1>1, <2>1
  <2>3. Short(n + 1) = Short(n) \cup Same(n + 1) /\ Short(n) \cap Same(n + 1) = {}
    BY <1>1, <2>2
  <2>4. /\ CodesUpTo[n] = Cardinality(Short(n))
        /\ CodesUpTo[n + 1] = CodesUpTo[n] + Cardinality(Same(n + 1))
    BY <1>1, <2>2, CodesUpToFacts
  <2>5. IsFiniteSet(Short(n)) /\ IsFiniteSet(Same(n + 1))
    BY <1>2, <2>2
  <2> HIDE DEF Short, Same
  <2>6. Cardinality(Short(n) \cup Same(n + 1)) =
            Cardinality(Short(n)) + Cardinality(Same(n + 1))
                - Cardinality(Short(n) \cap Same(n + 1))
    BY <2>5, FS_Union
  <2>7. Cardinality(Short(n) \cap Same(n + 1)) = 0
    BY <2>3, FS_EmptySet
  <2>8. Cardinality(Short(n)) \in Nat /\ Cardinality(Same(n + 1)) \in Nat
    BY <2>5, FS_CardinalityType
  <2>9. Cardinality(Short(n + 1)) = Cardinality(Short(n)) + Cardinality(Same(n + 1)) - 0
    BY <2>3, <2>6, <2>7
  <2> QED
    BY <2>4, <2>8, <2>9
<1>5. S = Nat
  <2>1. S \in SUBSET Nat
    OBVIOUS
  <2> HIDE DEF S
  <2> QED
    BY <1>3, <1>4, <2>1, SetInduction
<1>6. ASSUME NEW n \in 0 .. MaxLength
      PROVE  i <= CodesUpTo[n] <=> file.lens[i] <= n
  <2>1. n \in Nat /\ n <= MaxLength
    BY <1>1
  <2>2. CodesUpTo[n] = Cardinality(Short(n))
    <3>1. n \in S
      <4> HIDE DEF S
      <4> QED
        BY <1>5, <2>1
    <3> QED
      BY <2>1, <3>1
  <2>3. Short(n) \in SUBSET (1 .. Len(file.lens))
    BY <1>1
  <2>4. \A j \in Short(n) : \A k \in 1 .. j : k \in Short(n)
    <3>1. ASSUME NEW j \in Short(n), NEW k \in 1 .. j
          PROVE  k \in Short(n)
      <4>1. k \in D /\ j \in D /\ file.lens[j] <= n
        BY <1>1
      <4>2. file.lens[k] <= file.lens[j]
        BY <1>1, <4>1
      <4> QED
        BY <1>1, <2>1, <4>1, <4>2
    <3> QED
      BY <3>1
  <2>5. Short(n) = 1 .. Cardinality(Short(n))
    <3> HIDE DEF Short
    <3> QED
      BY <1>1, <2>3, <2>4, FirstNumbers
  <2>6. i \in Short(n) <=> file.lens[i] <= n
    BY DEF D
  <2>7. i \in Nat /\ i > 0
    BY <1>1 DEF D
  <2>8. Cardinality(Short(n)) \in Nat
    <3> HIDE DEF Short
    <3> QED
      BY <1>2, <2>1
  <2> HIDE DEF Short
  <2> QED
    BY <2>2, <2>5, <2>6, <2>7, <2>8
<1>7. \A n \in 1 .. MaxLength : n - 1 \in 0 .. MaxLength /\ n \in 0 .. MaxLength
  BY <1>1
<1>8. file.lens[i] \in 1 .. MaxLength /\ i \in Nat
  BY <1>1 DEF D
<1>9. \A n \in 0 .. MaxLength : CodesUpTo[n] \in Nat
  BY CodesUpToFacts
<1>10. \A n \in 1 .. MaxLength : CodesUpTo[n - 1] < i /\ i <= CodesUpTo[n] <=> n = file.lens[i]
  <2>1. ASSUME NEW n \in 1 .. MaxLength
        PROVE  CodesUpTo[n - 1] < i /\ i <= CodesUpTo[n] <=> n = file.lens[i]
    <3>1. CodesUpTo[n - 1] \in Nat /\ CodesUpTo[n] \in Nat
      BY <1>7, <1>9
    <3>2. i <= CodesUpTo[n - 1] <=> file.lens[i] <= n - 1
      BY <1>6, <1>7
    <3>3. i <= CodesUpTo[n] <=> file.lens[i] <= n
      BY <1>6, <1>7
    <3> QED
      BY <1>1, <1>8, <3>1, <3>2, <3>3
  <2> QED
    BY <2>1
<1> QED
  BY <1>8, <1>10

\* The length of the longest code.
Longest(f) ==
    IF HasCode(f) = {} THEN 0
    ELSE f.lens[CHOOSE i \in HasCode(f) : \A j \in HasCode(f) : f.lens[j] <= f.lens[i]]

LEMMA LongestFacts ==
    ASSUME NEW f \in Files
    PROVE  /\ Longest(f) \in 0 .. MaxLength
           /\ \A i \in HasCode(f) : f.lens[i] <= Longest(f)
<1>0. MaxLength \in Nat /\ \A i \in HasCode(f) : f.lens[i] \in 1 .. MaxLength
  BY FileFacts
<1>1. CASE HasCode(f) = {}
  BY <1>0, <1>1 DEF Longest
<1>2. CASE HasCode(f) # {}
  <2> DEFINE S == {f.lens[i] : i \in HasCode(f)}
  <2>1. S \in SUBSET Nat /\ S # {} /\ \A x \in S : x <= MaxLength
    BY <1>0, <1>2
  <2>2. \E x \in S : \A y \in S : y <= x
    <3> HIDE DEF S
    <3> QED
      BY <1>0, <2>1, GreatestNumber
  <2>3. \E i \in HasCode(f) : \A j \in HasCode(f) : f.lens[j] <= f.lens[i]
    BY <2>2
  <2> DEFINE c == CHOOSE i \in HasCode(f) : \A j \in HasCode(f) : f.lens[j] <= f.lens[i]
  <2>4. c \in HasCode(f) /\ \A j \in HasCode(f) : f.lens[j] <= f.lens[c]
    BY <2>3
  <2>5. Longest(f) = f.lens[c]
    BY <1>2 DEF Longest
  <2> HIDE DEF c
  <2> QED
    BY <1>0, <2>4, <2>5
<1> QED
  BY <1>1, <1>2

\* The table is built for the code the file was written with.
LEMMA TableTerms ==
    ASSUME file \in Files
    PROVE  /\ value_code_lengths = [i \in DOMAIN file.lens |-> file.lens[i]]
           /\ \A i \in DOMAIN file.lens : Length(i) = file.lens[i]
           /\ Coded = HasCode(file)
           /\ max_code_length_bits = Longest(file)
           /\ \A i : Value(i) = ValueOf(file, i)
<1>0. TableOf(file)
  BY StandardAssumption
<1>1. value_code_lengths = [i \in DOMAIN file.lens |-> file.lens[i]]
  <2>1. CASE file.jpeg
    <3>1. DOMAIN file.values = DOMAIN file.lens
      BY <1>0, <2>1, FileFacts, LenProperties DEF TableOf
    <3>2. \A i \in DOMAIN file.lens :
              file.lens[i] = CHOOSE n \in 1 .. MaxLength : CodesUpTo[n - 1] < i /\ i <= CodesUpTo[n]
      BY <2>1, LengthsFound
    <3> QED
      BY <2>1, <3>1, <3>2 DEF value_code_lengths
  <2>2. CASE ~file.jpeg
    <3>1. file.numbers = file.lens
      BY <1>0, <2>2 DEF TableOf
    <3>2. file.lens = [i \in DOMAIN file.lens |-> file.lens[i]]
      BY FileFacts, LenProperties
    <3> QED
      BY <2>2, <3>1, <3>2 DEF value_code_lengths
  <2> QED
    BY <2>1, <2>2
<1>2. \A i \in DOMAIN file.lens : Length(i) = file.lens[i]
  BY <1>1 DEF Length
<1>3. Coded = HasCode(file)
  BY <1>1, <1>2 DEF Coded, HasCode
<1>4. max_code_length_bits = Longest(file)
  <2>1. \A i \in HasCode(file) : Length(i) = file.lens[i]
    BY <1>2, FileFacts
  <2>2. CASE HasCode(file) = {}
    BY <1>3, <2>2 DEF max_code_length_bits, Longest
  <2>3. CASE HasCode(file) # {}
    <3>1. (CHOOSE i \in Coded : \A j \in Coded : Length(j) <= Length(i))
              = (CHOOSE i \in HasCode(file) : \A j \in HasCode(file) : file.lens[j] <= file.lens[i])
      <4>1. \A i \in HasCode(file) : (\A j \in HasCode(file) : Length(j) <= Length(i))
                <=> (\A j \in HasCode(file) : file.lens[j] <= file.lens[i])
        BY <2>1
      <4> QED
        BY <1>3, <4>1
    <3>2. \E i \in HasCode(file) : \A j \in HasCode(file) : file.lens[j] <= file.lens[i]
      <4> DEFINE S == {file.lens[i] : i \in HasCode(file)}
      <4>1. S \in SUBSET Nat /\ S # {} /\ \A x \in S : x <= MaxLength
        BY <2>3, FileFacts
      <4>2. \E x \in S : \A y \in S : y <= x
        <5> HIDE DEF S
        <5> QED
          BY <4>1, FileFacts, GreatestNumber
      <4> QED
        BY <4>2
    <3> DEFINE c == CHOOSE i \in HasCode(file) :
                        \A j \in HasCode(file) : file.lens[j] <= file.lens[i]
    <3>3. c \in HasCode(file)
      BY <3>2
    <3>4. max_code_length_bits = Length(c) /\ Longest(file) = file.lens[c]
      BY <1>3, <2>3, <3>1 DEF max_code_length_bits, Longest
    <3> HIDE DEF c
    <3> QED
      BY <2>1, <3>3, <3>4
  <2> QED
    BY <2>2, <2>3
<1> QED
  BY <1>1, <1>2, <1>3, <1>4 DEF Value, ValueOf

-----------------------------------------------------------------------------
(***************************************************************************)
(* The code of the standards                                               *)
(***************************************************************************)

\* Some code comes first.
LEMMA LeastCode ==
    ASSUME NEW f \in Files, NEW S, S \subseteq HasCode(f), S # {}
    PROVE  \E i \in S : \A j \in S : j = i \/ Precedes(f, i, j)
<1>0. \A i \in S : i \in Nat /\ f.lens[i] \in Nat
  BY FileFacts
<1> DEFINE L == {f.lens[i] : i \in S}
<1>1. L \in SUBSET Nat /\ L # {}
  BY <1>0
<1>2. PICK n \in L : \A x \in L : n <= x
  <2> HIDE DEF L
  <2> QED
    BY <1>1, LeastNumber
<1> DEFINE T == {i \in S : f.lens[i] = n}
<1>3. T \in SUBSET Nat /\ T # {}
  BY <1>0, <1>2
<1>4. PICK i \in T : \A j \in T : i <= j
  <2> HIDE DEF T
  <2> QED
    BY <1>3, LeastNumber
<1>5. i \in S /\ f.lens[i] = n
  BY <1>4
<1>6. ASSUME NEW j \in S
      PROVE  j = i \/ Precedes(f, i, j)
  <2>1. n <= f.lens[j] /\ n \in Nat /\ f.lens[j] \in Nat /\ i \in Nat /\ j \in Nat
    BY <1>0, <1>1, <1>2, <1>5
  <2>2. f.lens[j] = n => i <= j
    BY <1>4
  <2> HIDE DEF T
  <2> QED
    BY <1>5, <2>1, <2>2 DEF Precedes
<1> QED
  BY <1>5, <1>6

\* Precedes is a strict total order of the codes.
LEMMA PrecedesFacts ==
    ASSUME NEW f \in Files
    PROVE  /\ \A i, j \in HasCode(f) : i = j \/ Precedes(f, i, j) \/ Precedes(f, j, i)
           /\ \A i, j \in HasCode(f) : ~(Precedes(f, i, j) /\ Precedes(f, j, i))
           /\ \A i \in HasCode(f) : ~Precedes(f, i, i)
           /\ \A i, j, k \in HasCode(f) :
                  Precedes(f, i, j) /\ Precedes(f, j, k) => Precedes(f, i, k)
<1>1. \A i \in HasCode(f) : i \in Nat /\ f.lens[i] \in Nat
  BY FileFacts
<1> QED
  BY <1>1 DEF Precedes

\* Each code but the first has a code before it.
LEMMA CodeBefore ==
    ASSUME NEW f \in Files, NEW j \in HasCode(f), NEW i \in HasCode(f), Precedes(f, i, j)
    PROVE  \E p \in HasCode(f) :
               /\ Precedes(f, p, j)
               /\ \A k \in HasCode(f) : Precedes(f, k, j) => k = p \/ Precedes(f, k, p)
               /\ f.words[j] = (f.words[p] + 1) * 2^(f.lens[j] - f.lens[p])
<1>1. CanonicalCode(f)
  BY StandardAssumption
<1>2. i \in Preceding(f, j)
  BY DEF Preceding
<1>3. PICK p \in Preceding(f, j) :
          /\ \A k \in Preceding(f, j) \ {p} : Precedes(f, k, p)
          /\ f.words[j] = (f.words[p] + 1) * 2^(f.lens[j] - f.lens[p])
  BY <1>1, <1>2 DEF CanonicalCode
<1> QED
  BY <1>3 DEF Preceding

\* The code that none precedes is zero.
LEMMA FirstCodeIsZero ==
    ASSUME NEW f \in Files, NEW j \in HasCode(f), \A i \in HasCode(f) : ~Precedes(f, i, j)
    PROVE  f.words[j] = 0
<1>1. CanonicalCode(f)
  BY StandardAssumption
<1>2. Preceding(f, j) = {}
  BY DEF Preceding
<1> QED
  BY <1>1, <1>2 DEF CanonicalCode

\* A later code is behind all that begin with an earlier one.
LEMMA LaterCode ==
    ASSUME NEW f \in Files, NEW i \in HasCode(f), NEW j \in HasCode(f), Precedes(f, i, j)
    PROVE  f.words[j] >= (f.words[i] + 1) * 2^(f.lens[j] - f.lens[i])
<1> DEFINE Behind(k) == f.words[k] >= (f.words[i] + 1) * 2^(f.lens[k] - f.lens[i])
           S == {k \in HasCode(f) : Precedes(f, i, k) /\ ~Behind(k)}
<1>0. \A k \in HasCode(f) : f.lens[k] \in Nat /\ f.words[k] \in Nat
  BY FileFacts
<1>1. SUFFICES ASSUME S # {} PROVE FALSE
  OBVIOUS
<1>2. PICK k \in S : \A l \in S : l = k \/ Precedes(f, k, l)
  <2>1. S \subseteq HasCode(f)
    OBVIOUS
  <2> HIDE DEF S
  <2> QED
    BY <1>1, <2>1, LeastCode
<1>3. k \in HasCode(f) /\ Precedes(f, i, k) /\ ~Behind(k)
  BY <1>2
<1>4. PICK p \in HasCode(f) :
          /\ Precedes(f, p, k)
          /\ \A l \in HasCode(f) : Precedes(f, l, k) => l = p \/ Precedes(f, l, p)
          /\ f.words[k] = (f.words[p] + 1) * 2^(f.lens[k] - f.lens[p])
  BY <1>3, CodeBefore
<1>5. PICK a \in Nat, b \in Nat : a = f.words[i] /\ b = f.words[p]
  BY <1>0
<1>6. CASE i = p
  <2>1. f.words[k] = (a + 1) * 2^(f.lens[k] - f.lens[i])
    BY <1>4, <1>5, <1>6
  <2>2. f.lens[k] - f.lens[i] \in Nat
    BY <1>0, <1>3 DEF Precedes
  <2>3. PICK q \in Nat : q = 2^(f.lens[k] - f.lens[i])
    BY <2>2, PowerFacts
  <2>4. Behind(k)
    BY <1>5, <2>1, <2>3
  <2> QED
    BY <1>3, <2>4
<1>7. CASE i # p
  <2>1. Precedes(f, i, p)
    BY <1>3, <1>4, <1>7
  <2>2. p \notin S
    BY <1>2, <1>3, <1>4, PrecedesFacts
  <2>3. Behind(p)
    BY <2>1, <2>2
  <2>4. /\ f.lens[p] - f.lens[i] \in Nat /\ f.lens[k] - f.lens[p] \in Nat
        /\ f.lens[k] - f.lens[i] = (f.lens[p] - f.lens[i]) + (f.lens[k] - f.lens[p])
    BY <1>0, <1>3, <1>4, <2>1 DEF Precedes
  <2>5. PICK x \in Nat, y \in Nat :
            /\ x = 2^(f.lens[p] - f.lens[i]) /\ y = 2^(f.lens[k] - f.lens[p])
            /\ 2^(f.lens[k] - f.lens[i]) = x * y
    BY <2>4, PowerFacts, PowerSum
  <2>6. b >= (a + 1) * x
    BY <1>5, <2>3, <2>5
  <2>7. f.words[k] = (b + 1) * y
    BY <1>4, <1>5, <2>5
  <2>8. PICK c \in Nat : c = (a + 1) * x
    BY <2>5
  <2>9. (b + 1) * y >= c * y
    BY <2>5, <2>6, <2>8
  <2>10. c * y = (a + 1) * (x * y)
    BY <2>5, <2>8
  <2>11. f.words[k] >= (a + 1) * (x * y)
    BY <2>7, <2>9, <2>10
  <2>12. Behind(k)
    BY <1>5, <2>5, <2>11
  <2> QED
    BY <1>3, <2>12
<1> QED
  BY <1>6, <1>7

\* No code of a file is the beginning of another: bits that begin with the words
\* of two codes show that they are the same one.
LEMMA PrefixFree ==
    ASSUME NEW f \in Files, NEW bits \in Seq(Bit),
           NEW i \in HasCode(f), f.lens[i] <= Len(bits), High(bits)[f.lens[i]] = f.words[i],
           NEW j \in HasCode(f), f.lens[j] <= Len(bits), High(bits)[f.lens[j]] = f.words[j]
    PROVE  i = j
<1> SUFFICES ASSUME i # j PROVE FALSE
  OBVIOUS
<1>1. ASSUME NEW a \in HasCode(f), f.lens[a] <= Len(bits), High(bits)[f.lens[a]] = f.words[a],
             NEW b \in HasCode(f), f.lens[b] <= Len(bits), High(bits)[f.lens[b]] = f.words[b],
             Precedes(f, a, b)
      PROVE  FALSE
  <2>1. f.lens[a] \in Nat /\ f.lens[b] \in Nat /\ f.words[a] \in Nat /\ f.words[b] \in Nat
    BY FileFacts
  <2>2. /\ f.lens[b] - f.lens[a] \in Nat
        /\ f.lens[a] + (f.lens[b] - f.lens[a]) = f.lens[b]
    BY <1>1, <2>1 DEF Precedes
  <2>3. f.words[b] < (f.words[a] + 1) * 2^(f.lens[b] - f.lens[a])
    BY <1>1, <2>1, <2>2, HighRange
  <2>4. f.words[b] >= (f.words[a] + 1) * 2^(f.lens[b] - f.lens[a])
    BY <1>1, LaterCode
  <2>5. (f.words[a] + 1) * 2^(f.lens[b] - f.lens[a]) \in Nat
    BY <2>1, <2>2, PowerFacts
  <2> QED
    BY <2>1, <2>3, <2>4, <2>5
<1>2. Precedes(f, i, j) \/ Precedes(f, j, i)
  BY PrecedesFacts
<1> QED
  BY <1>1, <1>2

\* What is before the end of some code begins with a code.
LEMMA Covered ==
    ASSUME NEW f \in Files, NEW bits \in Seq(Bit), Len(bits) = Longest(f),
           NEW i \in HasCode(f), NEW m, m = Longest(f),
           High(bits)[m] < (f.words[i] + 1) * 2^(m - f.lens[i])
    PROVE  \E j \in HasCode(f) : High(bits)[f.lens[j]] = f.words[j]
<1> DEFINE Below(k) == High(bits)[m] < (f.words[k] + 1) * 2^(m - f.lens[k])
           S == {k \in HasCode(f) : Below(k)}
<1>0. /\ m \in Nat /\ m \in 0 .. Len(bits)
      /\ \A k \in HasCode(f) : /\ f.lens[k] \in Nat /\ f.words[k] \in Nat
                               /\ f.lens[k] \in 0 .. Len(bits)
                               /\ m - f.lens[k] \in Nat /\ f.lens[k] + (m - f.lens[k]) = m
  <2>1. MaxLength \in Nat /\ m \in 0 .. MaxLength
    BY FileFacts, LongestFacts
  <2>2. \A k \in HasCode(f) : f.lens[k] \in 1 .. MaxLength /\ f.words[k] \in Nat /\ f.lens[k] <= m
    BY FileFacts, LongestFacts
  <2> QED
    BY <2>1, <2>2
<1>1. PICK k \in S : \A l \in S : l = k \/ Precedes(f, k, l)
  <2>1. S \subseteq HasCode(f) /\ S # {}
    OBVIOUS
  <2> HIDE DEF S
  <2> QED
    BY <2>1, LeastCode
<1>2. k \in HasCode(f) /\ Below(k)
  BY <1>1
<1>3. PICK x \in Nat : x = High(bits)[m]
  BY <1>0, HighFacts
<1>4. PICK y \in Nat, w \in Nat : y = 2^(m - f.lens[k]) /\ y > 0 /\ w = f.words[k]
  BY <1>0, <1>2, PowerFacts
<1>5. w * y <= x
  <2>1. CASE \A l \in HasCode(f) : ~Precedes(f, l, k)
    <3>1. w = 0
      BY <1>2, <1>4, <2>1, FirstCodeIsZero
    <3> QED
      BY <1>3, <1>4, <3>1
  <2>2. CASE \E l \in HasCode(f) : Precedes(f, l, k)
    <3>1. PICK p \in HasCode(f) :
              /\ Precedes(f, p, k)
              /\ f.words[k] = (f.words[p] + 1) * 2^(f.lens[k] - f.lens[p])
      BY <1>2, <2>2, CodeBefore
    <3>2. p \notin S
      BY <1>1, <1>2, <3>1, PrecedesFacts
    <3>3. ~Below(p)
      BY <3>2
    <3>4. /\ f.lens[k] - f.lens[p] \in Nat /\ m - f.lens[k] \in Nat
          /\ m - f.lens[p] = (f.lens[k] - f.lens[p]) + (m - f.lens[k])
      <4>1. f.lens[k] \in Nat /\ f.lens[p] \in Nat /\ m \in Nat /\ m - f.lens[k] \in Nat
        BY <1>0, <1>2
      <4>2. f.lens[p] <= f.lens[k]
        BY <3>1, <4>1 DEF Precedes
      <4>3. PICK a \in Nat, b \in Nat, d \in Nat :
                a = f.lens[k] /\ b = f.lens[p] /\ d = m - a /\ b <= a
        BY <4>1, <4>2
      <4>4. m \in Nat /\ d = m - a /\ b <= a
        BY <4>1, <4>3
      <4>5. a - b \in Nat /\ m - b = (a - b) + d
        BY <4>4
      <4> QED
        BY <4>3, <4>5
    <3>5. PICK z \in Nat : z = 2^(f.lens[k] - f.lens[p]) /\ 2^(m - f.lens[p]) = z * y
      <4>1. 2^(m - f.lens[p]) = 2^(f.lens[k] - f.lens[p]) * 2^(m - f.lens[k])
        BY <3>4, PowerSum
      <4>2. 2^(f.lens[k] - f.lens[p]) \in Nat
        BY <3>4, PowerFacts
      <4> QED
        BY <1>4, <4>1, <4>2
    <3>6. PICK v \in Nat : v = f.words[p]
      BY <1>0
    <3>7. x >= (v + 1) * (z * y)
      <4>1. ~(x < (v + 1) * (z * y))
        BY <1>3, <3>3, <3>5, <3>6
      <4>2. (v + 1) * (z * y) \in Nat
        <5>1. v + 1 \in Nat /\ z \in Nat /\ y \in Nat
          OBVIOUS
        <5> QED
          BY <5>1, Products
      <4> QED
        BY <1>3, <4>1, <4>2
    <3>8. w = (v + 1) * z
      BY <1>4, <3>1, <3>5, <3>6
    <3>9. w * y = (v + 1) * (z * y)
      <4>1. ((v + 1) * z) * y = (v + 1) * (z * y)
        <5>1. v + 1 \in Nat /\ z \in Nat /\ y \in Nat
          OBVIOUS
        <5> QED
          BY <5>1, Products
      <4> QED
        BY <3>8, <4>1
    <3> QED
      BY <3>7, <3>9
  <2> QED
    BY <2>1, <2>2
<1>6. PICK h \in Nat : h = High(bits)[f.lens[k]]
  BY <1>0, <1>2, HighFacts
<1>7. h * y <= x /\ x < (h + 1) * y
  <2>1. /\ f.lens[k] \in Nat /\ m - f.lens[k] \in Nat
        /\ f.lens[k] + (m - f.lens[k]) = m /\ f.lens[k] + (m - f.lens[k]) <= Len(bits)
    BY <1>0, <1>2
  <2>2. /\ High(bits)[f.lens[k]] * 2^(m - f.lens[k]) <= High(bits)[m]
        /\ High(bits)[m] < (High(bits)[f.lens[k]] + 1) * 2^(m - f.lens[k])
    BY <2>1, HighRange
  <2> QED
    BY <1>3, <1>4, <1>6, <2>2
<1>8. x < (w + 1) * y
  BY <1>2, <1>3, <1>4
<1>9. h = w
  BY <1>3, <1>4, <1>5, <1>6, <1>7, <1>8, Between
<1> QED
  BY <1>2, <1>4, <1>6, <1>9

-----------------------------------------------------------------------------
(***************************************************************************)
(* The codes that are counted up                                           *)
(***************************************************************************)

\* NextCode is defined by recursion.
LEMMA NextCodeFacts ==
    ASSUME file \in Files
    PROVE  /\ NextCode[0] = 0
           /\ \A n \in 0 .. MaxLength : NextCode[n] \in Nat /\ bl_count(n) \in Nat
           /\ \A n \in 1 .. MaxLength : NextCode[n] = (NextCode[n - 1] + bl_count(n - 1)) * 2
<1> DEFINE m == MaxLength
<1>a. m \in Nat
  BY FileFacts
<1>b. \A n : bl_count(n) \in Nat
  <2>1. ASSUME NEW n
        PROVE  bl_count(n) \in Nat
    <3>1. {i \in Coded : Length(i) = n} \subseteq DOMAIN file.lens
      BY TableTerms, FileFacts
    <3> QED
      BY <3>1, CountFacts DEF bl_count
  <2> QED
    BY <2>1
<1> HIDE DEF m
<1> DEFINE G(n, x) == (x + bl_count(n - 1)) * 2
           step == [q \in Nat \X Nat |->
                       IF q[1] \in 0 .. m /\ q[1] # 0 THEN G(q[1], q[2]) ELSE 0]
<1>1. 0 \in Nat /\ \A n \in 0 .. m, x \in Nat : n # 0 => G(n, x) \in Nat
  <2>1. \A n, x \in Nat : n # 0 => G(n, x) \in Nat
    BY <1>b
  <2> QED
    BY <2>1
<1>2. IsInitial(0 .. m)
  BY <1>a, NatIsInitial
<1>3. step \in StepsOf(Nat) /\ \A n \in 0 .. m, x \in Nat : n # 0 => step[<<n, x>>] = G(n, x)
  <2> HIDE DEF G
  <2> QED
    BY <1>1, <1>2 DEF StepsOf, IsInitial
<1>4. \E g : IsRecursive(g, 0 .. m, Nat, 0, step)
  <2> HIDE DEF step, G
  <2> QED
    BY <1>1, <1>2, <1>3, Recursion
<1>5. \E g : g = [n \in 0 .. m |-> IF n = 0 THEN 0 ELSE G(n, g[n - 1])]
  <2>1. PICK g : IsRecursive(g, 0 .. m, Nat, 0, step)
    BY <1>4
  <2> HIDE DEF step, G
  <2>2. \A n \in 0 .. m : n # 0 => step[<<n, g[n - 1]>>] = G(n, g[n - 1])
    BY <1>2, <1>3, <2>1 DEF IsRecursive, IsInitial
  <2>3. g = [n \in 0 .. m |-> IF n = 0 THEN 0 ELSE G(n, g[n - 1])]
    BY <2>1, <2>2 DEF IsRecursive
  <2> QED
    BY <2>3
<1> HIDE DEF step
<1>6. NextCode = [n \in 0 .. m |-> IF n = 0 THEN 0 ELSE G(n, NextCode[n - 1])]
  BY <1>5 DEF NextCode, m
<1> HIDE DEF G
<1>7. 0 \in 0 .. m => NextCode[0] = 0
  BY <1>6
<1>8. \A n \in 0 .. m : n # 0 => NextCode[n] = G(n, NextCode[n - 1])
  BY <1>6
<1>9. \A n \in 0 .. m : NextCode[n] \in Nat
  <2> DEFINE h == NextCode
  <2>1. \A n \in 0 .. m : n # 0 /\ h[n - 1] \in Nat => h[n] \in Nat
    BY <1>1, <1>8
  <2>2. 0 \in 0 .. m => h[0] \in Nat
    BY <1>1, <1>7
  <2> HIDE DEF h
  <2>3. \A n \in 0 .. m : h[n] \in Nat
    BY <1>2, <2>1, <2>2, AlongRecursion
  <2> QED
    BY <2>3 DEF h
<1> QED
  BY <1>a, <1>b, <1>7, <1>8, <1>9 DEF G, m

\* Lengths without a code shift the next code, and no more.
LEMMA NextCodeSkips ==
    ASSUME file \in Files, NEW l \in Nat, NEW n \in Nat, (l + 1) + n <= MaxLength,
           \A k \in l + 1 .. l + n : bl_count(k) = 0
    PROVE  NextCode[(l + 1) + n] = (NextCode[l] + bl_count(l)) * 2^(n + 1)
<1> DEFINE S == {k \in Nat : k <= n =>
                     NextCode[(l + 1) + k] = (NextCode[l] + bl_count(l)) * 2^(k + 1)}
<1>0. MaxLength \in Nat /\ l \in 0 .. MaxLength
  BY FileFacts
<1>1. PICK x \in Nat : x = NextCode[l] + bl_count(l)
  BY <1>0, NextCodeFacts
<1>2. 0 \in S
  <2>1. (l + 1) + 0 = l + 1 /\ l + 1 \in 1 .. MaxLength /\ (l + 1) - 1 = l
    BY <1>0
  <2>2. 2^(0 + 1) = 2
    BY PowerNext, PowerOfZero
  <2> QED
    BY <1>1, <2>1, <2>2, NextCodeFacts
<1>3. ASSUME NEW k \in S
      PROVE  k + 1 \in S
  <2>1. SUFFICES ASSUME k + 1 <= n
                 PROVE  NextCode[(l + 1) + (k + 1)] = (NextCode[l] + bl_count(l)) * 2^((k + 1) + 1)
    OBVIOUS
  <2>2. /\ (l + 1) + (k + 1) \in 1 .. MaxLength /\ ((l + 1) + (k + 1)) - 1 = (l + 1) + k
        /\ (l + 1) + k \in l + 1 .. l + n /\ k \in Nat /\ k <= n /\ k + 1 \in Nat
        /\ (l + 1) + k \in 0 .. MaxLength
    BY <1>0, <2>1
  <2>3. NextCode[(l + 1) + (k + 1)] = (NextCode[(l + 1) + k] + bl_count((l + 1) + k)) * 2
    BY <2>2, NextCodeFacts
  <2>4. bl_count((l + 1) + k) = 0
    BY <2>2
  <2>5. PICK p \in Nat : p = 2^(k + 1) /\ 2^((k + 1) + 1) = 2 * p
    BY <2>2, PowerFacts, PowerNext
  <2>6. NextCode[(l + 1) + k] = x * p
    BY <1>1, <2>2, <2>5
  <2>7. (x * p + 0) * 2 = x * (2 * p)
    BY <2>5
  <2> QED
    BY <1>1, <2>3, <2>4, <2>5, <2>6, <2>7
<1>4. S = Nat
  <2>1. S \in SUBSET Nat
    OBVIOUS
  <2> HIDE DEF S
  <2> QED
    BY <1>2, <1>3, <2>1, SetInduction
<1>5. n \in S
  <2> HIDE DEF S
  <2> QED
    BY <1>4
<1>6. (l + 1) + n = (l + 1) + n /\ n <= n
  OBVIOUS
<1> QED
  BY <1>5, <1>6

\* The codes of one length, and those of them before a code.
Same(f, n) == {i \in HasCode(f) : f.lens[i] = n}

Lower(f, i) == {j \in HasCode(f) : j < i /\ f.lens[j] = f.lens[i]}

\* They are finitely many.
LEMMA RankFacts ==
    ASSUME NEW f \in Files
    PROVE  /\ \A n : IsFiniteSet(Same(f, n)) /\ Cardinality(Same(f, n)) \in Nat
           /\ \A i : IsFiniteSet(Lower(f, i)) /\ Cardinality(Lower(f, i)) \in Nat
<1>1. \A n : Same(f, n) \subseteq DOMAIN f.lens
  BY FileFacts DEF Same
<1>2. \A i : Lower(f, i) \subseteq DOMAIN f.lens
  BY FileFacts DEF Lower
<1> QED
  BY <1>1, <1>2, CountFacts

\* A code counts one more than those before it.
LEMMA RankNext ==
    ASSUME NEW f \in Files, NEW S, NEW p \in HasCode(f), S = Lower(f, p) \cup {p}
    PROVE  Cardinality(S) = Cardinality(Lower(f, p)) + 1
<1>1. p \notin Lower(f, p)
  BY FileFacts DEF Lower
<1>2. IsFiniteSet(Lower(f, p))
  BY RankFacts
<1> QED
  BY <1>1, <1>2, FS_AddElement

\* The codes are numbered the way the standards say.
LEMMA NumberOfCode ==
    ASSUME file \in Files, NEW i \in HasCode(file)
    PROVE  file.words[i] = NextCode[file.lens[i]] + Cardinality(Lower(file, i))
<1> DEFINE Numbered(k) == file.words[k] = NextCode[file.lens[k]] + Cardinality(Lower(file, k))
           S == {k \in HasCode(file) : ~Numbered(k)}
<1>1. SUFFICES ASSUME S # {} PROVE FALSE
  OBVIOUS
<1>2. PICK k \in S : \A l \in S : l = k \/ Precedes(file, k, l)
  <2>1. S \subseteq HasCode(file)
    OBVIOUS
  <2> HIDE DEF S
  <2> QED
    BY <1>1, <2>1, LeastCode
<1>3. k \in HasCode(file) /\ ~Numbered(k)
  BY <1>2
<1>4. \A n : bl_count(n) = Cardinality(Same(file, n))
  <2>1. \A n : {j \in Coded : Length(j) = n} = Same(file, n)
    BY TableTerms, FileFacts DEF Same
  <2> QED
    BY <2>1 DEF bl_count
<1>5. /\ MaxLength \in Nat
      /\ \A j \in HasCode(file) : /\ j \in Nat /\ file.lens[j] \in 1 .. MaxLength
                                  /\ file.words[j] \in Nat
  BY FileFacts
<1>6. \A n \in Nat : Same(file, n) = {} => bl_count(n) = 0
  BY <1>4, FS_EmptySet
<1>7. CASE \A l \in HasCode(file) : ~Precedes(file, l, k)
  <2>1. file.words[k] = 0
    BY <1>3, <1>7, FirstCodeIsZero
  <2>2. Lower(file, k) = {}
    BY <1>3, <1>7 DEF Lower, Precedes
  <2>3. \A n \in 0 .. file.lens[k] - 1 : Same(file, n) = {}
    BY <1>3, <1>5, <1>7 DEF Same, Precedes
  <2>4. \A n \in 0 .. file.lens[k] - 1 : bl_count(n) = 0
    BY <1>6, <2>3
  <2>5. PICK n \in Nat : n = file.lens[k] - 1 /\ file.lens[k] = (0 + 1) + n
                         /\ (0 + 1) + n <= MaxLength
    BY <1>3, <1>5
  <2>6. \A l \in 0 + 1 .. 0 + n : bl_count(l) = 0
    BY <2>4, <2>5
  <2>7. NextCode[(0 + 1) + n] = (NextCode[0] + bl_count(0)) * 2^(n + 1)
    BY <2>5, <2>6, NextCodeSkips
  <2>8. NextCode[0] = 0 /\ bl_count(0) = 0
    BY <2>4, <2>5, NextCodeFacts
  <2>9. NextCode[file.lens[k]] = 0
    <3>1. PICK q \in Nat : q = 2^(n + 1)
      BY PowerFacts
    <3>2. (0 + 0) * q = 0
      OBVIOUS
    <3> QED
      BY <2>5, <2>7, <2>8, <3>1, <3>2
  <2>10. Numbered(k)
    BY <2>1, <2>2, <2>9, FS_EmptySet
  <2> QED
    BY <1>3, <2>10
<1>8. CASE \E l \in HasCode(file) : Precedes(file, l, k)
  <2>1. PICK p \in HasCode(file) :
            /\ Precedes(file, p, k)
            /\ \A l \in HasCode(file) : Precedes(file, l, k) => l = p \/ Precedes(file, l, p)
            /\ file.words[k] = (file.words[p] + 1) * 2^(file.lens[k] - file.lens[p])
    BY <1>3, <1>8, CodeBefore
  <2>2. Numbered(p)
    <3>1. p \notin S
      BY <1>2, <1>3, <2>1, PrecedesFacts
    <3> QED
      BY <3>1
  <2>3. PICK r \in Nat, c \in Nat : r = Cardinality(Lower(file, p)) /\ c = NextCode[file.lens[p]]
    <3>1. file.lens[p] \in 0 .. MaxLength
      BY <1>5
    <3> QED
      BY <3>1, RankFacts, NextCodeFacts
  <2>4. CASE file.lens[p] = file.lens[k]
    <3>1. Lower(file, k) = Lower(file, p) \cup {p}
      <4>1. ASSUME NEW l \in Lower(file, k)
            PROVE  l \in Lower(file, p) \cup {p}
        <5>1. l \in HasCode(file) /\ Precedes(file, l, k) /\ file.lens[l] = file.lens[p]
          BY <2>4 DEF Lower, Precedes
        <5>2. l = p \/ l < p
          BY <1>5, <2>1, <5>1 DEF Precedes
        <5> QED
          BY <5>1, <5>2 DEF Lower
      <4>2. ASSUME NEW l \in Lower(file, p) \cup {p}
            PROVE  l \in Lower(file, k)
        <5>1. p < k
          BY <1>5, <2>1, <2>4 DEF Precedes
        <5>2. l \in HasCode(file) /\ (l < p \/ l = p) /\ file.lens[l] = file.lens[p]
          BY DEF Lower
        <5> QED
          BY <1>3, <1>5, <2>4, <5>1, <5>2 DEF Lower
      <4> QED
        BY <4>1, <4>2
    <3>2. Cardinality(Lower(file, k)) = r + 1
      BY <2>3, <3>1, RankNext
    <3>3. file.lens[k] - file.lens[p] = 0
      BY <1>3, <1>5, <2>4
    <3>4. file.words[k] = file.words[p] + 1
      <4>1. 2^(file.lens[k] - file.lens[p]) = 1
        BY <3>3, PowerOfZero
      <4>2. PICK w \in Nat : w = file.words[p]
        BY <1>5
      <4>3. file.words[k] = (w + 1) * 1
        BY <2>1, <4>1, <4>2
      <4> QED
        BY <4>2, <4>3
    <3>5. Numbered(k)
      BY <2>2, <2>3, <2>4, <3>2, <3>4
    <3> QED
      BY <1>3, <3>5
  <2>5. CASE file.lens[p] # file.lens[k]
    <3>0. file.lens[p] < file.lens[k]
      BY <2>1, <2>5 DEF Precedes
    <3>1. \A l \in HasCode(file) : file.lens[l] < file.lens[k] => l = p \/ Precedes(file, l, p)
      BY <2>1 DEF Precedes
    <3>2. Same(file, file.lens[p]) = Lower(file, p) \cup {p}
      <4>1. ASSUME NEW l \in Same(file, file.lens[p])
            PROVE  l \in Lower(file, p) \cup {p}
        <5>1. l \in HasCode(file) /\ file.lens[l] = file.lens[p]
          BY DEF Same
        <5>2. l = p \/ l < p
          BY <1>5, <3>0, <3>1, <5>1 DEF Precedes
        <5> QED
          BY <5>1, <5>2 DEF Lower
      <4>2. ASSUME NEW l \in Lower(file, p) \cup {p}
            PROVE  l \in Same(file, file.lens[p])
        BY DEF Lower, Same
      <4> QED
        BY <4>1, <4>2
    <3>3. bl_count(file.lens[p]) = r + 1
      BY <1>4, <2>3, <3>2, RankNext
    <3>4. ASSUME NEW n \in file.lens[p] + 1 .. file.lens[k] - 1
          PROVE  bl_count(n) = 0
      <4>1. ASSUME NEW l \in Same(file, n)
            PROVE  FALSE
        <5>1. l \in HasCode(file) /\ file.lens[l] = n
          BY DEF Same
        <5>2. file.lens[l] < file.lens[k] /\ file.lens[l] > file.lens[p]
          BY <1>3, <1>5, <5>1
        <5> QED
          BY <1>5, <3>1, <5>1, <5>2 DEF Precedes
      <4>2. n \in Nat
        BY <1>3, <1>5
      <4> QED
        BY <1>6, <4>1, <4>2
    <3>5. Lower(file, k) = {}
      <4>1. ASSUME NEW l \in Lower(file, k)
            PROVE  FALSE
        <5>1. l \in HasCode(file) /\ Precedes(file, l, k) /\ file.lens[l] = file.lens[k]
          BY DEF Lower, Precedes
        <5>2. l = p \/ Precedes(file, l, p)
          BY <2>1, <5>1
        <5> QED
          BY <1>3, <1>5, <3>0, <5>1, <5>2 DEF Precedes
      <4> QED
        BY <4>1
    <3>6. PICK lp \in Nat, n \in Nat :
              /\ lp = file.lens[p] /\ file.lens[k] = (lp + 1) + n
              /\ (lp + 1) + n <= MaxLength /\ file.lens[k] - file.lens[p] = n + 1
              /\ file.lens[k] - 1 = lp + n
      <4>1. /\ file.lens[p] \in Nat /\ file.lens[k] \in Nat /\ file.lens[k] <= MaxLength
        BY <1>3, <1>5
      <4>2. /\ file.lens[k] - file.lens[p] - 1 \in Nat
            /\ file.lens[k] = (file.lens[p] + 1) + (file.lens[k] - file.lens[p] - 1)
            /\ file.lens[k] - file.lens[p] = (file.lens[k] - file.lens[p] - 1) + 1
            /\ file.lens[k] - 1 = file.lens[p] + (file.lens[k] - file.lens[p] - 1)
        BY <3>0, <4>1
      <4> QED
        BY <4>1, <4>2
    <3>7. \A l \in lp + 1 .. lp + n : bl_count(l) = 0
      BY <3>4, <3>6
    <3>8. NextCode[(lp + 1) + n] = (NextCode[lp] + bl_count(lp)) * 2^(n + 1)
      BY <3>6, <3>7, NextCodeSkips
    <3>9. NextCode[file.lens[k]] = (c + (r + 1)) * 2^(n + 1)
      BY <2>3, <3>3, <3>6, <3>8
    <3>10. file.words[k] = ((c + r) + 1) * 2^(n + 1)
      BY <2>1, <2>2, <2>3, <3>6
    <3>11. c + (r + 1) = (c + r) + 1
      OBVIOUS
    <3>12. NextCode[file.lens[k]] = file.words[k]
      BY <3>9, <3>10, <3>11
    <3>13. Cardinality(Lower(file, k)) = 0
      BY <3>5, FS_EmptySet
    <3>14. file.words[k] \in Nat
      BY <1>3, <1>5
    <3>15. Numbered(k)
      BY <3>12, <3>13, <3>14
    <3> QED
      BY <1>3, <3>15
  <2> QED
    BY <2>4, <2>5
<1> QED
  BY <1>7, <1>8

\* The codes that CodingTable_new counts up, bl_count and next_code, are the words
\* that the standards give the values.
THEOREM CodeIsWord ==
    ASSUME file \in Files, NEW i \in HasCode(file)
    PROVE  Code(i) = file.words[i]
<1>1. Length(i) = file.lens[i] /\ i \in DOMAIN file.lens
  BY TableTerms, FileFacts
<1>2. {j \in Coded : j < i /\ Length(j) = Length(i)} = Lower(file, i)
  BY <1>1, TableTerms, FileFacts DEF Lower
<1>3. Code(i) = file.words[i] % 2^file.lens[i]
  BY <1>1, <1>2, NumberOfCode DEF Code, FirstCode
<1>4. file.words[i] \in Nat /\ file.words[i] < 2^file.lens[i] /\ 2^file.lens[i] \in Nat
  BY FileFacts, PowerFacts
<1>5. PICK w \in Nat, p \in Nat : w = file.words[i] /\ p = 2^file.lens[i] /\ w < p
  BY <1>4
<1>6. (0 * p + w) % p = w
  BY <1>5, DivisionUnique
<1>7. 0 * p + w = w
  OBVIOUS
<1> QED
  BY <1>3, <1>5, <1>6, <1>7

-----------------------------------------------------------------------------
(***************************************************************************)
(* The table                                                               *)
(***************************************************************************)

\* The index of the bits ahead.
IndexOf(f, bits) == (IF f.jpeg THEN High(bits) ELSE Low(bits))[Len(bits)]

\* An index is smaller than the table.
LEMMA IndexRange ==
    ASSUME NEW f \in Files, NEW bits \in Seq(Bit)
    PROVE  IndexOf(f, bits) \in 0 .. 2^Len(bits) - 1
<1>1. Len(bits) \in Nat /\ Len(bits) \in 0 .. Len(bits)
  OBVIOUS
<1>2. PICK m \in Nat : /\ m = Len(bits) /\ m \in 0 .. Len(bits) /\ 0 + m = m /\ m + 0 = m
                       /\ 0 + m <= Len(bits) /\ m + 0 <= Len(bits)
  BY <1>1
<1>3. PICK p \in Nat : p = 2^m
  BY PowerFacts
<1>4. High(bits)[m] \in Nat /\ Low(bits)[m] \in Nat
  BY <1>2, HighFacts, LowFacts
<1>5. High(bits)[m] < p
  <2>1. High(bits)[0 + m] < (High(bits)[0] + 1) * 2^m
    BY <1>2, HighRange
  <2>2. (0 + 1) * p = p
    OBVIOUS
  <2> QED
    BY <1>2, <1>3, <2>1, <2>2, HighFacts
<1>6. Low(bits)[m] < p
  BY <1>2, <1>3, LowOfFirst
<1> QED
  BY <1>2, <1>3, <1>4, <1>5, <1>6 DEF IndexOf

\* A leaf is written to the indices that begin with its code.
LEMMA OccupiesFacts ==
    ASSUME file \in Files, NEW bits \in Seq(Bit), Len(bits) = Longest(file),
           NEW i \in HasCode(file)
    PROVE  Occupies(i, IndexOf(file, bits)) <=> High(bits)[file.lens[i]] = file.words[i]
<1>1. Length(i) = file.lens[i] /\ Code(i) = file.words[i] /\ max_code_length_bits = Longest(file)
  BY TableTerms, FileFacts, CodeIsWord
<1>2. PICK m \in Nat, l \in Nat, d \in Nat :
          /\ m = Len(bits) /\ l = file.lens[i] /\ d = m - l /\ l + d = m
          /\ m = Longest(file) /\ l + d <= Len(bits) /\ l <= Len(bits)
  <2>1. /\ MaxLength \in Nat /\ Longest(file) \in 0 .. MaxLength
        /\ file.lens[i] \in 1 .. MaxLength /\ file.lens[i] <= Longest(file)
    BY FileFacts, LongestFacts
  <2>2. Longest(file) \in Nat /\ file.lens[i] \in Nat /\ Longest(file) - file.lens[i] \in Nat
        /\ file.lens[i] + (Longest(file) - file.lens[i]) = Longest(file)
    BY <2>1
  <2> QED
    BY <2>1, <2>2
<1>3. PICK w \in Nat : w = file.words[i] /\ w < 2^l
  BY <1>2, FileFacts
<1>4. CASE file.jpeg
  <2>1. Occupies(i, IndexOf(file, bits)) <=> High(bits)[m] \div 2^d = w
    BY <1>1, <1>2, <1>3, <1>4 DEF Occupies, IndexOf
  <2>2. High(bits)[m] \div 2^d = High(bits)[l]
    BY <1>2, HighOfFirst
  <2> QED
    BY <1>2, <1>3, <2>1, <2>2
<1>5. CASE ~file.jpeg
  <2>1. Occupies(i, IndexOf(file, bits)) <=> Low(bits)[m] % 2^l = reverse_bits(w, l)
    BY <1>1, <1>2, <1>3, <1>5 DEF Occupies, IndexOf
  <2>2. Low(bits)[m] % 2^l = Low(bits)[l]
    <3>1. Low(bits)[l + d] % 2^l = Low(bits)[l]
      BY <1>2, LowOfFirst
    <3> QED
      BY <1>2, <3>1
  <2>3. reverse_bits(High(bits)[l], l) = Low(bits)[l]
    BY <1>2, ReverseOfHigh
  <2>4. ASSUME Low(bits)[l] = reverse_bits(w, l)
        PROVE  High(bits)[l] = w
    <3> DEFINE word == [k \in 1 .. l |-> (w \div 2^(l - k)) % 2]
    <3>1. word \in Seq(Bit) /\ Len(word) = l /\ \A k \in 1 .. l : word[k] = (w \div 2^(l - k)) % 2
      <4>1. ASSUME NEW k \in 1 .. l
            PROVE  (w \div 2^(l - k)) % 2 \in Bit
        <5>1. l - k \in Nat
          OBVIOUS
        <5>2. PICK p \in Nat : p = 2^(l - k) /\ p > 0
          BY <5>1, PowerFacts
        <5>3. w \div p \in Nat
          BY <5>2, Division
        <5>4. PICK q \in Nat : q = w \div p
          BY <5>3
        <5>5. q % 2 \in {0, 1}
          OBVIOUS
        <5> QED
          BY <5>2, <5>4, <5>5 DEF Bit
      <4>2. word \in [1 .. l -> Bit]
        BY <4>1
      <4> HIDE DEF word
      <4>3. word \in Seq(Bit) /\ Len(word) = l
        BY <4>2
      <4> QED
        BY <4>3 DEF word
    <3> HIDE DEF word
    <3>0. l <= Len(word) /\ IsWord(word, w, l) /\ l <= l
      BY <3>1 DEF IsWord
    <3>2. High(word)[l] = w
      BY <1>3, <3>0, <3>1, HighOfWord
    <3>3. reverse_bits(w, l) = Low(word)[l]
      BY <3>0, <3>1, <3>2, ReverseOfHigh
    <3>4. \A k \in 1 .. l : bits[k] = word[k]
      <4>1. Low(bits)[l] = Low(word)[l]
        BY <2>4, <3>3
      <4>2. l <= Len(bits) /\ l <= Len(word) /\ word \in Seq(Bit)
        BY <1>2, <3>0, <3>1
      <4> QED
        BY <4>1, <4>2, LowUnique
    <3> QED
      BY <1>2, <3>0, <3>1, <3>2, <3>4, HighOfSame
  <2> QED
    BY <1>2, <1>3, <2>1, <2>2, <2>3, <2>4
<1> QED
  BY <1>4, <1>5

\* Every index is that of some bits.
LEMMA BitsOfIndex ==
    ASSUME NEW f \in Files, NEW m \in Nat, NEW index \in 0 .. 2^m - 1
    PROVE  \E bits \in Seq(Bit) : Len(bits) = m /\ IndexOf(f, bits) = index
<1>1. index \in Nat /\ index < 2^m /\ m \in Nat
  BY PowerFacts
<1>2. ASSUME NEW e \in Nat
      PROVE  (index \div 2^e) % 2 \in Bit
  <2>1. PICK p \in Nat : p = 2^e /\ p > 0
    BY PowerFacts
  <2>2. PICK q \in Nat : q = index \div p
    BY <1>1, <2>1, Division
  <2>3. q % 2 \in {0, 1}
    OBVIOUS
  <2> QED
    BY <2>1, <2>2, <2>3 DEF Bit
<1>3. CASE f.jpeg
  <2> DEFINE bits == [k \in 1 .. m |-> (index \div 2^(m - k)) % 2]
  <2>1. \A k \in 1 .. m : m - k \in Nat
    OBVIOUS
  <2>2. bits \in [1 .. m -> Bit] /\ \A k \in 1 .. m : bits[k] = (index \div 2^(m - k)) % 2
    BY <1>2, <2>1
  <2> HIDE DEF bits
  <2>3. bits \in Seq(Bit) /\ Len(bits) = m /\ m <= Len(bits) /\ IsWord(bits, index, m)
    BY <2>2 DEF IsWord
  <2>4. High(bits)[m] = index
    BY <1>1, <2>3, HighOfWord
  <2> QED
    BY <1>3, <2>3, <2>4 DEF IndexOf
<1>4. CASE ~f.jpeg
  <2> DEFINE bits == [k \in 1 .. m |-> (index \div 2^(k - 1)) % 2]
  <2>1. \A k \in 1 .. m : k - 1 \in Nat
    OBVIOUS
  <2>2. bits \in [1 .. m -> Bit] /\ \A k \in 1 .. m : bits[k] = (index \div 2^(k - 1)) % 2
    BY <1>2, <2>1
  <2> HIDE DEF bits
  <2>3. bits \in Seq(Bit) /\ Len(bits) = m /\ m <= Len(bits)
    BY <2>2
  <2>4. Low(bits)[m] = index
    BY <1>1, <2>2, <2>3, LowOfBits
  <2> QED
    BY <1>4, <2>3, <2>4 DEF IndexOf
<1> QED
  BY <1>3, <1>4

\* The leaves of two codes are never written to the same index of the table: the
\* numbers CodingTable_new counts up, shifted to the end or reversed, leave each
\* code indices of its own, and the order of the writes does not matter.
THEOREM LeavesApart ==
    ASSUME file \in Files, NEW i \in Coded, NEW j \in Coded,
           NEW index \in 0 .. 2^max_code_length_bits - 1,
           Occupies(i, index), Occupies(j, index)
    PROVE  i = j
<1>1. i \in HasCode(file) /\ j \in HasCode(file) /\ max_code_length_bits = Longest(file)
  BY TableTerms
<1>2. Longest(file) \in Nat
  BY FileFacts, LongestFacts
<1>3. PICK bits \in Seq(Bit) : Len(bits) = Longest(file) /\ IndexOf(file, bits) = index
  BY <1>1, <1>2, BitsOfIndex
<1>4. High(bits)[file.lens[i]] = file.words[i] /\ High(bits)[file.lens[j]] = file.words[j]
  BY <1>1, <1>3, OccupiesFacts
<1>5. file.lens[i] <= Len(bits) /\ file.lens[j] <= Len(bits)
  BY <1>1, <1>3, LongestFacts
<1> QED
  BY <1>1, <1>4, <1>5, PrefixFree

\* The leaf of a code.
LeafOf(f, i) == [value |-> ValueOf(f, i), len |-> f.lens[i]]

\* The table finds each code, whatever follows it.
TableRight ==
    \A bits \in Seq(Bit) :
        Len(bits) = Longest(file) =>
            \A i \in HasCode(file) :
                High(bits)[file.lens[i]] = file.words[i] =>
                    /\ IndexOf(file, bits) \in DOMAIN lookup_table
                    /\ lookup_table[IndexOf(file, bits)] = LeafOf(file, i)

\* The table's part of TypeOK.
TableType ==
    /\ DOMAIN lookup_table \subseteq 0 .. 2^MaxLength - 1
    /\ \A index \in DOMAIN lookup_table : lookup_table[index] \in LookupLeaf

\* CodingTable_new builds a table that finds each code by its word, whatever bits
\* follow it, in either order of bits.
THEOREM TableBuilt ==
    ASSUME file \in Files, CodingTable_new
    PROVE  TableRight' /\ TableType'
<1> DEFINE m == max_code_length_bits
           Written == {index \in 0 .. 2^m - 1 : \E i \in Coded : Occupies(i, index)}
           Latest(index) == CHOOSE i \in Coded :
                              /\ Occupies(i, index)
                              /\ \A j \in Coded : Occupies(j, index) => j <= i
           T == [index \in Written |-> [value |-> Value(Latest(index)), len |-> Length(Latest(index))]]
<1>1. lookup_table' = T /\ file' = file
  BY DEF CodingTable_new
<1>2. Coded = HasCode(file) /\ m = Longest(file) /\ m \in 0 .. MaxLength /\ MaxLength \in Nat
  BY TableTerms, LongestFacts, FileFacts
<1>3. \A i \in HasCode(file) : /\ [value |-> Value(i), len |-> Length(i)] = LeafOf(file, i)
                               /\ LeafOf(file, i) \in LookupLeaf
  <2>1. \A i \in HasCode(file) : i \in DOMAIN file.lens /\ file.lens[i] \in 0 .. MaxLength
    BY FileFacts
  <2>2. \A i \in HasCode(file) : Value(i) = ValueOf(file, i) /\ Length(i) = file.lens[i]
    BY <2>1, TableTerms
  <2> QED
    BY <2>1, <2>2, ValueFacts DEF LeafOf, LookupLeaf
<1>4. ASSUME NEW index \in Written
      PROVE  Latest(index) \in HasCode(file) /\ Occupies(Latest(index), index)
  <2> DEFINE S == {i \in Coded : Occupies(i, index)}
  <2>1. S # {} /\ S \in SUBSET Nat /\ \A i \in S : i <= Len(file.lens)
    BY <1>2, FileFacts
  <2>2. Len(file.lens) \in Nat
    BY FileFacts
  <2>3. \E i \in S : \A j \in S : j <= i
    <3> HIDE DEF S
    <3> QED
      BY <2>1, <2>2, GreatestNumber
  <2>4. \E i \in Coded : /\ Occupies(i, index)
                         /\ \A j \in Coded : Occupies(j, index) => j <= i
    BY <2>3
  <2>5. Latest(index) \in Coded /\ Occupies(Latest(index), index)
    BY <2>4
  <2> HIDE DEF Latest
  <2> QED
    BY <1>2, <2>5
<1> HIDE DEF Latest
<1>5. \A index \in Written : T[index] = LeafOf(file, Latest(index))
  BY <1>3, <1>4
<1>6. TableType'
  <2>1. 2^m <= 2^MaxLength /\ 2^m \in Nat /\ 2^MaxLength \in Nat
    BY <1>2, PowerGrows, PowerFacts
  <2>2. Written \subseteq 0 .. 2^MaxLength - 1
    BY <2>1
  <2>3. \A index \in Written : T[index] \in LookupLeaf
    BY <1>3, <1>4, <1>5
  <2>4. DOMAIN T = Written
    OBVIOUS
  <2> HIDE DEF T, Written
  <2> QED
    BY <1>1, <2>2, <2>3, <2>4 DEF TableType
<1>7. ASSUME NEW bits \in Seq(Bit), Len(bits) = Longest(file),
             NEW i \in HasCode(file), High(bits)[file.lens[i]] = file.words[i]
      PROVE  /\ IndexOf(file, bits) \in Written
             /\ T[IndexOf(file, bits)] = LeafOf(file, i)
  <2>1. Occupies(i, IndexOf(file, bits))
    BY <1>7, OccupiesFacts
  <2>2. IndexOf(file, bits) \in 0 .. 2^m - 1
    BY <1>2, <1>7, IndexRange
  <2>3. IndexOf(file, bits) \in Written
    BY <1>2, <2>1, <2>2
  <2>4. PICK j \in HasCode(file) : j = Latest(IndexOf(file, bits)) /\ Occupies(j, IndexOf(file, bits))
    BY <1>4, <2>3
  <2>5. j = i
    BY <1>2, <2>1, <2>2, <2>4, LeavesApart
  <2> QED
    BY <1>5, <2>3, <2>4, <2>5
<1>8. TableRight'
  <2>1. DOMAIN T = Written
    OBVIOUS
  <2> HIDE DEF T, Written
  <2> QED
    BY <1>1, <1>7, <2>1 DEF TableRight
<1> QED
  BY <1>6, <1>8

=============================================================================
