---------------------------- MODULE EntropyProofs ----------------------------
(***************************************************************************)
(* Proofs about Entropy's stream: it reads what was written, does not run  *)
(* out in a whole file, and leaves off at the marker.  The inductive       *)
(* invariant is that the buffer holds the data's bits from the end of what *)
(* was read; the table is that of HuffmanProofs.                           *)
(***************************************************************************)
EXTENDS HuffmanProofs

-----------------------------------------------------------------------------
(***************************************************************************)
(* Where things are in the data                                            *)
(***************************************************************************)

\* Where the bytes and the items are is defined by recursion.
LEMMA PlacesFacts ==
    ASSUME NEW f
    PROVE  /\ \A n \in Nat : Place(f, n) \in Nat
           /\ Place(f, 0) = 0
           /\ \A n \in Nat : Place(f, n + 1) =
                                 Place(f, n) + IF StuffedAt(f, Place(f, n)) THEN 2 ELSE 1
<1> DEFINE G(n, x) == x + IF StuffedAt(f, x) THEN 2 ELSE 1
           step == [q \in Nat \X Nat |->
                       IF q[1] \in Nat /\ q[1] # 0 THEN G(q[1], q[2]) ELSE 0]
<1>1. 0 \in Nat /\ \A n \in Nat, x \in Nat : n # 0 => G(n, x) \in Nat
  OBVIOUS
<1>2. IsInitial(Nat)
  BY NatIsInitial
<1>3. step \in StepsOf(Nat) /\ \A n \in Nat, x \in Nat : n # 0 => step[<<n, x>>] = G(n, x)
  <2> HIDE DEF G
  <2> QED
    BY <1>1, <1>2 DEF StepsOf, IsInitial
<1>4. \E g : IsRecursive(g, Nat, Nat, 0, step)
  <2> HIDE DEF step, G
  <2> QED
    BY <1>1, <1>2, <1>3, Recursion
<1>5. \E g : g = [n \in Nat |-> IF n = 0 THEN 0 ELSE G(n, g[n - 1])]
  <2>1. PICK g : IsRecursive(g, Nat, Nat, 0, step)
    BY <1>4
  <2> HIDE DEF step, G
  <2>2. \A n \in Nat : n # 0 => step[<<n, g[n - 1]>>] = G(n, g[n - 1])
    BY <1>2, <1>3, <2>1 DEF IsRecursive, IsInitial
  <2>3. g = [n \in Nat |-> IF n = 0 THEN 0 ELSE G(n, g[n - 1])]
    BY <2>1, <2>2 DEF IsRecursive
  <2> QED
    BY <2>3
<1> HIDE DEF step
<1>6. Places(f) = [n \in Nat |-> IF n = 0 THEN 0 ELSE G(n, Places(f)[n - 1])]
  BY <1>5 DEF Places
<1> HIDE DEF G
<1>7. 0 \in Nat => Places(f)[0] = 0
  BY <1>6
<1>8. \A n \in Nat : n # 0 => Places(f)[n] = G(n, Places(f)[n - 1])
  BY <1>6
<1>9. \A n \in Nat : Places(f)[n] \in Nat
  <2> DEFINE h == Places(f)
  <2>1. \A n \in Nat : n # 0 /\ h[n - 1] \in Nat => h[n] \in Nat
    BY <1>1, <1>8
  <2>2. 0 \in Nat => h[0] \in Nat
    BY <1>1, <1>7
  <2> HIDE DEF h
  <2>3. \A n \in Nat : h[n] \in Nat
    BY <1>2, <2>1, <2>2, AlongRecursion
  <2> QED
    BY <2>3 DEF h
<1>10. \A n \in Nat : n + 1 \in Nat /\ n + 1 # 0 /\ (n + 1) - 1 = n
  OBVIOUS
<1> QED
  BY <1>7, <1>8, <1>9, <1>10 DEF Place, G

LEMMA EndsFacts ==
    ASSUME NEW f \in Files
    PROVE  /\ End(f, 0) = 0
           /\ \A k \in 0 .. Len(f.sent) : End(f, k) \in Nat
           /\ \A k \in DOMAIN f.sent :
                  /\ CodeOf(f, k) \in HasCode(f)
                  /\ ValueOf(f, CodeOf(f, k)) = f.sent[k].value
                  /\ f.lens[CodeOf(f, k)] \in 1 .. MaxLength
                  /\ End(f, k) = End(f, k - 1) + f.lens[CodeOf(f, k)] + f.sent[k].value
<1> DEFINE m == Len(f.sent)
<1>a. f.sent \in Seq(Items) /\ f.lens \in Seq(0 .. MaxLength)
  BY FilesAssumption
<1>b. m \in Nat /\ DOMAIN f.sent = 1 .. m /\ \A k \in 1 .. m : f.sent[k] \in Items
  BY <1>a
<1>c. \A k \in 1 .. m : /\ CodeOf(f, k) \in HasCode(f)
                        /\ ValueOf(f, CodeOf(f, k)) = f.sent[k].value
                        /\ f.lens[CodeOf(f, k)] \in 1 .. MaxLength
  <2>1. ASSUME NEW k \in 1 .. m
        PROVE  CodeOf(f, k) \in HasCode(f) /\ ValueOf(f, CodeOf(f, k)) = f.sent[k].value
    <3>1. \E j \in HasCode(f) : ValueOf(f, j) = f.sent[k].value
      BY <1>b, StandardAssumption DEF HoldsItems
    <3> QED
      BY <3>1 DEF CodeOf
  <2>2. \A i \in HasCode(f) : f.lens[i] \in 1 .. MaxLength
    <3>1. f.lens \in Seq(0 .. MaxLength)
      BY <1>a
    <3>2. \A i \in DOMAIN f.lens : f.lens[i] \in 0 .. MaxLength
      BY <3>1, ElementOfSeq, LenProperties
    <3> QED
      BY <3>2, SizeAssumption DEF HasCode
  <2> QED
    BY <2>1, <2>2
<1> HIDE DEF m
<1> DEFINE G(n, x) == x + f.lens[CodeOf(f, n)] + f.sent[n].value
           step == [q \in Nat \X Nat |->
                       IF q[1] \in 0 .. m /\ q[1] # 0 THEN G(q[1], q[2]) ELSE 0]
<1>1. 0 \in Nat /\ \A n \in 0 .. m, x \in Nat : n # 0 => G(n, x) \in Nat
  <2>1. ASSUME NEW n \in 0 .. m, NEW x \in Nat, n # 0
        PROVE  G(n, x) \in Nat
    <3>1. n \in 1 .. m
      BY <1>b, <2>1
    <3>2. f.lens[CodeOf(f, n)] \in Nat /\ f.sent[n].value \in Nat
      BY <1>b, <1>c, <3>1, SizeAssumption DEF Items
    <3> QED
      BY <3>2
  <2> QED
    BY <2>1
<1>2. IsInitial(0 .. m)
  BY <1>b, NatIsInitial
<1>3. step \in StepsOf(Nat) /\ \A n \in 0 .. m, x \in Nat : n # 0 => step[<<n, x>>] = G(n, x)
  <2> HIDE DEF G
  <2> QED
    BY <1>1, <1>2 DEF StepsOf, IsInitial
<1>4. \E g : IsRecursive(g, 0 .. m, Nat, 0, step)
  <2> HIDE DEF step, G
  <2> QED
    BY <1>1, <1>2, <1>3, Recursion
<1>5. \E g : g = [n \in 0 .. m |-> IF n = 0 THEN 0 ELSE G(n, g[n - 1])]
  <2>1. PICK g : IsRecursive(g, 0 .. m, Nat, 0, step)
    BY <1>4
  <2> HIDE DEF step, G
  <2>2. \A n \in 0 .. m : n # 0 => step[<<n, g[n - 1]>>] = G(n, g[n - 1])
    BY <1>2, <1>3, <2>1 DEF IsRecursive, IsInitial
  <2>3. g = [n \in 0 .. m |-> IF n = 0 THEN 0 ELSE G(n, g[n - 1])]
    BY <2>1, <2>2 DEF IsRecursive
  <2> QED
    BY <2>3
<1> HIDE DEF step
<1>6. Ends(f) = [n \in 0 .. m |-> IF n = 0 THEN 0 ELSE G(n, Ends(f)[n - 1])]
  BY <1>5 DEF Ends, m
<1> HIDE DEF G
<1>7. 0 \in 0 .. m => Ends(f)[0] = 0
  BY <1>6
<1>8. \A n \in 0 .. m : n # 0 => Ends(f)[n] = G(n, Ends(f)[n - 1])
  BY <1>6
<1>9. \A n \in 0 .. m : Ends(f)[n] \in Nat
  <2> DEFINE h == Ends(f)
  <2>1. \A n \in 0 .. m : n # 0 /\ h[n - 1] \in Nat => h[n] \in Nat
    BY <1>1, <1>8
  <2>2. 0 \in 0 .. m => h[0] \in Nat
    BY <1>1, <1>7
  <2> HIDE DEF h
  <2>3. \A n \in 0 .. m : h[n] \in Nat
    BY <1>2, <2>1, <2>2, AlongRecursion
  <2> QED
    BY <2>3 DEF h
<1>10. \A k \in 1 .. m : k \in 0 .. m /\ k # 0
  BY <1>b
<1>11. 0 \in 0 .. m
  BY <1>b
<1> QED
  BY <1>b, <1>c, <1>7, <1>8, <1>9, <1>10, <1>11 DEF End, G, m

\* Each byte takes a place at least,
LEMMA PlaceGrows ==
    ASSUME NEW f, NEW a \in Nat, NEW n \in Nat
    PROVE  Place(f, a) + n <= Place(f, a + n)
<1>0. \A b \in Nat : /\ Place(f, b) \in Nat
                       /\ Place(f, b + 1) = Place(f, b) + IF StuffedAt(f, Place(f, b)) THEN 2 ELSE 1
  BY PlacesFacts
<1> DEFINE S == {k \in Nat : Place(f, a) + k <= Place(f, a + k)}
<1>1. 0 \in S
  <2>1. a + 0 = a /\ Place(f, a) \in Nat
    BY <1>0
  <2> QED
    BY <2>1
<1>2. ASSUME NEW k \in S
      PROVE  k + 1 \in S
  <2>1. a + (k + 1) = (a + k) + 1 /\ a + k \in Nat /\ k \in Nat
    OBVIOUS
  <2>2. Place(f, a + (k + 1)) >= Place(f, a + k) + 1
    BY <1>0, <2>1
  <2>3. Place(f, a) + k <= Place(f, a + k)
    OBVIOUS
  <2>4. Place(f, a) \in Nat /\ Place(f, a + k) \in Nat /\ Place(f, a + (k + 1)) \in Nat
    BY <1>0, <2>1
  <2> QED
    BY <2>1, <2>2, <2>3, <2>4
<1>3. S = Nat
  <2>1. S \in SUBSET Nat
    OBVIOUS
  <2> HIDE DEF S
  <2> QED
    BY <1>1, <1>2, <2>1, SetInduction
<1> QED
  BY <1>3

\* and just one if nothing is stuffed.
LEMMA PlaceExact ==
    ASSUME NEW f, NEW a \in Nat, NEW n \in Nat,
           \A p \in Place(f, a) .. Place(f, a + n) - 1 : ~StuffedAt(f, p)
    PROVE  Place(f, a + n) = Place(f, a) + n
<1>0. \A b \in Nat : /\ Place(f, b) \in Nat
                       /\ Place(f, b + 1) = Place(f, b) + IF StuffedAt(f, Place(f, b)) THEN 2 ELSE 1
  BY PlacesFacts
<1> DEFINE S == {k \in Nat : k <= n => Place(f, a + k) = Place(f, a) + k}
<1>1. 0 \in S
  <2>1. a + 0 = a /\ Place(f, a) \in Nat
    BY <1>0
  <2> QED
    BY <2>1
<1>2. ASSUME NEW k \in S
      PROVE  k + 1 \in S
  <2>1. SUFFICES ASSUME k + 1 <= n
                 PROVE  Place(f, a + (k + 1)) = Place(f, a) + (k + 1)
    OBVIOUS
  <2>2. /\ a + (k + 1) = (a + k) + 1 /\ a + k \in Nat /\ k \in Nat /\ k <= n
        /\ n - k \in Nat /\ (a + k) + (n - k) = a + n /\ n - k >= 1
    BY <2>1
  <2>3. Place(f, a + k) = Place(f, a) + k
    BY <2>2
  <2>4. Place(f, a + k) + (n - k) <= Place(f, a + n)
    BY <2>2, PlaceGrows
  <2>5. Place(f, a) \in Nat /\ Place(f, a + k) \in Nat /\ Place(f, a + n) \in Nat
    BY <1>0, <2>2
  <2>6. Place(f, a + k) \in Place(f, a) .. Place(f, a + n) - 1
    BY <2>2, <2>3, <2>4, <2>5
  <2>7. Place(f, a + (k + 1)) = Place(f, a + k) + 1
    BY <1>0, <2>2, <2>6
  <2> QED
    BY <2>2, <2>3, <2>5, <2>7
<1>3. S = Nat
  <2>1. S \in SUBSET Nat
    OBVIOUS
  <2> HIDE DEF S
  <2> QED
    BY <1>1, <1>2, <2>1, SetInduction
<1>4. n \in S
  <2> HIDE DEF S
  <2> QED
    BY <1>3
<1> QED
  BY <1>4

\* Bytes are further on in the file than the bytes before them.
LEMMA PlaceBefore ==
    ASSUME NEW f, NEW a \in Nat, NEW b \in Nat, Place(f, a) < Place(f, b)
    PROVE  a < b
<1>1. CASE b <= a
  <2>1. PICK d \in Nat : a = b + d
    BY <1>1, a - b \in Nat
  <2>2. Place(f, b) + d <= Place(f, b + d)
    BY PlaceGrows
  <2>3. Place(f, a) \in Nat /\ Place(f, b) \in Nat
    BY PlacesFacts
  <2> QED
    BY <2>1, <2>2, <2>3
<1> QED
  BY <1>1

\* No item ends behind the data.
LEMMA EndsGrow ==
    ASSUME NEW f \in Files, NEW k \in 0 .. Len(f.sent)
    PROVE  End(f, k) \in Nat /\ End(f, k) <= TotalBits(f) /\ TotalBits(f) \in Nat
<1>1. Len(f.sent) \in Nat /\ DOMAIN f.sent = 1 .. Len(f.sent)
  BY FileFacts, LenProperties
<1>2. PICK l \in Nat : l = Len(f.sent)
  BY <1>1
<1> DEFINE S == {n \in Nat : l - n \in 0 .. l => End(f, l - n) <= End(f, l)}
<1>3. ASSUME NEW q \in 1 .. l
      PROVE  End(f, q - 1) <= End(f, q)
  <2>1. q \in DOMAIN f.sent /\ q \in 0 .. l /\ q - 1 \in 0 .. l
    BY <1>1, <1>2
  <2>2. f.lens[CodeOf(f, q)] \in Nat
    BY <2>1, EndsFacts, FileFacts
  <2>3. f.sent[q].value \in Nat
    <3>1. f.sent[q] \in Items
      BY <2>1, <1>1, FileFacts, ElementOfSeq
    <3> QED
      BY <3>1 DEF Items
  <2> QED
    BY <1>2, <2>1, <2>2, <2>3, EndsFacts
<1>4. \A q \in 0 .. l : End(f, q) \in Nat
  BY <1>2, EndsFacts
<1>5. 0 \in S
  BY <1>4
<1>6. ASSUME NEW n \in S
      PROVE  n + 1 \in S
  <2>1. n \in Nat
    OBVIOUS
  <2>2. CASE l - (n + 1) \in 0 .. l
    <3>1. l - n \in 1 .. l /\ (l - n) - 1 = l - (n + 1)
      BY <2>1, <2>2
    <3>2. End(f, l - (n + 1)) <= End(f, l - n)
      BY <1>3, <3>1
    <3>3. End(f, l - n) <= End(f, l)
      BY <3>1
    <3>4. End(f, l - (n + 1)) \in Nat /\ End(f, l - n) \in Nat /\ End(f, l) \in Nat
      BY <1>4, <2>2, <3>1
    <3> QED
      BY <2>1, <3>2, <3>3, <3>4
  <2> QED
    BY <2>1, <2>2
<1>7. S = Nat
  <2>1. S \in SUBSET Nat
    OBVIOUS
  <2> HIDE DEF S
  <2> QED
    BY <1>5, <1>6, <2>1, SetInduction
<1>8. l - k \in S /\ l - (l - k) = k
  <2>1. l - k \in Nat /\ l - (l - k) = k
    BY <1>2
  <2> HIDE DEF S
  <2> QED
    BY <1>7, <2>1
<1>9. k \in 0 .. l /\ l \in 0 .. l
  BY <1>2
<1> QED
  BY <1>2, <1>4, <1>8, <1>9 DEF TotalBits

\* What the places of the bytes behind the data are.
LEMMA MarkerFacts ==
    ASSUME NEW f \in Files, WholeFile(f)
    PROVE  \E e \in Nat :
               /\ e = (TotalBits(f) + ByteBits - 1) \div ByteBits
               /\ TotalBits(f) <= e * ByteBits /\ e * ByteBits < TotalBits(f) + ByteBits
               /\ Place(f, e) = f.marker /\ f.marker < Len(f.data)
               /\ f.jpeg => /\ f.marker + 2 <= Len(f.data)
                            /\ Place(f, e + 2) <= f.marker + 3
                            /\ Place(f, e + 1) = f.marker + 1
<1>1. ByteBits \in Nat /\ ByteBits > 0
  BY SizeAssumption
<1>2. TotalBits(f) \in Nat
  <2>1. Len(f.sent) \in Nat /\ 0 \in 0 .. Len(f.sent)
    BY FileFacts, LenProperties
  <2> QED
    BY <2>1, EndsGrow
<1>3. PICK e \in Nat : /\ e = (TotalBits(f) + ByteBits - 1) \div ByteBits
                       /\ TotalBits(f) <= e * ByteBits /\ e * ByteBits < TotalBits(f) + ByteBits
  BY <1>1, <1>2, Ceiling
<1>4. /\ f.marker = Place(f, e)
      /\ f.jpeg => /\ f.marker + 2 <= Len(f.data)
                   /\ ByteOf(f, f.marker) = AllOnes
                   /\ ByteOf(f, f.marker + 1) # 0
  BY <1>3, StandardAssumption DEF HasEnd
<1>5. f.marker < Len(f.data)
  BY DEF WholeFile
<1>6. ASSUME f.jpeg
      PROVE  Place(f, e + 1) = f.marker + 1 /\ Place(f, e + 2) <= f.marker + 3
  <2>1. \A n \in Nat : /\ Place(f, n) \in Nat
                       /\ Place(f, n + 1) = Place(f, n) + IF StuffedAt(f, Place(f, n)) THEN 2 ELSE 1
    BY PlacesFacts
  <2>2. ~StuffedAt(f, f.marker)
    BY <1>4, <1>6 DEF StuffedAt
  <2>3. Place(f, e + 1) = f.marker + 1
    BY <1>4, <2>1, <2>2
  <2>4. e + 1 \in Nat /\ (e + 1) + 1 = e + 2 /\ f.marker \in Nat
    BY FileFacts
  <2>5. Place(f, e + 2) = Place(f, e + 1) + IF StuffedAt(f, Place(f, e + 1)) THEN 2 ELSE 1
    BY <2>1, <2>4
  <2> QED
    BY <2>3, <2>4, <2>5
<1> QED
  BY <1>3, <1>4, <1>5, <1>6

\* The data that the stream has looked at is in the file.
LEMMA AheadIsHeld ==
    ASSUME NEW f \in Files, NEW j \in Nat,
           WholeFile(f) \/ Place(f, j) <= Len(f.data),
           NEW b \in Nat, b < j * ByteBits, b < TotalBits(f)
    PROVE  Held(f, b)
<1>1. PICK y \in Nat : y = ByteBits /\ y > 0
  BY SizeAssumption
<1>2. PICK q \in Nat, r \in Nat : q = b \div y /\ r < y /\ b = q * y + r
  BY <1>1, Division
<1>3. ASSUME NEW e \in Nat, b < e * y
      PROVE  Place(f, q) + 1 <= Place(f, e)
  <2>1. q < e
    <3>1. CASE e <= q
      <4>1. e * y \in Nat /\ q * y \in Nat /\ e * y <= q * y
        BY <3>1, ProductGrows
      <4> QED
        BY <1>2, <1>3, <4>1
    <3> QED
      BY <3>1
  <2>2. PICK d \in Nat : e = q + d /\ d >= 1
    BY <2>1, e - q \in Nat
  <2>3. Place(f, q) + d <= Place(f, q + d)
    BY PlaceGrows
  <2>4. Place(f, q) \in Nat /\ Place(f, e) \in Nat
    BY PlacesFacts
  <2> QED
    BY <2>2, <2>3, <2>4
<1>4. Len(f.data) \in Nat /\ \A n \in Nat : Place(f, n) \in Nat
  BY FileFacts, LenProperties, PlacesFacts
<1>5. CASE Place(f, j) <= Len(f.data)
  <2>1. Place(f, q) + 1 <= Place(f, j)
    BY <1>1, <1>3
  <2>2. Place(f, q) < Len(f.data)
    <3>1. Place(f, q) \in Nat /\ Place(f, j) \in Nat /\ Len(f.data) \in Nat
      BY <1>4
    <3> QED
      BY <1>5, <2>1, <3>1
  <2> QED
    BY <1>1, <1>2, <2>2 DEF Held
<1>6. CASE WholeFile(f)
  <2>1. PICK e \in Nat : /\ TotalBits(f) <= e * ByteBits
                         /\ Place(f, e) = f.marker /\ f.marker < Len(f.data)
    BY <1>6, MarkerFacts
  <2>2. b < e * y
    <3>1. TotalBits(f) \in Nat
      <4>1. Len(f.sent) \in Nat /\ 0 \in 0 .. Len(f.sent)
        BY FileFacts, LenProperties
      <4> QED
        BY <4>1, EndsGrow
    <3>2. e * y \in Nat
      BY Products
    <3> QED
      BY <1>1, <2>1, <3>1, <3>2
  <2>3. Place(f, q) + 1 <= Place(f, e)
    BY <1>3, <2>2
  <2>4. Place(f, q) < Len(f.data)
    <3>1. Place(f, q) \in Nat /\ Place(f, e) \in Nat /\ Len(f.data) \in Nat
      BY <1>4
    <3> QED
      BY <2>1, <2>3, <3>1
  <2> QED
    BY <1>1, <1>2, <2>4 DEF Held
<1> QED
  BY <1>5, <1>6

\* An item of the data, its code and where it is.
LEMMA ItemFacts ==
    ASSUME NEW f \in Files, NEW k \in DOMAIN f.sent, NEW i, i = CodeOf(f, k)
    PROVE  /\ k \in 1 .. Len(f.sent) /\ k - 1 \in 0 .. Len(f.sent)
           /\ i \in HasCode(f) /\ f.sent[k] \in Items
           /\ f.sent[k] = [value |-> f.sent[k].value, bits |-> f.sent[k].bits]
           /\ ValueOf(f, i) = f.sent[k].value
           /\ f.lens[i] \in Nat /\ 1 <= f.lens[i] /\ f.lens[i] <= MaxLength
           /\ f.sent[k].value \in Nat /\ f.sent[k].bits \in Nat
           /\ End(f, k - 1) \in Nat /\ TotalBits(f) \in Nat
           /\ End(f, k) = End(f, k - 1) + f.lens[i] + f.sent[k].value
           /\ End(f, k - 1) + f.lens[i] + f.sent[k].value <= TotalBits(f)
           /\ f.sent[k].value <= BufferBits - ByteBits + 1
           /\ f.sent[k].bits < 2^f.sent[k].value
           /\ f.words[i] \in Nat /\ f.words[i] < 2^f.lens[i]
<1>1. Len(f.sent) \in Nat /\ DOMAIN f.sent = 1 .. Len(f.sent) /\ f.sent \in Seq(Items)
  BY FileFacts, LenProperties
<1>2. k \in 1 .. Len(f.sent) /\ k - 1 \in 0 .. Len(f.sent) /\ k \in 0 .. Len(f.sent)
  BY <1>1
<1>3. f.sent[k] \in Items
  BY <1>1, <1>2, ElementOfSeq
<1>4. /\ f.sent[k].value \in Nat /\ f.sent[k].bits \in Nat
      /\ f.sent[k] = [value |-> f.sent[k].value, bits |-> f.sent[k].bits]
  BY <1>3 DEF Items
<1>5. /\ i \in HasCode(f) /\ ValueOf(f, i) = f.sent[k].value /\ f.lens[i] \in 1 .. MaxLength
      /\ End(f, k) = End(f, k - 1) + f.lens[i] + f.sent[k].value
  BY EndsFacts
<1>6. End(f, k) <= TotalBits(f) /\ TotalBits(f) \in Nat /\ End(f, k - 1) \in Nat
  BY <1>2, EndsGrow
<1>7. f.sent[k].value <= BufferBits - ByteBits + 1 /\ f.sent[k].bits < 2^f.sent[k].value
  BY StandardAssumption DEF HoldsItems
<1>8. MaxLength \in Nat /\ f.words[i] \in Nat /\ f.words[i] < 2^f.lens[i]
  BY <1>5, FileFacts
<1> QED
  BY <1>2, <1>3, <1>4, <1>5, <1>6, <1>7, <1>8

-----------------------------------------------------------------------------
(***************************************************************************)
(* The buffer                                                              *)
(***************************************************************************)

\* The index after some bytes is defined by recursion.
LEMMA IndexAfterFacts ==
    ASSUME NEW m \in Nat, next_data_index \in Nat
    PROVE  \E F : /\ \A n \in 0 .. m : F[n] \in Nat
                  /\ F[0] = next_data_index
                  /\ \A n \in 1 .. m : F[n] = F[n - 1] + IF StuffedAt(file, F[n - 1]) THEN 2 ELSE 1
                  /\ IndexAfter(m) = F[m]
<1> DEFINE F == CHOOSE After : After = [k \in 0 .. m |->
                    IF k = 0 THEN next_data_index
                    ELSE After[k - 1] + IF Stuffed(After[k - 1]) THEN 2 ELSE 1]
<1>b. IndexAfter(m) = F[m]
  BY DEF IndexAfter
<1>c. \A p : Stuffed(p) <=> StuffedAt(file, p)
  BY DEF Stuffed, StuffedAt, ByteAt, ByteOf
<1> DEFINE G(n, x) == x + IF Stuffed(x) THEN 2 ELSE 1
           step == [q \in Nat \X Nat |->
                       IF q[1] \in 0 .. m /\ q[1] # 0 THEN G(q[1], q[2]) ELSE next_data_index]
<1>1. next_data_index \in Nat /\ \A n \in 0 .. m, x \in Nat : n # 0 => G(n, x) \in Nat
  OBVIOUS
<1>2. IsInitial(0 .. m)
  BY NatIsInitial
<1>3. step \in StepsOf(Nat) /\ \A n \in 0 .. m, x \in Nat : n # 0 => step[<<n, x>>] = G(n, x)
  <2> HIDE DEF G
  <2> QED
    BY <1>1, <1>2 DEF StepsOf, IsInitial
<1>4. \E g : IsRecursive(g, 0 .. m, Nat, next_data_index, step)
  <2> HIDE DEF step, G
  <2> QED
    BY <1>1, <1>2, <1>3, Recursion
<1>5. \E g : g = [n \in 0 .. m |-> IF n = 0 THEN next_data_index ELSE G(n, g[n - 1])]
  <2>1. PICK g : IsRecursive(g, 0 .. m, Nat, next_data_index, step)
    BY <1>4
  <2> HIDE DEF step, G
  <2>2. \A n \in 0 .. m : n # 0 => step[<<n, g[n - 1]>>] = G(n, g[n - 1])
    BY <1>2, <1>3, <2>1 DEF IsRecursive, IsInitial
  <2>3. g = [n \in 0 .. m |-> IF n = 0 THEN next_data_index ELSE G(n, g[n - 1])]
    BY <2>1, <2>2 DEF IsRecursive
  <2> QED
    BY <2>3
<1> HIDE DEF step
<1>6. F = [n \in 0 .. m |-> IF n = 0 THEN next_data_index ELSE G(n, F[n - 1])]
  BY <1>5 DEF F
<1> HIDE DEF G
<1>7. 0 \in 0 .. m => F[0] = next_data_index
  BY <1>6
<1>8. \A n \in 0 .. m : n # 0 => F[n] = G(n, F[n - 1])
  BY <1>6
<1>9. \A n \in 0 .. m : F[n] \in Nat
  <2> DEFINE h == F
  <2>1. \A n \in 0 .. m : n # 0 /\ h[n - 1] \in Nat => h[n] \in Nat
    BY <1>1, <1>8
  <2>2. 0 \in 0 .. m => h[0] \in Nat
    BY <1>1, <1>7
  <2> HIDE DEF h
  <2>3. \A n \in 0 .. m : h[n] \in Nat
    BY <1>2, <2>1, <2>2, AlongRecursion
  <2> QED
    BY <2>3 DEF h
<1>10. \A n \in 1 .. m : F[n] = F[n - 1] + IF StuffedAt(file, F[n - 1]) THEN 2 ELSE 1
  <2>1. \A n \in 1 .. m : n \in 0 .. m /\ n # 0
    OBVIOUS
  <2>2. \A n \in 1 .. m : F[n] = F[n - 1] + IF Stuffed(F[n - 1]) THEN 2 ELSE 1
    BY <1>8, <2>1 DEF G
  <2> HIDE DEF F
  <2> QED
    BY <1>c, <2>2
<1>11. F[0] = next_data_index
  BY <1>7
<1> HIDE DEF F
<1> QED
  BY <1>b, <1>9, <1>10, <1>11

\* From the place of byte k it leads to that of byte k + m.
LEMMA IndexAfterIsPlace ==
    ASSUME NEW k \in Nat, next_data_index = Place(file, k), NEW m \in Nat
    PROVE  IndexAfter(m) = Place(file, k + m)
<1>0. next_data_index \in Nat
  BY PlacesFacts
<1>1. PICK F : /\ F[0] = next_data_index
               /\ \A n \in 1 .. m : F[n] = F[n - 1] + IF StuffedAt(file, F[n - 1]) THEN 2 ELSE 1
               /\ IndexAfter(m) = F[m]
  BY <1>0, IndexAfterFacts
<1> DEFINE S == {n \in Nat : n <= m => F[n] = Place(file, k + n)}
<1>2. 0 \in S
  BY <1>1
<1>3. ASSUME NEW n \in S
      PROVE  n + 1 \in S
  <2>1. SUFFICES ASSUME n + 1 <= m
                 PROVE  F[n + 1] = Place(file, k + (n + 1))
    OBVIOUS
  <2>2. /\ n + 1 \in 1 .. m /\ (n + 1) - 1 = n /\ k + (n + 1) = (k + n) + 1 /\ k + n \in Nat
        /\ n \in Nat /\ n <= m
    BY <2>1
  <2>3. F[n] = Place(file, k + n)
    BY <2>2
  <2> QED
    BY <1>1, <2>2, <2>3, PlacesFacts
<1>4. S = Nat
  <2>1. S \in SUBSET Nat
    OBVIOUS
  <2> HIDE DEF S
  <2> QED
    BY <1>2, <1>3, <2>1, SetInduction
<1>5. m \in S
  <2> HIDE DEF S
  <2> QED
    BY <1>4
<1> QED
  BY <1>1, <1>5

\* It never goes back, and skips nothing in a PNG file.
LEMMA IndexAfterGrows ==
    ASSUME NEW m \in Nat, next_data_index \in Nat
    PROVE  /\ IndexAfter(m) \in Nat /\ IndexAfter(m) >= next_data_index
           /\ ~file.jpeg => IndexAfter(m) = next_data_index + m
<1>1. PICK F : /\ \A n \in 0 .. m : F[n] \in Nat
               /\ F[0] = next_data_index
               /\ \A n \in 1 .. m : F[n] = F[n - 1] + IF StuffedAt(file, F[n - 1]) THEN 2 ELSE 1
               /\ IndexAfter(m) = F[m]
  BY IndexAfterFacts
<1> DEFINE S == {n \in Nat : n <= m => /\ F[n] >= next_data_index
                                       /\ ~file.jpeg => F[n] = next_data_index + n}
<1>2. 0 \in S
  BY <1>1
<1>3. ASSUME NEW n \in S
      PROVE  n + 1 \in S
  <2>1. SUFFICES ASSUME n + 1 <= m
                 PROVE  /\ F[n + 1] >= next_data_index
                        /\ ~file.jpeg => F[n + 1] = next_data_index + (n + 1)
    OBVIOUS
  <2>2. /\ n + 1 \in 1 .. m /\ (n + 1) - 1 = n /\ n \in Nat /\ n <= m /\ n \in 0 .. m
    BY <2>1
  <2>3. F[n] \in Nat /\ F[n] >= next_data_index /\ (~file.jpeg => F[n] = next_data_index + n)
    BY <1>1, <2>2
  <2>4. F[n + 1] = F[n] + IF StuffedAt(file, F[n]) THEN 2 ELSE 1
    BY <1>1, <2>2
  <2>5. ~file.jpeg => ~StuffedAt(file, F[n])
    BY DEF StuffedAt
  <2> QED
    BY <2>2, <2>3, <2>4, <2>5
<1>4. S = Nat
  <2>1. S \in SUBSET Nat
    OBVIOUS
  <2> HIDE DEF S
  <2> QED
    BY <1>2, <1>3, <2>1, SetInduction
<1>5. m \in S
  <2> HIDE DEF S
  <2> QED
    BY <1>4
<1> QED
  BY <1>1, <1>5

\* The stream's part of TypeOK.
StreamType == next_data_index \in Nat /\ buffer \in Seq(Bit) /\ Len(buffer) <= BufferBits

\* Bytes are numbers, and have bits.
LEMMA ByteFacts ==
    ASSUME NEW f \in Files, NEW p \in Nat
    PROVE  ByteOf(f, p) \in Nat
<1>1. f.data \in Seq(Byte) /\ f.behind \in Byte
  BY FileFacts
<1>2. Byte \subseteq Nat
  BY DEF Byte
<1>3. CASE p < Len(f.data)
  <2>1. p + 1 \in 1 .. Len(f.data)
    BY <1>1, <1>3
  <2>2. f.data[p + 1] \in Byte
    BY <1>1, <2>1, ElementOfSeq
  <2> QED
    BY <1>2, <1>3, <2>2 DEF ByteOf
<1>4. CASE ~(p < Len(f.data))
  BY <1>1, <1>2, <1>4 DEF ByteOf
<1> QED
  BY <1>3, <1>4

LEMMA BitsOfFacts ==
    ASSUME NEW byte \in Nat, NEW r \in 0 .. ByteBits - 1
    PROVE  BitsOf(byte)[r + 1] = BitOf(file, byte, r) /\ BitOf(file, byte, r) \in Bit
<1>1. ByteBits \in Nat /\ r \in Nat /\ r + 1 \in 1 .. ByteBits
      /\ ByteBits - (r + 1) = ByteBits - 1 - r /\ ByteBits - 1 - r \in Nat /\ (r + 1) - 1 = r
  BY SizeAssumption
<1>2. BitsOf(byte)[r + 1] = BitOf(file, byte, r)
  BY <1>1 DEF BitsOf, BitOf
<1>3. ASSUME NEW e \in Nat
      PROVE  (byte \div 2^e) % 2 \in Bit
  <2>1. PICK p \in Nat : p = 2^e /\ p > 0
    BY PowerFacts
  <2>2. PICK q \in Nat : q = byte \div p
    BY <2>1, Division
  <2>3. q % 2 \in {0, 1}
    OBVIOUS
  <2> QED
    BY <2>1, <2>2, <2>3 DEF Bit
<1>4. BitOf(file, byte, r) \in Bit
  BY <1>1, <1>3 DEF BitOf
<1> QED
  BY <1>2, <1>4

\* What fill_buffer takes from the place of byte k are the data's bits from there.
LEMMA NewBitsFacts ==
    ASSUME file \in Files, next_data_index \in Nat, NEW m \in Nat
    PROVE  /\ NewBits(m) \in Seq(Bit) /\ Len(NewBits(m)) = m * ByteBits
           /\ \A k \in Nat : next_data_index = Place(file, k) =>
                  \A b \in 1 .. m * ByteBits :
                      NewBits(m)[b] = DataBit(file, k * ByteBits + b - 1)
<1>1. PICK y \in Nat : y = ByteBits /\ y > 0
  BY SizeAssumption
<1>2. PICK t \in Nat : t = m * y
  BY Products
<1>3. ASSUME NEW b \in 1 .. t
      PROVE  \E q \in Nat, r \in 0 .. y - 1 :
                 /\ (b - 1) \div y = q /\ (b - 1) % y = r /\ b - 1 = q * y + r
                 /\ NewBits(m)[b] = BitOf(file, ByteOf(file, IndexAfter(q)), r)
                 /\ NewBits(m)[b] \in Bit
  <2>1. b - 1 \in Nat
    BY <1>2
  <2>2. PICK q \in Nat, r \in Nat :
            q = (b - 1) \div y /\ r = (b - 1) % y /\ r < y /\ b - 1 = q * y + r
    BY <1>1, <2>1, Division
  <2>3. NewBits(m)[b] = BitsOf(ByteAt(IndexAfter(q)))[r + 1]
    BY <1>1, <1>2, <2>2 DEF NewBits
  <2>4. IndexAfter(q) \in Nat
    BY IndexAfterGrows
  <2>5. ByteAt(IndexAfter(q)) = ByteOf(file, IndexAfter(q)) /\ ByteOf(file, IndexAfter(q)) \in Nat
    BY <2>4, ByteFacts DEF ByteAt, ByteOf
  <2>6. r \in 0 .. ByteBits - 1
    BY <1>1, <2>2
  <2>7. NewBits(m)[b] = BitOf(file, ByteOf(file, IndexAfter(q)), r) /\ NewBits(m)[b] \in Bit
    BY <2>3, <2>5, <2>6, BitsOfFacts
  <2> QED
    BY <1>1, <2>2, <2>6, <2>7
<1>4. NewBits(m) \in [1 .. t -> Bit]
  <2>1. NewBits(m) = [b \in 1 .. t |-> NewBits(m)[b]]
    BY <1>1, <1>2 DEF NewBits
  <2> QED
    BY <1>3, <2>1
<1>5. NewBits(m) \in Seq(Bit) /\ Len(NewBits(m)) = t
  BY <1>2, <1>4
<1>6. ASSUME NEW k \in Nat, next_data_index = Place(file, k), NEW b \in 1 .. t
      PROVE  NewBits(m)[b] = DataBit(file, k * ByteBits + b - 1)
  <2>1. PICK q \in Nat, r \in 0 .. y - 1 :
            /\ b - 1 = q * y + r
            /\ NewBits(m)[b] = BitOf(file, ByteOf(file, IndexAfter(q)), r)
    BY <1>3
  <2>2. IndexAfter(q) = Place(file, k + q)
    BY <1>6, IndexAfterIsPlace
  <2>3. k * y + b - 1 = (k + q) * y + r
    <3>1. (k + q) * y = k * y + q * y
      OBVIOUS
    <3>2. k * y \in Nat /\ q * y \in Nat
      BY Products
    <3>3. PICK c \in Nat, d \in Nat : c = k * y /\ d = q * y
      BY <3>2
    <3>4. b \in Nat /\ r \in Nat /\ b - 1 = d + r /\ (k + q) * y = c + d
      BY <1>2, <2>1, <3>1, <3>3
    <3>5. c + b - 1 = (c + d) + r
      BY <3>4
    <3> QED
      BY <3>3, <3>4, <3>5
  <2>4. r \in Nat /\ r < y /\ k + q \in Nat
    BY <1>1
  <2>5. ((k + q) * y + r) \div y = k + q /\ ((k + q) * y + r) % y = r
    BY <1>1, <2>4, DivisionUnique
  <2> QED
    BY <1>1, <2>1, <2>2, <2>3, <2>5 DEF DataBit
<1> QED
  BY <1>1, <1>2, <1>5, <1>6

\* What ensure_filled(n) asks for is what is left of the buffer, or of the file.
LEMMA MissingFacts ==
    ASSUME file \in Files, StreamType, NEW n, Needs(n), ~Overruns(n)
    PROVE  /\ Missing \in Nat
           /\ Len(buffer) + Missing * ByteBits <= BufferBits
           /\ next_data_index + Missing <= Len(file.data)
           /\ \/ Len(buffer) + Missing * ByteBits > BufferBits - ByteBits
              \/ next_data_index + Missing = Len(file.data)
<1>1. PICK y \in Nat : y = ByteBits /\ y > 0
  BY SizeAssumption
<1>2. PICK l \in Nat, z \in Nat, i \in Nat, e \in Nat :
          /\ l = Len(buffer) /\ z = BufferBits /\ l <= z /\ i = next_data_index
          /\ e = Len(file.data)
  <2>1. BufferBits \in Nat
    BY SizeAssumption, Products DEF BufferBits
  <2>2. Len(file.data) \in Nat
    BY FileFacts, LenProperties
  <2>3. next_data_index \in Nat /\ Len(buffer) \in Nat /\ Len(buffer) <= BufferBits
    BY LenProperties DEF StreamType
  <2> QED
    BY <2>1, <2>2, <2>3
<1>3. z - l \in Nat
  BY <1>2
<1>4. PICK m \in Nat, r \in Nat : m = (z - l) \div y /\ r < y /\ z - l = m * y + r
  BY <1>1, <1>3, Division
<1>5. Missing = IF i + m > e THEN e - i ELSE m
  BY <1>1, <1>2, <1>4 DEF Missing
<1>6. PICK c \in Nat : c = m * y
  BY Products
<1>7. ~(Missing < 0)
  BY DEF Overruns
<1>8. CASE i + m > e
  <2>1. Missing = e - i /\ Missing \in Nat /\ Missing <= m
    BY <1>5, <1>7, <1>8
  <2>2. PICK k \in Nat : k = Missing
    BY <2>1
  <2>3. k * y <= m * y /\ k * y \in Nat
    <3>1. PICK d \in Nat : m = k + d
      BY <2>1, <2>2, m - k \in Nat
    <3>2. (k + d) * y = k * y + d * y /\ d * y \in Nat /\ k * y \in Nat
      OBVIOUS
    <3> QED
      BY <3>1, <3>2
  <2>4. l + k * y <= z
    BY <1>2, <1>4, <1>6, <2>3
  <2> QED
    BY <1>1, <1>2, <2>1, <2>2, <2>4
<1>9. CASE ~(i + m > e)
  <2>1. Missing = m /\ i + m <= e
    BY <1>5, <1>9
  <2>2. l + m * y <= z /\ l + m * y > z - y
    BY <1>2, <1>4, <1>6
  <2> QED
    BY <1>1, <1>2, <2>1, <2>2
<1> QED
  BY <1>8, <1>9

\* The buffer holds the bits of the data from c on, up to the end of byte k.
Holds(c, k, bits, index) ==
    /\ index = Place(file, k)
    /\ Len(bits) = k * ByteBits - c
    /\ \A b \in 1 .. Len(bits) : bits[b] = DataBit(file, c + b - 1)

\* The filled buffer is no larger than the register.
LEMMA FilledType ==
    ASSUME file \in Files, StreamType, NEW n, ~Overruns(n)
    PROVE  /\ Filled(n) \in Seq(Bit) /\ Len(Filled(n)) <= BufferBits
           /\ FilledIndex(n) \in Nat /\ FilledIndex(n) >= next_data_index
           /\ ~file.jpeg /\ next_data_index <= Len(file.data) => FilledIndex(n) <= Len(file.data)
<1>1. CASE ~Needs(n)
  BY <1>1 DEF Filled, FilledIndex, StreamType
<1>2. CASE Needs(n)
  <2>1. PICK m \in Nat : /\ m = Missing /\ Len(buffer) + m * ByteBits <= BufferBits
                         /\ next_data_index + m <= Len(file.data)
    BY <1>2, MissingFacts
  <2>2. NewBits(m) \in Seq(Bit) /\ Len(NewBits(m)) = m * ByteBits
    BY <2>1, NewBitsFacts DEF StreamType
  <2>3. Filled(n) = buffer \o NewBits(m) /\ FilledIndex(n) = IndexAfter(m)
    BY <1>2, <2>1 DEF Filled, FilledIndex
  <2>4. Filled(n) \in Seq(Bit) /\ Len(Filled(n)) = Len(buffer) + m * ByteBits
    BY <2>2, <2>3, ConcatProperties DEF StreamType
  <2> QED
    BY <2>1, <2>3, <2>4, IndexAfterGrows DEF StreamType
<1> QED
  BY <1>1, <1>2

\* Filling the buffer keeps it in step with the data; afterwards it holds what
\* was asked for, or is full, or the file is at its end.
LEMMA FilledHolds ==
    ASSUME file \in Files, StreamType, NEW n, ~Overruns(n),
           NEW c \in Nat, NEW k \in Nat, Holds(c, k, buffer, next_data_index)
    PROVE  \E j \in Nat : /\ j >= k
                          /\ Holds(c, j, Filled(n), FilledIndex(n))
                          /\ \/ ~Needs(n)
                             \/ Len(Filled(n)) > BufferBits - ByteBits
                             \/ FilledIndex(n) >= Len(file.data)
<1>1. CASE ~Needs(n)
  BY <1>1 DEF Filled, FilledIndex
<1>2. CASE Needs(n)
  <2>1. PICK m \in Nat : /\ m = Missing
                         /\ \/ Len(buffer) + m * ByteBits > BufferBits - ByteBits
                            \/ next_data_index + m = Len(file.data)
    BY <1>2, MissingFacts
  <2>2. /\ NewBits(m) \in Seq(Bit) /\ Len(NewBits(m)) = m * ByteBits
        /\ \A b \in 1 .. m * ByteBits : NewBits(m)[b] = DataBit(file, k * ByteBits + b - 1)
    BY <2>1, NewBitsFacts DEF StreamType, Holds
  <2>3. Filled(n) = buffer \o NewBits(m) /\ FilledIndex(n) = IndexAfter(m)
    BY <1>2, <2>1 DEF Filled, FilledIndex
  <2>4. /\ Filled(n) \in Seq(Bit) /\ Len(Filled(n)) = Len(buffer) + m * ByteBits
        /\ \A b \in 1 .. Len(Filled(n)) :
               Filled(n)[b] = IF b <= Len(buffer) THEN buffer[b] ELSE NewBits(m)[b - Len(buffer)]
    <3>1. buffer \in Seq(Bit)
      BY DEF StreamType
    <3> HIDE DEF StreamType
    <3>2. /\ buffer \o NewBits(m) \in Seq(Bit)
          /\ Len(buffer \o NewBits(m)) = Len(buffer) + Len(NewBits(m))
          /\ \A b \in 1 .. Len(buffer) + Len(NewBits(m)) :
                 (buffer \o NewBits(m))[b] =
                     IF b <= Len(buffer) THEN buffer[b] ELSE NewBits(m)[b - Len(buffer)]
      BY <2>2, <3>1, ConcatProperties
    <3> QED
      BY <2>2, <2>3, <3>2
  <2>5. PICK x \in Nat, u \in Nat, l \in Nat :
            /\ x = k * ByteBits /\ u = m * ByteBits /\ l = Len(buffer) /\ l = x - c
            /\ (k + m) * ByteBits = x + u
    <3>1. PICK y \in Nat : y = ByteBits
      BY SizeAssumption
    <3>2. k * y \in Nat /\ m * y \in Nat /\ (k + m) * y = k * y + m * y
      OBVIOUS
    <3>3. Len(buffer) \in Nat /\ Len(buffer) = k * y - c
      BY <3>1 DEF StreamType, Holds
    <3> QED
      BY <3>1, <3>2, <3>3
  <2>6. Len(Filled(n)) = (k + m) * ByteBits - c
    BY <2>4, <2>5
  <2>7. ASSUME NEW b \in 1 .. Len(Filled(n))
        PROVE  Filled(n)[b] = DataBit(file, c + b - 1)
    <3>1. b \in Nat /\ b >= 1 /\ b <= l + u
      BY <2>4, <2>5
    <3>2. CASE b <= l
      <4>1. b \in 1 .. Len(buffer)
        BY <2>5, <3>1, <3>2
      <4>2. buffer[b] = DataBit(file, c + b - 1)
        BY <4>1 DEF Holds
      <4> QED
        BY <2>4, <2>5, <3>2, <4>2
    <3>3. CASE ~(b <= l)
      <4>1. b - l \in 1 .. u /\ x + (b - l) - 1 = c + b - 1
        <5>1. x \in Nat /\ u \in Nat /\ l \in Nat /\ l = x - c /\ c \in Nat
          BY <2>5
        <5> QED
          BY <3>1, <3>3, <5>1
      <4>2. NewBits(m)[b - l] = DataBit(file, k * ByteBits + (b - l) - 1)
        BY <2>2, <2>5, <4>1
      <4>3. NewBits(m)[b - l] = DataBit(file, c + b - 1)
        BY <2>5, <4>1, <4>2
      <4> QED
        BY <2>4, <2>5, <3>3, <4>1, <4>3
    <3> QED
      BY <3>2, <3>3
  <2>8. FilledIndex(n) = Place(file, k + m)
    BY <2>3, IndexAfterIsPlace DEF Holds
  <2>9. Holds(c, k + m, Filled(n), FilledIndex(n))
    BY <2>6, <2>7, <2>8 DEF Holds
  <2>10. Len(Filled(n)) > BufferBits - ByteBits \/ FilledIndex(n) >= Len(file.data)
    <3>1. CASE Len(buffer) + m * ByteBits > BufferBits - ByteBits
      BY <2>4, <3>1
    <3>2. CASE next_data_index + m = Len(file.data)
      <4>1. Place(file, k) + m <= Place(file, k + m)
        BY PlaceGrows
      <4> QED
        BY <2>8, <3>2, <4>1 DEF Holds
    <3> QED
      BY <2>1, <3>1, <3>2
  <2>11. k + m \in Nat /\ k + m >= k
    OBVIOUS
  <2> QED
    BY <2>9, <2>10, <2>11
<1> QED
  BY <1>1, <1>2

\* Reading len bits.
LEMMA AdvanceHolds ==
    ASSUME NEW n, Filled(n) \in Seq(Bit), NEW len \in Nat, Advance(n, len),
           NEW c \in Nat, NEW k \in Nat, Holds(c, k, Filled(n), FilledIndex(n)), file' = file
    PROVE  Holds(c + len, k, buffer, next_data_index)'
<1>1. PICK l \in Nat : l = Len(Filled(n)) /\ len <= l
  BY DEF Advance
<1>2. buffer' = SubSeq(Filled(n), len + 1, l) /\ next_data_index' = FilledIndex(n)
  BY <1>1 DEF Advance
<1>3. /\ Len(buffer') = l - len
      /\ \A b \in 1 .. l - len : buffer'[b] = Filled(n)[len + b]
  <2>1. len + 1 \in 1 .. l + 1 /\ l \in len .. l
    BY <1>1
  <2> QED
    BY <1>1, <1>2, <2>1, SubSeqProperties
<1>4. PICK x \in Int : x = k * ByteBits /\ l = x - c
  <2>1. k * ByteBits \in Nat
    BY SizeAssumption, Products
  <2> QED
    BY <1>1, <2>1 DEF Holds
<1>5. Len(buffer') = k * ByteBits - (c + len)
  BY <1>1, <1>3, <1>4
<1>6. ASSUME NEW b \in 1 .. Len(buffer')
      PROVE  buffer'[b] = DataBit(file, (c + len) + b - 1)
  <2>1. b \in 1 .. l - len /\ len + b \in 1 .. l /\ c + (len + b) - 1 = (c + len) + b - 1
    BY <1>1, <1>3
  <2>2. Filled(n)[len + b] = DataBit(file, c + (len + b) - 1)
    BY <1>1, <2>1 DEF Holds
  <2> QED
    BY <1>3, <2>1, <2>2
<1>7. next_data_index' = Place(file, k)
  BY <1>2 DEF Holds
<1> QED
  BY <1>5, <1>6, <1>7 DEF Holds

\* Reading keeps the types of the stream.
LEMMA AdvanceType ==
    ASSUME file \in Files, StreamType, ~file.jpeg => next_data_index <= Len(file.data),
           NEW n, ~Overruns(n), NEW len \in Nat, Advance(n, len)
    PROVE  /\ next_data_index' \in Nat /\ next_data_index' >= next_data_index
           /\ next_data_index' = FilledIndex(n)
           /\ buffer' \in Seq(Bit) /\ Len(buffer') <= BufferBits
           /\ ~file.jpeg => next_data_index' <= Len(file.data)
<1>1. /\ Filled(n) \in Seq(Bit) /\ Len(Filled(n)) <= BufferBits
      /\ FilledIndex(n) \in Nat /\ FilledIndex(n) >= next_data_index
      /\ ~file.jpeg => FilledIndex(n) <= Len(file.data)
  BY FilledType
<1>2. next_data_index' = FilledIndex(n)
  BY DEF Advance
<1>3. PICK l \in Nat, z \in Nat : l = Len(Filled(n)) /\ z = BufferBits /\ l <= z /\ len <= l
  <2>1. BufferBits \in Nat
    BY SizeAssumption, Products DEF BufferBits
  <2>2. Len(Filled(n)) \in Nat
    BY <1>1, LenProperties
  <2>3. len <= Len(Filled(n))
    BY DEF Advance
  <2> QED
    BY <1>1, <2>1, <2>2, <2>3
<1>4. buffer' = SubSeq(Filled(n), len + 1, l)
  BY <1>3 DEF Advance
<1>5. buffer' \in Seq(Bit) /\ Len(buffer') = l - len
  <2>1. len + 1 \in 1 .. l + 1 /\ l \in len .. l
    BY <1>3
  <2> QED
    BY <1>1, <1>3, <1>4, <2>1, SubSeqProperties
<1> QED
  BY <1>1, <1>2, <1>3, <1>5

\* get_bits gives as many bits as asked for: those of the buffer, then zeros.
LEMMA PeekFacts ==
    ASSUME NEW n \in Nat, Filled(n) \in Seq(Bit)
    PROVE  /\ Peek(n) \in Seq(Bit) /\ Len(Peek(n)) = n
           /\ \A b \in 1 .. n :
                  Peek(n)[b] = IF b <= Len(Filled(n)) THEN Filled(n)[b] ELSE 0
<1>1. Peek(n) = [b \in 1 .. n |-> IF b <= Len(Filled(n)) THEN Filled(n)[b] ELSE 0]
  BY DEF Peek
<1>2. ASSUME NEW b \in 1 .. n
      PROVE  (IF b <= Len(Filled(n)) THEN Filled(n)[b] ELSE 0) \in Bit
  <2>1. CASE b <= Len(Filled(n))
    <3>1. b \in 1 .. Len(Filled(n))
      BY <2>1, LenProperties
    <3>2. Filled(n)[b] \in Bit
      BY <3>1, ElementOfSeq
    <3> QED
      BY <2>1, <3>2
  <2>2. CASE ~(b <= Len(Filled(n)))
    BY <2>2 DEF Bit
  <2> QED
    BY <2>1, <2>2
<1>3. Peek(n) \in [1 .. n -> Bit]
  BY <1>1, <1>2
<1>4. Peek(n) \in Seq(Bit) /\ Len(Peek(n)) = n
  BY <1>3
<1> QED
  BY <1>1, <1>4

-----------------------------------------------------------------------------
(***************************************************************************)
(* What is read next                                                       *)
(***************************************************************************)

\* The bits ahead are the word of the next value.
LEMMA WordAhead ==
    ASSUME NEW f, f = file, f \in Files, NEW k \in DOMAIN f.sent, NEW j \in Nat,
           NEW bits \in Seq(Bit), NEW index, Holds(End(f, k - 1), j, bits, index),
           WholeFile(f) \/ index <= Len(f.data), NEW i, i = CodeOf(f, k)
    PROVE  \A b \in 1 .. Len(bits) :
               b <= f.lens[i] => bits[b] = (f.words[i] \div 2^(f.lens[i] - b)) % 2
<1> SUFFICES ASSUME NEW b \in 1 .. Len(bits), b <= f.lens[i]
             PROVE  bits[b] = (f.words[i] \div 2^(f.lens[i] - b)) % 2
  OBVIOUS
<1>1. PICK c \in Nat, L \in Nat, v \in Nat, t \in Nat :
          /\ c = End(f, k - 1) /\ L = f.lens[i] /\ v = f.sent[k].value /\ t = TotalBits(f)
          /\ c + L + v <= t
  <2>1. /\ f.lens[i] \in Nat /\ f.sent[k].value \in Nat
        /\ End(f, k - 1) \in Nat /\ TotalBits(f) \in Nat
        /\ End(f, k - 1) + f.lens[i] + f.sent[k].value <= TotalBits(f)
    BY ItemFacts
  <2> QED
    BY <2>1
<1>2. Len(bits) \in Nat /\ Len(bits) = j * ByteBits - c /\ j * ByteBits \in Nat
  <2>1. j * ByteBits \in Nat
    BY SizeAssumption, Products
  <2> QED
    BY <1>1, <2>1, LenProperties DEF Holds
<1>3. c + b - 1 \in Nat /\ c + b - 1 < j * ByteBits /\ c + b - 1 < TotalBits(f) /\ b \in 1 .. L
  <2>1. PICK x \in Nat : x = j * ByteBits /\ Len(bits) = x - c
    BY <1>2
  <2>2. Len(bits) = x - c
    BY <2>1
  <2>3. c + b - 1 \in Nat /\ c + b - 1 < x
    BY <2>2
  <2>4. c + b - 1 < t /\ b \in 1 .. L
    <3>1. c + L + v <= t
      BY <1>1
    <3>2. b \in Nat /\ 1 <= b /\ b <= L
      BY <1>1, <1>2
    <3> QED
      BY <3>1, <3>2
  <2> QED
    BY <1>1, <2>1, <2>3, <2>4
<1>4. Place(f, j) = index
  BY DEF Holds
<1>5. Held(f, c + b - 1)
  BY <1>3, <1>4, AheadIsHeld
<1>6. DataBit(f, c + b - 1) = (f.words[i] \div 2^(f.lens[i] - b)) % 2
  BY <1>1, <1>3, <1>5, StandardAssumption DEF HoldsItems
<1> QED
  BY <1>1, <1>6 DEF Holds

\* The bits ahead are the raw bits of the value just read.
LEMMA RawAhead ==
    ASSUME NEW f, f = file, f \in Files, NEW k \in DOMAIN f.sent, NEW i, i = CodeOf(f, k),
           NEW j \in Nat, NEW bits \in Seq(Bit), NEW index,
           Holds(End(f, k - 1) + f.lens[i], j, bits, index),
           WholeFile(f) \/ index <= Len(f.data)
    PROVE  \A b \in 1 .. Len(bits) :
               b <= f.sent[k].value =>
                   bits[b] = (f.sent[k].bits \div
                                  2^(IF f.jpeg THEN f.sent[k].value - b ELSE b - 1)) % 2
<1> SUFFICES ASSUME NEW b \in 1 .. Len(bits), b <= f.sent[k].value
             PROVE  bits[b] = (f.sent[k].bits \div
                                   2^(IF f.jpeg THEN f.sent[k].value - b ELSE b - 1)) % 2
  OBVIOUS
<1>1. PICK c \in Nat, L \in Nat, v \in Nat, t \in Nat :
          /\ c = End(f, k - 1) /\ L = f.lens[i] /\ v = f.sent[k].value /\ t = TotalBits(f)
          /\ c + L + v <= t
  <2>1. /\ f.lens[i] \in Nat /\ f.sent[k].value \in Nat
        /\ End(f, k - 1) \in Nat /\ TotalBits(f) \in Nat
        /\ End(f, k - 1) + f.lens[i] + f.sent[k].value <= TotalBits(f)
    BY ItemFacts
  <2> QED
    BY <2>1
<1>2. Len(bits) \in Nat /\ Len(bits) = j * ByteBits - (c + L) /\ j * ByteBits \in Nat
  <2>1. j * ByteBits \in Nat
    BY SizeAssumption, Products
  <2> QED
    BY <1>1, <2>1, LenProperties DEF Holds
<1>3. c + L + b - 1 \in Nat /\ c + L + b - 1 < j * ByteBits /\ c + L + b - 1 < TotalBits(f)
      /\ b \in 1 .. v
  <2>1. PICK x \in Nat : x = j * ByteBits /\ Len(bits) = x - (c + L)
    BY <1>2
  <2>2. Len(bits) = x - (c + L)
    BY <2>1
  <2>3. c + L + b - 1 \in Nat /\ c + L + b - 1 < x
    BY <2>2
  <2>4. c + L + b - 1 < t /\ b \in 1 .. v
    <3>1. c + L + v <= t
      BY <1>1
    <3>2. b \in Nat /\ 1 <= b /\ b <= v
      BY <1>1, <1>2
    <3> QED
      BY <3>1, <3>2
  <2> QED
    BY <1>1, <2>1, <2>3, <2>4
<1>4. Place(f, j) = index
  BY DEF Holds
<1>5. Held(f, c + L + b - 1)
  BY <1>3, <1>4, AheadIsHeld
<1>6. DataBit(f, c + L + b - 1) =
          (f.sent[k].bits \div 2^(IF f.jpeg THEN f.sent[k].value - b ELSE b - 1)) % 2
  BY <1>1, <1>3, <1>5, StandardAssumption DEF HoldsItems
<1> QED
  BY <1>1, <1>6 DEF Holds

\* The table's leaf for the next bits is that of the next value; also where the
\* file breaks off, if the stream can read as many bits as the leaf says.
LEMMA LeafFound ==
    ASSUME file \in Files, TableRight, NEW m, m = max_code_length_bits, Filled(m) \in Seq(Bit),
           NEW k \in DOMAIN file.sent, NEW i, i = CodeOf(file, k), NEW j \in Nat,
           Holds(End(file, k - 1), j, Filled(m), FilledIndex(m)),
           Whole \/ FilledIndex(m) <= Len(file.data), NEW leaf \in LeafsAhead,
           leaf.len <= Len(Filled(m)) \/ file.lens[i] <= Len(Filled(m))
    PROVE  leaf = LeafOf(file, i)
<1>1. m = Longest(file) /\ m \in 0 .. MaxLength /\ m \in Nat
  BY TableTerms, LongestFacts, FileFacts
<1> DEFINE bits == Peek(m)
<1>2. /\ bits \in Seq(Bit) /\ Len(bits) = m
      /\ \A b \in 1 .. m : bits[b] = IF b <= Len(Filled(m)) THEN Filled(m)[b] ELSE 0
  BY <1>1, PeekFacts
<1>3. PICK L \in Nat, w \in Nat :
          L = file.lens[i] /\ w = file.words[i] /\ w < 2^L /\ i \in HasCode(file)
  <2>1. file.lens[i] \in Nat /\ file.words[i] \in Nat /\ file.words[i] < 2^file.lens[i]
        /\ i \in HasCode(file)
    BY ItemFacts
  <2> QED
    BY <2>1
<1>4. L <= m
  BY <1>1, <1>3, LongestFacts
<1>5. PICK a \in Nat : a = Len(Filled(m))
  BY LenProperties
<1>6. \A b \in 1 .. a : b <= L => Filled(m)[b] = (w \div 2^(L - b)) % 2
  BY <1>3, <1>5, WordAhead DEF Whole
<1>7. ASSUME NEW h \in HasCode(file), High(bits)[file.lens[h]] = file.words[h]
      PROVE  leaf = LeafOf(file, h)
  <2>1. Number(bits) = IndexOf(file, bits)
    BY <1>2, NumberFacts DEF IndexOf
  <2>2. /\ IndexOf(file, bits) \in DOMAIN lookup_table
        /\ lookup_table[IndexOf(file, bits)] = LeafOf(file, h)
    BY <1>1, <1>2, <1>7 DEF TableRight
  <2> QED
    BY <2>1, <2>2 DEF LeafsAhead
<1> HIDE DEF bits
<1>8. CASE L <= a
  <2>1. \A b \in 1 .. L : bits[b] = (w \div 2^(L - b)) % 2
    <3>1. ASSUME NEW b \in 1 .. L
          PROVE  b \in 1 .. a /\ b \in 1 .. m /\ b <= L /\ b <= a
      BY <1>1, <1>4, <1>8
    <3> QED
      BY <1>2, <1>5, <1>6, <3>1
  <2>2. IsWord(bits, w, L)
    BY <2>1 DEF IsWord
  <2>3. High(bits)[L] = w
    BY <1>2, <1>3, <1>4, <2>2, HighOfWord
  <2> QED
    BY <1>3, <1>7, <2>3
<1>9. CASE ~(L <= a)
  <2> DEFINE word == [b \in 1 .. m |-> IF b <= L THEN (w \div 2^(L - b)) % 2 ELSE 0]
  <2>1. word \in Seq(Bit) /\ Len(word) = m
    <3>1. ASSUME NEW b \in 1 .. m
          PROVE  (IF b <= L THEN (w \div 2^(L - b)) % 2 ELSE 0) \in Bit
      <4>1. CASE b <= L
        <5>1. L - b \in Nat
          BY <4>1
        <5>2. PICK p \in Nat : p = 2^(L - b) /\ p > 0
          BY <5>1, PowerFacts
        <5>3. PICK q \in Nat : q = w \div p
          BY <5>2, Division
        <5>4. q % 2 \in {0, 1}
          OBVIOUS
        <5> QED
          BY <4>1, <5>2, <5>3, <5>4 DEF Bit
      <4>2. CASE ~(b <= L)
        BY <4>2 DEF Bit
      <4> QED
        BY <4>1, <4>2
    <3>2. word \in [1 .. m -> Bit]
      BY <3>1
    <3> HIDE DEF word
    <3> QED
      BY <1>1, <3>2
  <2>2. \A b \in 1 .. m : word[b] = IF b <= L THEN (w \div 2^(L - b)) % 2 ELSE 0
    OBVIOUS
  <2> HIDE DEF word
  <2>3. High(word)[L] = w
    <3>1. \A b \in 1 .. L : word[b] = (w \div 2^(L - b)) % 2
      <4>1. ASSUME NEW b \in 1 .. L
            PROVE  b \in 1 .. m /\ b <= L
        BY <1>1, <1>4
      <4> QED
        BY <2>2, <4>1
    <3>2. IsWord(word, w, L)
      BY <3>1 DEF IsWord
    <3> QED
      BY <1>3, <1>4, <2>1, <3>2, HighOfWord
  <2>4. \A b \in 1 .. a : word[b] = bits[b]
    <3>1. ASSUME NEW b \in 1 .. a
          PROVE  b \in 1 .. m /\ b <= L /\ b <= a
      BY <1>1, <1>4, <1>9
    <3> QED
      BY <1>2, <1>5, <1>6, <2>2, <3>1
  <2>5. \A b \in 1 .. m : bits[b] <= word[b]
    <3>1. ASSUME NEW b \in 1 .. m
          PROVE  bits[b] <= word[b]
      <4>1. bits[b] \in Bit /\ word[b] \in Bit
        BY <1>2, <2>1, ElementOfSeq
      <4>2. CASE b <= a
        <5>1. b \in 1 .. a
          BY <4>2
        <5> QED
          BY <2>4, <4>1, <5>1 DEF Bit
      <4>3. CASE ~(b <= a)
        BY <1>2, <1>5, <4>1, <4>3 DEF Bit
      <4> QED
        BY <4>2, <4>3
    <3> QED
      BY <3>1
  <2>6. High(bits)[m] <= High(word)[m]
    BY <1>1, <1>2, <2>1, <2>5, HighMonotone
  <2>7. High(word)[m] < (w + 1) * 2^(m - L)
    <3>1. m - L \in Nat /\ L + (m - L) = m
      BY <1>1, <1>4
    <3>2. PICK d \in Nat : d = m - L /\ L + d = m /\ L + d <= Len(word)
      BY <1>1, <2>1, <3>1
    <3>3. High(word)[L + d] < (High(word)[L] + 1) * 2^d
      BY <2>1, <3>2, HighRange
    <3> QED
      BY <2>3, <3>2, <3>3
  <2>8. High(bits)[m] < (w + 1) * 2^(m - L)
    <3>1. m \in 0 .. Len(bits) /\ m \in 0 .. Len(word)
      BY <1>1, <1>2, <2>1
    <3>2. High(bits)[m] \in Nat /\ High(word)[m] \in Nat
      BY <1>2, <2>1, <3>1, HighFacts
    <3>3. PICK p \in Nat : p = 2^(m - L)
      <4>1. m - L \in Nat
        BY <1>1, <1>4
      <4> QED
        BY <4>1, PowerFacts
    <3>4. PICK x \in Nat : x = (w + 1) * p
      BY Products, w + 1 \in Nat
    <3> QED
      BY <2>6, <2>7, <3>2, <3>3, <3>4
  <2>9. PICK h \in HasCode(file) : High(bits)[file.lens[h]] = file.words[h]
    BY <1>1, <1>2, <1>3, <2>8, Covered
  <2>10. leaf = LeafOf(file, h)
    BY <1>7, <2>9
  <2>11. leaf.len = file.lens[h]
    BY <2>10 DEF LeafOf
  <2>12. file.lens[h] \in Nat /\ file.lens[h] <= a /\ file.lens[h] <= m
    BY <1>1, <1>3, <1>5, <1>9, <2>9, <2>11, FileFacts, LongestFacts
  <2>13. High(word)[file.lens[h]] = High(bits)[file.lens[h]]
    <3>1. \A b \in 1 .. file.lens[h] : word[b] = bits[b]
      BY <2>4, <2>12
    <3> QED
      BY <1>2, <2>1, <2>12, <3>1, HighOfSame
  <2>14. h = i
    BY <1>3, <1>4, <2>1, <2>3, <2>9, <2>12, <2>13, PrefixFree
  <2> QED
    BY <2>10, <2>14
<1> QED
  BY <1>8, <1>9

\* The raw bits read are those of the item, also where more were looked at.
LEMMA BitsFound ==
    ASSUME file \in Files, NEW k \in DOMAIN file.sent, NEW i, i = CodeOf(file, k),
           NEW v, v = file.sent[k].value, NEW n \in Nat, v <= n, file.jpeg \/ n = v,
           Filled(n) \in Seq(Bit), NEW j \in Nat,
           Holds(End(file, k - 1) + file.lens[i], j, Filled(n), FilledIndex(n)),
           Whole \/ FilledIndex(n) <= Len(file.data), v <= Len(Filled(n))
    PROVE  Number(Peek(n)) \div 2^(n - v) = file.sent[k].bits
<1>1. v \in Nat /\ file.sent[k].bits \in Nat /\ file.sent[k].bits < 2^v
  BY ItemFacts
<1>2. PICK w \in Nat : w = file.sent[k].bits /\ w < 2^v
  BY <1>1
<1> DEFINE bits == Peek(n)
<1>3. /\ bits \in Seq(Bit) /\ Len(bits) = n
      /\ \A b \in 1 .. n : bits[b] = IF b <= Len(Filled(n)) THEN Filled(n)[b] ELSE 0
  BY PeekFacts
<1> HIDE DEF bits
<1>4. \A b \in 1 .. Len(Filled(n)) :
          b <= v => Filled(n)[b] = (w \div 2^(IF file.jpeg THEN v - b ELSE b - 1)) % 2
  BY <1>2, RawAhead DEF Whole
<1>5. \A b \in 1 .. v : bits[b] = (w \div 2^(IF file.jpeg THEN v - b ELSE b - 1)) % 2
  <2>1. ASSUME NEW b \in 1 .. v
        PROVE  b \in 1 .. Len(Filled(n)) /\ b <= v /\ b <= Len(Filled(n)) /\ b \in 1 .. n
    BY <1>1, LenProperties
  <2> QED
    BY <1>3, <1>4, <2>1
<1>6. CASE file.jpeg
  <2>1. IsWord(bits, w, v) /\ v <= Len(bits)
    BY <1>1, <1>3, <1>5, <1>6 DEF IsWord
  <2>2. High(bits)[v] = w
    BY <1>1, <1>2, <1>3, <2>1, HighOfWord
  <2>3. PICK d \in Nat : d = n - v /\ v + d = n /\ v + d <= Len(bits)
    <3>1. n - v \in Nat /\ v + (n - v) = n
      BY <1>1
    <3>2. v + (n - v) <= Len(bits)
      BY <1>3, <3>1
    <3> QED
      BY <3>1, <3>2
  <2>4. High(bits)[v + d] \div 2^d = High(bits)[v]
    BY <1>1, <1>3, <2>3, HighOfFirst
  <2>5. Number(bits) = High(bits)[n]
    BY <1>3, <1>6, NumberFacts
  <2> QED
    BY <1>2, <2>2, <2>3, <2>4, <2>5 DEF bits
<1>7. CASE ~file.jpeg
  <2>1. n = v /\ n - v = 0
    BY <1>1, <1>7
  <2>2. \A b \in 1 .. v : bits[b] = (w \div 2^(b - 1)) % 2
    BY <1>5, <1>7
  <2>3. v <= Len(bits)
    BY <1>1, <1>3, <2>1
  <2>4. Low(bits)[v] = w
    BY <1>1, <1>2, <1>3, <2>2, <2>3, LowOfBits
  <2>5. Number(bits) = w
    BY <1>3, <1>7, <2>1, <2>4, NumberFacts
  <2>6. w \div 1 = w
    OBVIOUS
  <2> QED
    BY <1>2, <2>1, <2>5, <2>6, PowerOfZero DEF bits
<1> QED
  BY <1>6, <1>7

\* The stream does not look past the end of the file while it still wants bits
\* of the data: the marker behind them is two bytes, and a code is no longer.
LEMMA NoOverrun ==
    ASSUME file \in Files, StreamType, Whole, ~file.jpeg => next_data_index <= Len(file.data),
           NEW c \in Nat, NEW k \in Nat, Holds(c, k, buffer, next_data_index),
           NEW l \in Nat, c + l <= TotalBits(file),
           NEW n \in Nat, n <= l + 2 * ByteBits
    PROVE  ~Overruns(n)
<1> SUFFICES ASSUME Overruns(n)
             PROVE  FALSE
  OBVIOUS
<1>1. PICK y \in Nat : y = ByteBits /\ y > 0
  BY SizeAssumption
<1>2. PICK d \in Nat, i \in Nat, b \in Nat, z \in Nat :
          d = Len(file.data) /\ i = next_data_index /\ b = Len(buffer) /\ z = BufferBits /\ b <= z
  <2>1. BufferBits \in Nat
    BY SizeAssumption, Products DEF BufferBits
  <2>2. Len(file.data) \in Nat
    BY FileFacts, LenProperties
  <2>3. next_data_index \in Nat /\ Len(buffer) \in Nat /\ Len(buffer) <= BufferBits
    BY LenProperties DEF StreamType
  <2> QED
    BY <2>1, <2>2, <2>3
<1>3. i > d
  <2>1. z - b \in Nat
    BY <1>2
  <2>2. PICK m \in Nat : m = (z - b) \div y
    BY <1>1, <2>1, Division
  <2>3. Missing = IF i + m > d THEN d - i ELSE m
    BY <1>1, <1>2, <2>2 DEF Missing
  <2>4. Missing < 0
    BY DEF Overruns
  <2> QED
    BY <1>2, <2>2, <2>3, <2>4
<1>4. file.jpeg
  BY <1>2, <1>3
<1>5. PICK t \in Nat : t = TotalBits(file)
  <2>1. Len(file.sent) \in Nat /\ 0 \in 0 .. Len(file.sent)
    BY FileFacts, LenProperties
  <2> QED
    BY <2>1, EndsGrow
<1>6. PICK e \in Nat, s \in Nat :
          /\ t <= e * y /\ s = file.marker /\ s + 2 <= d
          /\ Place(file, e + 2) <= s + 3 /\ Place(file, e + 1) = s + 1
  <2>1. file.marker \in Nat
    BY FileFacts
  <2> QED
    BY <1>1, <1>2, <1>4, <1>5, <2>1, MarkerFacts DEF Whole
<1>7. e + 2 <= k
  <2>1. Place(file, e + 1) < Place(file, k)
    <3>1. Place(file, k) = i
      BY <1>2 DEF Holds
    <3>2. s + 1 < i
      <4>1. s + 2 <= d /\ s \in Nat /\ d \in Nat /\ i \in Nat
        BY <1>6
      <4> QED
        BY <1>3, <4>1
    <3> QED
      BY <1>6, <3>1, <3>2
  <2>2. e + 1 < k
    BY <2>1, PlaceBefore, e + 1 \in Nat
  <2> QED
    BY <2>2
<1>8. e * y + 2 * y <= k * y
  <2>1. e + 2 \in Nat /\ (e + 2) * y = e * y + 2 * y
    OBVIOUS
  <2>2. (e + 2) * y <= k * y
    BY <1>7, <2>1, ProductGrows
  <2> QED
    BY <2>1, <2>2
<1>9. b = k * y - c
  BY <1>1, <1>2 DEF Holds
<1>10. PICK x \in Nat, u \in Nat : x = e * y /\ u = k * y
  BY Products
<1>11. b >= n
  <2>1. t <= x /\ x + 2 * y <= u /\ b = u - c /\ c + l <= t /\ n <= l + 2 * y
    BY <1>1, <1>5, <1>6, <1>8, <1>9, <1>10
  <2> QED
    BY <2>1, <1>1, <1>2, <1>5, <1>10
<1> QED
  BY <1>2, <1>11 DEF Overruns, Needs

\* In a whole file what the next read needs is in the filled buffer.
LEMMA EnoughAhead ==
    ASSUME file \in Files, Whole, NEW n \in Nat, Filled(n) \in Seq(Bit), Len(buffer) \in Nat,
           NEW c \in Nat, NEW j \in Nat, Holds(c, j, Filled(n), FilledIndex(n)),
           \/ ~Needs(n)
           \/ Len(Filled(n)) > BufferBits - ByteBits
           \/ FilledIndex(n) >= Len(file.data),
           NEW l \in Nat, c + l <= TotalBits(file), l <= n, l <= BufferBits - ByteBits + 1
    PROVE  l <= Len(Filled(n))
<1>1. PICK y \in Nat : y = ByteBits /\ y > 0
  BY SizeAssumption
<1>2. PICK z \in Nat, a \in Nat : z = BufferBits /\ a = Len(Filled(n))
  <2>1. BufferBits \in Nat
    BY SizeAssumption, Products DEF BufferBits
  <2> QED
    BY <2>1, LenProperties
<1>3. CASE ~Needs(n)
  <2>1. Filled(n) = buffer /\ ~(Len(buffer) < n)
    BY <1>3 DEF Filled, Needs
  <2> QED
    BY <2>1
<1>4. CASE Len(Filled(n)) > BufferBits - ByteBits
  <2>1. a > z - y /\ l <= z - y + 1
    BY <1>1, <1>2, <1>4
  <2>2. l <= a
    BY <1>1, <1>2, <2>1
  <2> QED
    BY <1>2, <2>2
<1>5. CASE FilledIndex(n) >= Len(file.data)
  <2>1. PICK e \in Nat : /\ TotalBits(file) <= e * ByteBits
                         /\ Place(file, e) = file.marker /\ file.marker < Len(file.data)
    BY MarkerFacts DEF Whole
  <2>2. e <= j
    <3>1. Place(file, e) \in Nat /\ Place(file, j) \in Nat /\ Len(file.data) \in Nat
      BY FileFacts, LenProperties, PlacesFacts
    <3>2. Place(file, e) < Place(file, j)
      BY <1>5, <2>1, <3>1 DEF Holds
    <3>3. e < j
      BY <3>2, PlaceBefore
    <3> QED
      BY <3>3
  <2>3. PICK x \in Nat, u \in Nat : x = e * y /\ u = j * y /\ x <= u
    BY <2>2, ProductGrows
  <2>4. a = u - c
    BY <1>1, <1>2, <2>3 DEF Holds
  <2>5. PICK t \in Nat : t = TotalBits(file)
    <3>1. Len(file.sent) \in Nat /\ 0 \in 0 .. Len(file.sent)
      BY FileFacts, LenProperties
    <3> QED
      BY <3>1, EndsGrow
  <2>6. t <= x /\ c + l <= t
    BY <1>1, <2>1, <2>3, <2>5
  <2>7. l <= a
    <3>1. x <= u /\ x \in Nat /\ u \in Nat
      BY <2>3
    <3> QED
      BY <1>2, <2>4, <2>5, <2>6, <3>1
  <2> QED
    BY <1>2, <2>7
<1> QED
  BY <1>3, <1>4, <1>5

-----------------------------------------------------------------------------
(***************************************************************************)
(* The inductive invariant                                                 *)
(***************************************************************************)

\* How many bits of the data have been read.
Consumed ==
    End(file, Len(received))
        + IF pc = "bits" THEN file.lens[CodeOf(file, Len(received) + 1)] ELSE 0

\* Stuffed zeros have not led the stream past the end of a file that breaks off.
Clean == Whole \/ next_data_index <= Len(file.data)

\* What was read is what was written, and the buffer goes on where it ends.
InStep ==
    /\ Len(received) <= Len(file.sent)
    /\ received = SubSeq(file.sent, 1, Len(received))
    /\ pc = "bits" => /\ Len(received) < Len(file.sent)
                      /\ value = file.sent[Len(received) + 1].value
    /\ pc = "end" => Len(received) = Len(file.sent)
    /\ pc # "garbage" => \E k \in Nat : Holds(Consumed, k, buffer, next_data_index)

\* The inductive invariant.  The parts about the table and the place in the data
\* are what the properties rest on: that symbols are recognised needs the table,
\* and that the next one is at the front of the buffer needs the place.
IInv ==
    /\ TypeOK
    /\ file \in Files
    /\ pc = "table" => next_data_index = 0 /\ buffer = <<>> /\ received = <<>>
    /\ pc # "table" => TableRight
    /\ Clean => InStep
    /\ ~file.jpeg => next_data_index <= Len(file.data)
    /\ pc = "end" /\ file.jpeg => position = next_data_index - Len(buffer) \div ByteBits
    /\ Whole => pc # "garbage"

\* One more element of the same sequence.
LEMMA PrefixGrows ==
    ASSUME NEW T, NEW sent \in Seq(T), NEW got \in Seq(T), NEW n \in Nat, n = Len(got),
           n < Len(sent), got = SubSeq(sent, 1, n), NEW e, e = sent[n + 1]
    PROVE  /\ Append(got, e) = SubSeq(sent, 1, n + 1) /\ Len(Append(got, e)) = n + 1
           /\ Append(got, e) \in Seq(T)
<1>1. Len(sent) \in Nat /\ n + 1 \in 1 .. Len(sent)
  BY LenProperties
<1>2. e \in T
  BY <1>1, ElementOfSeq
<1>3. /\ Append(got, e) \in Seq(T) /\ Len(Append(got, e)) = n + 1
      /\ \A i \in 1 .. n : Append(got, e)[i] = got[i]
      /\ Append(got, e)[n + 1] = e
  BY <1>2, AppendProperties
<1>4. /\ SubSeq(sent, 1, n + 1) \in Seq(T) /\ Len(SubSeq(sent, 1, n + 1)) = n + 1
      /\ \A i \in 1 .. n + 1 : SubSeq(sent, 1, n + 1)[i] = sent[i]
  BY <1>1, SubSeqProperties
<1>5. \A i \in 1 .. n : got[i] = sent[i]
  BY <1>1, SubSeqProperties
<1>6. \A i \in 1 .. n + 1 : Append(got, e)[i] = SubSeq(sent, 1, n + 1)[i]
  <2>1. ASSUME NEW i \in 1 .. n + 1
        PROVE  Append(got, e)[i] = SubSeq(sent, 1, n + 1)[i]
    <3>1. CASE i = n + 1
      BY <1>3, <1>4, <3>1
    <3>2. CASE i # n + 1
      <4>1. i \in 1 .. n
        BY <3>2
      <4> QED
        BY <1>3, <1>4, <1>5, <4>1
    <3> QED
      BY <3>1, <3>2
  <2> QED
    BY <2>1
<1>7. Append(got, e) = SubSeq(sent, 1, n + 1)
  BY <1>3, <1>4, <1>6, SeqEqual
<1> QED
  BY <1>3, <1>7

\* The invariant holds at the start, and each action keeps it.
LEMMA InvInit == Init => IInv
<1> SUFFICES ASSUME Init
             PROVE  IInv
  OBVIOUS
<1>1. file \in Files /\ Len(file.sent) \in Nat /\ Len(file.data) \in Nat
  BY FileFacts, LenProperties DEF Init
<1>2. BufferBits \in Nat
  BY SizeAssumption, Products DEF BufferBits
<1>3. <<>> \in Seq(Bit) /\ <<>> \in Seq(Items) /\ Len(<<>>) = 0
  OBVIOUS
<1>4. TypeOK
  <2>1. DOMAIN lookup_table = {}
    BY DEF Init
  <2> QED
    BY <1>2, <1>3, <2>1 DEF Init, TypeOK
<1>5. received = SubSeq(file.sent, 1, Len(received))
  <2>1. SubSeq(file.sent, 1, 0) = <<>>
    OBVIOUS
  <2> QED
    BY <1>3, <2>1 DEF Init
<1>6. Holds(Consumed, 0, buffer, next_data_index)
  <2>1. Consumed = 0
    <3>1. End(file, 0) = 0
      BY <1>1, EndsFacts
    <3> QED
      BY <1>3, <3>1 DEF Consumed, Init
  <2>2. Place(file, 0) = 0
    BY PlacesFacts
  <2>3. 0 * ByteBits = 0
    BY SizeAssumption
  <2> QED
    BY <1>3, <2>1, <2>2, <2>3 DEF Holds, Init
<1>7. InStep
  BY <1>1, <1>3, <1>5, <1>6 DEF InStep, Init
<1> QED
  BY <1>1, <1>4, <1>7 DEF IInv, Init

LEMMA InvTable == IInv /\ CodingTable_new => IInv'
<1> SUFFICES ASSUME IInv, CodingTable_new
             PROVE  IInv'
  OBVIOUS
<1>1. TypeOK /\ file \in Files /\ pc = "table"
  BY DEF IInv, CodingTable_new
<1>2. TableRight' /\ TableType'
  BY <1>1, TableBuilt
<1>3. pc' = "symbol" /\ UNCHANGED <<file, next_data_index, buffer, value, received, position>>
  BY DEF CodingTable_new
<1>4. TypeOK'
  BY <1>1, <1>2, <1>3 DEF TypeOK, TableType
<1>5. Clean' => InStep'
  <2> SUFFICES ASSUME Clean'
               PROVE  InStep'
    OBVIOUS
  <2>1. Clean
    BY <1>3 DEF Clean, Whole
  <2>2. InStep
    BY <2>1 DEF IInv
  <2>3. Consumed' = Consumed
    BY <1>1, <1>3 DEF Consumed
  <2>4. PICK k \in Nat : Holds(Consumed, k, buffer, next_data_index)
    BY <1>1, <2>2 DEF InStep
  <2>5. Holds(Consumed, k, buffer, next_data_index)'
    BY <1>3, <2>3, <2>4 DEF Holds
  <2> QED
    BY <1>3, <2>2, <2>5 DEF InStep
<1> QED
  BY <1>1, <1>2, <1>3, <1>4, <1>5 DEF IInv, Whole

\* The next item while the stream reads.
LEMMA AtItem ==
    ASSUME IInv, Clean, pc = "bits" \/ (pc = "symbol" /\ Len(received) < Len(file.sent))
    PROVE  \E n \in Nat, k \in Nat :
               /\ n = Len(received) /\ n + 1 \in DOMAIN file.sent /\ (n + 1) - 1 = n
               /\ n < Len(file.sent) /\ received = SubSeq(file.sent, 1, n)
               /\ pc = "symbol" => Consumed = End(file, n)
               /\ pc = "bits" => /\ value = file.sent[n + 1].value
                                 /\ Consumed = End(file, n) + file.lens[CodeOf(file, n + 1)]
               /\ Consumed \in Nat /\ Holds(Consumed, k, buffer, next_data_index)
<1>1. InStep /\ TypeOK /\ file \in Files
  BY DEF IInv
<1>2. PICK n \in Nat : n = Len(received) /\ n < Len(file.sent) /\ received = SubSeq(file.sent, 1, n)
  <2>1. Len(received) \in Nat
    BY <1>1, LenProperties DEF TypeOK
  <2> QED
    BY <1>1, <2>1 DEF InStep
<1>3. n + 1 \in DOMAIN file.sent /\ (n + 1) - 1 = n
  <2>1. file.sent \in Seq(Items)
    BY <1>1, FileFacts
  <2>2. Len(file.sent) \in Nat /\ DOMAIN file.sent = 1 .. Len(file.sent)
    BY <2>1, LenProperties
  <2> QED
    BY <1>2, <2>2
<1>4. /\ pc = "symbol" => Consumed = End(file, n) + 0
      /\ pc = "bits" => Consumed = End(file, n) + file.lens[CodeOf(file, n + 1)]
  BY <1>2 DEF Consumed
<1>5. End(file, n) \in Nat /\ file.lens[CodeOf(file, n + 1)] \in Nat
  <2>1. /\ End(file, (n + 1) - 1) \in Nat
        /\ file.lens[CodeOf(file, n + 1)] \in Nat
    BY <1>1, <1>3, ItemFacts
  <2> QED
    BY <1>3, <2>1
<1>6. PICK k \in Nat : Holds(Consumed, k, buffer, next_data_index)
  BY <1>1 DEF InStep
<1>7. /\ pc = "symbol" => Consumed = End(file, n)
      /\ Consumed \in Nat
  BY <1>4, <1>5
<1>8. pc = "bits" => value = file.sent[n + 1].value
  BY <1>1, <1>2 DEF InStep
<1> QED
  BY <1>2, <1>3, <1>4, <1>6, <1>7, <1>8

\* Any leaf that may be looked up, also where nothing was written.
LEMMA LeafType ==
    ASSUME TypeOK, file \in Files, NEW leaf \in LeafsAhead
    PROVE  leaf.value \in Nat /\ leaf.len \in Nat
<1> DEFINE index == Number(Peek(max_code_length_bits))
<1>1. CASE index \in DOMAIN lookup_table
  <2>1. leaf = lookup_table[index]
    BY <1>1 DEF LeafsAhead
  <2>2. leaf \in LookupLeaf
    BY <1>1, <2>1 DEF TypeOK
  <2> QED
    BY <2>2, FileFacts DEF LookupLeaf
<1>2. CASE index \notin DOMAIN lookup_table
  <2>1. leaf \in [value : {Value(i) : i \in Coded}, len : 0 .. MaxLength]
    BY <1>2 DEF LeafsAhead
  <2>2. leaf.len \in 0 .. MaxLength /\ leaf.value \in {Value(i) : i \in Coded}
    BY <2>1
  <2>3. PICK i \in HasCode(file) : leaf.value = ValueOf(file, i)
    BY <2>2, TableTerms
  <2> QED
    BY <2>2, <2>3, FileFacts, ValueFacts
<1> QED
  BY <1>1, <1>2

LEMMA InvLookup == IInv /\ lookup => IInv'
<1> SUFFICES ASSUME IInv, lookup
             PROVE  IInv'
  OBVIOUS
<1> DEFINE m == max_code_length_bits
<1>1. /\ TypeOK /\ file \in Files /\ TableRight /\ StreamType
      /\ ~file.jpeg => next_data_index <= Len(file.data)
  BY DEF IInv, lookup, TypeOK, StreamType
<1>2. /\ pc = "symbol" /\ Len(received) < Len(file.sent) /\ ~Overruns(m)
      /\ pc' = "bits" /\ UNCHANGED <<file, lookup_table, received, position>>
  BY DEF lookup
<1>3. PICK leaf \in LeafsAhead : Advance(m, leaf.len) /\ value' = leaf.value
  BY DEF lookup
<1>4. leaf.value \in Nat /\ leaf.len \in Nat
  BY <1>1, LeafType
<1> HIDE DEF m
<1>5. /\ next_data_index' \in Nat /\ next_data_index' >= next_data_index
      /\ next_data_index' = FilledIndex(m)
      /\ buffer' \in Seq(Bit) /\ Len(buffer') <= BufferBits
      /\ ~file.jpeg => next_data_index' <= Len(file.data)
  BY <1>1, <1>2, <1>3, <1>4, AdvanceType
<1>6. value' \in Nat /\ received' \in Seq(Items)
  BY <1>1, <1>2, <1>3, <1>4 DEF TypeOK
<1>7. TypeOK'
  BY <1>1, <1>2, <1>5, <1>6 DEF TypeOK
<1>8. Clean' => InStep'
  <2> SUFFICES ASSUME Clean'
               PROVE  InStep'
    OBVIOUS
  <2>1. Whole \/ FilledIndex(m) <= Len(file.data)
    BY <1>2, <1>5 DEF Clean, Whole
  <2>2. Clean
    <3>1. next_data_index \in Nat /\ Len(file.data) \in Nat
      BY <1>1, FileFacts, LenProperties DEF TypeOK
    <3> QED
      BY <1>5, <2>1, <3>1 DEF Clean
  <2>3. PICK n \in Nat, q \in Nat :
            /\ n = Len(received) /\ n + 1 \in DOMAIN file.sent /\ (n + 1) - 1 = n
            /\ n < Len(file.sent) /\ received = SubSeq(file.sent, 1, n)
            /\ End(file, n) \in Nat /\ Holds(End(file, n), q, buffer, next_data_index)
    BY <1>2, <2>2, AtItem
  <2> DEFINE i == CodeOf(file, n + 1)
             item == file.sent[n + 1]
  <2>0. PICK c \in Nat : c = End(file, n)
    BY <2>3
  <2>4. PICK j \in Nat : Holds(c, j, Filled(m), FilledIndex(m))
    BY <1>1, <1>2, <2>0, <2>3, FilledHolds
  <2>5. leaf = LeafOf(file, i)
    <3>1. Filled(m) \in Seq(Bit)
      BY <1>1, <1>2, FilledType
    <3>2. leaf.len <= Len(Filled(m))
      BY <1>3 DEF Advance
    <3>3. n + 1 \in DOMAIN file.sent /\ Holds(End(file, (n + 1) - 1), j, Filled(m), FilledIndex(m))
      BY <2>0, <2>3, <2>4
    <3> QED
      BY <1>1, <2>1, <3>1, <3>2, <3>3, LeafFound DEF m
  <2>6. /\ ValueOf(file, i) = item.value /\ file.lens[i] \in Nat /\ item \in Items
        /\ item.value \in Nat /\ item.bits \in Nat /\ item.bits < 2^item.value
        /\ item = [value |-> item.value, bits |-> item.bits]
        /\ End(file, n + 1) = c + file.lens[i] + item.value
    BY <1>1, <2>0, <2>3, ItemFacts
  <2>7. leaf.value = item.value /\ leaf.len = file.lens[i]
    BY <2>5, <2>6 DEF LeafOf
  <2>8. Holds(c + leaf.len, j, buffer, next_data_index)'
    <3>1. Filled(m) \in Seq(Bit)
      BY <1>1, <1>2, FilledType
    <3>2. file' = file
      BY <1>2
    <3> QED
      BY <1>3, <1>4, <2>4, <3>1, <3>2, AdvanceHolds
  <2>9. value' = item.value
    BY <1>3, <2>7
  <2>10. Consumed' = c + leaf.len
    BY <1>2, <2>0, <2>3, <2>7 DEF Consumed
  <2>11. Holds(Consumed, j, buffer, next_data_index)'
    BY <2>8, <2>10 DEF Holds
  <2>12. n <= Len(file.sent)
    BY <1>1, <2>3, FileFacts, LenProperties
  <2> QED
    BY <1>2, <2>3, <2>9, <2>11, <2>12 DEF InStep
<1>9. pc' # "table" /\ pc' # "end" /\ pc' # "garbage" /\ TableRight'
  BY <1>1, <1>2, <1>6 DEF TableRight
<1> QED
  BY <1>1, <1>2, <1>5, <1>7, <1>8, <1>9 DEF IInv

\* Taking a value's bits out of n bits looked at.
LEMMA InvTake ==
    ASSUME IInv, NEW n \in Nat, value <= n, file.jpeg \/ n = value,
           TakeBits(n, Number(Peek(n)) \div 2^(n - value))
    PROVE  IInv'
<1> DEFINE number == Number(Peek(n)) \div 2^(n - value)
<1>1. /\ TypeOK /\ file \in Files /\ TableRight /\ StreamType
      /\ ~file.jpeg => next_data_index <= Len(file.data)
      /\ value \in Nat
  BY DEF IInv, TakeBits, TypeOK, StreamType
<1>2. /\ pc = "bits" /\ ~Overruns(n) /\ Advance(n, value) /\ pc' = "symbol"
      /\ UNCHANGED <<file, lookup_table, value, position>>
      /\ received' = Append(received, [value |-> value, bits |-> number])
  BY DEF TakeBits, Receive
<1>3. /\ next_data_index' \in Nat /\ next_data_index' >= next_data_index
      /\ next_data_index' = FilledIndex(n)
      /\ buffer' \in Seq(Bit) /\ Len(buffer') <= BufferBits
      /\ ~file.jpeg => next_data_index' <= Len(file.data)
  BY <1>1, <1>2, AdvanceType
<1>4. Filled(n) \in Seq(Bit)
  BY <1>1, <1>2, FilledType
<1>5. number \in Nat
  <2>1. Peek(n) \in Seq(Bit) /\ Len(Peek(n)) = n
    BY <1>4, PeekFacts
  <2>2. n \in 0 .. Len(Peek(n))
    BY <2>1
  <2>3. Number(Peek(n)) \in Nat
    BY <2>1, <2>2, NumberFacts, HighFacts, LowFacts
  <2>4. n - value \in Nat
    BY <1>1
  <2>5. PICK p \in Nat : p = 2^(n - value) /\ p > 0
    BY <2>4, PowerFacts
  <2> QED
    BY <2>3, <2>5, Division
<1> HIDE DEF number
<1>6. TypeOK'
  <2>1. [value |-> value, bits |-> number] \in Items
    BY <1>1, <1>5 DEF Items
  <2>2. received' \in Seq(Items)
    BY <1>1, <1>2, <2>1, AppendProperties DEF TypeOK
  <2> QED
    BY <1>1, <1>2, <1>3, <2>2 DEF TypeOK
<1>7. Clean' => InStep'
  <2> SUFFICES ASSUME Clean'
               PROVE  InStep'
    OBVIOUS
  <2>1. Whole \/ FilledIndex(n) <= Len(file.data)
    BY <1>2, <1>3 DEF Clean, Whole
  <2>2. Clean
    <3>1. next_data_index \in Nat /\ Len(file.data) \in Nat
      BY <1>1, FileFacts, LenProperties DEF TypeOK
    <3> QED
      BY <1>3, <2>1, <3>1 DEF Clean
  <2>3. PICK r \in Nat, q \in Nat :
            /\ r = Len(received) /\ r + 1 \in DOMAIN file.sent /\ (r + 1) - 1 = r
            /\ r < Len(file.sent) /\ received = SubSeq(file.sent, 1, r)
            /\ value = file.sent[r + 1].value
            /\ Consumed = End(file, r) + file.lens[CodeOf(file, r + 1)]
            /\ Consumed \in Nat /\ Holds(Consumed, q, buffer, next_data_index)
    BY <1>2, <2>2, AtItem
  <2> DEFINE i == CodeOf(file, r + 1)
             item == file.sent[r + 1]
  <2>0. PICK c \in Nat, v \in Nat : c = Consumed /\ v = value
    BY <1>1, <2>3
  <2>4. PICK j \in Nat : Holds(c, j, Filled(n), FilledIndex(n))
    BY <1>1, <1>2, <2>0, <2>3, FilledHolds
  <2>5. number = item.bits
    <3>1. value <= Len(Filled(n))
      BY <1>2 DEF Advance
    <3>2. Holds(End(file, (r + 1) - 1) + file.lens[i], j, Filled(n), FilledIndex(n))
      BY <2>0, <2>3, <2>4
    <3>3. PICK k \in DOMAIN file.sent :
              /\ k = r + 1 /\ i = CodeOf(file, k) /\ value = file.sent[k].value
              /\ Holds(End(file, k - 1) + file.lens[i], j, Filled(n), FilledIndex(n))
      BY <2>3, <3>2
    <3> HIDE DEF i
    <3>0. value <= n /\ (file.jpeg \/ n = value) /\ n \in Nat
      OBVIOUS
    <3>4. Number(Peek(n)) \div 2^(n - value) = file.sent[k].bits
      <4>1. file \in Files
        BY <1>1
      <4> QED
        BY <1>4, <2>1, <3>0, <3>1, <3>3, <4>1, BitsFound, Zenon
    <3>5. Number(Peek(n)) \div 2^(n - value) = item.bits
      BY <3>3, <3>4
    <3> QED
      BY <3>5 DEF number
  <2>6. /\ item = [value |-> item.value, bits |-> item.bits]
        /\ End(file, r) \in Nat /\ file.lens[i] \in Nat /\ item.value \in Nat
        /\ End(file, r + 1) = End(file, r) + file.lens[i] + item.value
    <3>1. /\ item = [value |-> item.value, bits |-> item.bits]
          /\ End(file, (r + 1) - 1) \in Nat /\ file.lens[i] \in Nat /\ item.value \in Nat
          /\ End(file, r + 1) = End(file, (r + 1) - 1) + file.lens[i] + item.value
      BY <1>1, <2>3, ItemFacts
    <3> QED
      BY <2>3, <3>1
  <2>7. Holds(c + v, j, buffer, next_data_index)'
    <3>1. file' = file
      BY <1>2
    <3>2. Filled(n) \in Seq(Bit) /\ Advance(n, v) /\ Holds(c, j, Filled(n), FilledIndex(n))
      BY <1>2, <1>4, <2>0, <2>4
    <3> QED
      BY <3>1, <3>2, AdvanceHolds
  <2>8. received' = SubSeq(file.sent, 1, r + 1) /\ Len(received') = r + 1
    <3>1. received \in Seq(Items) /\ file.sent \in Seq(Items)
      BY <1>1, FileFacts DEF TypeOK
    <3>2. received' = Append(received, item)
      BY <1>2, <2>3, <2>5, <2>6
    <3> QED
      BY <2>3, <3>1, <3>2, PrefixGrows
  <2>9. Consumed' = c + v
    <3>1. Consumed' = End(file, r + 1) + 0
      BY <1>2, <2>8 DEF Consumed
    <3>2. PICK e \in Nat, l \in Nat :
              /\ e = End(file, r) /\ l = file.lens[i] /\ c = e + l
              /\ End(file, r + 1) = e + l + v
      BY <2>0, <2>3, <2>6
    <3> QED
      BY <3>1, <3>2
  <2>10. Holds(Consumed, j, buffer, next_data_index)'
    BY <2>7, <2>9 DEF Holds
  <2>11. r + 1 <= Len(file.sent)
    BY <1>1, <2>3, FileFacts, LenProperties
  <2> QED
    BY <1>2, <2>8, <2>10, <2>11 DEF InStep
<1>8. TableRight'
  BY <1>1, <1>2 DEF TableRight
<1> QED
  BY <1>1, <1>2, <1>3, <1>6, <1>7, <1>8 DEF IInv

LEMMA InvBits == IInv /\ get_bits_advance => IInv'
<1> SUFFICES ASSUME IInv, get_bits_advance
             PROVE  IInv'
  OBVIOUS
<1>1. TakeBits(value, Number(Peek(value))) /\ value \in Nat /\ ~Overruns(value)
      /\ file \in Files /\ StreamType
  BY DEF get_bits_advance, TakeBits, IInv, TypeOK, StreamType
<1>2. Number(Peek(value)) \in Nat
  <2>1. Filled(value) \in Seq(Bit)
    BY <1>1, FilledType
  <2>2. Peek(value) \in Seq(Bit) /\ Len(Peek(value)) = value
    BY <1>1, <2>1, PeekFacts
  <2>3. value \in 0 .. Len(Peek(value))
    BY <1>1, <2>2
  <2> QED
    BY <2>2, <2>3, NumberFacts, HighFacts, LowFacts
<1>3. Number(Peek(value)) \div 2^(value - value) = Number(Peek(value))
  <2>1. value - value = 0
    BY <1>1
  <2>2. PICK w \in Nat : w = Number(Peek(value)) /\ w \div 1 = w
    BY <1>2
  <2> QED
    BY <2>1, <2>2, PowerOfZero
<1>4. value <= value
  BY <1>1
<1> QED
  BY <1>1, <1>3, <1>4, InvTake

LEMMA InvDc == IInv /\ decode_dc => IInv'
<1>1. PeekBits \in Nat
  BY PeekAssumption
<1> QED
  BY <1>1, InvTake DEF decode_dc

\* In a whole file the stream does not run out.
LEMMA WholeGoesOn == IInv /\ OutOfData => ~Whole
<1> SUFFICES ASSUME IInv, OutOfData, Whole
             PROVE  FALSE
  OBVIOUS
<1>1. /\ TypeOK /\ file \in Files /\ StreamType /\ Clean
      /\ ~file.jpeg => next_data_index <= Len(file.data)
      /\ value \in Nat /\ Len(buffer) \in Nat
  BY LenProperties DEF IInv, TypeOK, StreamType, Clean
<1>2. pc = "bits" \/ (pc = "symbol" /\ Len(received) < Len(file.sent))
  BY DEF OutOfData
<1>3. PICK n \in Nat, q \in Nat :
          /\ n = Len(received) /\ n + 1 \in DOMAIN file.sent /\ (n + 1) - 1 = n
          /\ pc = "symbol" => Consumed = End(file, n)
          /\ pc = "bits" => /\ value = file.sent[n + 1].value
                            /\ Consumed = End(file, n) + file.lens[CodeOf(file, n + 1)]
          /\ Consumed \in Nat /\ Holds(Consumed, q, buffer, next_data_index)
  BY <1>1, <1>2, AtItem
<1> DEFINE i == CodeOf(file, n + 1)
<1>4. PICK c \in Nat, a \in Nat, L \in Nat, v \in Nat, t \in Nat :
          /\ c = Consumed /\ a = End(file, n) /\ L = file.lens[i] /\ v = file.sent[n + 1].value
          /\ t = TotalBits(file) /\ a + L + v <= t
          /\ L <= MaxLength /\ v <= BufferBits - ByteBits + 1 /\ i \in HasCode(file)
  <2>1. /\ End(file, (n + 1) - 1) \in Nat /\ file.lens[i] \in Nat
        /\ file.sent[n + 1].value \in Nat /\ TotalBits(file) \in Nat
        /\ End(file, (n + 1) - 1) + file.lens[i] + file.sent[n + 1].value <= TotalBits(file)
        /\ file.lens[i] <= MaxLength /\ i \in HasCode(file)
        /\ file.sent[n + 1].value <= BufferBits - ByteBits + 1
    BY <1>1, <1>3, ItemFacts
  <2> QED
    BY <1>3, <2>1
<1>5. PICK y \in Nat, z \in Nat, x \in Nat :
          /\ y = ByteBits /\ z = BufferBits /\ x = MaxLength
          /\ x <= z - y + 1 /\ x <= 2 * y
  <2>1. BufferBits \in Nat
    BY SizeAssumption, Products DEF BufferBits
  <2>2. MaxLength \in Nat /\ ByteBits \in Nat
        /\ MaxLength <= BufferBits - ByteBits + 1 /\ MaxLength <= 2 * ByteBits
    <3>1. MaxLength \in 1 .. BufferBits - ByteBits + 1 /\ ByteBits \in Nat
      BY SizeAssumption
    <3> QED
      BY <2>1, <3>1, SizeAssumption
  <2> QED
    BY <2>1, <2>2
<1>6. CASE pc = "bits"
  <2>1. value = v /\ c = a + L
    BY <1>3, <1>4, <1>6
  <2>2. c + v <= t
    BY <1>4, <2>1
  <2>3. PICK m \in Asked : Overruns(m) \/ v > Len(Filled(m))
    BY <1>6, <2>1 DEF OutOfData
  <2>4. m \in Nat /\ v <= m /\ m <= v + 2 * ByteBits
    <3>1. PeekBits \in Nat /\ PeekBits <= 2 * y
      BY <1>5, PeekAssumption
    <3>2. m = v \/ (m = PeekBits /\ v <= m)
      BY <1>6, <2>1 DEF Asked
    <3> QED
      BY <1>5, <3>1, <3>2
  <2>5. ~Overruns(m)
    BY <1>1, <1>3, <1>4, <2>2, <2>4, NoOverrun
  <2>6. PICK j \in Nat : /\ Holds(c, j, Filled(m), FilledIndex(m))
                         /\ \/ ~Needs(m)
                            \/ Len(Filled(m)) > BufferBits - ByteBits
                            \/ FilledIndex(m) >= Len(file.data)
    BY <1>1, <1>3, <1>4, <2>5, FilledHolds
  <2>7. Filled(m) \in Seq(Bit)
    BY <1>1, <2>5, FilledType
  <2>8. v <= Len(Filled(m))
    <3>1. c + v <= TotalBits(file) /\ v <= BufferBits - ByteBits + 1
      BY <1>4, <2>2
    <3> QED
      BY <1>1, <2>4, <2>6, <2>7, <3>1, EnoughAhead
  <2> QED
    BY <2>3, <2>5, <2>7, <2>8, LenProperties
<1>7. CASE pc = "symbol"
  <2> DEFINE m == max_code_length_bits
  <2>1. c = a /\ Asked = {m}
    BY <1>3, <1>4, <1>7 DEF Asked
  <2>2. m = Longest(file) /\ m \in Nat /\ m <= MaxLength
    BY <1>1, TableTerms, LongestFacts, FileFacts
  <2>3. L <= m
    BY <1>1, <1>4, <2>2, LongestFacts
  <2> HIDE DEF m
  <2>4. c + L <= t
    BY <1>4, <2>1
  <2>5. m <= L + 2 * ByteBits
    BY <1>4, <1>5, <2>2
  <2>6. ~Overruns(m)
    BY <1>1, <1>3, <1>4, <2>2, <2>4, <2>5, NoOverrun
  <2>7. PICK j \in Nat : /\ Holds(c, j, Filled(m), FilledIndex(m))
                         /\ \/ ~Needs(m)
                            \/ Len(Filled(m)) > BufferBits - ByteBits
                            \/ FilledIndex(m) >= Len(file.data)
    BY <1>1, <1>3, <1>4, <2>6, FilledHolds
  <2>8. Filled(m) \in Seq(Bit)
    BY <1>1, <2>6, FilledType
  <2>9. L <= Len(Filled(m))
    <3>1. L <= BufferBits - ByteBits + 1
      BY <1>4, <1>5
    <3> QED
      BY <1>1, <1>4, <2>2, <2>3, <2>4, <2>7, <2>8, <3>1, EnoughAhead
  <2>10. PICK leaf \in LeafsAhead : leaf.len > Len(Filled(m))
    BY <1>7, <2>1, <2>6 DEF OutOfData
  <2>11. leaf = LeafOf(file, i)
    <3>1. TableRight
      BY <1>7 DEF IInv
    <3>2. Holds(End(file, (n + 1) - 1), j, Filled(m), FilledIndex(m))
      BY <1>3, <1>4, <2>1, <2>7
    <3>3. file.lens[i] <= Len(Filled(m))
      BY <1>4, <2>9
    <3> QED
      BY <1>1, <1>3, <2>8, <3>1, <3>2, <3>3, LeafFound DEF m
  <2>12. leaf.len = L
    BY <1>4, <2>11 DEF LeafOf
  <2> QED
    BY <1>4, <2>8, <2>9, <2>10, <2>12, LenProperties
<1> QED
  BY <1>2, <1>6, <1>7

LEMMA InvOut == IInv /\ OutOfData => IInv'
<1> SUFFICES ASSUME IInv, OutOfData
             PROVE  IInv'
  OBVIOUS
<1>1. /\ pc' = "garbage" /\ (pc = "bits" \/ pc = "symbol")
      /\ UNCHANGED <<file, lookup_table, next_data_index, buffer, value, received, position>>
  BY DEF OutOfData
<1>2. TypeOK' /\ (file \in Files)' /\ TableRight'
  BY <1>1 DEF IInv, TypeOK, TableRight
<1>3. Clean' => InStep'
  BY <1>1 DEF IInv, Clean, Whole, InStep
<1>4. ~Whole'
  BY <1>1, WholeGoesOn DEF Whole
<1> QED
  BY <1>1, <1>2, <1>3, <1>4 DEF IInv

LEMMA InvEnd == IInv /\ EndScan => IInv'
<1> SUFFICES ASSUME IInv, EndScan
             PROVE  IInv'
  OBVIOUS
<1>1. /\ pc = "symbol" /\ pc' = "end" /\ Len(received) = Len(file.sent)
      /\ position' = IF file.jpeg THEN bytes_read_from_stream ELSE position
      /\ UNCHANGED <<file, lookup_table, next_data_index, buffer, value, received>>
  BY DEF EndScan
<1>2. bytes_read_from_stream \in Int
  <2>1. Len(buffer) \in Nat /\ next_data_index \in Nat
    BY LenProperties DEF IInv, TypeOK
  <2>2. ByteBits \in Nat /\ ByteBits > 0
    BY SizeAssumption
  <2>3. PICK d \in Nat : d = Len(buffer) \div ByteBits
    BY <2>1, <2>2, Division
  <2> QED
    BY <2>1, <2>3 DEF bytes_read_from_stream
<1>3. TypeOK' /\ (file \in Files)' /\ TableRight'
  BY <1>1, <1>2 DEF IInv, TypeOK, TableRight
<1>4. Clean' => InStep'
  <2> SUFFICES ASSUME Clean'
               PROVE  InStep'
    OBVIOUS
  <2>1. InStep
    BY <1>1 DEF IInv, Clean, Whole
  <2>2. Consumed' = Consumed
    BY <1>1 DEF Consumed
  <2>3. PICK k \in Nat : Holds(Consumed, k, buffer, next_data_index)
    BY <1>1, <2>1 DEF InStep
  <2>4. Holds(Consumed, k, buffer, next_data_index)'
    BY <1>1, <2>2, <2>3 DEF Holds
  <2> QED
    BY <1>1, <2>1, <2>4 DEF InStep
<1> QED
  BY <1>1, <1>3, <1>4 DEF IInv, bytes_read_from_stream

LEMMA InvStutter == IInv /\ UNCHANGED vars => IInv'
<1> SUFFICES ASSUME IInv, UNCHANGED vars
             PROVE  IInv'
  OBVIOUS
<1>1. UNCHANGED <<file, pc, lookup_table, next_data_index, buffer, value, received, position>>
  BY DEF vars
<1>2. TypeOK' /\ (pc' # "table" => TableRight')
  BY <1>1 DEF IInv, TypeOK, TableRight
<1>3. Clean' => InStep'
  <2>1. Consumed' = Consumed /\ (Clean' => Clean)
    BY <1>1 DEF Consumed, Clean, Whole
  <2> QED
    BY <1>1, <2>1 DEF IInv, InStep, Holds
<1> QED
  BY <1>1, <1>2, <1>3 DEF IInv, Whole

-----------------------------------------------------------------------------
(***************************************************************************)
(* Theorems                                                                *)
(***************************************************************************)

\* The invariant holds in every reachable state.
THEOREM Invariance == Spec => []IInv
<1>1. IInv /\ [Next]_vars => IInv'
  BY InvTable, InvLookup, InvBits, InvDc, InvOut, InvEnd, InvStutter DEF Next, Ended
<1> QED
  BY <1>1, InvInit, PTL DEF Spec

\* Every variable has its type; in particular fill_buffer never shifts bits out of
\* the 64-bit register.
THEOREM TypeCorrect == Spec => []TypeOK
<1>1. IInv => TypeOK
  BY DEF IInv
<1> QED
  BY <1>1, Invariance, PTL

\* Once it is built the table finds each code by its word.
THEOREM TableFinds == Spec => [](pc # "table" => TableRight)
<1>1. IInv => (pc # "table" => TableRight)
  BY DEF IInv
<1> QED
  BY <1>1, Invariance, PTL

\* The decoder's symbols and raw bits are those that were written, wherever the
\* buffer is filled, whatever zeros are stuffed, and up to where the file breaks
\* off.
THEOREM ReadingCorrect == Spec => []ReadsWhatWasWritten
<1>1. IInv => ReadsWhatWasWritten
  BY DEF IInv, InStep, Clean, ReadsWhatWasWritten
<1> QED
  BY <1>1, Invariance, PTL

\* While a whole file is read the counters of the stream never wrap.
THEOREM DataSuffices == Spec => []NeverOutOfData
<1>1. IInv => NeverOutOfData
  BY DEF IInv, NeverOutOfData
<1> QED
  BY <1>1, Invariance, PTL

LEMMA EndsAtMarker == IInv => ResumesAtMarker
<1> SUFFICES ASSUME IInv, pc = "end", file.jpeg, Whole,
                    \A p \in file.marker .. next_data_index - 1 : ~Stuffed(p)
             PROVE  position = file.marker
  BY DEF ResumesAtMarker
<1>1. file \in Files /\ InStep /\ TypeOK
  BY DEF IInv, Clean
<1>2. PICK t \in Nat : t = TotalBits(file) /\ Consumed = t
  <2>1. Consumed = TotalBits(file) + 0
    BY <1>1 DEF InStep, Consumed, TotalBits
  <2>2. TotalBits(file) \in Nat
    <3>1. Len(file.sent) \in Nat /\ 0 \in 0 .. Len(file.sent)
      BY <1>1, FileFacts, LenProperties
    <3> QED
      BY <1>1, <3>1, EndsGrow
  <2> QED
    BY <2>1, <2>2
<1>3. PICK y \in Nat : y = ByteBits /\ y > 0
  BY SizeAssumption
<1>4. PICK k \in Nat, b \in Nat :
          b = Len(buffer) /\ next_data_index = Place(file, k) /\ b = k * y - t
  <2>1. PICK k \in Nat : Holds(Consumed, k, buffer, next_data_index)
    BY <1>1 DEF InStep
  <2>2. Len(buffer) \in Nat
    BY <1>1, LenProperties DEF TypeOK
  <2> QED
    BY <1>2, <1>3, <2>1, <2>2 DEF Holds
<1>5. PICK e \in Nat : t <= e * y /\ e * y < t + y /\ Place(file, e) = file.marker
  BY <1>1, <1>2, <1>3, MarkerFacts DEF Whole
<1>6. PICK x \in Nat, u \in Nat : x = e * y /\ u = k * y
  BY Products
<1>7. t <= x /\ x < t + y /\ b = u - t
  BY <1>4, <1>5, <1>6
<1>8. e <= k
  <2>1. CASE k + 1 <= e
    <3>1. (k + 1) * y <= e * y /\ (k + 1) * y = k * y + y
      BY <2>1, ProductGrows, k + 1 \in Nat
    <3>2. u + y <= x
      BY <1>6, <3>1
    <3> QED
      BY <1>2, <1>3, <1>4, <1>7, <3>2, <1>6
  <2> QED
    BY <2>1
<1>9. PICK d \in Nat : k = e + d
  BY <1>8, k - e \in Nat
<1>10. b \div y = d
  <2>1. (e + d) * y = e * y + d * y
    OBVIOUS
  <2>2. PICK w \in Nat : w = d * y
    BY Products
  <2>3. u = x + w
    BY <1>6, <1>9, <2>1, <2>2
  <2>4. PICK r \in Nat : r = x - t /\ r < y
    BY <1>2, <1>3, <1>7, x - t \in Nat, <1>6
  <2>5. b = d * y + r
    BY <1>2, <1>7, <2>2, <2>3, <2>4, <1>6
  <2> QED
    BY <1>3, <2>4, <2>5, DivisionUnique
<1>11. Place(file, e + d) = Place(file, e) + d
  <2>1. ASSUME NEW p \in Place(file, e) .. Place(file, e + d) - 1
        PROVE  ~StuffedAt(file, p)
    <3>1. p \in file.marker .. next_data_index - 1
      BY <1>4, <1>5, <1>9
    <3>2. ~Stuffed(p)
      BY <3>1
    <3> QED
      BY <3>2 DEF Stuffed, StuffedAt, ByteAt, ByteOf
  <2> QED
    BY <2>1, PlaceExact
<1>12. position = next_data_index - d
  BY <1>3, <1>4, <1>10 DEF IInv
<1>13. file.marker \in Nat
  BY <1>1, FileFacts
<1> QED
  BY <1>4, <1>5, <1>9, <1>11, <1>12, <1>13

\* Parsing goes on at the marker behind the scan, if nothing behind it that the
\* stream looked at seems to be stuffed.
THEOREM MarkerFound == Spec => []ResumesAtMarker
  BY EndsAtMarker, Invariance, PTL

=============================================================================
