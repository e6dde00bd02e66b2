-------------------------- MODULE PngDecodeProofs --------------------------
(***************************************************************************)
(* Proofs about PngDecode, for every length and distance table, every set  *)
(* of codes, every picture and whatever the encoder chooses: inflating     *)
(* gives back what was deflated, and the picture is the one encoded.       *)
(***************************************************************************)
EXTENDS PngDecode, FiniteSetTheorems, TLAPS

-----------------------------------------------------------------------------
(***************************************************************************)
(* Arithmetic                                                              *)
(***************************************************************************)

\* Division with remainder.
LEMMA DivisionFacts ==
    ASSUME NEW a \in Int, NEW b \in Nat \ {0}
    PROVE  a \div b \in Int /\ a % b \in 0 .. b - 1 /\ a = b * (a \div b) + (a % b)
OBVIOUS

LEMMA ProductMonotone ==
    ASSUME NEW a \in Int, NEW c \in Int, NEW b \in Nat \ {0}, a < c
    PROVE  a * b + b <= c * b
OBVIOUS

\* Quotient and remainder are unique.
LEMMA DivisionUnique ==
    ASSUME NEW b \in Nat \ {0}, NEW q \in Int, NEW r \in 0 .. b - 1
    PROVE  (q * b + r) \div b = q /\ (q * b + r) % b = r
<1>1. PICK a \in Int : a = q * b + r
    OBVIOUS
<1>2. PICK p \in Int : p = a \div b
    OBVIOUS
<1>3. a % b \in 0 .. b - 1 /\ a = b * p + (a % b)
    BY <1>2, DivisionFacts
<1>4. ~(p < q)
    <2>1. p < q => p * b + b <= q * b
        BY ProductMonotone
    <2> QED
        BY <1>1, <1>3, <2>1
<1>5. ~(q < p)
    <2>1. q < p => q * b + b <= p * b
        BY ProductMonotone
    <2> QED
        BY <1>1, <1>3, <2>1
<1>6. p = q
    BY <1>4, <1>5
<1> QED
    BY <1>1, <1>2, <1>3, <1>6

\* A difference modulo b is undone by a sum modulo b.
LEMMA SumModulo ==
    ASSUME NEW b \in Nat \ {0}, NEW p \in 0 .. b - 1, NEW x \in Int
    PROVE  (((p - x) % b) + x) % b = p
<1>1. PICK d \in Int : d = p - x
    OBVIOUS
<1>2. PICK m \in Int : d = b * m + (d % b) /\ d % b \in 0 .. b - 1
    BY DivisionFacts
<1>3. PICK n \in Int : n = 0 - m
    OBVIOUS
<1>4. (d % b) + x = n * b + p
    BY <1>1, <1>2, <1>3
<1>5. (n * b + p) % b = p
    BY DivisionUnique
<1> QED
    BY <1>1, <1>4, <1>5

LEMMA SmallModulo ==
    ASSUME NEW b \in Nat \ {0}, NEW p \in 0 .. b - 1
    PROVE  p % b = p
<1>1. (0 * b + p) % b = p
    BY DivisionUnique
<1> QED
    BY <1>1

LEMMA HalfWord == Word \in Nat \ {0} /\ Word \div 2 \in Nat /\ Word \div 2 < Word
<1>1. Word \in Nat \ {0}
    BY PngAssumption
<1>2. Word \div 2 \in Int /\ Word % 2 \in 0 .. 1 /\ Word = 2 * (Word \div 2) + (Word % 2)
    BY <1>1, DivisionFacts
<1> QED
    BY <1>1, <1>2

-----------------------------------------------------------------------------
(***************************************************************************)
(* Files                                                                   *)
(***************************************************************************)

LEMMA FileFacts ==
    ASSUME NEW f \in Files
    PROVE  /\ f.width \in Nat \ {0} /\ f.height \in Nat \ {0}
           /\ RowBytes(f) = 4 * f.width /\ LineBytes(f) = 1 + 4 * f.width
           /\ RowBytes(f) \in Nat \ {0} /\ LineBytes(f) \in Nat \ {0}
           /\ f.height * RowBytes(f) \in Nat
           /\ RawSize(f) = f.height + f.height * (4 * f.width) /\ RawSize(f) \in Nat
           /\ f.pixels \in [0 .. f.height * RowBytes(f) - 1 -> Byte]
           /\ f.filters \in [0 .. f.height - 1 -> 0 .. 4]
<1>1. f.width \in Nat \ {0} /\ f.height \in Nat \ {0}
    BY FilesAssumption
<1>2. Filters \subseteq 0 .. 4
    BY DEF Filters, FilterNames
<1>3. f.filters \in [0 .. f.height - 1 -> Filters]
      /\ f.pixels \in [0 .. f.height * (bytes_per_pixel * f.width) - 1 -> Byte]
    BY FilesAssumption
<1>4. RowBytes(f) = 4 * f.width /\ LineBytes(f) = 1 + 4 * f.width
      /\ RawSize(f) = f.height * (1 + 4 * f.width)
    BY DEF RowBytes, LineBytes, RawSize, bytes_per_pixel
<1>5. f.pixels \in [0 .. f.height * RowBytes(f) - 1 -> Byte]
    BY <1>3 DEF RowBytes
<1>6. f.filters \in [0 .. f.height - 1 -> 0 .. 4]
    BY <1>2, <1>3
<1>7. f.height * (4 * f.width) \in Nat
      /\ f.height * (1 + 4 * f.width) = f.height + f.height * (4 * f.width)
    BY <1>1
<1>8. 4 * f.width \in Nat \ {0} /\ 1 + 4 * f.width \in Nat \ {0}
      /\ f.height + f.height * (4 * f.width) \in Nat
    BY <1>1, <1>7
<1> QED
    BY <1>1, <1>4, <1>5, <1>6, <1>7, <1>8

\* Where a line is among the pixels, and where its bytes are.
LEMMA PlaceFacts ==
    ASSUME NEW f \in Files, NEW l \in 0 .. f.height - 1
    PROVE  /\ l * RowBytes(f) \in Nat
           /\ l * RowBytes(f) + RowBytes(f) <= f.height * RowBytes(f)
           /\ l * LineBytes(f) \in Nat
           /\ l * LineBytes(f) + LineBytes(f) <= RawSize(f)
           /\ l * LineBytes(f) = l + l * RowBytes(f)
           /\ l > 0 => (l - 1) * RowBytes(f) = l * RowBytes(f) - RowBytes(f)
                       /\ l * RowBytes(f) - RowBytes(f) \in Nat
<1>1. PICK h \in Nat \ {0}, r \in Nat \ {0} :
          h = f.height /\ r = RowBytes(f) /\ LineBytes(f) = 1 + r /\ RawSize(f) = h + h * r
    <2>1. LineBytes(f) = 1 + RowBytes(f) /\ RawSize(f) = f.height + f.height * RowBytes(f)
        BY FileFacts
    <2> QED
        BY <2>1, FileFacts
<1>2. l \in Int /\ l < h
    BY <1>1
<1>3. l * r + r <= h * r
    BY <1>2, ProductMonotone
<1>4. l * (1 + r) = l + l * r /\ l * r \in Nat
    BY <1>2
<1>5. (l - 1) * r = l * r - r
    BY <1>2
<1>6. l > 0 => l * r - r \in Nat
    BY <1>2
<1>7. l * (1 + r) + (1 + r) <= h + h * r
    BY <1>2, <1>3, <1>4
<1> QED
    BY <1>1, <1>2, <1>3, <1>4, <1>5, <1>6, <1>7

LEMMA NeighbourFacts ==
    ASSUME NEW f \in Files, NEW l \in 0 .. f.height - 1, NEW j \in 0 .. RowBytes(f) - 1
    PROVE  Left(f, l, j) \in Byte /\ Above(f, l, j) \in Byte /\ AboveLeft(f, l, j) \in Byte
<1>1. PICK r \in Nat : r = RowBytes(f)
    BY FileFacts
<1>2. PICK t \in Nat : t = f.height * RowBytes(f)
    BY FileFacts
<1>3. PICK s \in Nat : s = l * RowBytes(f) /\ s + r <= t
    BY <1>1, <1>2, PlaceFacts
<1>4. f.pixels \in [0 .. t - 1 -> Byte]
    BY <1>2, FileFacts
<1>5. 0 \in Byte
    BY BytesAssumption DEF Byte
<1>6. j \in Int /\ 0 <= j /\ j < r
    BY <1>1
<1>7. l > 0 => (l - 1) * RowBytes(f) = s - r /\ s - r \in Nat
    BY <1>1, <1>3, PlaceFacts
<1>8. Left(f, l, j) \in Byte
    <2>1. j >= 4 => s + j - 4 \in 0 .. t - 1
        BY <1>3, <1>6
    <2>2. Left(f, l, j) = IF j < 4 THEN 0 ELSE f.pixels[s + j - 4]
        BY <1>3 DEF Left, bytes_per_pixel
    <2> QED
        BY <1>4, <1>5, <1>6, <2>1, <2>2
<1>9. Above(f, l, j) \in Byte
    <2>1. l > 0 => s - r + j \in 0 .. t - 1
        BY <1>3, <1>6, <1>7
    <2>2. Above(f, l, j) = IF l = 0 THEN 0 ELSE f.pixels[s - r + j]
        BY <1>7 DEF Above
    <2> QED
        BY <1>4, <1>5, <2>1, <2>2
<1>10. AboveLeft(f, l, j) \in Byte
    <2>1. l > 0 /\ j >= 4 => s - r + j - 4 \in 0 .. t - 1
        BY <1>3, <1>6, <1>7
    <2>2. AboveLeft(f, l, j) = IF l = 0 \/ j < 4 THEN 0 ELSE f.pixels[s - r + j - 4]
        BY <1>7 DEF AboveLeft, bytes_per_pixel
    <2> QED
        BY <1>4, <1>5, <1>6, <2>1, <2>2
<1> QED
    BY <1>8, <1>9, <1>10

LEMMA PredictionFacts ==
    ASSUME NEW f \in Files, NEW l \in 0 .. f.height - 1, NEW j \in 0 .. RowBytes(f) - 1
    PROVE  Prediction(f, l, j) \in Int
<1>1. /\ Left(f, l, j) \in Int /\ Above(f, l, j) \in Int /\ AboveLeft(f, l, j) \in Int
    BY NeighbourFacts, BytesAssumption DEF Byte
<1>2. \A a, b, c \in Int : Paeth(a, b, c) \in Int
    BY DEF Paeth
<1>3. Paeth(Left(f, l, j), Above(f, l, j), AboveLeft(f, l, j)) \in Int
    BY <1>1, <1>2
<1> QED
    BY <1>1, <1>3 DEF Prediction

\* What is compressed, by line and place in the line.
LEMMA RawFacts ==
    ASSUME NEW f \in Files, NEW l \in 0 .. f.height - 1
    PROVE  /\ Raw(f, l * LineBytes(f)) = f.filters[l]
           /\ \A j \in 0 .. RowBytes(f) - 1 :
                  Raw(f, l * LineBytes(f) + 1 + j)
                      = (f.pixels[l * RowBytes(f) + j] - Prediction(f, l, j)) % Bytes
<1>1. PICK b \in Nat \ {0}, w \in Nat : b = LineBytes(f) /\ w = RowBytes(f) /\ b = 1 + w
    BY FileFacts
<1>2. l \in Int /\ l * w \in Int /\ l * b \in Int
    BY FileFacts
<1>3. Raw(f, l * b) = f.filters[l]
    <2>. 0 \in 0 .. b - 1
        BY <1>1
    <2>1. (l * b + 0) \div b = l /\ (l * b + 0) % b = 0
        BY <1>2, DivisionUnique
    <2>2. l * b + 0 = l * b
        BY <1>2
    <2> QED
        BY <1>1, <2>1, <2>2 DEF Raw
<1>4. ASSUME NEW j \in 0 .. w - 1
      PROVE  Raw(f, l * b + 1 + j) = (f.pixels[l * w + j] - Prediction(f, l, j)) % Bytes
    <2>1. PICK r \in 0 .. b - 1 : r = 1 + j /\ r # 0 /\ r - 1 = j
        BY <1>1
    <2>2. (l * b + r) \div b = l /\ (l * b + r) % b = r
        BY <1>1, <1>2, DivisionUnique
    <2>3. l * b + 1 + j = l * b + r
        BY <1>2, <2>1
    <2>4. l * w + r - 1 = l * w + j
        BY <1>2, <2>1
    <2> QED
        BY <1>1, <2>1, <2>2, <2>3, <2>4 DEF Raw
<1> QED
    BY <1>1, <1>3, <1>4

LEMMA RawType ==
    ASSUME NEW f \in Files, NEW k \in 0 .. RawSize(f) - 1
    PROVE  Raw(f, k) \in Byte
<1>1. PICK b \in Nat \ {0}, w \in Nat, h \in Nat :
          b = LineBytes(f) /\ w = RowBytes(f) /\ b = 1 + w /\ h = f.height
    BY FileFacts
<1>2. RawSize(f) = h * b /\ h * b \in Nat
    BY <1>1 DEF RawSize
<1>3. k \in Int /\ 0 <= k /\ k < h * b
    BY <1>2
<1>4. PICK l \in Int, r \in 0 .. b - 1 : l = k \div b /\ r = k % b /\ k = b * l + r
    BY <1>3, DivisionFacts
<1>5. k = l * b + r
    BY <1>4
<1>6. l < h
    <2>1. h < l => h * b + b <= l * b
        BY <1>1, ProductMonotone
    <2>2. h = l => h * b = l * b
        OBVIOUS
    <2> QED
        BY <1>1, <1>2, <1>3, <1>5, <2>1, <2>2
<1>7. l >= 0
    <2>1. l < 0 => l * b + b <= 0 * b
        BY ProductMonotone
    <2> QED
        BY <1>3, <1>5, <2>1
<1>8. l \in 0 .. f.height - 1
    BY <1>1, <1>6, <1>7
<1>9. CASE r = 0
    <2>1. Raw(f, k) = f.filters[l]
        BY <1>1, <1>4, <1>9 DEF Raw
    <2>2. f.filters[l] \in 0 .. 4
        BY <1>8, FileFacts
    <2> QED
        BY <2>1, <2>2, BytesAssumption DEF Byte
<1>10. CASE r # 0
    <2>1. PICK j \in 0 .. w - 1 : j = r - 1
        BY <1>1, <1>10
    <2>2. k = l * b + 1 + j
        BY <1>5, <2>1
    <2>3. Raw(f, k) = (f.pixels[l * w + j] - Prediction(f, l, j)) % Bytes
        BY <1>1, <1>8, <2>2, RawFacts
    <2>4. l * w \in Nat /\ l * w + w <= h * w /\ h * w \in Nat
        BY <1>1, <1>8, PlaceFacts
    <2>5. l * w + j \in 0 .. h * w - 1
        BY <2>1, <2>4
    <2>6. f.pixels[l * w + j] \in Byte
        BY <1>1, <2>5, FileFacts
    <2>7. Prediction(f, l, j) \in Int
        BY <1>1, <1>8, PredictionFacts
    <2>8. f.pixels[l * w + j] - Prediction(f, l, j) \in Int
        BY <2>6, <2>7, BytesAssumption DEF Byte
    <2>9. Bytes \in Nat \ {0}
        BY BytesAssumption
    <2> QED
        BY <2>3, <2>8, <2>9, DivisionFacts DEF Byte
<1> QED
    BY <1>9, <1>10

-----------------------------------------------------------------------------
(***************************************************************************)
(* Codes                                                                   *)
(***************************************************************************)

LEMMA TableFacts ==
    ASSUME NEW c \in Codes
    PROVE  /\ c.num_literal_codes \in Nat \ {0} /\ c.num_distance_codes \in Nat \ {0}
           /\ c.num_literal_codes > Bytes
           /\ c.lengths \in [0 .. c.num_literal_codes + c.num_distance_codes - 1 -> 0 .. 15]
           /\ Literals(c) \in [0 .. c.num_literal_codes - 1 -> 0 .. 15]
           /\ Distances(c) \in [0 .. c.num_distance_codes - 1 -> 0 .. 15]
<1>1. Len(LengthBase) \in Nat /\ Len(DistanceBase) \in Nat
    BY TablesAssumption
<1>2. /\ c.num_literal_codes \in Bytes + 1 .. Bytes + 1 + Len(LengthBase)
      /\ c.num_distance_codes \in 1 .. Len(DistanceBase)
      /\ c.lengths \in [0 .. c.num_literal_codes + c.num_distance_codes - 1 -> 0 .. 15]
    BY CodesAssumption
<1>3. c.num_literal_codes \in Nat \ {0} /\ c.num_distance_codes \in Nat \ {0}
      /\ c.num_literal_codes > Bytes
    <2>1. \A l \in Nat : \A n \in Bytes + 1 .. Bytes + 1 + l : n \in Nat \ {0} /\ n > Bytes
        BY BytesAssumption
    <2>2. \A l \in Nat : \A n \in 1 .. l : n \in Nat \ {0}
        OBVIOUS
    <2> QED
        BY <1>1, <1>2, <2>1, <2>2
<1>4. Literals(c) \in [0 .. c.num_literal_codes - 1 -> 0 .. 15]
    <2>1. \A s \in 0 .. c.num_literal_codes - 1 :
              s \in 0 .. c.num_literal_codes + c.num_distance_codes - 1
        BY <1>3
    <2> QED
        BY <1>2, <2>1 DEF Literals
<1>5. \A d \in 0 .. c.num_distance_codes - 1 :
          c.num_literal_codes + d \in 0 .. c.num_literal_codes + c.num_distance_codes - 1
    BY <1>3
<1>6. Distances(c) \in [0 .. c.num_distance_codes - 1 -> 0 .. 15]
    BY <1>2, <1>3, <1>5 DEF Distances
<1> QED
    BY <1>2, <1>3, <1>4, <1>6

\* The symbols before s that have codes of its length.
SameLengthBefore(table, s) == {t \in DOMAIN table : t < s /\ table[t] = table[s]}

LEMMA FewerBefore ==
    ASSUME NEW n \in Nat, NEW table, DOMAIN table = 0 .. n - 1,
           NEW s \in 0 .. n - 1, NEW u \in 0 .. n - 1,
           table[s] = table[u], s < u
    PROVE  Cardinality(SameLengthBefore(table, s)) # Cardinality(SameLengthBefore(table, u))
<1>1. IsFiniteSet(0 .. n - 1)
    BY FS_Interval
<1>2. SameLengthBefore(table, u) \subseteq 0 .. n - 1
    BY DEF SameLengthBefore
<1>3. IsFiniteSet(SameLengthBefore(table, u))
    BY <1>1, <1>2, FS_Subset
<1>4. SameLengthBefore(table, s) \subseteq SameLengthBefore(table, u)
    BY DEF SameLengthBefore
<1>5. s \in SameLengthBefore(table, u) /\ s \notin SameLengthBefore(table, s)
    BY DEF SameLengthBefore
<1> QED
    BY <1>3, <1>4, <1>5, FS_Subset

\* No two symbols have the same code word.
LEMMA CodeWordUnique ==
    ASSUME NEW n \in Nat, NEW table, DOMAIN table = 0 .. n - 1,
           NEW s \in 0 .. n - 1, NEW u \in 0 .. n - 1,
           CodeWord(table, s) = CodeWord(table, u)
    PROVE  s = u
<1>1. /\ table[s] = table[u]
      /\ Cardinality(SameLengthBefore(table, s)) = Cardinality(SameLengthBefore(table, u))
    BY DEF CodeWord, SameLengthBefore
<1>2. ~(s < u)
    BY <1>1, FewerBefore
<1>3. ~(u < s)
    BY <1>1, FewerBefore
<1> QED
    BY <1>2, <1>3

\* A code word is taken for its own symbol.
LEMMA LookupOwn ==
    ASSUME NEW n \in Nat, NEW table \in [0 .. n - 1 -> 0 .. 15], NEW s,
           IsCoded(table, s)
    PROVE  s \in 0 .. n - 1 /\ lookup(table, CodeWord(table, s)) = {s}
<1>1. DOMAIN table = 0 .. n - 1
    OBVIOUS
<1>2. s \in 0 .. n - 1 /\ table[s] > 0
    BY <1>1 DEF IsCoded
<1>3. \A u \in DOMAIN table : CodeWord(table, u) = CodeWord(table, s) => u = s
    BY <1>1, <1>2, CodeWordUnique
<1>4. {u \in DOMAIN table : table[u] > 0 /\ CodeWord(table, u) = CodeWord(table, s)} = {s}
    BY <1>1, <1>2, <1>3
<1> QED
    BY <1>2, <1>4 DEF lookup

\* The codes an encoder sends for a code length or a run of them.
LEMMA RunFacts ==
    ASSUME NEW c \in Codes,
           NEW k \in 0 .. c.num_literal_codes + c.num_distance_codes - 1, NEW s \in Runs(c, k)
    PROVE  \/ s.symbol \in 0 .. 15 /\ s.symbol = c.lengths[k]
           \/ /\ s.symbol \in 16 .. 18
              /\ RepeatBase[s.symbol] + s.extra \in Nat \ {0}
              /\ RunLength(s) = RepeatBase[s.symbol] + s.extra
              /\ k + RunLength(s) <= c.num_literal_codes + c.num_distance_codes
              /\ s.symbol = 16 => k > 0
              /\ \A j \in k .. k + RunLength(s) - 1 :
                     c.lengths[j] = IF s.symbol = 16 THEN c.lengths[k - 1] ELSE 0
<1>1. CASE s = [symbol |-> c.lengths[k], extra |-> 0]
    <2>1. c.lengths[k] \in 0 .. 15
        BY TableFacts
    <2> QED
        BY <1>1, <2>1
<1>2. CASE s \in RunSymbols /\ s # [symbol |-> c.lengths[k], extra |-> 0]
    <2>1. PICK y \in 16 .. 18 : \E e \in 0 .. RepeatValues[y] - 1 : s = [symbol |-> y, extra |-> e]
        BY <1>2 DEF RunSymbols
    <2>0. PICK e \in 0 .. RepeatValues[y] - 1 : s = [symbol |-> y, extra |-> e]
        BY <2>1
    <2>2. RepeatBase[y] \in Nat \ {0} /\ RepeatValues[y] \in Nat \ {0}
        BY TablesAssumption
    <2>3. e \in Nat
        BY <2>2
    <2>4. s.symbol = y /\ s.extra = e
        BY <2>0
    <2>5. RepeatBase[s.symbol] + s.extra \in Nat \ {0}
        BY <2>2, <2>3, <2>4
    <2>6. /\ k + RunLength(s) <= c.num_literal_codes + c.num_distance_codes
          /\ s.symbol = 16 => k > 0
          /\ \A j \in k .. k + RunLength(s) - 1 :
                 c.lengths[j] = IF s.symbol = 16 THEN c.lengths[k - 1] ELSE 0
        BY <1>2 DEF Runs
    <2>7. RunLength(s) = RepeatBase[s.symbol] + s.extra
        BY DEF RunLength
    <2> QED
        BY <2>4, <2>5, <2>6, <2>7
<1> QED
    BY <1>1, <1>2 DEF Runs

\* The three kinds of symbols an encoder may send.
IsLiteralOf(s, f, k) ==
    k < RawSize(f) /\ s.symbol = Raw(f, k) /\ s.symbol < Bytes /\ SentBytes(s) = 1
IsEnd(s, f, final, k) ==
    (final => k = RawSize(f)) /\ s.symbol = Bytes /\ SentBytes(s) = 0
IsCopy(s, f, c, k) ==
    /\ s.symbol > Bytes /\ SentBytes(s) = SentLength(s)
    /\ SentLength(s) \in Nat \ {0} /\ SentDistance(s) \in Nat \ {0}
    /\ SentLength(s) = LengthBase[s.symbol - Bytes]
                       + IF LengthValues[s.symbol - Bytes] > 1 THEN s.extra ELSE 0
    /\ SentDistance(s) = DistanceBase[s.distance + 1]
                         + IF DistanceValues[s.distance + 1] > 1 THEN s.distance_extra ELSE 0
    /\ IsCoded(Distances(c), s.distance)
    /\ Repeats(f, k, SentLength(s), SentDistance(s))

LEMMA SendableFacts ==
    ASSUME NEW f \in Files, NEW c \in Codes, NEW final, NEW k \in 0 .. RawSize(f),
           NEW s \in Sendable(f, c, final, k)
    PROVE  /\ IsCoded(Literals(c), s.symbol)
           /\ s.symbol \in Nat
           /\ IsLiteralOf(s, f, k) \/ IsEnd(s, f, final, k) \/ IsCopy(s, f, c, k)
<1>1. IsCoded(Literals(c), s.symbol)
    BY DEF Sendable
<1>2. CASE k < RawSize(f) /\ s = Sent(Raw(f, k), 0, 0, 0)
    <2>1. k \in 0 .. RawSize(f) - 1
        BY <1>2, FileFacts
    <2>2. s.symbol = Raw(f, k) /\ Raw(f, k) \in 0 .. Bytes - 1
        BY <1>2, <2>1, RawType DEF Sent, Byte
    <2>3. s.symbol < Bytes /\ s.symbol \in Nat
        BY <2>2, BytesAssumption
    <2> QED
        BY <1>1, <1>2, <2>2, <2>3 DEF IsLiteralOf, SentBytes, END_OF_BLOCK
<1>3. CASE (final => k = RawSize(f)) /\ s = Sent(END_OF_BLOCK, 0, 0, 0)
    <2>1. s.symbol = Bytes
        BY <1>3 DEF Sent, END_OF_BLOCK
    <2> QED
        BY <1>1, <1>3, <2>1, BytesAssumption DEF IsEnd, SentBytes, END_OF_BLOCK
<1>4. CASE s \in CopySymbols
    <2>1. PICK t \in DOMAIN LengthBase, d \in DOMAIN DistanceBase :
              s \in {Sent(LengthSymbol(t), e, d - 1, x) :
                        e \in 0 .. LengthValues[t] - 1, x \in 0 .. DistanceValues[d] - 1}
        BY <1>4 DEF CopySymbols
    <2>2. PICK e \in 0 .. LengthValues[t] - 1, x \in 0 .. DistanceValues[d] - 1 :
              s = Sent(LengthSymbol(t), e, d - 1, x)
        BY <2>1
    <2>3. /\ t \in Nat \ {0} /\ d \in Nat \ {0}
          /\ LengthBase[t] \in Nat \ {0} /\ LengthValues[t] \in Nat \ {0}
          /\ DistanceBase[d] \in Nat \ {0} /\ DistanceValues[d] \in Nat \ {0}
        <3>1. \A table \in Seq(Nat \ {0}) : \A j \in DOMAIN table :
                  j \in Nat \ {0} /\ table[j] \in Nat \ {0}
            OBVIOUS
        <3>2. t \in DOMAIN LengthValues /\ d \in DOMAIN DistanceValues
            BY TablesAssumption
        <3> QED
            BY <3>1, <3>2, TablesAssumption
    <2>4. s.symbol = Bytes + t /\ s.extra = e /\ s.distance = d - 1 /\ s.distance_extra = x
        BY <2>2 DEF Sent, LengthSymbol
    <2>5. s.symbol - Bytes = t /\ s.distance + 1 = d
        BY <2>3, <2>4, BytesAssumption
    <2>6. SentLength(s) = LengthBase[t] + e /\ SentDistance(s) = DistanceBase[d] + x
        BY <2>4, <2>5 DEF SentLength, SentDistance
    <2>7. (LengthValues[t] > 1 \/ e = 0) /\ (DistanceValues[d] > 1 \/ x = 0) /\ e \in Nat /\ x \in Nat
        BY <2>3
    <2>8. SentLength(s) \in Nat \ {0} /\ SentDistance(s) \in Nat \ {0}
        BY <2>3, <2>6, <2>7
    <2>9. s.symbol \in Nat /\ s.symbol > Bytes
        BY <2>3, <2>4, BytesAssumption
    <2>10. SentBytes(s) = SentLength(s)
        BY <2>9, BytesAssumption DEF SentBytes, END_OF_BLOCK
    <2>11. /\ SentLength(s) = LengthBase[t] + IF LengthValues[t] > 1 THEN e ELSE 0
           /\ SentDistance(s) = DistanceBase[d] + IF DistanceValues[d] > 1 THEN x ELSE 0
        BY <2>3, <2>6, <2>7
    <2>12. IsCoded(Distances(c), s.distance) /\ Repeats(f, k, SentLength(s), SentDistance(s))
        BY <1>4 DEF Sendable
    <2> QED
        BY <1>1, <2>4, <2>5, <2>8, <2>9, <2>10, <2>11, <2>12 DEF IsCopy
<1> QED
    BY <1>2, <1>3, <1>4 DEF Sendable

-----------------------------------------------------------------------------
(***************************************************************************)
(* The inductive invariant                                                 *)
(***************************************************************************)

InBlock == pc \in {"lengths", "symbols", "copy"}
IsInflated == pc \in {"scanlines", "pixels", "done"}
NumCodes(c) == c.num_literal_codes + c.num_distance_codes

\* A file begins with its header, and the header tells the size.
HeaderInv ==
    /\ file \in Files
    /\ chunk > 1 => ihdr_data = [width |-> file.width, height |-> file.height]
    /\ pc \notin {"chunks", "refused"} => chunk > 1

TablesInv ==
    /\ InBlock => code \in Codes
    /\ pc = "lengths" => told <= NumCodes(code)

\* A copy repeats bytes of the picture, up to those that are sent.
CopyInv ==
    /\ pc \notin {"copy", "overrun"} => copy = None
    /\ pc \notin {"copy", "overrun"} => out_offset = sent
    /\ pc = "copy" =>
           /\ copy \in [length : Nat, distance : Nat, l : Nat]
           /\ copy.distance > 0 /\ copy.l <= copy.length
           /\ Repeats(file, out_offset, copy.length, copy.distance)
           /\ out_offset + copy.length = sent
    /\ pc \in {"chunks", "zlib"} => out_offset = 0
    /\ IsInflated => out_offset = RawSize(file)

\* What is inflated is in the buffer.
BufferInv ==
    /\ pc \notin {"chunks", "refused", "exited"} =>
           DOMAIN output_buffer = 0 .. output_buffer_size - 1
    /\ pc # "overrun" =>
           /\ Inflated <= Word \div 2
           /\ \A k \in 0 .. Inflated - 1 : k \in DOMAIN output_buffer

FilledTo == line * RowBytes(file) + index

\* The lines are reconstructed in order, then the pixels are swapped in order.
LinesInv ==
    /\ ~IsInflated => line = 0 /\ index = 0 /\ pix = 0 /\ defiltered = <<>>
    /\ IsInflated => DOMAIN defiltered = 0 .. file.height * RowBytes(file) - 1
    /\ pc = "scanlines" =>
           /\ pix = 0
           /\ line <= file.height /\ index <= RowBytes(file)
           /\ line = file.height => index = 0
           /\ \A k \in 0 .. FilledTo - 1 : defiltered[k] = file.pixels[k]
    /\ pc \in {"pixels", "done"} =>
           /\ pix <= file.height * file.width
           /\ pc = "done" => pix = file.height * file.width
           /\ \A p \in 0 .. file.height * file.width - 1, c \in 0 .. 3 :
                  defiltered[p * 4 + c]
                      = file.pixels[p * 4 + IF p < pix /\ c # 3 THEN 2 - c ELSE c]

IInv ==
    /\ TypeOK /\ HeaderInv
    /\ TablesInv /\ OwnAlphabets
    /\ CopyInv /\ BufferInv /\ InflatesWhatWasDeflated /\ StaysInBuffers
    /\ LinesInv

-----------------------------------------------------------------------------
(***************************************************************************)
(* Sizes                                                                   *)
(***************************************************************************)

LEMMA SizesKnown ==
    ASSUME HeaderInv, chunk > 1
    PROVE  /\ ihdr_data.width = file.width /\ ihdr_data.height = file.height
           /\ output_buffer_size = ((file.height + 1) * file.width * 4) % Word
           /\ output_buffer_size \in Nat
           /\ scanline_width = LineBytes(file) % Word
           /\ pixel_bytes = RowBytes(file)
           /\ defiltered_size = (file.height * RowBytes(file)) % Word
<1>1. file \in Files /\ ihdr_data = [width |-> file.width, height |-> file.height]
    BY DEF HeaderInv
<1>2. ihdr_data.width = file.width /\ ihdr_data.height = file.height
    BY <1>1
<1>3. file.width \in Nat /\ file.height \in Nat
    BY <1>1, FileFacts
<1>4. file.width * 4 = RowBytes(file) /\ 1 + file.width * 4 = LineBytes(file)
    BY <1>1, <1>3, FileFacts
<1>5. PICK n \in Int : n = (file.height + 1) * file.width * 4
    BY <1>3
<1>6. Word \in Nat \ {0}
    BY PngAssumption
<1>7. n % Word \in Nat
    BY <1>6, DivisionFacts
<1> QED
    BY <1>2, <1>4, <1>5, <1>7
    DEF output_buffer_size, scanline_width, pixel_bytes, defiltered_size, bytes_per_pixel

\* A picture of at most half the range of the sizes has sizes that do not wrap.
LEMMA SizesUnwrapped ==
    ASSUME HeaderInv, chunk > 1, RawSize(file) <= Word \div 2
    PROVE  /\ scanline_width = LineBytes(file)
           /\ defiltered_size = file.height * RowBytes(file)
<1>1. file \in Files
    BY DEF HeaderInv
<1>2. PICK h \in Nat \ {0}, r \in Nat \ {0} :
          h = file.height /\ r = RowBytes(file) /\ LineBytes(file) = 1 + r
          /\ RawSize(file) = h + h * r /\ h * r \in Nat
    <2>1. RowBytes(file) = 4 * file.width /\ LineBytes(file) = 1 + 4 * file.width
          /\ RawSize(file) = file.height + file.height * (4 * file.width)
          /\ file.height \in Nat \ {0} /\ RowBytes(file) \in Nat \ {0}
          /\ file.height * RowBytes(file) \in Nat
        BY <1>1, FileFacts
    <2> QED
        BY <2>1
<1>3. h + h * r < Word
    BY <1>2, HalfWord
<1>4. 1 * r <= h * r
    <2>1. h = 1 \/ 1 * r + r <= h * r
        BY <1>2, ProductMonotone
    <2> QED
        BY <1>2, <2>1
<1>5. 1 + r \in 0 .. Word - 1 /\ h * r \in 0 .. Word - 1
    BY <1>2, <1>3, <1>4, HalfWord
<1>6. (1 + r) % Word = 1 + r /\ (h * r) % Word = h * r
    BY <1>5, SmallModulo, HalfWord
<1> QED
    BY <1>2, <1>6, SizesKnown

\* Where the filtered lines fit, and the sizes do not wrap.
LEMMA LinesFit ==
    ASSUME HeaderInv, chunk > 1, file.height <= 4 * file.width,
           (file.height + 1) * file.width * 4 <= Word \div 2
    PROVE  RawSize(file) <= output_buffer_size /\ RawSize(file) <= Word \div 2
<1>1. file \in Files
    BY DEF HeaderInv
<1>2. PICK h \in Nat, w \in Nat : h = file.height /\ w = file.width
    BY <1>1, FileFacts
<1>3. RawSize(file) = h + h * (4 * w)
    BY <1>1, <1>2, FileFacts
<1>4. (h + 1) * w * 4 = h * (4 * w) + 4 * w /\ h * (4 * w) \in Nat
    <2>1. h * w \in Nat
        BY <1>2
    <2>0. (h + 1) * w = h * w + w
        BY <1>2
    <2>2. h * (4 * w) = 4 * (h * w)
        BY <1>2
    <2> QED
        BY <1>2, <2>0, <2>1, <2>2
<1>5. PICK n \in Nat : n = (h + 1) * w * 4
    BY <1>4
<1>6. n \in 0 .. Word - 1
    BY <1>2, <1>5, HalfWord
<1>7. n % Word = n
    BY <1>6, SmallModulo, HalfWord
<1>8. output_buffer_size = n
    BY <1>2, <1>5, <1>7, SizesKnown
<1>9. h <= 4 * w /\ n <= Word \div 2
    BY <1>2, <1>5
<1>10. h + h * (4 * w) <= n
    BY <1>2, <1>4, <1>5, <1>9
<1>11. h + h * (4 * w) \in Nat
    BY <1>2, <1>4
<1> QED
    BY <1>3, <1>5, <1>8, <1>9, <1>10, <1>11, HalfWord

-----------------------------------------------------------------------------
(***************************************************************************)
(* Steps                                                                   *)
(***************************************************************************)

LEMMA InitInv == Init => IInv
<1> SUFFICES ASSUME Init PROVE IInv
    OBVIOUS
<1> USE DEF Init
<1>1. file \in Files /\ RawSize(file) \in Nat
    BY FileFacts
<1>2. MaxBlocks \in Nat \ {0}
    BY PngAssumption
<1>3. TypeOK
    <2>1. 0 \in 0 .. RawSize(file) /\ 0 \in 0 .. MaxBlocks
        BY <1>1, <1>2
    <2>2. <<>> \in Seq(0 .. 15) /\ <<>> \in Seq(Nat \ {0})
        OBVIOUS
    <2>3. ihdr_data \in [width : Nat, height : Nat]
        OBVIOUS
    <2>4. DOMAIN output_buffer = {} /\ DOMAIN defiltered = {}
        OBVIOUS
    <2>5. pc = "chunks" /\ chunk \in Nat \ {0} /\ code = None /\ copy = None
        OBVIOUS
    <2>9. bfinal \in BOOLEAN
        OBVIOUS
    <2>6. told \in Nat /\ out_offset \in Nat /\ line \in Nat /\ index \in Nat /\ pix \in Nat
        OBVIOUS
    <2>7. sent \in 0 .. RawSize(file) /\ block \in 0 .. MaxBlocks
        BY <2>1
    <2>8. data_buffer \in Seq(Nat \ {0}) /\ lengths \in Seq(0 .. 15)
        BY <2>2
    <2> QED
        BY <2>3, <2>4, <2>5, <2>6, <2>7, <2>8, <2>9 DEF TypeOK
<1>4. HeaderInv /\ TablesInv /\ OwnAlphabets /\ StaysInBuffers /\ LinesInv
    BY <1>1 DEF HeaderInv, TablesInv, OwnAlphabets, StaysInBuffers, LinesInv, InBlock, IsInflated
<1>5. Inflated = 0 /\ CopyInv
    BY DEF Inflated, CopyInv, IsInflated
<1>6. BufferInv /\ InflatesWhatWasDeflated
    BY <1>5, HalfWord DEF BufferInv, InflatesWhatWasDeflated
<1> QED
    BY <1>3, <1>4, <1>5, <1>6 DEF IInv

\* The chunks: everything but the file's place and size stays.
ChunkStep == ReadIHDR \/ ReadIDAT \/ SkipChunk \/ RefuseChunk \/ EndChunks

LEMMA ChunkHeader ==
    ASSUME TypeOK, HeaderInv, ChunkStep
    PROVE  HeaderInv'
<1>1. file' = file /\ file \in Files /\ pc = "chunks" /\ chunk \in Nat \ {0}
    BY DEF ChunkStep, ReadIHDR, ReadIDAT, SkipChunk, RefuseChunk, EndChunks, AtChunk, input,
           HeaderInv, TypeOK
<1>2. CASE ReadIHDR
    BY <1>1, <1>2 DEF ReadIHDR, AtChunk, HeaderInv
<1>3. file.chunks[1].type = "IHDR" /\ Len(file.chunks) >= 1
    <2>1. file.chunks \in Seq([type : {"IHDR", "IDAT", "IEND", "other"}, size : Nat])
          /\ file.chunks # <<>> /\ file.chunks[1].type = "IHDR"
        BY <1>1, FilesAssumption
    <2> QED
        BY <2>1
<1>4. CASE RefuseChunk
    BY <1>1, <1>4 DEF RefuseChunk, HeaderInv, input
<1>5. CASE ReadIDAT \/ SkipChunk \/ EndChunks
    <2>1. chunk > 1
        <3>1. chunk = 1 => file.chunks[chunk].type = "IHDR" /\ ~(chunk > Len(file.chunks))
            BY <1>3
        <3> QED
            BY <1>1, <1>5, <3>1 DEF ReadIDAT, SkipChunk, EndChunks, AtChunk
    <2>2. ihdr_data' = ihdr_data /\ (chunk' = chunk + 1 \/ chunk' = chunk)
        BY <1>5 DEF ReadIDAT, SkipChunk, EndChunks, AtChunk
    <2> QED
        BY <1>1, <2>1, <2>2 DEF HeaderInv
<1> QED
    BY <1>2, <1>4, <1>5 DEF ChunkStep

LEMMA ChunkInv ==
    ASSUME IInv, ChunkStep
    PROVE  IInv'
<1>1. pc = "chunks" /\ file' = file /\ file \in Files
    BY DEF IInv, HeaderInv, input, ChunkStep, ReadIHDR, ReadIDAT, SkipChunk, RefuseChunk,
           EndChunks, AtChunk
<1>2. /\ sent' = sent /\ code' = code /\ block' = block /\ told' = told /\ bfinal' = bfinal
      /\ lengths' = lengths /\ alphabet' = alphabet /\ out_offset' = out_offset /\ copy' = copy
      /\ line' = line /\ index' = index /\ defiltered' = defiltered /\ pix' = pix
    BY DEF encoder, inflater, filter, ChunkStep, ReadIHDR, ReadIDAT, SkipChunk, RefuseChunk,
           EndChunks
<1>3. pc' \in {"chunks", "refused", "exited", "zlib"}
    BY <1>1 DEF ChunkStep, ReadIHDR, ReadIDAT, SkipChunk, RefuseChunk, EndChunks, AtChunk
<1>4. HeaderInv'
    BY ChunkHeader DEF IInv
<1>5. /\ copy = None /\ out_offset = sent /\ out_offset = 0
      /\ line = 0 /\ index = 0 /\ pix = 0 /\ defiltered = <<>>
    BY <1>1 DEF IInv, CopyInv, LinesInv, IsInflated
<1>6. /\ pc' = "zlib" => DOMAIN output_buffer' = 0 .. output_buffer_size' - 1
      /\ \A k \in DOMAIN output_buffer' : output_buffer'[k] \in Byte \cup {None}
    <2>1. CASE EndChunks
        <3>1. output_buffer_size' = output_buffer_size
            BY <2>1 DEF output_buffer_size, EndChunks
        <3> QED
            BY <2>1, <3>1 DEF EndChunks
    <2>2. CASE ~EndChunks
        <3>1. output_buffer' = output_buffer /\ pc' # "zlib"
            BY <1>1, <2>2 DEF inflater, ChunkStep, ReadIHDR, ReadIDAT, SkipChunk, RefuseChunk
        <3> QED
            BY <3>1 DEF IInv, TypeOK
    <2> QED
        BY <2>1, <2>2
<1>7. chunk' \in Nat \ {0}
    BY DEF IInv, TypeOK, input, ChunkStep, ReadIHDR, ReadIDAT, SkipChunk, RefuseChunk,
           EndChunks, AtChunk
<1>8. ihdr_data' \in [width : Nat, height : Nat]
    <2>1. CASE ReadIHDR
        BY <1>1, <2>1, FileFacts DEF ReadIHDR
    <2>2. CASE ~ReadIHDR
        BY <2>2 DEF IInv, TypeOK, input, ChunkStep, ReadIDAT, SkipChunk, RefuseChunk, EndChunks
    <2> QED
        BY <2>1, <2>2
<1>9. data_buffer' \in Seq(Nat \ {0})
    <2>1. CASE ReadIDAT
        <3>1. IDATNumber \in Nat \ {0}
            <4>1. chunk \in 1 .. chunk /\ file.chunks[chunk].type = "IDAT"
                BY <2>1 DEF ReadIDAT, AtChunk, IInv, TypeOK
            <4>2. IsFiniteSet(1 .. chunk)
                <5>1. chunk \in Int
                    BY DEF IInv, TypeOK
                <5> QED
                    BY <5>1, FS_Interval
            <4>3. PICK S : S = {c \in 1 .. chunk : file.chunks[c].type = "IDAT"}
                OBVIOUS
            <4>4. IsFiniteSet(S) /\ chunk \in S
                BY <4>1, <4>2, <4>3, FS_Subset
            <4>5. Cardinality(S) \in Nat /\ Cardinality(S) # 0
                BY <4>4, FS_CardinalityType, FS_EmptySet
            <4> QED
                BY <4>3, <4>5 DEF IDATNumber
        <3> QED
            BY <2>1, <3>1 DEF ReadIDAT, IInv, TypeOK
    <2>2. CASE ~ReadIDAT
        BY <2>2 DEF IInv, TypeOK, input, ChunkStep, ReadIHDR, SkipChunk, RefuseChunk, EndChunks
    <2> QED
        BY <2>1, <2>2
<1>10. TypeOK'
    BY <1>1, <1>2, <1>3, <1>6, <1>7, <1>8, <1>9 DEF IInv, TypeOK
<1>11. TablesInv' /\ OwnAlphabets' /\ StaysInBuffers'
    BY <1>3 DEF TablesInv, OwnAlphabets, StaysInBuffers, InBlock
<1>12. CopyInv'
    BY <1>2, <1>3, <1>5 DEF CopyInv, IsInflated
<1>13. Inflated' = 0
    BY <1>2, <1>5 DEF Inflated
<1>14. BufferInv'
    BY <1>3, <1>6, <1>13, HalfWord DEF BufferInv
<1>15. InflatesWhatWasDeflated'
    BY <1>3, <1>13 DEF InflatesWhatWasDeflated
<1>16. LinesInv'
    BY <1>2, <1>3, <1>5 DEF LinesInv, IsInflated
<1> QED
    BY <1>4, <1>10, <1>11, <1>12, <1>14, <1>15, <1>16 DEF IInv

Inflating == {"zlib", "block", "lengths", "symbols", "copy"}

\* What a step of inflating leaves alone.
LEMMA InflateFrame ==
    ASSUME IInv, UNCHANGED input, UNCHANGED <<line, index, pix>>, pc \in Inflating
    PROVE  /\ file \in Files /\ file' = file /\ chunk > 1 /\ ihdr_data' = ihdr_data
           /\ HeaderInv'
           /\ chunk' \in Nat \ {0} /\ ihdr_data' \in [width : Nat, height : Nat]
           /\ data_buffer' \in Seq(Nat \ {0})
           /\ output_buffer_size' = output_buffer_size
           /\ line' = 0 /\ index' = 0 /\ pix' = 0
           /\ pc' \in Inflating \cup {"exited", "overrun", "garbage"} /\ defiltered' = defiltered
              => LinesInv'
<1>1. file' = file /\ chunk' = chunk /\ ihdr_data' = ihdr_data /\ data_buffer' = data_buffer
    BY DEF input
<1>2. file \in Files /\ chunk > 1
    BY DEF IInv, HeaderInv, Inflating
<1>3. HeaderInv'
    BY <1>1, <1>2 DEF IInv, HeaderInv
<1>4. output_buffer_size' = output_buffer_size
    BY <1>1 DEF output_buffer_size
<1>5. line = 0 /\ index = 0 /\ pix = 0 /\ defiltered = <<>>
    BY DEF IInv, LinesInv, IsInflated, Inflating
<1>6. pc' \in Inflating \cup {"exited", "overrun", "garbage"} /\ defiltered' = defiltered
      => LinesInv'
    BY <1>5 DEF LinesInv, IsInflated, Inflating
<1> QED
    BY <1>1, <1>2, <1>3, <1>4, <1>5, <1>6 DEF IInv, TypeOK

\* Steps that neither write nor take what is to be written.
LEMMA BufferKept ==
    ASSUME IInv, UNCHANGED input, UNCHANGED <<line, index, pix, defiltered>>,
           UNCHANGED <<sent, output_buffer, out_offset, copy>>,
           pc \in Inflating \ {"copy"},
           pc' \in (Inflating \ {"copy", "zlib"}) \cup {"exited", "garbage"}
    PROVE  /\ CopyInv' /\ BufferInv' /\ InflatesWhatWasDeflated' /\ StaysInBuffers'
           /\ HeaderInv' /\ LinesInv'
<1>1. file' = file /\ HeaderInv' /\ LinesInv' /\ output_buffer_size' = output_buffer_size
    BY InflateFrame DEF Inflating
<1>2. Inflated' = Inflated
    BY DEF Inflated
<1>3. CopyInv'
    BY <1>1 DEF IInv, CopyInv, Inflating, IsInflated
<1>4. BufferInv'
    BY <1>1, <1>2 DEF IInv, BufferInv, Inflating
<1>5. InflatesWhatWasDeflated'
    BY <1>1, <1>2 DEF IInv, InflatesWhatWasDeflated, CopyInv, Inflating
<1>6. StaysInBuffers'
    BY DEF StaysInBuffers, Inflating
<1> QED
    BY <1>1, <1>3, <1>4, <1>5, <1>6

LEMMA BlockStartInv ==
    ASSUME IInv, ZlibHeader \/ UnsupportedBlock \/ StartBlock
    PROVE  IInv'
<1>1. /\ UNCHANGED input /\ UNCHANGED <<line, index, pix, defiltered>>
      /\ UNCHANGED <<sent, output_buffer, out_offset, copy, alphabet>>
      /\ pc \in {"zlib", "block"}
      /\ pc' \in {"block", "lengths", "exited", "garbage"}
    BY DEF ZlibHeader, UnsupportedBlock, StartBlock, encoder, inflater, filter
<1>2. CopyInv' /\ BufferInv' /\ InflatesWhatWasDeflated' /\ StaysInBuffers' /\ HeaderInv' /\ LinesInv'
    BY <1>1, BufferKept DEF Inflating
<1>3. /\ file' = file /\ chunk' \in Nat \ {0} /\ ihdr_data' \in [width : Nat, height : Nat]
      /\ data_buffer' \in Seq(Nat \ {0})
    BY <1>1, InflateFrame DEF Inflating
<1>4. CASE ~StartBlock
    <2>1. UNCHANGED <<code, block, told, bfinal, lengths>> /\ ~InBlock'
        BY <1>4 DEF ZlibHeader, UnsupportedBlock, encoder, inflater, InBlock
    <2>2. TypeOK'
        BY <1>1, <1>3, <2>1 DEF IInv, TypeOK
    <2>3. TablesInv' /\ OwnAlphabets'
        BY <2>1 DEF TablesInv, OwnAlphabets, InBlock
    <2> QED
        BY <1>2, <2>2, <2>3 DEF IInv
<1>5. CASE StartBlock
    <2>1. /\ pc' = "lengths" /\ code' \in Codes /\ bfinal' \in BOOLEAN
          /\ block < MaxBlocks /\ block' = block + 1 /\ told' = 0 /\ lengths' = <<>>
        BY <1>5 DEF StartBlock
    <2>2. block' \in 0 .. MaxBlocks
        BY <2>1, PngAssumption DEF IInv, TypeOK
    <2>3. <<>> \in Seq(0 .. 15) /\ Len(<<>>) = 0
        OBVIOUS
    <2>4. TypeOK'
        BY <1>1, <1>3, <2>1, <2>2, <2>3 DEF IInv, TypeOK
    <2>5. NumCodes(code') \in Nat
        BY <2>1, TableFacts DEF NumCodes
    <2>6. TablesInv' /\ OwnAlphabets'
        BY <2>1, <2>3, <2>5 DEF TablesInv, OwnAlphabets, InBlock, i
    <2> QED
        BY <1>2, <2>4, <2>6 DEF IInv
<1> QED
    BY <1>4, <1>5

LEMMA RunIsSequence ==
    ASSUME NEW r \in Nat, NEW v \in 0 .. 15, NEW t, t = [k \in 1 .. r |-> v]
    PROVE  t \in Seq(0 .. 15) /\ Len(t) = r
OBVIOUS

\* A sequence with a run of a value behind it.
LEMMA RunAppended ==
    ASSUME NEW q \in Seq(0 .. 15), NEW n \in Nat, Len(q) = n,
           NEW t \in Seq(0 .. 15), NEW r \in Nat, Len(t) = r,
           NEW v, \A k \in 1 .. r : t[k] = v
    PROVE  /\ q \o t \in Seq(0 .. 15) /\ Len(q \o t) = n + r
           /\ \A k \in 1 .. n : (q \o t)[k] = q[k]
           /\ \A k \in n + 1 .. n + r : (q \o t)[k] = v
<1>1. q \o t \in Seq(0 .. 15) /\ Len(q \o t) = n + r
    OBVIOUS
<1>2. \A k \in 1 .. n : (q \o t)[k] = q[k]
    OBVIOUS
<1>3. ASSUME NEW k \in n + 1 .. n + r PROVE (q \o t)[k] = v
    <2>1. k - n \in 1 .. r /\ k \in Len(q) + 1 .. Len(q) + Len(t)
        OBVIOUS
    <2>2. (q \o t)[k] = t[k - Len(q)]
        BY <2>1
    <2> QED
        BY <2>1, <2>2
<1> QED
    BY <1>1, <1>2, <1>3

LEMMA CodeLengthsInv ==
    ASSUME IInv, ReadCodeLength
    PROVE  IInv'
<1>1. /\ UNCHANGED input /\ UNCHANGED <<line, index, pix, defiltered>>
      /\ UNCHANGED <<sent, output_buffer, out_offset, copy, alphabet>>
      /\ UNCHANGED <<code, block, bfinal>>
      /\ pc = "lengths" /\ pc' = "lengths"
    BY DEF ReadCodeLength, filter
<1>2. CopyInv' /\ BufferInv' /\ InflatesWhatWasDeflated' /\ StaysInBuffers' /\ HeaderInv' /\ LinesInv'
    BY <1>1, BufferKept DEF Inflating
<1>3. /\ file' = file /\ chunk' \in Nat \ {0} /\ ihdr_data' \in [width : Nat, height : Nat]
      /\ data_buffer' \in Seq(Nat \ {0})
    BY <1>1, InflateFrame DEF Inflating
<1>4. code \in Codes
    BY <1>1 DEF IInv, TablesInv, InBlock
<1>5. PICK n \in Nat : n = told
    BY DEF IInv, TypeOK
<1>6. PICK m \in Nat : m = code.num_literal_codes + code.num_distance_codes /\ m = NumCodes(code)
    BY <1>4, TableFacts DEF NumCodes
<1>7. PICK given : given = code.lengths /\ given \in [0 .. m - 1 -> 0 .. 15]
    BY <1>4, <1>6, TableFacts
<1>8. lengths \in Seq(0 .. 15) /\ Len(lengths) = n /\ \A k \in 1 .. n : lengths[k] = given[k - 1]
    BY <1>1, <1>5, <1>7 DEF IInv, TypeOK, OwnAlphabets, i
<1>9. n < m
    BY <1>6, <1>8 DEF ReadCodeLength, i
<1>10. PICK s \in Runs(code, told) :
          IF s.symbol < 16
          THEN lengths' = Append(lengths, s.symbol) /\ told' = told + 1
          ELSE lengths' = lengths \o Run(s) /\ told' = told + RunLength(s)
    BY DEF ReadCodeLength
<1>11. n \in 0 .. m - 1
    BY <1>9
<1>12. \/ s.symbol \in 0 .. 15 /\ s.symbol = given[n]
       \/ /\ s.symbol \in 16 .. 18
          /\ RepeatBase[s.symbol] + s.extra \in Nat \ {0}
          /\ RunLength(s) = RepeatBase[s.symbol] + s.extra
          /\ n + RunLength(s) <= m
          /\ s.symbol = 16 => n > 0
          /\ \A j \in n .. n + RunLength(s) - 1 :
                 given[j] = IF s.symbol = 16 THEN given[n - 1] ELSE 0
    <2>1. told \in 0 .. code.num_literal_codes + code.num_distance_codes - 1
        BY <1>4, <1>5, <1>6, <1>11, TableFacts
    <2>2. \/ s.symbol \in 0 .. 15 /\ s.symbol = code.lengths[told]
          \/ /\ s.symbol \in 16 .. 18
             /\ RepeatBase[s.symbol] + s.extra \in Nat \ {0}
             /\ RunLength(s) = RepeatBase[s.symbol] + s.extra
             /\ told + RunLength(s) <= code.num_literal_codes + code.num_distance_codes
             /\ s.symbol = 16 => told > 0
             /\ \A j \in told .. told + RunLength(s) - 1 :
                    code.lengths[j] = IF s.symbol = 16 THEN code.lengths[told - 1] ELSE 0
        BY <1>4, <2>1, RunFacts
    <2> QED
        BY <1>5, <1>6, <1>7, <2>2
<1>13. /\ lengths' \in Seq(0 .. 15) /\ told' \in Nat /\ told' <= m
       /\ Len(lengths') = told'
       /\ \A k \in 1 .. told' : lengths'[k] = given[k - 1]
    <2>1. CASE s.symbol \in 0 .. 15 /\ s.symbol = given[n]
        <3>1. PICK v \in 0 .. 15 : v = s.symbol /\ v = given[n]
            BY <2>1
        <3>2. s.symbol < 16
            BY <3>1
        <3>3. lengths' = Append(lengths, v) /\ told' = n + 1
            BY <1>5, <1>10, <3>1, <3>2
        <3>4. lengths' \in Seq(0 .. 15) /\ Len(lengths') = n + 1 /\ lengths'[n + 1] = v
              /\ \A k \in 1 .. n : lengths'[k] = lengths[k]
            BY <1>8, <3>3
        <3>5. ASSUME NEW k \in 1 .. n + 1 PROVE lengths'[k] = given[k - 1]
            <4>1. k \in 1 .. n \/ (k = n + 1 /\ k - 1 = n)
                OBVIOUS
            <4> QED
                BY <1>8, <3>1, <3>4, <4>1
        <3> QED
            BY <1>9, <3>3, <3>4, <3>5
    <2>2. CASE ~(s.symbol \in 0 .. 15 /\ s.symbol = given[n])
        <3>1. PICK r \in Nat \ {0} : r = RunLength(s) /\ r = RepeatBase[s.symbol] + s.extra
            BY <1>12, <2>2
        <3>2. PICK v \in 0 .. 15 : v = IF s.symbol = 16 THEN lengths[n] ELSE 0
            <4>1. s.symbol = 16 => n \in 1 .. n
                BY <1>12, <2>2
            <4>2. \A k \in 1 .. n : lengths[k] \in 0 .. 15
                BY <1>8
            <4> QED
                BY <4>1, <4>2
        <3>3. Run(s) = [k \in 1 .. r |-> v]
            BY <1>8, <3>1, <3>2 DEF Run, i
        <3>4. s.symbol = 16 => lengths[n] = given[n - 1]
            BY <1>8, <1>12, <2>2
        <3>5. \A j \in n .. n + r - 1 : given[j] = v
            BY <1>12, <2>2, <3>1, <3>2, <3>4
        <3>6. ~(s.symbol < 16)
            BY <1>12, <2>2
        <3>7. lengths' = lengths \o [k \in 1 .. r |-> v] /\ told' = n + r
            BY <1>5, <1>10, <3>1, <3>3, <3>6
        <3>8. /\ lengths' \in Seq(0 .. 15) /\ Len(lengths') = n + r
              /\ \A k \in 1 .. n : lengths'[k] = lengths[k]
              /\ \A k \in n + 1 .. n + r : lengths'[k] = v
            <4>1. PICK q \in Seq(0 .. 15) : q = lengths /\ Len(q) = n
                BY <1>8
            <4>5. PICK t : t = [k \in 1 .. r |-> v]
                OBVIOUS
            <4>2. t \in Seq(0 .. 15) /\ Len(t) = r
                BY <3>1, <3>2, <4>5, RunIsSequence
            <4>3. \A k \in 1 .. r : t[k] = v
                BY <4>5
            <4>4. /\ q \o t \in Seq(0 .. 15) /\ Len(q \o t) = n + r
                  /\ \A k \in 1 .. n : (q \o t)[k] = q[k]
                  /\ \A k \in n + 1 .. n + r : (q \o t)[k] = v
                BY <3>1, <4>1, <4>2, <4>3, RunAppended
            <4> QED
                BY <3>7, <4>1, <4>5, <4>4
        <3>9. ASSUME NEW k \in 1 .. n + r PROVE lengths'[k] = given[k - 1]
            <4>1. k \in 1 .. n \/ (k \in n + 1 .. n + r /\ k - 1 \in n .. n + r - 1)
                OBVIOUS
            <4> QED
                BY <1>8, <3>5, <3>8, <4>1
        <3> QED
            BY <1>12, <2>2, <3>1, <3>7, <3>8, <3>9
    <2> QED
        BY <2>1, <2>2
<1>14. TypeOK'
    BY <1>1, <1>3, <1>13 DEF IInv, TypeOK
<1>15. TablesInv' /\ OwnAlphabets'
    BY <1>1, <1>4, <1>6, <1>7, <1>13 DEF TablesInv, OwnAlphabets, InBlock, i
<1> QED
    BY <1>2, <1>14, <1>15 DEF IInv

LEMMA AlphabetsInv ==
    ASSUME IInv, MakeAlphabets
    PROVE  IInv'
<1>1. /\ UNCHANGED input /\ UNCHANGED <<line, index, pix, defiltered>>
      /\ UNCHANGED <<sent, output_buffer, out_offset, copy, lengths>>
      /\ UNCHANGED <<code, block, bfinal, told>>
      /\ pc = "lengths" /\ pc' = "symbols"
    BY DEF MakeAlphabets, encoder, filter
<1>2. CopyInv' /\ BufferInv' /\ InflatesWhatWasDeflated' /\ StaysInBuffers' /\ HeaderInv' /\ LinesInv'
    BY <1>1, BufferKept DEF Inflating
<1>3. /\ file' = file /\ chunk' \in Nat \ {0} /\ ihdr_data' \in [width : Nat, height : Nat]
      /\ data_buffer' \in Seq(Nat \ {0})
    BY <1>1, InflateFrame DEF Inflating
<1>4. code \in Codes
    BY <1>1 DEF IInv, TablesInv, InBlock
<1>5. PICK a \in Nat, b \in Nat : a = code.num_literal_codes /\ b = code.num_distance_codes
    BY <1>4, TableFacts
<1>6. PICK given : given = code.lengths /\ given \in [0 .. a + b - 1 -> 0 .. 15]
    BY <1>4, <1>5, TableFacts
<1>7. \A k \in 1 .. a + b : lengths[k] = given[k - 1]
    <2>1. told <= a + b /\ i = told /\ i >= a + b /\ \A k \in 1 .. i : lengths[k] = given[k - 1]
        BY <1>1, <1>5, <1>6 DEF IInv, TypeOK, TablesInv, OwnAlphabets, NumCodes, MakeAlphabets
    <2>2. told \in Nat
        BY DEF IInv, TypeOK
    <2> QED
        BY <2>1, <2>2
<1>8. [s \in 0 .. a - 1 |-> lengths[s + 1]] = Literals(code)
    <2>1. \A s \in 0 .. a - 1 : lengths[s + 1] = given[s]
        BY <1>7
    <2> QED
        BY <1>5, <1>6, <2>1 DEF Literals
<1>9. [s \in 0 .. b - 1 |-> lengths[s + a + 1]] = Distances(code)
    <2>1. \A s \in 0 .. b - 1 : lengths[s + a + 1] = given[a + s]
        BY <1>7
    <2> QED
        BY <1>5, <1>6, <2>1 DEF Distances
<1>10. alphabet' = [literal |-> Literals(code), distance |-> Distances(code)]
    BY <1>5, <1>8, <1>9 DEF MakeAlphabets
<1>11. TypeOK'
    BY <1>1, <1>3 DEF IInv, TypeOK
<1>12. TablesInv' /\ OwnAlphabets'
    <2>1. Literals(code)' = Literals(code) /\ Distances(code)' = Distances(code)
        BY <1>1 DEF Literals, Distances
    <2> QED
        BY <1>1, <1>4, <1>10, <2>1 DEF TablesInv, OwnAlphabets, InBlock
<1> QED
    BY <1>2, <1>11, <1>12 DEF IInv

-----------------------------------------------------------------------------
(***************************************************************************)
(* Symbols                                                                 *)
(***************************************************************************)

\* A symbol is taken for itself: the table is the encoder's.
LEMMA SymbolRead ==
    ASSUME IInv, pc = "symbols", NEW s \in Sendable(file, code, bfinal, sent),
           NEW symbol \in DOMAIN alphabet.literal, Reads(s, symbol)
    PROVE  /\ file \in Files /\ code \in Codes
           /\ sent \in 0 .. RawSize(file) /\ RawSize(file) \in Nat
           /\ copy = None /\ out_offset = sent /\ Inflated = sent
           /\ symbol = s.symbol /\ symbol \in Nat
           /\ IsLiteralOf(s, file, sent) \/ IsEnd(s, file, bfinal, sent) \/ IsCopy(s, file, code, sent)
           /\ sent' = sent + SentBytes(s)
           /\ alphabet.distance = Distances(code)
<1>1. file \in Files /\ code \in Codes
    BY DEF IInv, HeaderInv, TablesInv, InBlock
<1>2. alphabet = [literal |-> Literals(code), distance |-> Distances(code)]
    BY DEF IInv, OwnAlphabets
<1>3. sent \in 0 .. RawSize(file) /\ RawSize(file) \in Nat
    BY <1>1, FileFacts DEF IInv, TypeOK
<1>4. copy = None /\ out_offset = sent
    BY DEF IInv, CopyInv
<1>5. Inflated = sent
    BY <1>3, <1>4 DEF Inflated
<1>6. /\ IsCoded(Literals(code), s.symbol) /\ s.symbol \in Nat
      /\ IsLiteralOf(s, file, sent) \/ IsEnd(s, file, bfinal, sent) \/ IsCopy(s, file, code, sent)
    BY <1>1, <1>3, SendableFacts
<1>7. symbol \in lookup(Literals(code), CodeWord(Literals(code), s.symbol))
    BY <1>2 DEF Reads
<1>8. lookup(Literals(code), CodeWord(Literals(code), s.symbol)) = {s.symbol}
    <2>1. code.num_literal_codes \in Nat
          /\ Literals(code) \in [0 .. code.num_literal_codes - 1 -> 0 .. 15]
        BY <1>1, TableFacts
    <2> QED
        BY <1>6, <2>1, LookupOwn
<1>9. symbol = s.symbol
    BY <1>7, <1>8
<1>10. sent' = sent + SentBytes(s)
    BY DEF Reads
<1> QED
    BY <1>1, <1>2, <1>3, <1>4, <1>5, <1>6, <1>9, <1>10

\* What holds after any step that keeps the block's tables.
LEMMA TablesKept ==
    ASSUME IInv, pc \in {"symbols", "copy"}, UNCHANGED <<code, block, told, bfinal, lengths>>,
           UNCHANGED alphabet \/ pc' \notin {"symbols", "copy"}, pc' # "lengths"
    PROVE  TablesInv' /\ OwnAlphabets'
<1>1. Literals(code)' = Literals(code) /\ Distances(code)' = Distances(code)
    BY DEF Literals, Distances
<1>2. code' \in Codes
    BY DEF IInv, TablesInv, InBlock
<1>3. TablesInv'
    BY <1>2 DEF TablesInv
<1>4. OwnAlphabets'
    BY <1>1 DEF IInv, OwnAlphabets
<1> QED
    BY <1>3, <1>4

LEMMA LiteralInv ==
    ASSUME IInv, pc = "symbols", NEW s \in Sendable(file, code, bfinal, sent),
           NEW symbol \in DOMAIN alphabet.literal, Literal(s, symbol)
    PROVE  IInv'
<1>1. Reads(s, symbol) /\ symbol < Bytes
    BY DEF Literal, END_OF_BLOCK
<1>2. /\ file \in Files /\ code \in Codes
      /\ sent \in 0 .. RawSize(file) /\ RawSize(file) \in Nat
      /\ copy = None /\ out_offset = sent /\ Inflated = sent
      /\ symbol = s.symbol /\ symbol \in Nat
      /\ IsLiteralOf(s, file, sent) \/ IsEnd(s, file, bfinal, sent) \/ IsCopy(s, file, code, sent)
      /\ sent' = sent + SentBytes(s)
    BY <1>1, SymbolRead
<1>3. IsLiteralOf(s, file, sent)
    BY <1>1, <1>2, BytesAssumption DEF IsEnd, IsCopy
<1>4. sent < RawSize(file) /\ symbol = Raw(file, sent) /\ sent' = sent + 1
    BY <1>2, <1>3 DEF IsLiteralOf
<1>5. /\ UNCHANGED input /\ UNCHANGED <<line, index, pix, defiltered>>
      /\ UNCHANGED <<code, block, told, bfinal, lengths, alphabet>>
      /\ copy' = copy
    BY <1>1 DEF Literal, Reads, filter
<1>6. /\ file' = file /\ chunk > 1 /\ HeaderInv'
      /\ chunk' \in Nat \ {0} /\ ihdr_data' \in [width : Nat, height : Nat]
      /\ data_buffer' \in Seq(Nat \ {0})
      /\ output_buffer_size' = output_buffer_size
    BY <1>5, InflateFrame DEF Inflating
<1>7. pc' \in {"symbols", "overrun"}
    BY DEF Literal
<1>8. LinesInv'
    BY <1>5, <1>7, InflateFrame DEF Inflating
<1>9. TablesInv' /\ OwnAlphabets'
    BY <1>5, <1>7, TablesKept
<1>10. sent \in Nat /\ sent + 1 \in 0 .. RawSize(file)
    BY <1>2, <1>4
<1>11. symbol \in Byte
    <2>1. sent \in 0 .. RawSize(file) - 1
        BY <1>2, <1>4
    <2> QED
        BY <1>2, <1>4, <2>1, RawType
<1>12. CASE IsInBuffer(out_offset)
    <2>1. /\ output_buffer' = [output_buffer EXCEPT ![sent] = symbol]
          /\ out_offset' = sent + 1 /\ pc' = "symbols"
        BY <1>2, <1>12 DEF Literal
    <2>2. DOMAIN output_buffer' = DOMAIN output_buffer
          /\ \A k \in DOMAIN output_buffer :
                 output_buffer'[k] = IF k = sent THEN symbol ELSE output_buffer[k]
        BY <2>1
    <2>3. DOMAIN output_buffer = 0 .. output_buffer_size - 1 /\ sent \in DOMAIN output_buffer
          /\ sent + 1 <= Word \div 2
        <3>1. DOMAIN output_buffer = 0 .. output_buffer_size - 1
            BY DEF IInv, BufferInv
        <3>2. output_buffer_size \in Nat /\ Word \div 2 \in Nat
            BY <1>6, HalfWord, SizesKnown DEF IInv
        <3> QED
            BY <1>2, <1>10, <1>12, <3>1, <3>2 DEF IsInBuffer
    <2>4. TypeOK'
        <3>1. \A k \in DOMAIN output_buffer' : output_buffer'[k] \in Byte \cup {None}
            BY <1>11, <2>2 DEF IInv, TypeOK
        <3>2. sent' \in 0 .. RawSize(file')
            BY <1>4, <1>6, <1>10
        <3> QED
            BY <1>2, <1>5, <1>6, <1>10, <2>1, <3>1, <3>2 DEF IInv, TypeOK
    <2>5. CopyInv'
        BY <1>2, <1>4, <1>5, <2>1 DEF CopyInv, IsInflated
    <2>6. Inflated' = sent + 1
        BY <1>2, <1>5, <1>10, <2>1 DEF Inflated
    <2>7. \A k \in 0 .. sent : k \in DOMAIN output_buffer' /\ output_buffer'[k] = Raw(file, k)
        <3>1. \A k \in 0 .. sent - 1 :
                  k \in DOMAIN output_buffer /\ output_buffer[k] = Raw(file, k)
            BY <1>2 DEF IInv, BufferInv, InflatesWhatWasDeflated
        <3>2. \A k \in 0 .. sent : k = sent \/ (k \in 0 .. sent - 1 /\ k # sent)
            BY <1>10
        <3> QED
            BY <1>4, <2>2, <2>3, <3>1, <3>2
    <2>8. \A k \in 0 .. Inflated' - 1 : k \in 0 .. sent
        BY <1>10, <2>6
    <2>9. BufferInv'
        BY <1>6, <2>2, <2>3, <2>6, <2>7, <2>8 DEF BufferInv
    <2>10. InflatesWhatWasDeflated'
        BY <1>4, <1>6, <2>1, <2>7, <2>8 DEF InflatesWhatWasDeflated
    <2>11. StaysInBuffers'
        BY <2>1 DEF StaysInBuffers
    <2> QED
        BY <1>6, <1>8, <1>9, <2>4, <2>5, <2>9, <2>10, <2>11 DEF IInv
<1>13. CASE ~IsInBuffer(out_offset)
    <2>1. pc' = "overrun" /\ output_buffer' = output_buffer /\ out_offset' = out_offset
        BY <1>13 DEF Literal
    <2>2. sent' \in 0 .. RawSize(file')
        BY <1>4, <1>6, <1>10
    <2>3. TypeOK'
        BY <1>2, <1>5, <1>6, <2>1, <2>2 DEF IInv, TypeOK
    <2>4. CopyInv'
        BY <2>1 DEF CopyInv, IsInflated
    <2>5. BufferInv'
        BY <1>6, <2>1 DEF IInv, BufferInv
    <2>6. InflatesWhatWasDeflated'
        BY <2>1 DEF InflatesWhatWasDeflated
    <2>7. StaysInBuffers'
        <3>1. ASSUME file.height <= 4 * file.width,
                     (file.height + 1) * file.width * 4 <= Word \div 2
              PROVE  FALSE
            <4>1. RawSize(file) <= output_buffer_size /\ RawSize(file) <= Word \div 2
                BY <1>6, <3>1, LinesFit DEF IInv
            <4>2. output_buffer_size \in Nat /\ Word \div 2 \in Nat
                BY <1>6, HalfWord, SizesKnown DEF IInv
            <4> QED
                BY <1>2, <1>4, <1>13, <4>1, <4>2 DEF IsInBuffer
        <3> QED
            BY <1>6, <3>1 DEF StaysInBuffers
    <2> QED
        BY <1>6, <1>8, <1>9, <2>3, <2>4, <2>5, <2>6, <2>7 DEF IInv
<1> QED
    BY <1>12, <1>13

LEMMA EndOfBlockInv ==
    ASSUME IInv, pc = "symbols", NEW s \in Sendable(file, code, bfinal, sent),
           NEW symbol \in DOMAIN alphabet.literal, EndOfBlock(s, symbol)
    PROVE  IInv'
<1>1. Reads(s, symbol) /\ symbol = Bytes
    BY DEF EndOfBlock, END_OF_BLOCK
<1>2. /\ file \in Files
      /\ sent \in 0 .. RawSize(file) /\ RawSize(file) \in Nat
      /\ copy = None /\ out_offset = sent /\ Inflated = sent
      /\ symbol = s.symbol /\ symbol \in Nat
      /\ IsLiteralOf(s, file, sent) \/ IsEnd(s, file, bfinal, sent) \/ IsCopy(s, file, code, sent)
      /\ sent' = sent + SentBytes(s)
    BY <1>1, SymbolRead
<1>3. IsEnd(s, file, bfinal, sent)
    BY <1>1, <1>2, BytesAssumption DEF IsLiteralOf, IsCopy
<1>4. (bfinal => sent = RawSize(file)) /\ sent' = sent
    <2>1. bfinal => sent = RawSize(file)
        BY <1>3 DEF IsEnd
    <2>2. sent' = sent
        BY <1>2, <1>3 DEF IsEnd
    <2> QED
        BY <2>1, <2>2
<1>5. /\ UNCHANGED input /\ UNCHANGED <<line, index, pix>>
      /\ UNCHANGED <<code, block, told, bfinal, lengths>>
      /\ UNCHANGED <<output_buffer, out_offset, copy>>
    BY <1>1 DEF EndOfBlock, Reads
<1>6. /\ file' = file /\ chunk > 1 /\ HeaderInv'
      /\ chunk' \in Nat \ {0} /\ ihdr_data' \in [width : Nat, height : Nat]
      /\ data_buffer' \in Seq(Nat \ {0})
      /\ output_buffer_size' = output_buffer_size
      /\ line' = 0 /\ index' = 0 /\ pix' = 0
    BY <1>5, InflateFrame DEF Inflating
<1>7. pc' = IF bfinal THEN "scanlines" ELSE "block"
    BY DEF EndOfBlock
<1>8. TablesInv' /\ OwnAlphabets'
    <2>1. pc' \notin {"symbols", "copy", "lengths"}
        BY <1>7
    <2> QED
        BY <1>5, <2>1, TablesKept
<1>9. Inflated' = Inflated
    BY <1>5 DEF Inflated
<1>10. BufferInv'
    BY <1>5, <1>6, <1>9 DEF IInv, BufferInv
<1>11. InflatesWhatWasDeflated'
    BY <1>5, <1>6, <1>7, <1>9 DEF IInv, InflatesWhatWasDeflated
<1>12. StaysInBuffers'
    BY <1>7 DEF StaysInBuffers
<1>13. CopyInv'
    <2>1. copy' = None /\ out_offset' = sent' /\ pc' \notin {"copy", "chunks", "zlib", "done", "pixels"}
        BY <1>2, <1>4, <1>5, <1>7
    <2>2. pc' = "scanlines" => out_offset' = RawSize(file')
        BY <1>2, <1>4, <1>5, <1>6, <1>7
    <2> QED
        BY <2>1, <2>2 DEF CopyInv, IsInflated
<1>14. CASE ~bfinal
    <2>1. pc' = "block" /\ defiltered' = defiltered
        BY <1>14 DEF EndOfBlock
    <2>2. LinesInv'
        BY <1>5, <2>1, InflateFrame DEF Inflating
    <2>3. TypeOK'
        BY <1>2, <1>4, <1>5, <1>6, <2>1 DEF IInv, TypeOK
    <2> QED
        BY <1>6, <1>8, <1>10, <1>11, <1>12, <1>13, <2>2, <2>3 DEF IInv
<1>15. CASE bfinal
    <2>1. pc' = "scanlines" /\ defiltered' = [k \in 0 .. defiltered_size - 1 |-> None]
        BY <1>15 DEF EndOfBlock
    <2>2. RawSize(file) <= Word \div 2
        BY <1>2, <1>4, <1>15 DEF IInv, BufferInv
    <2>3. DOMAIN defiltered' = 0 .. file.height * RowBytes(file) - 1
        BY <1>6, <2>1, <2>2, SizesUnwrapped DEF IInv
    <2>4. TypeOK'
        <3>1. \A k \in DOMAIN defiltered' : defiltered'[k] \in Byte \cup {None}
            BY <2>1
        <3> QED
            BY <1>2, <1>4, <1>5, <1>6, <2>1, <3>1 DEF IInv, TypeOK
    <2>5. LinesInv'
        <3>1. FilledTo' = 0
            <4>1. RowBytes(file) \in Nat
                BY <1>2, FileFacts
            <4>2. FilledTo' = 0 * RowBytes(file) + 0
                BY <1>6 DEF FilledTo
            <4> QED
                BY <4>1, <4>2
        <3>2. file.height \in Nat \ {0} /\ RowBytes(file) \in Nat
            BY <1>2, FileFacts
        <3>3. \A k \in 0 .. FilledTo' - 1 : defiltered'[k] = file.pixels[k]
            BY <3>1
        <3>4. /\ pix' = 0 /\ line' <= file'.height /\ index' <= RowBytes(file)'
              /\ line' = file'.height => index' = 0
              /\ \A k \in 0 .. FilledTo' - 1 : defiltered'[k] = file'.pixels[k]
              /\ DOMAIN defiltered' = 0 .. file'.height * RowBytes(file)' - 1
            <4>1. RowBytes(file)' = RowBytes(file)
                BY <1>6 DEF RowBytes
            <4> QED
                BY <1>6, <2>3, <3>2, <3>3, <4>1
        <3> QED
            BY <2>1, <3>4 DEF LinesInv, IsInflated
    <2> QED
        BY <1>6, <1>8, <1>10, <1>11, <1>12, <1>13, <2>4, <2>5 DEF IInv
<1> QED
    BY <1>14, <1>15 DEF IInv, TypeOK

LEMMA ReadCopyInv ==
    ASSUME IInv, pc = "symbols", NEW s \in Sendable(file, code, bfinal, sent),
           NEW symbol \in DOMAIN alphabet.literal, ReadCopy(s, symbol)
    PROVE  IInv'
<1>1. Reads(s, symbol) /\ symbol > Bytes
    BY DEF ReadCopy, END_OF_BLOCK
<1>2. /\ file \in Files /\ code \in Codes
      /\ sent \in 0 .. RawSize(file) /\ RawSize(file) \in Nat
      /\ copy = None /\ out_offset = sent /\ Inflated = sent
      /\ symbol = s.symbol /\ symbol \in Nat
      /\ IsLiteralOf(s, file, sent) \/ IsEnd(s, file, bfinal, sent) \/ IsCopy(s, file, code, sent)
      /\ sent' = sent + SentBytes(s)
      /\ alphabet.distance = Distances(code)
    BY <1>1, SymbolRead
<1>3. IsCopy(s, file, code, sent)
    BY <1>1, <1>2, BytesAssumption DEF IsLiteralOf, IsEnd
<1>4. PICK n \in Nat \ {0}, d \in Nat \ {0} : n = SentLength(s) /\ d = SentDistance(s)
    BY <1>3 DEF IsCopy
<1>5. sent' = sent + n /\ Repeats(file, sent, n, d)
    BY <1>2, <1>3, <1>4 DEF IsCopy
<1>6. copy' = [length |-> n, distance |-> d, l |-> 0]
    <2>1. lookup(Distances(code), CodeWord(Distances(code), s.distance)) = {s.distance}
        <3>1. code.num_distance_codes \in Nat
              /\ Distances(code) \in [0 .. code.num_distance_codes - 1 -> 0 .. 15]
              /\ IsCoded(Distances(code), s.distance)
            BY <1>2, <1>3, TableFacts DEF IsCopy
        <3> QED
            BY <3>1, LookupOwn
    <2>2. copy' = [length |-> LengthBase[symbol - Bytes]
                              + IF LengthValues[symbol - Bytes] > 1 THEN s.extra ELSE 0,
                   distance |-> DistanceBase[s.distance + 1]
                                + IF DistanceValues[s.distance + 1] > 1
                                  THEN s.distance_extra ELSE 0,
                   l |-> 0]
        BY <1>2, <2>1 DEF ReadCopy, END_OF_BLOCK
    <2> QED
        BY <1>2, <1>3, <1>4, <2>2 DEF IsCopy
<1>7. /\ UNCHANGED input /\ UNCHANGED <<line, index, pix, defiltered>>
      /\ UNCHANGED <<code, block, told, bfinal, lengths, alphabet>>
      /\ UNCHANGED <<output_buffer, out_offset>>
      /\ pc' = "copy"
    BY <1>1 DEF ReadCopy, Reads, filter
<1>8. /\ file' = file /\ HeaderInv' /\ LinesInv'
      /\ chunk' \in Nat \ {0} /\ ihdr_data' \in [width : Nat, height : Nat]
      /\ data_buffer' \in Seq(Nat \ {0})
      /\ output_buffer_size' = output_buffer_size
    BY <1>7, InflateFrame DEF Inflating
<1>9. TablesInv' /\ OwnAlphabets'
    BY <1>7, TablesKept
<1>10. copy' \in [length : Nat, distance : Nat, l : Nat] /\ copy' # None
    BY <1>6, PngAssumption
<1>11. copy'.length = n /\ copy'.distance = d /\ copy'.l = 0
    BY <1>6
<1>12. Inflated' = sent
    BY <1>2, <1>7, <1>10, <1>11 DEF Inflated
<1>13. sent' \in 0 .. RawSize(file)
    BY <1>2, <1>4, <1>5 DEF Repeats
<1>14. TypeOK'
    BY <1>7, <1>8, <1>10, <1>13 DEF IInv, TypeOK
<1>15. CopyInv'
    <2>1. Repeats(file', out_offset', copy'.length, copy'.distance)
        BY <1>2, <1>5, <1>7, <1>8, <1>11
    <2>2. out_offset' + copy'.length = sent'
        BY <1>2, <1>5, <1>7, <1>11
    <2>3. copy'.distance > 0 /\ copy'.l <= copy'.length
        BY <1>4, <1>11
    <2> QED
        BY <1>7, <1>10, <2>1, <2>2, <2>3 DEF CopyInv, IsInflated
<1>16. BufferInv'
    BY <1>2, <1>7, <1>8, <1>12 DEF IInv, BufferInv
<1>17. InflatesWhatWasDeflated'
    BY <1>2, <1>7, <1>8, <1>12 DEF IInv, InflatesWhatWasDeflated
<1>18. StaysInBuffers'
    BY <1>7 DEF StaysInBuffers
<1> QED
    BY <1>8, <1>9, <1>14, <1>15, <1>16, <1>17, <1>18 DEF IInv

\* In the middle of a copy.
LEMMA CopyFacts ==
    ASSUME IInv, pc = "copy"
    PROVE  /\ file \in Files
           /\ copy \in [length : Nat, distance : Nat, l : Nat] /\ copy # None
           /\ copy.distance > 0 /\ copy.l <= copy.length
           /\ copy.length \in Nat /\ copy.distance \in Nat /\ copy.l \in Nat
           /\ Repeats(file, out_offset, copy.length, copy.distance)
           /\ out_offset + copy.length = sent /\ out_offset \in Nat
           /\ Inflated = out_offset + copy.l
           /\ sent \in 0 .. RawSize(file) /\ RawSize(file) \in Nat
<1>1. copy \in [length : Nat, distance : Nat, l : Nat] /\ copy # None
    BY PngAssumption DEF IInv, CopyInv
<1>2. file \in Files
    BY DEF IInv, HeaderInv
<1>3. Inflated = out_offset + copy.l
    BY <1>1 DEF Inflated
<1>4. copy.length \in Nat /\ copy.distance \in Nat /\ copy.l \in Nat
    BY <1>1
<1>5. sent \in 0 .. RawSize(file) /\ RawSize(file) \in Nat /\ out_offset \in Nat
    BY <1>2, FileFacts DEF IInv, TypeOK
<1> QED
    BY <1>1, <1>2, <1>3, <1>4, <1>5 DEF IInv, CopyInv

LEMMA CopyByteInv ==
    ASSUME IInv, CopyByte
    PROVE  IInv'
<1>1. pc = "copy" /\ copy.l < copy.length
    BY DEF CopyByte
<1>2. /\ file \in Files
      /\ copy \in [length : Nat, distance : Nat, l : Nat] /\ copy # None
      /\ Repeats(file, out_offset, copy.length, copy.distance)
      /\ out_offset + copy.length = sent
      /\ Inflated = out_offset + copy.l
      /\ sent \in 0 .. RawSize(file) /\ RawSize(file) \in Nat
    BY <1>1, CopyFacts
<1>3. PICK o \in Nat, l \in Nat, n \in Nat, d \in Nat \ {0} :
          o = out_offset /\ l = copy.l /\ n = copy.length /\ d = copy.distance
    BY <1>1, CopyFacts
<1>4. PICK b \in Nat : b = o + l
    BY <1>3
<1>5. /\ l < n /\ b < o + n /\ o + n <= RawSize(file) /\ b < RawSize(file)
      /\ b - d \in 0 .. b - 1 /\ b \in o .. o + n - 1
    BY <1>1, <1>2, <1>3, <1>4 DEF Repeats
<1>6. Raw(file, b) = Raw(file, b - d)
    BY <1>2, <1>3, <1>5 DEF Repeats
<1>7. /\ UNCHANGED input /\ UNCHANGED <<line, index, pix, defiltered>>
      /\ UNCHANGED <<sent, code, block, told, bfinal, lengths, alphabet>>
      /\ out_offset' = out_offset
    BY DEF CopyByte, encoder, filter
<1>8. pc' \in {"copy", "overrun"}
    BY DEF CopyByte
<1>9. /\ file' = file /\ chunk > 1 /\ HeaderInv' /\ LinesInv'
      /\ chunk' \in Nat \ {0} /\ ihdr_data' \in [width : Nat, height : Nat]
      /\ data_buffer' \in Seq(Nat \ {0})
      /\ output_buffer_size' = output_buffer_size
    BY <1>1, <1>7, <1>8, InflateFrame DEF Inflating
<1>10. TablesInv' /\ OwnAlphabets'
    BY <1>1, <1>7, <1>8, TablesKept
<1>11. Inflated = b
    BY <1>2, <1>3, <1>4
<1>12. CASE IsInBuffer(b)
    <2>1. /\ output_buffer' = [output_buffer EXCEPT ![b] = output_buffer[b - d]]
          /\ copy' = [copy EXCEPT !.l = @ + 1] /\ pc' = "copy"
        BY <1>3, <1>4, <1>12 DEF CopyByte
    <2>2. DOMAIN output_buffer' = DOMAIN output_buffer
          /\ \A k \in DOMAIN output_buffer :
                 output_buffer'[k] = IF k = b THEN output_buffer[b - d] ELSE output_buffer[k]
        BY <2>1
    <2>3. DOMAIN output_buffer = 0 .. output_buffer_size - 1 /\ b \in DOMAIN output_buffer
          /\ b + 1 <= Word \div 2
        <3>1. DOMAIN output_buffer = 0 .. output_buffer_size - 1
            BY <1>1 DEF IInv, BufferInv
        <3>2. output_buffer_size \in Nat /\ Word \div 2 \in Nat
            BY <1>9, HalfWord, SizesKnown DEF IInv
        <3> QED
            BY <1>12, <3>1, <3>2 DEF IsInBuffer
    <2>4. \A k \in 0 .. b - 1 : k \in DOMAIN output_buffer /\ output_buffer[k] = Raw(file, k)
        BY <1>1, <1>11 DEF IInv, BufferInv, InflatesWhatWasDeflated
    <2>5. copy' \in [length : Nat, distance : Nat, l : Nat] /\ copy' # None
          /\ copy'.length = n /\ copy'.distance = d /\ copy'.l = l + 1
        <3>1. copy' = [length |-> n, distance |-> d, l |-> l + 1]
            BY <1>2, <1>3, <2>1
        <3> QED
            BY <1>3, <3>1, PngAssumption
    <2>6. Inflated' = b + 1
        BY <1>3, <1>4, <1>7, <2>5 DEF Inflated
    <2>7. \A k \in 0 .. b : k \in DOMAIN output_buffer' /\ output_buffer'[k] = Raw(file, k)
        <3>1. \A k \in 0 .. b : k = b \/ (k \in 0 .. b - 1 /\ k # b)
            OBVIOUS
        <3>2. output_buffer[b - d] = Raw(file, b)
            BY <1>5, <1>6, <2>4
        <3> QED
            BY <2>2, <2>3, <2>4, <3>1, <3>2
    <2>8. \A k \in 0 .. Inflated' - 1 : k \in 0 .. b
        BY <2>6
    <2>9. TypeOK'
        <3>1. \A k \in DOMAIN output_buffer' : output_buffer'[k] \in Byte \cup {None}
            <4>1. b - d \in DOMAIN output_buffer
                BY <1>5, <2>4
            <4> QED
                BY <2>2, <4>1 DEF IInv, TypeOK
        <3> QED
            BY <1>7, <1>9, <2>1, <2>5, <3>1 DEF IInv, TypeOK
    <2>10. CopyInv'
        <3>1. copy'.distance > 0 /\ copy'.l <= copy'.length
            BY <1>3, <1>5, <2>5
        <3>2. Repeats(file', out_offset', copy'.length, copy'.distance)
            BY <1>2, <1>3, <1>7, <1>9, <2>5
        <3>3. out_offset' + copy'.length = sent'
            BY <1>2, <1>3, <1>7, <2>5
        <3> QED
            BY <2>1, <2>5, <3>1, <3>2, <3>3 DEF CopyInv, IsInflated
    <2>11. BufferInv'
        BY <1>9, <2>2, <2>3, <2>6, <2>7, <2>8 DEF BufferInv
    <2>12. InflatesWhatWasDeflated'
        BY <1>9, <2>1, <2>7, <2>8 DEF InflatesWhatWasDeflated
    <2>13. StaysInBuffers'
        BY <2>1 DEF StaysInBuffers
    <2> QED
        BY <1>9, <1>10, <2>9, <2>10, <2>11, <2>12, <2>13 DEF IInv
<1>13. CASE ~IsInBuffer(b)
    <2>1. pc' = "overrun" /\ output_buffer' = output_buffer /\ copy' = copy
        BY <1>3, <1>4, <1>13 DEF CopyByte
    <2>2. TypeOK'
        BY <1>7, <1>9, <2>1 DEF IInv, TypeOK
    <2>3. CopyInv'
        BY <2>1 DEF CopyInv, IsInflated
    <2>4. BufferInv'
        BY <1>1, <1>9, <2>1 DEF IInv, BufferInv
    <2>5. InflatesWhatWasDeflated'
        BY <2>1 DEF InflatesWhatWasDeflated
    <2>6. StaysInBuffers'
        <3>1. ASSUME file.height <= 4 * file.width,
                     (file.height + 1) * file.width * 4 <= Word \div 2
              PROVE  FALSE
            <4>1. RawSize(file) <= output_buffer_size /\ RawSize(file) <= Word \div 2
                BY <1>9, <3>1, LinesFit DEF IInv
            <4>2. output_buffer_size \in Nat /\ Word \div 2 \in Nat
                BY <1>9, HalfWord, SizesKnown DEF IInv
            <4> QED
                BY <1>2, <1>5, <1>13, <4>1, <4>2 DEF IsInBuffer
        <3> QED
            BY <1>9, <3>1 DEF StaysInBuffers
    <2> QED
        BY <1>9, <1>10, <2>2, <2>3, <2>4, <2>5, <2>6 DEF IInv
<1> QED
    BY <1>12, <1>13

LEMMA EndCopyInv ==
    ASSUME IInv, EndCopy
    PROVE  IInv'
<1>1. /\ pc = "copy" /\ copy.l = copy.length /\ pc' = "symbols"
      /\ out_offset' = out_offset + copy.length /\ copy' = None
      /\ UNCHANGED input /\ UNCHANGED <<line, index, pix, defiltered>>
      /\ UNCHANGED <<sent, code, block, told, bfinal, lengths, alphabet, output_buffer>>
    BY DEF EndCopy, encoder, filter
<1>2. /\ out_offset' = sent /\ sent \in Nat /\ Inflated = sent
    BY <1>1, CopyFacts
<1>3. Inflated' = Inflated
    BY <1>1, <1>2 DEF Inflated
<1>4. /\ file' = file /\ HeaderInv' /\ LinesInv'
      /\ chunk' \in Nat \ {0} /\ ihdr_data' \in [width : Nat, height : Nat]
      /\ data_buffer' \in Seq(Nat \ {0})
      /\ output_buffer_size' = output_buffer_size
    BY <1>1, InflateFrame DEF Inflating
<1>5. TablesInv' /\ OwnAlphabets'
    BY <1>1, TablesKept
<1>6. TypeOK'
    BY <1>1, <1>2, <1>4 DEF IInv, TypeOK
<1>7. CopyInv'
    BY <1>1, <1>2 DEF CopyInv, IsInflated
<1>8. BufferInv'
    BY <1>1, <1>3, <1>4 DEF IInv, BufferInv
<1>9. InflatesWhatWasDeflated'
    BY <1>1, <1>2, <1>3, <1>4 DEF IInv, InflatesWhatWasDeflated
<1>10. StaysInBuffers'
    BY <1>1 DEF StaysInBuffers
<1> QED
    BY <1>4, <1>5, <1>6, <1>7, <1>8, <1>9, <1>10 DEF IInv

-----------------------------------------------------------------------------
(***************************************************************************)
(* Scanlines and pixels                                                    *)
(***************************************************************************)

\* Of the three neighbours the code takes the one the format names.
LEMMA PaethChoice ==
    ASSUME NEW a \in Int, NEW b \in Int, NEW c \in Int, NEW p \in Int, p = a + b - c
    PROVE  Paeth(a, b, c) =
               IF abs_sub(p, a) <= abs_sub(p, b) /\ abs_sub(p, a) <= abs_sub(p, c) THEN a
               ELSE IF abs_sub(p, b) <= abs_sub(p, c) THEN b ELSE c
<1> DEFINE Gap(x) == IF x > p THEN x - p ELSE p - x
<1>1. \A x \in Int : abs_sub(p, x) = Gap(x)
    BY DEF abs_sub
<1>2. PICK ga \in Int, gb \in Int, gc \in Int : ga = Gap(a) /\ gb = Gap(b) /\ gc = Gap(c)
    <2>1. Gap(a) \in Int /\ Gap(b) \in Int /\ Gap(c) \in Int
        OBVIOUS
    <2> HIDE DEF Gap
    <2> QED
        BY <2>1
<1>3. abs_sub(p, a) = ga /\ abs_sub(p, b) = gb /\ abs_sub(p, c) = gc
    BY <1>1, <1>2
<1>4. Paeth(a, b, c) = IF ga <= ga /\ ga <= gb /\ ga <= gc THEN a
                       ELSE IF gb <= ga /\ gb <= gb /\ gb <= gc THEN b ELSE c
    <2>1. Paeth(a, b, c) = IF \A y \in {a, b, c} : Gap(a) <= Gap(y) THEN a
                           ELSE IF \A y \in {a, b, c} : Gap(b) <= Gap(y) THEN b ELSE c
        BY DEF Paeth
    <2>2. (\A y \in {a, b, c} : Gap(a) <= Gap(y)) <=> (ga <= ga /\ ga <= gb /\ ga <= gc)
        BY <1>2
    <2>3. (\A y \in {a, b, c} : Gap(b) <= Gap(y)) <=> (gb <= ga /\ gb <= gb /\ gb <= gc)
        BY <1>2
    <2> HIDE DEF Gap
    <2> QED
        BY <2>1, <2>2, <2>3
<1> HIDE DEF Gap
<1> QED
    BY <1>2, <1>3, <1>4

\* All the data is inflated, and the sizes are those of the picture.
LEMMA InflatedFacts ==
    ASSUME IInv, IsInflated
    PROVE  /\ file \in Files /\ chunk > 1
           /\ ihdr_data.width = file.width /\ ihdr_data.height = file.height
           /\ scanline_width = LineBytes(file) /\ pixel_bytes = RowBytes(file)
           /\ \A k \in 0 .. RawSize(file) - 1 : output_buffer[k] = Raw(file, k)
<1>1. file \in Files /\ chunk > 1
    BY DEF IInv, HeaderInv, IsInflated
<1>2. out_offset = RawSize(file) /\ copy = None /\ RawSize(file) \in Nat
    BY <1>1, FileFacts DEF IInv, CopyInv, IsInflated
<1>3. Inflated = RawSize(file)
    BY <1>2 DEF Inflated
<1>4. RawSize(file) <= Word \div 2
    BY <1>3 DEF IInv, BufferInv, IsInflated
<1>5. \A k \in 0 .. RawSize(file) - 1 : output_buffer[k] = Raw(file, k)
    BY <1>3 DEF IInv, InflatesWhatWasDeflated, IsInflated
<1>6. scanline_width = LineBytes(file) /\ pixel_bytes = RowBytes(file)
      /\ ihdr_data.width = file.width /\ ihdr_data.height = file.height
    BY <1>1, <1>4, SizesKnown, SizesUnwrapped DEF IInv
<1> QED
    BY <1>1, <1>5, <1>6

\* A step that only changes the lines has these to show.
LEMMA FilterFrame ==
    ASSUME IInv, IsInflated, IsInflated', UNCHANGED <<input, encoder, inflater>>,
           line' \in Nat, index' \in Nat, pix' \in Nat,
           \A k \in DOMAIN defiltered' : defiltered'[k] \in Byte \cup {None},
           LinesInv'
    PROVE  IInv'
<1>1. /\ UNCHANGED <<file, chunk, ihdr_data, data_buffer, sent, code, block, told>>
      /\ UNCHANGED <<bfinal, lengths, alphabet, output_buffer, out_offset, copy>>
    BY DEF input, encoder, inflater
<1>2. /\ pc' \in {"scanlines", "pixels", "done"} /\ pc \in {"scanlines", "pixels", "done"}
    BY DEF IsInflated
<1>3. TypeOK'
    BY <1>1, <1>2 DEF IInv, TypeOK
<1>4. HeaderInv'
    BY <1>1, <1>2 DEF IInv, HeaderInv
<1>5. TablesInv' /\ OwnAlphabets' /\ StaysInBuffers'
    BY <1>2 DEF TablesInv, InBlock, OwnAlphabets, StaysInBuffers
<1>6. CopyInv'
    BY <1>1, <1>2 DEF IInv, CopyInv, IsInflated
<1>7. output_buffer_size' = output_buffer_size /\ Inflated' = Inflated
    BY <1>1 DEF output_buffer_size, Inflated
<1>8. BufferInv'
    BY <1>1, <1>2, <1>7 DEF IInv, BufferInv
<1>9. InflatesWhatWasDeflated'
    BY <1>1, <1>2, <1>7 DEF IInv, InflatesWhatWasDeflated
<1> QED
    BY <1>3, <1>4, <1>5, <1>6, <1>8, <1>9 DEF IInv

\* A byte is predicted from what the encoder predicted it from.
LEMMA PredictedAlike ==
    ASSUME IInv, AtScanline, index < RowBytes(file)
    PROVE  Predicted(index) = Prediction(file, line, index)
<1>1. IsInflated /\ pc = "scanlines"
    BY DEF AtScanline, IsInflated
<1>2. /\ file \in Files
      /\ ihdr_data.height = file.height
      /\ scanline_width = LineBytes(file) /\ pixel_bytes = RowBytes(file)
      /\ \A k \in 0 .. RawSize(file) - 1 : output_buffer[k] = Raw(file, k)
    BY <1>1, InflatedFacts
<1>3. PICK r \in Nat \ {0} : r = RowBytes(file)
    BY <1>2, FileFacts
<1>4. line \in 0 .. file.height - 1 /\ index \in 0 .. r - 1
    <2>1. file.height \in Nat /\ line \in Nat /\ index \in Nat
        BY <1>2, FileFacts DEF IInv, TypeOK
    <2> QED
        BY <1>2, <1>3, <2>1 DEF AtScanline
<1>5. PICK s \in Nat : s = line * RowBytes(file)
    BY <1>2, <1>4, PlaceFacts
<1>6. PICK j \in 0 .. r - 1 : j = index
    BY <1>4
<1>7. line > 0 => (line - 1) * RowBytes(file) = s - r /\ s - r \in Nat
    BY <1>2, <1>3, <1>4, <1>5, PlaceFacts
<1>8. \A k \in 0 .. s + j - 1 : defiltered[k] = file.pixels[k]
    BY <1>1, <1>5, <1>6 DEF IInv, LinesInv, FilledTo
<1>9. out_line = s
    BY <1>2, <1>5 DEF out_line
<1>10. line = 0 \/ line > 0
    BY <1>4
<1>11. previous_rev(index) = Left(file, line, index)
    <2>1. previous_rev(index) = IF j < 4 THEN 0 ELSE defiltered[s + j - 4]
        BY <1>6, <1>9 DEF previous_rev, bytes_per_pixel
    <2>2. Left(file, line, index) = IF j < 4 THEN 0 ELSE file.pixels[s + j - 4]
        BY <1>5, <1>6 DEF Left, bytes_per_pixel
    <2>3. j >= 4 => s + j - 4 \in 0 .. s + j - 1
        OBVIOUS
    <2> QED
        BY <1>8, <2>1, <2>2, <2>3
<1>12. above_rev(index) = Above(file, line, index)
    <2>1. above_rev(index) = IF line = 0 THEN 0 ELSE defiltered[s - r + j]
        BY <1>2, <1>3, <1>6, <1>9 DEF above_rev
    <2>2. Above(file, line, index) = IF line = 0 THEN 0 ELSE file.pixels[s - r + j]
        BY <1>6, <1>7, <1>10 DEF Above
    <2>3. line > 0 => s - r + j \in 0 .. s + j - 1
        BY <1>7
    <2> QED
        BY <1>8, <1>10, <2>1, <2>2, <2>3
<1>13. previousAbove_rev(index) = AboveLeft(file, line, index)
    <2>1. previousAbove_rev(index) = IF line = 0 \/ j < 4 THEN 0 ELSE defiltered[s - r + j - 4]
        BY <1>2, <1>3, <1>6, <1>9 DEF previousAbove_rev, bytes_per_pixel
    <2>2. AboveLeft(file, line, index) = IF line = 0 \/ j < 4 THEN 0 ELSE file.pixels[s - r + j - 4]
        BY <1>6, <1>7, <1>10 DEF AboveLeft, bytes_per_pixel
    <2>3. line > 0 /\ j >= 4 => s - r + j - 4 \in 0 .. s + j - 1
        BY <1>7
    <2> QED
        BY <1>8, <1>10, <2>1, <2>2, <2>3
<1>14. PICK a \in Int, b \in Int, c \in Int :
           /\ a = Left(file, line, index) /\ b = Above(file, line, index)
           /\ c = AboveLeft(file, line, index)
    BY <1>2, <1>3, <1>4, NeighbourFacts, BytesAssumption DEF Byte
<1>15. paethPredictor_rev(index) = Paeth(a, b, c)
    <2>1. PICK p \in Int : p = a + b - c
        OBVIOUS
    <2>2. paethPredictor_rev(index) =
              IF abs_sub(p, a) <= abs_sub(p, b) /\ abs_sub(p, a) <= abs_sub(p, c) THEN a
              ELSE IF abs_sub(p, b) <= abs_sub(p, c) THEN b ELSE c
        BY <1>11, <1>12, <1>13, <1>14, <2>1 DEF paethPredictor_rev
    <2> QED
        BY <2>1, <2>2, PaethChoice
<1>16. scanline_filter = file.filters[line] /\ file.filters[line] \in 0 .. 4
    <2>1. line * LineBytes(file) \in 0 .. RawSize(file) - 1
        <3>1. PICK t \in Nat, n \in Nat, m \in Nat \ {0} :
                  t = line * LineBytes(file) /\ n = RawSize(file) /\ m = LineBytes(file)
                  /\ t + m <= n
            BY <1>2, <1>4, PlaceFacts, FileFacts
        <3> QED
            BY <3>1
    <2>2. scanline_filter = Raw(file, line * LineBytes(file))
        BY <1>2, <2>1 DEF scanline_filter, in_line
    <2>3. file.filters[line] \in 0 .. 4
        BY <1>2, <1>4, FileFacts
    <2> QED
        BY <1>2, <1>4, <2>2, <2>3, RawFacts
<1>17. PICK n \in 0 .. 4 : n = file.filters[line]
    BY <1>16
<1>18. Predicted(index) = CASE n = 0 -> 0 [] n = 1 -> a [] n = 2 -> b
                            [] n = 3 -> (a + b) \div 2 [] n = 4 -> Paeth(a, b, c)
    BY <1>11, <1>12, <1>14, <1>15, <1>16, <1>17 DEF Predicted, FilterNames
<1>19. Prediction(file, line, index) = CASE n = 1 -> a [] n = 2 -> b
                            [] n = 3 -> (a + b) \div 2 [] n = 4 -> Paeth(a, b, c) [] OTHER -> 0
    BY <1>14, <1>17 DEF Prediction, FilterNames
<1> QED
    BY <1>17, <1>18, <1>19

LEMMA DefilterInv ==
    ASSUME IInv, DefilterByte
    PROVE  IInv'
<1>1. IsInflated /\ pc = "scanlines" /\ pc' = pc /\ IsInflated'
    BY DEF DefilterByte, AtScanline, IsInflated
<1>2. /\ UNCHANGED <<input, encoder, inflater>> /\ line' = line /\ pix' = pix /\ file' = file
      /\ index' = index + 1
    BY DEF DefilterByte, input
<1>3. /\ file \in Files
      /\ ihdr_data.height = file.height
      /\ scanline_width = LineBytes(file) /\ pixel_bytes = RowBytes(file)
      /\ \A k \in 0 .. RawSize(file) - 1 : output_buffer[k] = Raw(file, k)
    BY <1>1, InflatedFacts
<1>4. PICK r \in Nat \ {0} : r = RowBytes(file) /\ LineBytes(file) = 1 + r
    BY <1>3, FileFacts
<1>5. line \in 0 .. file.height - 1 /\ index \in 0 .. r - 1 /\ line \in Nat
    <2>1. file.height \in Nat /\ line \in Nat /\ index \in Nat
        BY <1>3, FileFacts DEF IInv, TypeOK
    <2> QED
        BY <1>3, <1>4, <2>1 DEF AtScanline, DefilterByte
<1>6. PICK s \in Nat, n \in Nat :
          s = line * RowBytes(file) /\ n = file.height * RowBytes(file) /\ s + r <= n
    BY <1>3, <1>4, <1>5, PlaceFacts, FileFacts
<1>7. PICK t \in Nat, m \in Nat :
          t = line * LineBytes(file) /\ m = RawSize(file) /\ t + (1 + r) <= m
    BY <1>3, <1>4, <1>5, PlaceFacts, FileFacts
<1>8. PICK j \in 0 .. r - 1 : j = index
    BY <1>5
<1>9. s + j \in 0 .. n - 1
    BY <1>6
<1>10. PICK x \in Int : x = Prediction(file, line, index)
    BY <1>3, <1>4, <1>5, PredictionFacts
<1>11. PICK y \in 0 .. Bytes - 1 : y = file.pixels[s + j]
    BY <1>3, <1>6, <1>9, FileFacts DEF Byte
<1>12. raw(index) = (y - x) % Bytes
    <2>1. t + 1 + j \in 0 .. RawSize(file) - 1
        BY <1>7
    <2>2. raw(index) = output_buffer[t + 1 + j]
        BY <1>3, <1>7, <1>8 DEF raw, in_line
    <2>3. Raw(file, t + 1 + j) = (file.pixels[s + j] - Prediction(file, line, j)) % Bytes
        BY <1>3, <1>4, <1>5, <1>6, <1>7, RawFacts
    <2> QED
        BY <1>3, <1>8, <1>10, <1>11, <2>1, <2>2, <2>3
<1>13. Predicted(index) = x
    <2>1. AtScanline /\ index < RowBytes(file)
        BY <1>4, <1>5 DEF DefilterByte
    <2> QED
        BY <1>10, <2>1, PredictedAlike
<1>14. (raw(index) + Predicted(index)) % Bytes = y
    <2>1. Bytes \in Nat \ {0}
        BY BytesAssumption
    <2>2. (((y - x) % Bytes) + x) % Bytes = y
        BY <2>1, SumModulo
    <2> QED
        BY <1>12, <1>13, <2>2
<1>15. out_line + index = s + j
    BY <1>3, <1>6, <1>8 DEF out_line
<1>16. defiltered' = [defiltered EXCEPT ![s + j] = y]
    BY <1>14, <1>15 DEF DefilterByte
<1>17. DOMAIN defiltered = 0 .. n - 1 /\ pix = 0
       /\ \A k \in 0 .. s + j - 1 : defiltered[k] = file.pixels[k]
    BY <1>1, <1>6, <1>8 DEF IInv, LinesInv, FilledTo
<1>18. DOMAIN defiltered' = 0 .. n - 1
       /\ \A k \in 0 .. n - 1 : defiltered'[k] = IF k = s + j THEN y ELSE defiltered[k]
    BY <1>16, <1>17
<1>19. \A k \in DOMAIN defiltered' : defiltered'[k] \in Byte \cup {None}
    BY <1>11, <1>17, <1>18 DEF IInv, TypeOK, Byte
<1>20. RowBytes(file)' = RowBytes(file) /\ FilledTo' = s + j + 1
    <2>1. RowBytes(file)' = RowBytes(file)
        BY <1>2 DEF RowBytes
    <2>2. FilledTo' = s + (j + 1)
        BY <1>2, <1>6, <1>8, <2>1 DEF FilledTo
    <2> QED
        BY <2>1, <2>2
<1>21. \A k \in 0 .. FilledTo' - 1 : defiltered'[k] = file.pixels[k]
    <2>1. \A k \in 0 .. s + j : k \in 0 .. n - 1 /\ (k = s + j \/ (k \in 0 .. s + j - 1 /\ k # s + j))
        BY <1>9
    <2>2. \A k \in 0 .. FilledTo' - 1 : k \in 0 .. s + j
        BY <1>20
    <2> QED
        BY <1>11, <1>17, <1>18, <2>1, <2>2
<1>22. LinesInv'
    <2>1. line' <= file'.height /\ index' <= RowBytes(file)' /\ line' # file'.height
        <3>1. file.height \in Nat
            BY <1>3, FileFacts
        <3> QED
            BY <1>2, <1>4, <1>5, <1>20, <3>1
    <2> QED
        BY <1>1, <1>2, <1>6, <1>17, <1>18, <1>20, <1>21, <2>1 DEF LinesInv, IsInflated
<1>23. line' \in Nat /\ index' \in Nat /\ pix' \in Nat
    BY <1>2, <1>5, <1>17
<1> QED
    BY <1>1, <1>2, <1>19, <1>22, <1>23, FilterFrame

LEMMA EndScanlineInv ==
    ASSUME IInv, EndScanline
    PROVE  IInv'
<1>1. IsInflated /\ pc = "scanlines" /\ pc' = pc /\ IsInflated'
    BY DEF EndScanline, AtScanline, IsInflated
<1>2. /\ UNCHANGED <<input, encoder, inflater>> /\ defiltered' = defiltered /\ pix' = pix
      /\ file' = file /\ index' = 0 /\ line' = line + 1
    BY DEF EndScanline, input
<1>3. file \in Files /\ ihdr_data.height = file.height /\ scanline_width = LineBytes(file)
    BY <1>1, InflatedFacts
<1>4. PICK r \in Nat \ {0} : r = RowBytes(file) /\ LineBytes(file) = 1 + r
    BY <1>3, FileFacts
<1>5. PICK l \in Nat, h \in Nat : l = line /\ h = file.height /\ l < h /\ index = r
    <2>1. file.height \in Nat /\ line \in Nat /\ index \in Nat
        BY <1>3, FileFacts DEF IInv, TypeOK
    <2> QED
        BY <1>3, <1>4, <2>1 DEF AtScanline, EndScanline
<1>6. RowBytes(file)' = RowBytes(file)
    BY <1>2 DEF RowBytes
<1>7. FilledTo' = FilledTo
    <2>1. (l + 1) * r + 0 = l * r + r
        OBVIOUS
    <2>2. FilledTo' = (l + 1) * r + 0 /\ FilledTo = l * r + r
        BY <1>2, <1>4, <1>5, <1>6 DEF FilledTo
    <2> QED
        BY <2>1, <2>2
<1>8. LinesInv'
    <2>1. line' <= file'.height /\ index' <= RowBytes(file)' /\ index' = 0
        BY <1>2, <1>4, <1>5, <1>6
    <2>2. \A k \in 0 .. FilledTo' - 1 : defiltered'[k] = file'.pixels[k]
        BY <1>1, <1>2, <1>7 DEF IInv, LinesInv
    <2>3. pix' = 0 /\ DOMAIN defiltered' = 0 .. file'.height * RowBytes(file)' - 1
        BY <1>1, <1>2, <1>6 DEF IInv, LinesInv
    <2> QED
        BY <1>1, <2>1, <2>2, <2>3 DEF LinesInv, IsInflated
<1>9. line' \in Nat /\ index' \in Nat /\ pix' \in Nat
      /\ \A k \in DOMAIN defiltered' : defiltered'[k] \in Byte \cup {None}
    BY <1>2, <1>5 DEF IInv, TypeOK
<1> QED
    BY <1>1, <1>2, <1>8, <1>9, FilterFrame

\* Where the bytes of a pixel are.
LEMMA PixelPlace ==
    ASSUME NEW f \in Files
    PROVE  /\ f.height * f.width \in Nat
           /\ \A p \in 0 .. f.height * f.width - 1, c \in 0 .. 3 :
                  p * 4 + c \in 0 .. f.height * RowBytes(f) - 1
<1>1. PICK h \in Nat, w \in Nat : h = f.height /\ w = f.width /\ RowBytes(f) = 4 * w
    BY FileFacts
<1>2. PICK n \in Nat : n = h * w
    BY <1>1
<1>3. h * (4 * w) = 4 * n
    BY <1>2
<1>4. \A p \in 0 .. n - 1, c \in 0 .. 3 : p * 4 + c \in 0 .. 4 * n - 1
    OBVIOUS
<1> QED
    BY <1>1, <1>2, <1>3, <1>4

LEMMA EndScanlinesInv ==
    ASSUME IInv, EndScanlines
    PROVE  IInv'
<1>1. IsInflated /\ pc = "scanlines" /\ pc' = "pixels" /\ IsInflated'
    BY DEF EndScanlines, IsInflated
<1>2. /\ UNCHANGED <<input, encoder, inflater>> /\ UNCHANGED <<line, index, defiltered, pix>>
      /\ file' = file
    BY DEF EndScanlines, input, filter
<1>3. file \in Files /\ ihdr_data.height = file.height
    BY <1>1, InflatedFacts
<1>4. PICK h \in Nat, r \in Nat : h = file.height /\ r = RowBytes(file) /\ line = h
    BY <1>3, FileFacts DEF EndScanlines
<1>5. index = 0 /\ pix = 0 /\ DOMAIN defiltered = 0 .. h * r - 1
    BY <1>1, <1>4 DEF IInv, LinesInv
<1>6. FilledTo = h * r
    <2>1. h * r + 0 = h * r
        OBVIOUS
    <2> QED
        BY <1>4, <1>5, <2>1 DEF FilledTo
<1>7. \A k \in 0 .. h * r - 1 : defiltered[k] = file.pixels[k]
    BY <1>1, <1>6 DEF IInv, LinesInv
<1>8. \A p \in 0 .. file.height * file.width - 1, c \in 0 .. 3 :
          defiltered[p * 4 + c] = file.pixels[p * 4 + IF p < pix /\ c # 3 THEN 2 - c ELSE c]
    <2> TAKE p \in 0 .. file.height * file.width - 1, c \in 0 .. 3
    <2>1. p * 4 + c \in 0 .. h * r - 1
        BY <1>3, <1>4, PixelPlace
    <2>2. ~(p < pix)
        BY <1>5
    <2> QED
        BY <1>7, <2>1, <2>2
<1>9. RowBytes(file)' = RowBytes(file) /\ file.height * file.width \in Nat
    BY <1>2, <1>3, PixelPlace DEF RowBytes
<1>10. LinesInv'
    BY <1>1, <1>2, <1>4, <1>5, <1>8, <1>9 DEF LinesInv, IsInflated
<1>11. line' \in Nat /\ index' \in Nat /\ pix' \in Nat
       /\ \A k \in DOMAIN defiltered' : defiltered'[k] \in Byte \cup {None}
    BY <1>2 DEF IInv, TypeOK
<1> QED
    BY <1>1, <1>2, <1>10, <1>11, FilterFrame

LEMMA SwapPixelInv ==
    ASSUME IInv, SwapPixel
    PROVE  IInv'
<1>1. IsInflated /\ pc = "pixels" /\ pc' = pc /\ IsInflated'
    BY DEF SwapPixel, IsInflated
<1>2. /\ UNCHANGED <<input, encoder, inflater>> /\ line' = line /\ index' = index
      /\ file' = file /\ pix' = pix + 1
    BY DEF SwapPixel, input
<1>3. file \in Files /\ ihdr_data.height = file.height /\ ihdr_data.width = file.width
    BY <1>1, InflatedFacts
<1>4. PICK n \in Nat, t \in Int :
          n = file.height * file.width /\ t = file.height * RowBytes(file)
    BY <1>3, PixelPlace, FileFacts
<1>5. PICK q \in 0 .. n - 1 : q = pix
    BY <1>3, <1>4 DEF SwapPixel, IInv, TypeOK
<1>6. \A p \in 0 .. n - 1, c \in 0 .. 3 : p * 4 + c \in 0 .. t - 1
    BY <1>3, <1>4, PixelPlace
<1>7. DOMAIN defiltered = 0 .. t - 1
      /\ \A p \in 0 .. n - 1, c \in 0 .. 3 :
             defiltered[p * 4 + c] = file.pixels[p * 4 + IF p < q /\ c # 3 THEN 2 - c ELSE c]
    BY <1>1, <1>4, <1>5 DEF IInv, LinesInv, IsInflated
<1>8. PICK red, blue : red = defiltered[q * 4] /\ blue = defiltered[q * 4 + 2]
    OBVIOUS
<1>9. q * 4 \in 0 .. t - 1 /\ q * 4 + 2 \in 0 .. t - 1
    <2>1. q * 4 + 0 \in 0 .. t - 1 /\ q * 4 + 2 \in 0 .. t - 1
        BY <1>6
    <2> QED
        BY <2>1
<1>10. /\ DOMAIN defiltered' = 0 .. t - 1
       /\ \A k \in 0 .. t - 1 :
              defiltered'[k] = IF k = q * 4 + 2 THEN red
                               ELSE IF k = q * 4 THEN blue ELSE defiltered[k]
    <2>1. defiltered' = [defiltered EXCEPT ![q * 4] = blue, ![q * 4 + 2] = red]
        BY <1>5, <1>8 DEF SwapPixel
    <2> QED
        BY <1>7, <1>9, <2>1
<1>11. \A k \in DOMAIN defiltered' : defiltered'[k] \in Byte \cup {None}
    BY <1>7, <1>8, <1>9, <1>10 DEF IInv, TypeOK
<1>12. red = file.pixels[q * 4] /\ blue = file.pixels[q * 4 + 2]
    <2>1. defiltered[q * 4 + 0] = file.pixels[q * 4 + 0] /\ defiltered[q * 4 + 2] = file.pixels[q * 4 + 2]
        BY <1>7
    <2>2. q * 4 + 0 = q * 4
        OBVIOUS
    <2> QED
        BY <1>8, <2>1, <2>2
<1>13. ASSUME NEW p \in 0 .. n - 1, NEW c \in 0 .. 3
       PROVE  defiltered'[p * 4 + c]
                  = file.pixels[p * 4 + IF p < q + 1 /\ c # 3 THEN 2 - c ELSE c]
    <2>1. PICK k \in 0 .. t - 1 : k = p * 4 + c
        BY <1>6
    <2>2. CASE p = q
        <3>1. (k = q * 4 + 2 <=> c = 2) /\ (k = q * 4 <=> c = 0)
            BY <2>1, <2>2
        <3>2. c = 0 => defiltered'[k] = file.pixels[q * 4 + 2]
            BY <1>10, <1>12, <3>1
        <3>3. c = 2 => defiltered'[k] = file.pixels[q * 4]
            BY <1>10, <1>12, <3>1
        <3>4. c \in {1, 3} => defiltered'[k] = file.pixels[q * 4 + c]
            <4>1. c \in {1, 3} => defiltered'[k] = defiltered[k]
                BY <1>10, <3>1
            <4>2. defiltered[k] = file.pixels[q * 4 + c]
                BY <1>7, <2>1, <2>2
            <4> QED
                BY <4>1, <4>2
        <3>5. p < q + 1 /\ c \in {0, 1, 2, 3} /\ q * 4 + 0 = q * 4
            BY <2>2
        <3>6. CASE c = 0
            BY <2>1, <2>2, <3>2, <3>5, <3>6
        <3>7. CASE c = 1
            BY <2>1, <2>2, <3>4, <3>5, <3>7
        <3>8. CASE c = 2
            BY <2>1, <2>2, <3>3, <3>5, <3>8
        <3>9. CASE c = 3
            BY <2>1, <2>2, <3>4, <3>5, <3>9
        <3> QED
            BY <3>5, <3>6, <3>7, <3>8, <3>9
    <2>3. CASE p # q
        <3>1. k # q * 4 /\ k # q * 4 + 2
            BY <2>1, <2>3
        <3>2. defiltered'[k] = defiltered[k]
            BY <1>10, <3>1
        <3>3. p < q <=> p < q + 1
            BY <2>3
        <3> QED
            BY <1>7, <2>1, <3>2, <3>3
    <2> QED
        BY <2>2, <2>3
<1>14. RowBytes(file)' = RowBytes(file) /\ pix' = q + 1 /\ q + 1 <= n
    BY <1>2, <1>5 DEF RowBytes
<1>15. LinesInv'
    BY <1>1, <1>2, <1>4, <1>10, <1>13, <1>14 DEF LinesInv, IsInflated
<1>16. line' \in Nat /\ index' \in Nat /\ pix' \in Nat
    BY <1>2, <1>14 DEF IInv, TypeOK
<1> QED
    BY <1>1, <1>2, <1>11, <1>15, <1>16, FilterFrame

LEMMA PublishInv ==
    ASSUME IInv, Publish
    PROVE  IInv'
<1>1. IsInflated /\ pc = "pixels" /\ pc' = "done" /\ IsInflated'
    BY DEF Publish, IsInflated
<1>2. /\ UNCHANGED <<input, encoder, inflater>> /\ UNCHANGED <<line, index, defiltered, pix>>
      /\ file' = file
    BY DEF Publish, input, filter
<1>3. pix = file.height * file.width /\ RowBytes(file)' = RowBytes(file)
    BY <1>1, <1>2, InflatedFacts DEF Publish, RowBytes
<1>4. LinesInv'
    BY <1>1, <1>2, <1>3 DEF IInv, LinesInv, IsInflated
<1>5. line' \in Nat /\ index' \in Nat /\ pix' \in Nat
      /\ \A k \in DOMAIN defiltered' : defiltered'[k] \in Byte \cup {None}
    BY <1>2 DEF IInv, TypeOK
<1> QED
    BY <1>1, <1>2, <1>4, <1>5, FilterFrame

LEMMA UnchangedInv ==
    ASSUME IInv, UNCHANGED vars
    PROVE  IInv'
<1>1. /\ UNCHANGED <<pc, file, chunk, ihdr_data, data_buffer, sent, code, block, told>>
      /\ UNCHANGED <<bfinal, lengths, alphabet, output_buffer, out_offset, copy>>
      /\ UNCHANGED <<line, index, defiltered, pix>>
    BY DEF vars, input, encoder, inflater, filter
<1>2. TypeOK' /\ HeaderInv'
    BY <1>1 DEF IInv, TypeOK, HeaderInv
<1>3. Literals(code)' = Literals(code) /\ Distances(code)' = Distances(code)
    BY <1>1 DEF Literals, Distances
<1>4. TablesInv' /\ OwnAlphabets'
    BY <1>1, <1>3 DEF IInv, TablesInv, InBlock, OwnAlphabets, i, NumCodes
<1>5. output_buffer_size' = output_buffer_size /\ Inflated' = Inflated
      /\ FilledTo' = FilledTo /\ RowBytes(file)' = RowBytes(file)
    BY <1>1 DEF output_buffer_size, Inflated, FilledTo, RowBytes
<1>6. CopyInv' /\ BufferInv' /\ InflatesWhatWasDeflated' /\ StaysInBuffers'
    BY <1>1, <1>5 DEF IInv, CopyInv, IsInflated, BufferInv, InflatesWhatWasDeflated, StaysInBuffers
<1>7. LinesInv'
    BY <1>1, <1>5 DEF IInv, LinesInv, IsInflated
<1> QED
    BY <1>2, <1>4, <1>6, <1>7 DEF IInv

LEMMA NextInv == IInv /\ [Next]_vars => IInv'
<1> SUFFICES ASSUME IInv, [Next]_vars PROVE IInv'
    OBVIOUS
<1>1. CASE ReadIHDR \/ ReadIDAT \/ SkipChunk \/ RefuseChunk \/ EndChunks
    BY <1>1, ChunkInv DEF ChunkStep
<1>2. CASE Inflate
    <2>1. CASE ZlibHeader \/ UnsupportedBlock \/ StartBlock
        BY <2>1, BlockStartInv
    <2>2. CASE ReadCodeLength
        BY <2>2, CodeLengthsInv
    <2>3. CASE MakeAlphabets
        BY <2>3, AlphabetsInv
    <2>4. CASE /\ pc = "symbols"
               /\ \E s \in Sendable(file, code, bfinal, sent), symbol \in DOMAIN alphabet.literal :
                      Literal(s, symbol) \/ EndOfBlock(s, symbol) \/ ReadCopy(s, symbol)
        <3>1. PICK s \in Sendable(file, code, bfinal, sent), symbol \in DOMAIN alphabet.literal :
                  Literal(s, symbol) \/ EndOfBlock(s, symbol) \/ ReadCopy(s, symbol)
            BY <2>4
        <3>2. CASE Literal(s, symbol)
            BY <2>4, <3>2, LiteralInv
        <3>3. CASE EndOfBlock(s, symbol)
            BY <2>4, <3>3, EndOfBlockInv
        <3>4. CASE ReadCopy(s, symbol)
            BY <2>4, <3>4, ReadCopyInv
        <3> QED
            BY <3>1, <3>2, <3>3, <3>4
    <2>5. CASE CopyByte
        BY <2>5, CopyByteInv
    <2>6. CASE EndCopy
        BY <2>6, EndCopyInv
    <2> QED
        BY <1>2, <2>1, <2>2, <2>3, <2>4, <2>5, <2>6 DEF Inflate
<1>3. CASE DefilterByte
    BY <1>3, DefilterInv
<1>4. CASE EndScanline
    BY <1>4, EndScanlineInv
<1>5. CASE EndScanlines
    BY <1>5, EndScanlinesInv
<1>6. CASE SwapPixel
    BY <1>6, SwapPixelInv
<1>7. CASE Publish
    BY <1>7, PublishInv
<1>8. CASE Ended \/ UNCHANGED vars
    BY <1>8, UnchangedInv DEF Ended
<1> QED
    BY <1>1, <1>2, <1>3, <1>4, <1>5, <1>6, <1>7, <1>8 DEF Next

-----------------------------------------------------------------------------
(***************************************************************************)
(* Theorems                                                                *)
(***************************************************************************)

\* The inductive invariant holds throughout.
THEOREM Invariance == Spec => []IInv
<1>1. IInv /\ [Next]_vars => IInv'
    BY NextInv
<1> QED
    BY <1>1, InitInv, PTL DEF Spec

\* Types: every value a variable is given is one it may have.
THEOREM TypeCorrect == Spec => []TypeOK
<1>1. IInv => TypeOK
    BY DEF IInv
<1> QED
    BY <1>1, Invariance, PTL

\* ZLIBDecoder::decode reads each block with its encoder's code tables, however
\* the code lengths were cut into runs.
THEOREM TablesTransmitted == Spec => []OwnAlphabets
<1>1. IInv => OwnAlphabets
    BY DEF IInv
<1> QED
    BY <1>1, Invariance, PTL

\* ZLIBDecoder::decode gives back the bytes that were deflated, whatever literals,
\* copies and blocks the encoder chose, for every table of lengths and distances.
THEOREM InflateCorrect == Spec => []InflatesWhatWasDeflated
<1>1. IInv => InflatesWhatWasDeflated
    BY DEF IInv
<1> QED
    BY <1>1, Invariance, PTL

\* The buffer of Image_read_png, which has one row of pixels to spare for all
\* the filter bytes, holds every picture at most four times as high as wide.
THEOREM BuffersSuffice == Spec => []StaysInBuffers
<1>1. IInv => StaysInBuffers
    BY DEF IInv
<1> QED
    BY <1>1, Invariance, PTL

\* A file that is loaded shows the picture that was encoded: the filters of every
\* line are undone, and red and blue of every pixel are exchanged once.
THEOREM PictureCorrect == Spec => []PictureRecovered
<1>1. IInv => PictureRecovered
    <2> SUFFICES ASSUME IInv, pc = "done",
                        NEW p \in 0 .. file.height * file.width - 1, NEW c \in 0 .. 3
                 PROVE  defiltered[p * 4 + c] = file.pixels[p * 4 + IF c = 3 THEN 3 ELSE 2 - c]
        BY DEF PictureRecovered
    <2>1. defiltered[p * 4 + c] = file.pixels[p * 4 + IF p < pix /\ c # 3 THEN 2 - c ELSE c]
        BY DEF IInv, LinesInv
    <2>2. p < pix
        <3>1. pix = file.height * file.width /\ pix \in Nat
            BY DEF IInv, LinesInv, TypeOK
        <3> QED
            BY <3>1
    <2> QED
        BY <2>1, <2>2
<1> QED
    BY <1>1, Invariance, PTL

=============================================================================
