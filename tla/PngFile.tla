------------------------------ MODULE PngFile ------------------------------
(***************************************************************************)
(* PNG files and what an encoder writes into them (PNG 1.2, RFC 1950 and   *)
(* 1951): the other side of PngDecode.  A file is a picture, the filter of *)
(* each line, the chunks the compressed data is cut into, and the fields   *)
(* of the headers.  How the filtered bytes are compressed is left open:    *)
(* Sendable and Runs are what the encoder may send next.                   *)
(***************************************************************************)
EXTENDS Integers, Sequences, FiniteSets

CONSTANTS
    Bytes,              \* number of values of a byte (256)
    LengthBase,         \* shortest length of each length symbol, from 1 on
    LengthValues,       \* how many lengths each has: 2^(number of extra bits)
    DistanceBase, DistanceValues,       \* the same of the distance symbols
    RepeatBase, RepeatValues,           \* the same of the code length symbols 16, 17, 18
    Codes,              \* the codes a block may use: see CodesAssumption
    Files               \* see FilesAssumption

Byte == 0 .. Bytes - 1
END_OF_BLOCK == Bytes
LengthSymbol(t) == Bytes + t
bytes_per_pixel == 4

FilterNames == [NONE |-> 0, SUB |-> 1, UP |-> 2, AVERAGE |-> 3, PAETH |-> 4]
Filters == {FilterNames[name] : name \in DOMAIN FilterNames}

ASSUME BytesAssumption == Bytes \in Nat /\ Bytes > 5

ASSUME TablesAssumption ==
    /\ LengthBase \in Seq(Nat \ {0}) /\ LengthValues \in Seq(Nat \ {0})
    /\ DistanceBase \in Seq(Nat \ {0}) /\ DistanceValues \in Seq(Nat \ {0})
    /\ DOMAIN LengthBase = DOMAIN LengthValues
    /\ DOMAIN DistanceBase = DOMAIN DistanceValues
    /\ RepeatBase \in [16 .. 18 -> Nat \ {0}] /\ RepeatValues \in [16 .. 18 -> Nat \ {0}]

\* The code lengths of a block, 0 where there is no code: those of the literals
\* and lengths, then those of the distances.
ASSUME CodesAssumption ==
    \A code \in Codes :
        /\ code.num_literal_codes \in Bytes + 1 .. Bytes + 1 + Len(LengthBase)
        /\ code.num_distance_codes \in 1 .. Len(DistanceBase)
        /\ code.lengths \in [0 .. code.num_literal_codes + code.num_distance_codes - 1 -> 0 .. 15]
        /\ code.lengths[END_OF_BLOCK] > 0

ASSUME FilesAssumption ==
    \A f \in Files :
        /\ f.width \in Nat \ {0} /\ f.height \in Nat \ {0}
        /\ f.pixels \in [0 .. f.height * (bytes_per_pixel * f.width) - 1 -> Byte]
        /\ f.filters \in [0 .. f.height - 1 -> Filters]
        /\ f.chunks \in Seq([type : {"IHDR", "IDAT", "IEND", "other"}, size : Nat])
        /\ f.chunks # <<>> /\ f.chunks[1].type = "IHDR"
        /\ f.color_type \in 0 .. 6 /\ f.bit_depth \in Nat
        /\ f.zlib \in [check : 0 .. 30, cm : 0 .. 15, cinfo : 0 .. 15, fdict : BOOLEAN]
        /\ f.dynamic \in BOOLEAN    \* are there only blocks with dynamic Huffman codes?

-----------------------------------------------------------------------------
(***************************************************************************)
(* Filtering                                                               *)
(***************************************************************************)

RowBytes(f) == bytes_per_pixel * f.width
LineBytes(f) == 1 + RowBytes(f)
RawSize(f) == f.height * LineBytes(f)

\* The bytes that byte i of line l is predicted from.
Left(f, l, i) ==
    IF i < bytes_per_pixel THEN 0 ELSE f.pixels[l * RowBytes(f) + i - bytes_per_pixel]
Above(f, l, i) == IF l = 0 THEN 0 ELSE f.pixels[(l - 1) * RowBytes(f) + i]
AboveLeft(f, l, i) ==
    IF l = 0 \/ i < bytes_per_pixel THEN 0
    ELSE f.pixels[(l - 1) * RowBytes(f) + i - bytes_per_pixel]

\* Of three bytes the nearest to a + b - c, the first of them when several are.
Paeth(a, b, c) ==
    LET Gap(x) == IF x > a + b - c THEN x - (a + b - c) ELSE (a + b - c) - x
        IsNearest(x) == \A y \in {a, b, c} : Gap(x) <= Gap(y)
    IN  IF IsNearest(a) THEN a ELSE IF IsNearest(b) THEN b ELSE c

Prediction(f, l, i) ==
    LET a == Left(f, l, i)
        b == Above(f, l, i)
        filter == f.filters[l]
    IN  CASE filter = FilterNames.SUB -> a
          [] filter = FilterNames.UP -> b
          [] filter = FilterNames.AVERAGE -> (a + b) \div 2
          [] filter = FilterNames.PAETH -> Paeth(a, b, AboveLeft(f, l, i))
          [] OTHER -> 0

\* Byte k of what is compressed: each line behind its filter.
Raw(f, k) ==
    LET l == k \div LineBytes(f)
        i == k % LineBytes(f)
    IN  IF i = 0 THEN f.filters[l]
        ELSE (f.pixels[l * RowBytes(f) + i - 1] - Prediction(f, l, i - 1)) % Bytes

-----------------------------------------------------------------------------
(***************************************************************************)
(* Compressing                                                             *)
(***************************************************************************)

\* A symbol with what follows it; a literal and the end of a block end there.
Sent(symbol, extra, distance, distance_extra) ==
    [symbol |-> symbol, extra |-> extra,
     distance |-> distance, distance_extra |-> distance_extra]

\* Do n bytes from k repeat those a distance d back?  They may overlap.
Repeats(f, k, n, d) ==
    /\ d <= k /\ k + n <= RawSize(f)
    /\ \A j \in k .. k + n - 1 : Raw(f, j) = Raw(f, j - d)

\* The symbols that repeat earlier bytes.
CopySymbols ==
    UNION {{Sent(LengthSymbol(t), e, d - 1, x) :
                e \in 0 .. LengthValues[t] - 1, x \in 0 .. DistanceValues[d] - 1} :
           t \in DOMAIN LengthBase, d \in DOMAIN DistanceBase}

SentLength(s) == LengthBase[s.symbol - Bytes] + s.extra
SentDistance(s) == DistanceBase[s.distance + 1] + s.distance_extra

\* How many bytes of the filtered picture a symbol stands for.
SentBytes(s) ==
    IF s.symbol < END_OF_BLOCK THEN 1
    ELSE IF s.symbol = END_OF_BLOCK THEN 0 ELSE SentLength(s)

Literals(code) == [s \in 0 .. code.num_literal_codes - 1 |-> code.lengths[s]]
Distances(code) ==
    [d \in 0 .. code.num_distance_codes - 1 |-> code.lengths[code.num_literal_codes + d]]

IsCoded(lengths, symbol) == symbol \in DOMAIN lengths /\ lengths[symbol] > 0

\* What may be sent when k bytes are.
Sendable(f, code, final, k) ==
    {s \in (IF k < RawSize(f) THEN {Sent(Raw(f, k), 0, 0, 0)} ELSE {})
           \cup (IF final => k = RawSize(f) THEN {Sent(END_OF_BLOCK, 0, 0, 0)} ELSE {})
           \cup CopySymbols :
        /\ IsCoded(Literals(code), s.symbol)
        /\ s \in CopySymbols =>
               /\ IsCoded(Distances(code), s.distance)
               /\ Repeats(f, k, SentLength(s), SentDistance(s))}

\* A last block must have a code for every byte still to be sent.
MayBeLast(f, code, k) ==
    \A j \in k .. RawSize(f) - 1 : IsCoded(Literals(code), Raw(f, j))

\* Code length i may be sent as it is, or with those behind it as a run: 16
\* repeats the length before it, 17 and 18 repeat no code.
RunSymbols ==
    UNION {{[symbol |-> c, extra |-> e] : e \in 0 .. RepeatValues[c] - 1} : c \in 16 .. 18}

RunLength(s) == RepeatBase[s.symbol] + s.extra

Runs(code, i) ==
    {[symbol |-> code.lengths[i], extra |-> 0]} \cup
    {s \in RunSymbols :
        /\ i + RunLength(s) <= code.num_literal_codes + code.num_distance_codes
        /\ s.symbol = 16 => i > 0
        /\ \A j \in i .. i + RunLength(s) - 1 :
               code.lengths[j] = IF s.symbol = 16 THEN code.lengths[i - 1] ELSE 0}

\* A code word: its length and its place among the words of that length.
CodeWord(lengths, s) ==
    <<lengths[s], Cardinality({t \in DOMAIN lengths : t < s /\ lengths[t] = lengths[s]})>>

=============================================================================
