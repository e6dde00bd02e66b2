----------------------------- MODULE EntropyFile -----------------------------
(***************************************************************************)
(* Files with entropy-coded data, and what the standards say of them       *)
(* (ITU-T T.81 annexes B, C and F; RFC 1951): the other side of Entropy,   *)
(* as conditions rather than as an encoder.  Nothing here speaks of how    *)
(* the program decodes.                                                    *)
(***************************************************************************)
EXTENDS Integers, Sequences, FiniteSets

CONSTANTS
    ByteBits,       \* bits of a byte (8 in the code)
    BufferBytes,    \* bytes of BitStream::buffer (8 in the code)
    MaxLength,      \* MAX_HUFFMAN_TABLE_CODE_LENGTH
    Files           \* see FilesAssumption and StandardAssumption

Byte == 0 .. 2^ByteBits - 1
AllOnes == 2^ByteBits - 1
BufferBits == ByteBits * BufferBytes
Bit == {0, 1}
Items == [value : Nat, bits : Nat]

\* A code is at most two bytes long, and fits in the buffer beside the bits of
\* a byte that is read in part.
ASSUME SizeAssumption ==
    /\ ByteBits \in Nat \ {0}
    /\ BufferBytes \in Nat \ {0, 1}
    /\ MaxLength \in 1 .. BufferBits - ByteBits + 1
    /\ MaxLength <= 2 * ByteBits

\* The table as the file gives it: numbers of codes of each length, and values
\* in the order of their codes (JPEG), or the code length of each value (PNG).
\* The code it stands for: length and word of each code; a length of 0 is no
\* code.  Then what was encoded, the bytes from there to the end of the file,
\* where the next segment starts, and the byte that memory holds behind the file.
ASSUME FilesAssumption ==
    Files \subseteq [jpeg : BOOLEAN, numbers : Seq(Nat), values : Seq(Nat),
                     lens : Seq(0 .. MaxLength), words : Seq(Nat),
                     sent : Seq(Items), data : Seq(Byte), marker : Nat, behind : Byte]

-----------------------------------------------------------------------------
(***************************************************************************)
(* The code                                                                *)
(***************************************************************************)

HasCode(f) == {i \in DOMAIN f.lens : f.lens[i] > 0}

ValueOf(f, i) == IF f.jpeg THEN f.values[i] ELSE i - 1

\* A JPEG file lists the values by the lengths of their codes.
TableOf(f) ==
    IF f.jpeg
    THEN /\ Len(f.values) = Len(f.lens)
         /\ HasCode(f) = DOMAIN f.lens
         /\ \A i, j \in DOMAIN f.lens : i < j => f.lens[i] <= f.lens[j]
         /\ DOMAIN f.numbers = 1 .. MaxLength
         /\ \A n \in 1 .. MaxLength :
                f.numbers[n] = Cardinality({i \in DOMAIN f.lens : f.lens[i] = n})
    ELSE f.numbers = f.lens

Precedes(f, i, j) ==
    f.lens[i] < f.lens[j] \/ (f.lens[i] = f.lens[j] /\ i < j)

Preceding(f, j) == {i \in HasCode(f) : Precedes(f, i, j)}

\* The first code is zeros; each other one is the code before it plus one, with
\* zeros behind it if it is longer.
CanonicalCode(f) ==
    /\ DOMAIN f.words = DOMAIN f.lens
    /\ \A i \in HasCode(f) : f.words[i] < 2^f.lens[i]
    /\ \A j \in HasCode(f) :
           \/ Preceding(f, j) = {} /\ f.words[j] = 0
           \/ \E i \in Preceding(f, j) :
                  /\ \A k \in Preceding(f, j) \ {i} : Precedes(f, k, i)
                  /\ f.words[j] = (f.words[i] + 1) * 2^(f.lens[j] - f.lens[i])

-----------------------------------------------------------------------------
(***************************************************************************)
(* The data                                                                *)
(***************************************************************************)

\* The byte at p, counting from 0, and what memory holds behind the file.
ByteOf(f, p) == IF p < Len(f.data) THEN f.data[p + 1] ELSE f.behind

\* In a JPEG file a zero behind a byte of ones is not part of the data.
StuffedAt(f, p) == f.jpeg /\ ByteOf(f, p) = AllOnes /\ ByteOf(f, p + 1) = 0

\* Where byte n of the data is.
Places(f) ==
    LET P[n \in Nat] ==
            IF n = 0 THEN 0 ELSE P[n - 1] + IF StuffedAt(f, P[n - 1]) THEN 2 ELSE 1
    IN  P
Place(f, n) == Places(f)[n]

\* Bit k of a byte, counting from 0, and bit b of the data.
BitOf(f, byte, k) ==
    IF f.jpeg THEN (byte \div 2^(ByteBits - 1 - k)) % 2 ELSE (byte \div 2^k) % 2
DataBit(f, b) == BitOf(f, ByteOf(f, Place(f, b \div ByteBits)), b % ByteBits)

\* Is bit b in the file?
Held(f, b) == Place(f, b \div ByteBits) < Len(f.data)

\* A code of the value of item k.
CodeOf(f, k) == CHOOSE i \in HasCode(f) : ValueOf(f, i) = f.sent[k].value

\* Where the bits of item k end.
Ends(f) ==
    LET E[k \in 0 .. Len(f.sent)] ==
            IF k = 0 THEN 0 ELSE E[k - 1] + f.lens[CodeOf(f, k)] + f.sent[k].value
    IN  E
End(f, k) == Ends(f)[k]
TotalBits(f) == End(f, Len(f.sent))

\* The word of each item's value, then as many bits as the value says: as far
\* as the file goes.
HoldsItems(f) ==
    \A k \in DOMAIN f.sent :
        LET item == f.sent[k]
            i == CodeOf(f, k)
            start == End(f, k - 1)
        IN  /\ \E j \in HasCode(f) : ValueOf(f, j) = item.value
            /\ item.value <= BufferBits - ByteBits + 1
            /\ item.bits < 2^item.value
            /\ \A b \in 1 .. f.lens[i] :
                   Held(f, start + b - 1) =>
                       DataBit(f, start + b - 1) = (f.words[i] \div 2^(f.lens[i] - b)) % 2
            /\ \A b \in 1 .. item.value :
                   Held(f, start + f.lens[i] + b - 1) =>
                       DataBit(f, start + f.lens[i] + b - 1) =
                           (item.bits \div 2^(IF f.jpeg THEN item.value - b ELSE b - 1)) % 2

\* The file does not break off within the data or before what follows it.
WholeFile(f) == f.marker < Len(f.data)

\* What follows starts at the byte behind the last one with data; in a JPEG
\* file it is a marker, a byte of ones and another that is not zero.
HasEnd(f) ==
    WholeFile(f) =>
        /\ f.marker = Place(f, (TotalBits(f) + ByteBits - 1) \div ByteBits)
        /\ f.jpeg => /\ f.marker + 2 <= Len(f.data)
                     /\ ByteOf(f, f.marker) = AllOnes
                     /\ ByteOf(f, f.marker + 1) # 0

\* Files are as the standards say, but for where they break off.
ASSUME StandardAssumption ==
    \A f \in Files : TableOf(f) /\ CanonicalCode(f) /\ HoldsItems(f) /\ HasEnd(f)

=============================================================================
