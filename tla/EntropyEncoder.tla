--------------------------- MODULE EntropyEncoder ---------------------------
(***************************************************************************)
(* The other side of Entropy: what a JPEG or DEFLATE encoder writes        *)
(* (ITU-T T.81 annexes B and F, RFC 1951).                                 *)
(***************************************************************************)
EXTENDS Entropy, SequencesExt

\* The n bits of a number, the most significant one first.
BitsOfNumber(v, n) == [k \in 1 .. n |-> (v \div 2^(n - k)) % 2]

\* The share of the code space that codes of these lengths take, in units of
\* the codes of n bits; 0 is no code.
Share(lens, n) ==
    FoldSeq(LAMBDA len, sum : IF len \in 1 .. n THEN sum + 2^(n - len) ELSE sum, 0, lens)

\* A code starts where the shorter codes, and those before it, end.
Before(lens, i) ==
    [j \in DOMAIN lens |->
        IF lens[j] < lens[i] \/ (lens[j] = lens[i] /\ j < i) THEN lens[j] ELSE 0]

CodeNumber(lens, i) == Share(Before(lens, i), lens[i])
CodeWord(lens, i) == BitsOfNumber(CodeNumber(lens, i), lens[i])

\* lens[i] is the length of the code of values[i].
Written(jpeg, lens, values, items) ==
    LET Raw(item) == BitsOfNumber(item.bits, item.value)
        Word(item) == CodeWord(lens, CHOOSE i \in DOMAIN values :
                                         values[i] = item.value /\ lens[i] > 0)
    IN  FlattenSeq([k \in DOMAIN items |->
            Word(items[k]) \o IF jpeg THEN Raw(items[k]) ELSE Reverse(Raw(items[k]))])

\* Byte n; the last one is filled up with ones, or with zeros.
ByteNumber(jpeg, bits, n) ==
    LET fill == [k \in 1 .. ByteBits |-> IF jpeg THEN 1 ELSE 0]
        byte == SubSeq(bits \o fill, (n - 1) * ByteBits + 1, n * ByteBits)
        first == IF jpeg THEN byte ELSE Reverse(byte)
    IN  FoldLeft(LAMBDA number, bit : 2 * number + bit, 0, first)

Bytes(jpeg, bits) ==
    [n \in 1 .. (Len(bits) + ByteBits - 1) \div ByteBits |-> ByteNumber(jpeg, bits, n)]

\* A zero behind each byte of ones.
Stuff(bytes) ==
    FlattenSeq([k \in DOMAIN bytes |->
        IF bytes[k] = AllOnes THEN <<AllOnes, 0>> ELSE <<bytes[k]>>])

Encoded(jpeg, lens, values, items) ==
    LET bytes == Bytes(jpeg, Written(jpeg, lens, values, items))
    IN  IF jpeg THEN Stuff(bytes) ELSE bytes

=============================================================================
