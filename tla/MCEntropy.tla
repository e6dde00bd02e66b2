----------------------------- MODULE MCEntropy -----------------------------
(***************************************************************************)
(* Small instances of Entropy for TLC: bytes of two bits, so that a byte   *)
(* of ones is often met, and a buffer of four of them.                     *)
(***************************************************************************)
EXTENDS EntropyEncoder

\* The lengths of the codes, in their order.
Lengths(numbers) ==
    FlattenSeq([n \in DOMAIN numbers |-> [k \in 1 .. numbers[n] |-> n]])

\* T.81 leaves the code of ones only unused.
JpegNumbers ==
    {numbers \in [1 .. MaxLength -> 0 .. 2] :
        /\ Len(Lengths(numbers)) \in 2 .. 3
        /\ Share(Lengths(numbers), MaxLength) < 2^MaxLength}

\* A complete code, or the single code of one bit that RFC 1951 allows.
PngNumbers ==
    {lens \in [1 .. 4 -> 0 .. 3] :
        \/ Share(lens, MaxLength) = 2^MaxLength
        \/ \E i \in 1 .. 4 : lens = [j \in 1 .. 4 |-> IF j = i THEN 1 ELSE 0]}

\* None, one, two and three raw bits, which read differently backwards.
SomeItems ==
    {[value |-> 0, bits |-> 0], [value |-> 1, bits |-> 1], [value |-> 2, bits |-> 1],
     [value |-> 3, bits |-> 6]}

Messages(values) == [1 .. 3 -> {item \in SomeItems : item.value \in values}]

File(jpeg, numbers, values, lens, sent, data, tail, behind) ==
    [jpeg |-> jpeg, numbers |-> numbers, values |-> values,
     lens |-> lens, words |-> [i \in DOMAIN lens |-> CodeNumber(lens, i)],
     sent |-> sent, data |-> data \o tail, marker |-> Len(data), behind |-> behind]

\* The file ends with the end-of-image marker, goes on with a segment, or with
\* one that seems to hold a stuffed zero; or it breaks off.
JpegFilesOf(numbers, values, sent) ==
    LET lens == Lengths(numbers)
        data == Encoded(TRUE, lens, values, sent)
    IN  {File(TRUE, numbers, values, lens, sent, data, tail, 0) :
            tail \in {<<3, 1>>, <<3, 2, 0, 1, 3, 1>>, <<3, 2, 3, 0, 3, 1>>}}
          \cup {File(TRUE, numbers, values, lens, sent, SubSeq(data, 1, Len(data) - cut), <<>>, 1) :
                   cut \in {1, Len(data) \div 2}}

JpegTables ==
    {<<numbers, SubSeq(values, 1, Len(Lengths(numbers)))>> :
        numbers \in JpegNumbers, values \in {<<1, 0, 3>>, <<3, 1, 0>>}}

\* The checksum follows the data, or the file breaks off.
PngFilesOf(lens, sent) ==
    LET data == Encoded(FALSE, lens, <<0, 1, 2, 3>>, sent)
    IN  {File(FALSE, lens, <<>>, lens, sent, data, <<2, 1>>, 0),
         File(FALSE, lens, <<>>, lens, sent, SubSeq(data, 1, Len(data) - 1), <<>>, 1)}

EntropyFiles ==
    UNION {UNION {JpegFilesOf(table[1], table[2], sent) :
                     sent \in Messages(Range(table[2]))} : table \in JpegTables}
      \cup UNION {UNION {PngFilesOf(lens, sent) :
                     sent \in Messages({v \in 0 .. 3 : lens[v + 1] > 0})} : lens \in PngNumbers}

=============================================================================
