------------------------------- MODULE Entropy -------------------------------
(***************************************************************************)
(* Entropy-coded data: the bit stream of include/app/bitstream.hpp and the *)
(* Huffman tables of include/app/huffman.hpp, in the two forms the program *)
(* instantiates: the JPEG decoder reads each byte from its most            *)
(* significant bit and drops the zero stuffed after a byte of ones, the    *)
(* PNG decoder reads from the least significant bit and drops nothing.     *)
(*                                                                         *)
(* The data is a series of symbols, each followed by as many raw bits as   *)
(* its value says.  Behind the data the file goes on, and the stream looks *)
(* ahead into it.  The buffer is the bits not read yet, in the order they  *)
(* are read, which is what the shifts of the 64-bit register keep.         *)
(***************************************************************************)
EXTENDS EntropyFile

CONSTANT PeekBits   \* bits that decode_dc looks at (12 in the code)

\* They fit in the buffer beside a byte read in part, and in two bytes.
ASSUME PeekAssumption ==
    /\ PeekBits \in 1 .. BufferBits - ByteBits + 1
    /\ PeekBits <= 2 * ByteBits

LookupLeaf == [value : Nat, len : 0 .. MaxLength]

VARIABLES
    file,
    pc,
    lookup_table,       \* leaf at each index; others are not written
    next_data_index,
    buffer,             \* the next buffer_bits_filled bits
    value,              \* the symbol whose bits are read next
    received,
    position            \* where parsing goes on, from the start of the data

vars == <<file, pc, lookup_table, next_data_index, buffer, value, received, position>>

-----------------------------------------------------------------------------
(***************************************************************************)
(* Huffman tables                                                          *)
(***************************************************************************)

\* How many codes of at most n bits a DHT segment announces.
CodesUpTo[n \in 0 .. MaxLength] ==
    IF n = 0 THEN 0 ELSE CodesUpTo[n - 1] + file.numbers[n]

\* What CodingTable_new gets; a length of 0 is no code.
value_code_lengths ==
    IF file.jpeg
    THEN [i \in DOMAIN file.values |->
             CHOOSE n \in 1 .. MaxLength : CodesUpTo[n - 1] < i /\ i <= CodesUpTo[n]]
    ELSE file.numbers

Length(i) == value_code_lengths[i]
Value(i) == IF file.jpeg THEN file.values[i] ELSE i - 1
Coded == {i \in DOMAIN value_code_lengths : Length(i) > 0}

max_code_length_bits ==
    IF Coded = {} THEN 0
    ELSE Length(CHOOSE i \in Coded : \A j \in Coded : Length(j) <= Length(i))

bl_count(n) == Cardinality({i \in Coded : Length(i) = n})

\* Mutant: the codes of one length are not counted on from the shorter ones.
NextCodeUnshifted[n \in 0 .. MaxLength] ==
    IF n = 0 THEN 0 ELSE NextCodeUnshifted[n - 1] + bl_count(n - 1)
FirstCodeUnshifted(n) == NextCodeUnshifted[n]

\* next_code before any code is given away.
NextCode[n \in 0 .. MaxLength] ==
    IF n = 0 THEN 0 ELSE (NextCode[n - 1] + bl_count(n - 1)) * 2
FirstCode(n) == NextCode[n]

Code(i) ==
    (FirstCode(Length(i)) + Cardinality({j \in Coded : j < i /\ Length(j) = Length(i)}))
        % 2^Length(i)

\* The number that bits are, read in the direction of the stream.
Number(bits) ==
    LET N[n \in 0 .. Len(bits)] ==
            IF n = 0 THEN 0
            ELSE IF file.jpeg THEN 2 * N[n - 1] + bits[n]
            ELSE N[n - 1] + bits[n] * 2^(n - 1)
    IN  N[Len(bits)]

reverse_bits(code, n) ==
    LET R[k \in 0 .. n] == IF k = 0 THEN 0
                           ELSE 2 * R[k - 1] + ((code \div 2^(k - 1)) % 2)
    IN  R[n]

\* Is leaf i written to this index of the table?
Occupies(i, index) ==
    IF file.jpeg
    THEN index \div 2^(max_code_length_bits - Length(i)) = Code(i)
    ELSE index % 2^Length(i) = reverse_bits(Code(i), Length(i))

\* Leafs are written in order, so the last one stays.
CodingTable_new ==
    /\ pc = "table"
    /\ LET Written == {index \in 0 .. 2^max_code_length_bits - 1 :
                          \E i \in Coded : Occupies(i, index)}
       IN  lookup_table' =
               [index \in Written |->
                   LET i == CHOOSE i \in Coded :
                                /\ Occupies(i, index)
                                /\ \A j \in Coded : Occupies(j, index) => j <= i
                   IN  [value |-> Value(i), len |-> Length(i)]]
    /\ pc' = "symbol"
    /\ UNCHANGED <<file, next_data_index, buffer, value, received, position>>

-----------------------------------------------------------------------------
(***************************************************************************)
(* The bit stream                                                          *)
(***************************************************************************)

ByteAt(p) == IF p < Len(file.data) THEN file.data[p + 1] ELSE file.behind

\* Is the byte after p a stuffed zero?
Stuffed(p) == file.jpeg /\ ByteAt(p) = AllOnes /\ ByteAt(p + 1) = 0

\* next_data_index after n bytes, or n bytes and the zeros stuffed after them.
IndexAfter(n) ==
    LET After[k \in 0 .. n] ==
            IF k = 0 THEN next_data_index
            ELSE After[k - 1] + IF Stuffed(After[k - 1]) THEN 2 ELSE 1
    IN  After[n]

BitsOf(byte) ==
    [k \in 1 .. ByteBits |->
        IF file.jpeg THEN (byte \div 2^(ByteBits - k)) % 2 ELSE (byte \div 2^(k - 1)) % 2]

\* The bits of the n bytes fill_buffer takes from the data.
NewBits(n) ==
    [b \in 1 .. n * ByteBits |->
        BitsOf(ByteAt(IndexAfter((b - 1) \div ByteBits)))[((b - 1) % ByteBits) + 1]]

\* Mutant: what the buffer still holds is not counted.
MissingAll ==
    IF next_data_index + BufferBytes > Len(file.data)
    THEN Len(file.data) - next_data_index ELSE BufferBytes

\* num_bytes_missing.  The stuffed zeros may have moved next_data_index past
\* the end of the data; the difference then is a very large number.
Missing ==
    LET missing == (BufferBits - Len(buffer)) \div ByteBits
    IN  IF next_data_index + missing > Len(file.data)
        THEN Len(file.data) - next_data_index ELSE missing

\* Mutant: fill the buffer when it is empty.
NeedsAny(n) == buffer = <<>>

Needs(n) == Len(buffer) < n

Overruns(n) == Needs(n) /\ Missing < 0

\* The buffer and the index after ensure_filled(n), unless it overruns.
Filled(n) == IF Needs(n) THEN buffer \o NewBits(Missing) ELSE buffer
FilledIndex(n) == IF Needs(n) THEN IndexAfter(Missing) ELSE next_data_index

\* get_bits: behind the end of the data it makes up zeros.
Peek(n) == [k \in 1 .. n |-> IF k <= Len(Filled(n)) THEN Filled(n)[k] ELSE 0]

\* advance_unsafe(len) after get_bits(n).  Without enough bits the counter of
\* filled bits wraps.
Advance(n, len) ==
    /\ len <= Len(Filled(n))
    /\ buffer' = SubSeq(Filled(n), len + 1, Len(Filled(n)))
    /\ next_data_index' = FilledIndex(n)

-----------------------------------------------------------------------------
(***************************************************************************)
(* A scan                                                                  *)
(***************************************************************************)

Init ==
    /\ file \in Files
    /\ pc = "table"
    /\ lookup_table = <<>>
    /\ next_data_index = 0
    /\ buffer = <<>>
    /\ value = 0
    /\ received = <<>>
    /\ position = 0

Receive(v, bits) == received' = Append(received, [value |-> v, bits |-> bits])

\* The leaf at the next bits; an index that was not written to holds any leaf.
LeafsAhead ==
    LET index == Number(Peek(max_code_length_bits))
    IN  IF index \in DOMAIN lookup_table THEN {lookup_table[index]}
        ELSE [value : {Value(i) : i \in Coded}, len : 0 .. MaxLength]

\* How many bits may be asked for next: a DC value looks further ahead.
Asked ==
    IF pc = "bits"
    THEN {value} \cup {n \in {PeekBits} : file.jpeg /\ value <= n}
    ELSE {max_code_length_bits}

lookup ==
    /\ pc = "symbol"
    /\ Len(received) < Len(file.sent)
    /\ ~Overruns(max_code_length_bits)
    /\ \E leaf \in LeafsAhead :
           /\ Advance(max_code_length_bits, leaf.len)
           /\ value' = leaf.value
    /\ pc' = "bits"
    /\ UNCHANGED <<file, lookup_table, received, position>>

\* The value's bits, of which number is made, are taken after get_bits(n).
TakeBits(n, number) ==
    /\ pc = "bits"
    /\ ~Overruns(n)
    /\ Advance(n, value)
    /\ Receive(value, number)
    /\ pc' = "symbol"
    /\ UNCHANGED <<file, lookup_table, value, position>>

\* The bits of an AC coefficient, a run or a copy; a value without bits reads
\* nothing.
get_bits_advance == TakeBits(value, Number(Peek(value)))

\* A DC coefficient: PeekBits are looked at, also for a value without bits.
decode_dc ==
    /\ file.jpeg
    /\ value <= PeekBits
    /\ TakeBits(PeekBits, Number(Peek(PeekBits)) \div 2^(PeekBits - value))

\* The stream is out of data: its counters wrap, and what follows is garbage.
OutOfData ==
    /\ pc = "bits" \/ (pc = "symbol" /\ Len(received) < Len(file.sent))
    /\ \E n \in Asked :
           \/ Overruns(n)
           \/ /\ ~Overruns(n)
              /\ IF pc = "bits" THEN value > Len(Filled(n))
                 ELSE \E leaf \in LeafsAhead : leaf.len > Len(Filled(n))
    /\ pc' = "garbage"
    /\ UNCHANGED <<file, lookup_table, next_data_index, buffer, value, received, position>>

\* Mutant: the buffered bytes count as read.
PositionAhead == next_data_index

bytes_read_from_stream == next_data_index - Len(buffer) \div ByteBits

EndScan ==
    /\ pc = "symbol"
    /\ Len(received) = Len(file.sent)
    /\ position' = IF file.jpeg THEN bytes_read_from_stream ELSE position
    /\ pc' = "end"
    /\ UNCHANGED <<file, lookup_table, next_data_index, buffer, value, received>>

Ended == pc \in {"end", "garbage"} /\ UNCHANGED vars

Next ==
    \/ CodingTable_new
    \/ lookup \/ get_bits_advance \/ decode_dc \/ OutOfData
    \/ EndScan
    \/ Ended

Spec == Init /\ [][Next]_vars

-----------------------------------------------------------------------------
(***************************************************************************)
(* Properties                                                              *)
(***************************************************************************)

\* Every variable that changes has its type; the register holds what it is
\* given.
TypeOK ==
    /\ pc \in {"table", "symbol", "bits", "end", "garbage"}
    /\ DOMAIN lookup_table \subseteq 0 .. 2^MaxLength - 1
    /\ \A index \in DOMAIN lookup_table : lookup_table[index] \in LookupLeaf
    /\ next_data_index \in Nat
    /\ buffer \in Seq(Bit)
    /\ Len(buffer) <= BufferBits
    /\ value \in Nat
    /\ received \in Seq(Items)
    /\ position \in Int

\* The file does not break off within the data or before what follows it.
Whole == WholeFile(file)

\* What is read is what was written: symbols are recognised by the table that
\* was built from the file's lengths, and no bit is lost, repeated or taken
\* from the stuffed zeros, wherever the buffer is filled.  Also in a file that
\* breaks off: the zeros made up at its end are never taken for a symbol, as
\* long as stuffed zeros have not led the stream past that end.
ReadsWhatWasWritten ==
    (Whole \/ next_data_index <= Len(file.data)) =>
        /\ received = SubSeq(file.sent, 1, Len(received))
        /\ pc = "bits" => value = file.sent[Len(received) + 1].value

\* A marker behind the data is enough for the stream never to run out, although
\* it asks for the longest code and skips stuffed zeros while it looks ahead.
NeverOutOfData == Whole => pc # "garbage"

\* After a scan parsing goes on at the marker behind it, unless what the stream
\* looked at behind the marker seems to hold a stuffed zero.
ResumesAtMarker ==
    (pc = "end" /\ file.jpeg /\ Whole
        /\ \A p \in file.marker .. next_data_index - 1 : ~Stuffed(p))
            => position = file.marker

=============================================================================
