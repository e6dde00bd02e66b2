---------------------------- MODULE MCPngDecode ----------------------------
(***************************************************************************)
(* PngDecode on small files: bytes of eight values, a length table of      *)
(* three lengths and a distance table that reaches one pixel back, and     *)
(* sizes with 64 values in place of 2^32, so that a picture of a few       *)
(* pixels is too high or too large for its buffer.                         *)
(***************************************************************************)
EXTENDS PngDecode, SequencesExt

MCLengthBase == <<3, 4>>
MCLengthValues == <<1, 2>>
MCDistanceBase == <<1, 2, 3>>
MCDistanceValues == <<1, 1, 2>>
MCRepeatBase == [s \in 16 .. 18 |-> IF s = 18 THEN 4 ELSE 2]
MCRepeatValues == [s \in 16 .. 18 |-> 2]

CodeOf(literals, distances) ==
    [num_literal_codes |-> Len(literals), num_distance_codes |-> Len(distances),
     lengths |-> [k \in 0 .. Len(literals) + Len(distances) - 1 |->
                     (literals \o distances)[k + 1]]]

\* All symbols; the first half of the bytes, without copies and thus without
\* distances; few bytes, with runs of no code across the border to the distances.
MCCodes ==
    {CodeOf(<<3, 3, 3, 3, 4, 4, 4, 4, 4, 4, 4>>, <<2, 2, 1>>),
     CodeOf(<<2, 3, 3, 3, 0, 0, 0, 0, 2>>, <<0>>),
     CodeOf(<<1, 0, 0, 0, 0, 0, 0, 0, 2, 2, 0>>, <<0, 0, 1>>)}

\* IDAT chunks with others before and between them.
Layout(types) == [c \in DOMAIN types |-> [type |-> types[c], size |-> 1]]
Plain == Layout(<<"IHDR", "IDAT", "IEND">>)
Cut == Layout(<<"IHDR", "other", "IDAT", "other", "IDAT", "IDAT", "IEND", "other">>)
Endless == Layout(<<"IHDR", "IDAT", "IDAT">>)
TooLarge == <<[type |-> "IHDR", size |-> 1], [type |-> "IDAT", size |-> 9]>>

\* A flat picture, one pixel repeated, one that differs everywhere, and one whose
\* fourth pixel has its left and its upper left pixel equally near to its gradient.
Patterns ==
    {[k \in 0 .. 63 |-> 3], [k \in 0 .. 63 |-> k % 4],
     [k \in 0 .. 63 |-> (k * k + 3 * (k \div 4)) % 8],
     [k \in 0 .. 63 |-> IF k < 12 THEN <<4, 5, 2>>[(k \div 4) + 1] ELSE k % 8]}

Header == [cm |-> 8, cinfo |-> 7, check |-> 0, fdict |-> FALSE]

FileOf(width, height, pattern, filters, chunks) ==
    [width |-> width, height |-> height,
     pixels |-> [k \in 0 .. height * (4 * width) - 1 |-> pattern[k]],
     filters |-> [l \in 0 .. height - 1 |-> filters[l + 1]],
     chunks |-> chunks, color_type |-> 6, bit_depth |-> 8, zlib |-> Header, dynamic |-> TRUE]

Usual ==
    {FileOf(1, 1, p, <<a>>, c) : p \in Patterns, a \in Filters, c \in {Plain, Cut, Endless, TooLarge}}
    \cup {FileOf(2, 1, p, <<a>>, Plain) : p \in Patterns, a \in Filters}
    \cup {FileOf(1, 2, p, <<a, b>>, Plain) : p \in Patterns, a \in Filters, b \in Filters}
    \cup {FileOf(2, 2, p, <<a, b>>, Cut) : p \in Patterns, a \in {1, 4}, b \in 2 .. 4}

\* A picture too high for its buffer, one beyond the range of an int, one whose
\* size wraps.
Large ==
    {FileOf(q[1], q[2], [k \in 0 .. 63 |-> 3], <<0, 0, 0, 0, 0>>, Plain) :
        q \in {<<1, 5>>, <<2, 4>>, <<4, 4>>}}

Odd ==
    LET f == FileOf(1, 1, [k \in 0 .. 63 |-> k % 4], <<1>>, Plain)
    IN  {[f EXCEPT !.color_type = 2], [f EXCEPT !.bit_depth = 16],
         [f EXCEPT !.zlib.check = 1], [f EXCEPT !.zlib.cm = 7], [f EXCEPT !.zlib.cinfo = 8],
         [f EXCEPT !.zlib.fdict = TRUE], [f EXCEPT !.dynamic = FALSE]}

MCFiles == Usual \cup Large \cup Odd

=============================================================================
