----------------------------- MODULE PngDecode -----------------------------
(***************************************************************************)
(* The PNG decoder, src/image/png.cpp: chunks, ZLIBDecoder::decode, the    *)
(* scanline filters and the swap of red and blue.  What an encoder may     *)
(* write is PngFile; the compressed stream is a series of symbols, each    *)
(* chosen when it is read, and the bits below them are those of Entropy.   *)
(***************************************************************************)
EXTENDS PngFile

CONSTANTS
    Word,               \* 2^32, the modulus of the uint32_t sizes
    MAX_CHUNK_SIZE,
    MaxBlocks,          \* the encoder writes at most so many blocks
    None                \* memory not written to, an object not there

ASSUME PngAssumption ==
    /\ Word \in Nat \ {0} /\ MAX_CHUNK_SIZE \in Nat
    /\ MaxBlocks \in Nat \ {0}
    /\ None \notin Byte /\ None \notin [length : Nat, distance : Nat, l : Nat]

VARIABLES
    file,
    pc,
    chunk,              \* number of the chunk that is parsed next
    ihdr_data,
    data_buffer,        \* the IDAT chunks, by number, in the order they were appended
    sent, code, block,  \* the encoder: bytes sent, codes of the block, its number,
    told,               \* and how many code lengths it has told
    bfinal,
    lengths,            \* literal_plus_distance_code_lengths up to i
    alphabet,           \* literal_alphabet and distance_alphabet
    output_buffer, out_offset,
    copy,               \* length, backward_distance and l of a copy
    line, index,        \* scanline_index, and the byte in that line
    defiltered, pix     \* defiltered_output_buffer

input == <<file, chunk, ihdr_data, data_buffer>>
encoder == <<sent, code, block, told>>
inflater == <<bfinal, lengths, alphabet, output_buffer, out_offset, copy>>
filter == <<line, index, defiltered, pix>>
vars == <<pc, input, encoder, inflater, filter>>

\* Mutant: there is no room for the filter bytes.
output_buffer_size_bare == (ihdr_data.height * ihdr_data.width * bytes_per_pixel) % Word

output_buffer_size == ((ihdr_data.height + 1) * ihdr_data.width * bytes_per_pixel) % Word
scanline_width == (1 + ihdr_data.width * bytes_per_pixel) % Word
pixel_bytes == ihdr_data.width * bytes_per_pixel
defiltered_size == (ihdr_data.height * pixel_bytes) % Word

Init ==
    /\ file \in Files
    /\ pc = "chunks"
    /\ chunk = 1
    /\ ihdr_data = [width |-> 0, height |-> 0]
    /\ data_buffer = <<>>
    /\ sent = 0 /\ code = None /\ block = 0 /\ told = 0
    /\ bfinal = FALSE
    /\ lengths = <<>>
    /\ alphabet = None
    /\ output_buffer = <<>> /\ out_offset = 0
    /\ copy = None
    /\ line = 0 /\ index = 0
    /\ defiltered = <<>> /\ pix = 0

-----------------------------------------------------------------------------
(***************************************************************************)
(* Chunks                                                                  *)
(***************************************************************************)

AtChunk(type) ==
    /\ pc = "chunks" /\ chunk <= Len(file.chunks)
    /\ file.chunks[chunk].size <= MAX_CHUNK_SIZE
    /\ file.chunks[chunk].type = type
    /\ chunk' = chunk + 1

\* Only eight bits a channel and RGBA are supported.
ReadIHDR ==
    /\ AtChunk("IHDR")
    /\ ihdr_data' = [width |-> file.width, height |-> file.height]
    /\ pc' = IF file.color_type = 6 /\ file.bit_depth = 8 THEN "chunks" ELSE "exited"
    /\ UNCHANGED <<file, data_buffer, encoder, inflater, filter>>

IDATNumber == Cardinality({c \in 1 .. chunk : file.chunks[c].type = "IDAT"})

\* Mutant: the buffer is allocated anew for each chunk.
ReadIDATAnew ==
    /\ AtChunk("IDAT")
    /\ data_buffer' = <<IDATNumber>>
    /\ UNCHANGED <<file, pc, ihdr_data, encoder, inflater, filter>>

ReadIDAT ==
    /\ AtChunk("IDAT")
    /\ data_buffer' = Append(data_buffer, IDATNumber)
    /\ UNCHANGED <<file, pc, ihdr_data, encoder, inflater, filter>>

SkipChunk ==
    /\ AtChunk("other")
    /\ UNCHANGED <<file, pc, ihdr_data, data_buffer, encoder, inflater, filter>>

RefuseChunk ==
    /\ pc = "chunks" /\ chunk <= Len(file.chunks)
    /\ file.chunks[chunk].size > MAX_CHUNK_SIZE
    /\ pc' = "refused"
    /\ UNCHANGED <<input, encoder, inflater, filter>>

\* At IEND, or at the end of a file without it.
EndChunks ==
    /\ \/ AtChunk("IEND")
       \/ pc = "chunks" /\ chunk > Len(file.chunks) /\ UNCHANGED chunk
    /\ output_buffer' = [k \in 0 .. output_buffer_size - 1 |-> None]
    /\ pc' = "zlib"
    /\ UNCHANGED <<file, ihdr_data, data_buffer, encoder, bfinal, lengths, alphabet,
                   out_offset, copy, filter>>

-----------------------------------------------------------------------------
(***************************************************************************)
(* Inflating                                                               *)
(***************************************************************************)

AllIDATs == Cardinality({c \in DOMAIN file.chunks : file.chunks[c].type = "IDAT"})

\* Without all the data, in order, what follows is garbage.
ZlibHeader ==
    /\ pc = "zlib"
    /\ pc' = IF data_buffer # [n \in 1 .. AllIDATs |-> n] THEN "garbage"
             ELSE IF /\ file.zlib.check = 0
                     /\ file.zlib.cm = 8
                     /\ file.zlib.cinfo <= 7        \* a window of at most 32768 bytes
                     /\ ~file.zlib.fdict
             THEN "block" ELSE "exited"
    /\ UNCHANGED <<input, encoder, inflater, filter>>

\* Only blocks with dynamic Huffman codes are supported.
UnsupportedBlock ==
    /\ pc = "block" /\ ~file.dynamic
    /\ pc' = "exited"
    /\ UNCHANGED <<input, encoder, inflater, filter>>

StartBlock ==
    /\ pc = "block" /\ block < MaxBlocks
    /\ \E c \in Codes, last \in BOOLEAN :
           /\ block + 1 = MaxBlocks => last
           /\ last => MayBeLast(file, c, sent)
           /\ code' = c /\ bfinal' = last
    /\ block' = block + 1
    /\ told' = 0 /\ lengths' = <<>>
    /\ pc' = "lengths"
    /\ UNCHANGED <<input, sent, alphabet, output_buffer, out_offset, copy, filter>>

i == Len(lengths)

\* Mutant: a run is one too short.
RunShort(s) ==
    LET num_reps == RepeatBase[s.symbol] + s.extra
    IN  [k \in 1 .. num_reps - 1 |-> IF s.symbol = 16 THEN lengths[i] ELSE 0]

\* num_reps times the length before, or no code.
Run(s) ==
    LET num_reps == RepeatBase[s.symbol] + s.extra
    IN  [k \in 1 .. num_reps |-> IF s.symbol = 16 THEN lengths[i] ELSE 0]

ReadCodeLength ==
    /\ pc = "lengths"
    /\ i < code.num_literal_codes + code.num_distance_codes
    /\ \E s \in Runs(code, told) :
           IF s.symbol < 16
           THEN lengths' = Append(lengths, s.symbol) /\ told' = told + 1
           ELSE lengths' = lengths \o Run(s) /\ told' = told + RunLength(s)
    /\ UNCHANGED <<pc, input, sent, code, block, bfinal, alphabet, output_buffer, out_offset, copy, filter>>

MakeAlphabets ==
    /\ pc = "lengths"
    /\ i >= code.num_literal_codes + code.num_distance_codes
    /\ alphabet' =
           [literal |-> [s \in 0 .. code.num_literal_codes - 1 |-> lengths[s + 1]],
            distance |-> [s \in 0 .. code.num_distance_codes - 1 |->
                             lengths[s + code.num_literal_codes + 1]]]
    /\ pc' = "symbols"
    /\ UNCHANGED <<input, encoder, bfinal, lengths, output_buffer, out_offset, copy, filter>>

\* The symbols a table may recognise in a code word: those that have it, and
\* any if there is none.
lookup(table, word) ==
    LET having == {s \in DOMAIN table : table[s] > 0 /\ CodeWord(table, s) = word}
    IN  IF having # {} THEN having ELSE DOMAIN table

\* s is sent next, and taken for a literal, the end or a length.
Reads(s, symbol) ==
    /\ symbol \in lookup(alphabet.literal, CodeWord(Literals(code), s.symbol))
    /\ sent' = sent + SentBytes(s)
    /\ UNCHANGED <<code, block, told>>

\* out_offset is an int: it ends at half the range of the sizes.
IsInBuffer(k) == k < output_buffer_size /\ k < Word \div 2

Literal(s, symbol) ==
    /\ Reads(s, symbol)
    /\ symbol < END_OF_BLOCK
    /\ IF IsInBuffer(out_offset)
       THEN /\ output_buffer' = [output_buffer EXCEPT ![out_offset] = symbol]
            /\ out_offset' = out_offset + 1
            /\ UNCHANGED pc
       ELSE pc' = "overrun" /\ UNCHANGED <<output_buffer, out_offset>>
    /\ UNCHANGED <<input, bfinal, lengths, alphabet, copy, filter>>

EndOfBlock(s, symbol) ==
    /\ Reads(s, symbol)
    /\ symbol = END_OF_BLOCK
    /\ alphabet' = None
    /\ pc' = IF bfinal THEN "scanlines" ELSE "block"
    /\ defiltered' = IF bfinal THEN [k \in 0 .. defiltered_size - 1 |-> None] ELSE defiltered
    /\ UNCHANGED <<input, bfinal, lengths, output_buffer, out_offset, copy, line, index, pix>>

ReadCopy(s, symbol) ==
    /\ Reads(s, symbol)
    /\ symbol > END_OF_BLOCK
    /\ \E d \in lookup(alphabet.distance, CodeWord(Distances(code), s.distance)) :
           LET t == symbol - END_OF_BLOCK
           IN  copy' = [length |-> LengthBase[t]
                                   + IF LengthValues[t] > 1 THEN s.extra ELSE 0,
                        distance |-> DistanceBase[d + 1]
                                     + IF DistanceValues[d + 1] > 1 THEN s.distance_extra ELSE 0,
                        l |-> 0]
    /\ pc' = "copy"
    /\ UNCHANGED <<input, bfinal, lengths, alphabet, output_buffer, out_offset, filter>>

\* Mutant: the bytes are copied all at once.
CopyBytes ==
    /\ pc = "copy" /\ copy.l < copy.length
    /\ IF IsInBuffer(out_offset + copy.length - 1)
       THEN /\ output_buffer' = [k \in DOMAIN output_buffer |->
                   IF k \in out_offset .. out_offset + copy.length - 1
                   THEN output_buffer[k - copy.distance] ELSE output_buffer[k]]
            /\ copy' = [copy EXCEPT !.l = copy.length]
            /\ UNCHANGED pc
       ELSE pc' = "overrun" /\ UNCHANGED <<output_buffer, copy>>
    /\ UNCHANGED <<input, encoder, bfinal, lengths, alphabet, out_offset, filter>>

\* A byte at a time: a copy may read what it has written.
CopyByte ==
    /\ pc = "copy" /\ copy.l < copy.length
    /\ LET base_offset == out_offset + copy.l
       IN  IF IsInBuffer(base_offset)
           THEN /\ output_buffer' = [output_buffer EXCEPT ![base_offset] =
                                        output_buffer[base_offset - copy.distance]]
                /\ copy' = [copy EXCEPT !.l = @ + 1]
                /\ UNCHANGED pc
           ELSE pc' = "overrun" /\ UNCHANGED <<output_buffer, copy>>
    /\ UNCHANGED <<input, encoder, bfinal, lengths, alphabet, out_offset, filter>>

EndCopy ==
    /\ pc = "copy" /\ copy.l = copy.length
    /\ out_offset' = out_offset + copy.length
    /\ copy' = None
    /\ pc' = "symbols"
    /\ UNCHANGED <<input, encoder, bfinal, lengths, alphabet, output_buffer, filter>>

Inflate ==
    \/ ZlibHeader \/ UnsupportedBlock \/ StartBlock \/ ReadCodeLength \/ MakeAlphabets
    \/ /\ pc = "symbols"
       /\ \E s \in Sendable(file, code, bfinal, sent), symbol \in DOMAIN alphabet.literal :
              Literal(s, symbol) \/ EndOfBlock(s, symbol) \/ ReadCopy(s, symbol)
    \/ CopyByte \/ EndCopy

-----------------------------------------------------------------------------
(***************************************************************************)
(* Scanlines                                                               *)
(***************************************************************************)

in_line == line * scanline_width
out_line == line * pixel_bytes

\* Bytes of the filtered line, and of the lines and bytes reconstructed already.
raw(k) == output_buffer[in_line + 1 + k]
previous_rev(k) == IF k < bytes_per_pixel THEN 0 ELSE defiltered[out_line + k - bytes_per_pixel]
above_rev(k) == IF line = 0 THEN 0 ELSE defiltered[out_line - pixel_bytes + k]
previousAbove_rev(k) ==
    IF line = 0 \/ k < bytes_per_pixel THEN 0
    ELSE defiltered[out_line - pixel_bytes + k - bytes_per_pixel]

abs_sub(a, b) == IF a - b < 0 THEN -(a - b) ELSE a - b

\* Mutant: between the byte on the left and the one above that, the latter.
paethPredictorStrict(k) ==
    LET a == previous_rev(k)
        b == above_rev(k)
        c == previousAbove_rev(k)
        p == a + b - c
    IN  IF abs_sub(p, a) <= abs_sub(p, b) /\ abs_sub(p, a) < abs_sub(p, c) THEN a
        ELSE IF abs_sub(p, b) <= abs_sub(p, c) THEN b ELSE c

paethPredictor_rev(k) ==
    LET a == previous_rev(k)
        b == above_rev(k)
        c == previousAbove_rev(k)
        p == a + b - c
    IN  IF abs_sub(p, a) <= abs_sub(p, b) /\ abs_sub(p, a) <= abs_sub(p, c) THEN a
        ELSE IF abs_sub(p, b) <= abs_sub(p, c) THEN b ELSE c

scanline_filter == output_buffer[in_line]

Predicted(k) ==
    CASE scanline_filter = FilterNames.NONE -> 0
      [] scanline_filter = FilterNames.SUB -> previous_rev(k)
      [] scanline_filter = FilterNames.UP -> above_rev(k)
      [] scanline_filter = FilterNames.AVERAGE -> (previous_rev(k) + above_rev(k)) \div 2
      [] scanline_filter = FilterNames.PAETH -> paethPredictor_rev(k)

AtScanline == pc = "scanlines" /\ line < ihdr_data.height

\* Mutant: the sum is not cut to a byte.
DefilterByteWide ==
    /\ AtScanline
    /\ index < scanline_width - 1
    /\ defiltered' = [defiltered EXCEPT ![out_line + index] = raw(index) + Predicted(index)]
    /\ index' = index + 1
    /\ UNCHANGED <<pc, input, encoder, inflater, line, pix>>

DefilterByte ==
    /\ AtScanline
    /\ index < scanline_width - 1
    /\ defiltered' = [defiltered EXCEPT ![out_line + index] = (raw(index) + Predicted(index)) % Bytes]
    /\ index' = index + 1
    /\ UNCHANGED <<pc, input, encoder, inflater, line, pix>>

EndScanline ==
    /\ AtScanline /\ index = scanline_width - 1
    /\ line' = line + 1 /\ index' = 0
    /\ UNCHANGED <<pc, input, encoder, inflater, defiltered, pix>>

EndScanlines ==
    /\ pc = "scanlines" /\ line = ihdr_data.height
    /\ pc' = "pixels"
    /\ UNCHANGED <<input, encoder, inflater, filter>>

\* Red and blue of pixel pix change places.
SwapPixel ==
    /\ pc = "pixels" /\ pix < ihdr_data.height * ihdr_data.width
    /\ defiltered' = [defiltered EXCEPT ![pix * 4] = defiltered[pix * 4 + 2],
                                        ![pix * 4 + 2] = defiltered[pix * 4]]
    /\ pix' = pix + 1
    /\ UNCHANGED <<pc, input, encoder, inflater, line, index>>

Publish ==
    /\ pc = "pixels" /\ pix = ihdr_data.height * ihdr_data.width
    /\ pc' = "done"
    /\ UNCHANGED <<input, encoder, inflater, filter>>

Ended == pc \in {"done", "refused", "exited", "overrun", "garbage"} /\ UNCHANGED vars

Next ==
    \/ ReadIHDR \/ ReadIDAT \/ SkipChunk \/ RefuseChunk \/ EndChunks
    \/ Inflate
    \/ DefilterByte \/ EndScanline \/ EndScanlines \/ SwapPixel \/ Publish
    \/ Ended

Spec == Init /\ [][Next]_vars

\* One thread that never waits.
FairSpec == Spec /\ WF_vars(Next)

-----------------------------------------------------------------------------
(***************************************************************************)
(* Properties                                                              *)
(***************************************************************************)

\* Every variable that changes has its type.
TypeOK ==
    /\ pc \in {"chunks", "zlib", "block", "lengths", "symbols", "copy", "scanlines", "pixels",
               "done", "refused", "exited", "overrun", "garbage"}
    /\ chunk \in Nat \ {0}
    /\ ihdr_data \in [width : Nat, height : Nat]
    /\ data_buffer \in Seq(Nat \ {0})
    /\ sent \in 0 .. RawSize(file)
    /\ code \in Codes \cup {None}
    /\ block \in 0 .. MaxBlocks /\ told \in Nat
    /\ bfinal \in BOOLEAN
    /\ lengths \in Seq(0 .. 15)
    /\ out_offset \in Nat
    /\ \A k \in DOMAIN output_buffer : output_buffer[k] \in Byte \cup {None}
    /\ copy = None \/ copy \in [length : Nat, distance : Nat, l : Nat]
    /\ line \in Nat /\ index \in Nat /\ pix \in Nat
    /\ \A k \in DOMAIN defiltered : defiltered[k] \in Byte \cup {None}

\* What inflating has written, also in the middle of a copy.
Inflated == out_offset + IF copy = None THEN 0 ELSE copy.l

\* The tables a block is read with are those its encoder used, however the code
\* lengths were cut into runs, across the border between literals and distances
\* too, and nothing of the last block's tables is left.
OwnAlphabets ==
    /\ pc = "lengths" => i = told /\ \A k \in 1 .. i : lengths[k] = code.lengths[k - 1]
    /\ pc \in {"symbols", "copy"} =>
           alphabet = [literal |-> Literals(code), distance |-> Distances(code)]

\* Inflating gives back the bytes that were deflated, whichever literals and
\* copies, overlapping ones too, the encoder chose and wherever it began blocks.
InflatesWhatWasDeflated ==
    /\ pc \notin {"overrun", "garbage"} =>
           \A k \in 0 .. Inflated - 1 : output_buffer[k] = Raw(file, k)
    /\ pc = "symbols" => out_offset = sent

\* The buffers are large enough for every picture that is at most four times
\* as high as it is wide and fills at most half the range of the sizes.
StaysInBuffers ==
    /\ file.height <= 4 * file.width
    /\ (file.height + 1) * file.width * 4 <= Word \div 2
    => pc # "overrun"

\* The picture that is shown is the one that was encoded, in the order of
\* channels of the texture.
PictureRecovered ==
    pc = "done" =>
        \A p \in 0 .. file.height * file.width - 1, c \in 0 .. 3 :
            defiltered[p * 4 + c] = file.pixels[p * 4 + IF c = 3 THEN 3 ELSE 2 - c]

\* Files of the kind the decoder knows, that fit its buffers.
Supported ==
    /\ file.color_type = 6 /\ file.bit_depth = 8 /\ file.dynamic
    /\ file.zlib.check = 0 /\ file.zlib.cm = 8 /\ file.zlib.cinfo <= 7 /\ ~file.zlib.fdict
    /\ \A c \in DOMAIN file.chunks : file.chunks[c].size <= MAX_CHUNK_SIZE
    /\ file.height <= 4 * file.width
    /\ (file.height + 1) * file.width * 4 <= Word \div 2

\* Such a file is loaded in the end, however its data is cut into chunks and
\* blocks and whatever other chunks are in between.
Loads == Supported ~> pc = "done"

=============================================================================
