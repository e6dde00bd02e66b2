--------------------------- MODULE JpegProgressive ---------------------------
(***************************************************************************)
(* How the scans of a JPEG file become coefficients: process_mcu_generic   *)
(* and the functions of namespace ProcessBlock in src/image/jpeg.cpp.      *)
(*                                                                         *)
(* A file is the blocks of one component (target) and the headers of its   *)
(* scans (script).  The entropy-coded data of a scan is a sequence of      *)
(* tokens: Huffman symbols, which pair a run of zeros with a size, and     *)
(* groups of raw bits.  Each action is one iteration of a decoder loop and *)
(* reads at most one symbol and the bits that belong to it.                *)
(*                                                                         *)
(* The tokens are those of an encoder (JpegScanEncoder), or arbitrary in a *)
(* damaged scan.                                                           *)
(***************************************************************************)
EXTENDS Integers, Sequences, FiniteSets

CONSTANTS
    LastCoeff,      \* last zig-zag index of a block (63 in the code)
    MaxRun,         \* largest run of zeros a symbol can hold (15 in the code)
    Files,          \* records of blocks and scan headers
    Streams(_, _)   \* the tokens a scan of these blocks may consist of

Coeffs == 0 .. LastCoeff
Symbol(r, s) == [kind |-> "symbol", zeros |-> r, size |-> s]
Bits(n, v) == [kind |-> "bits", count |-> n, value |-> v]

Blocks == [Coeffs -> Int]
\* run: the longest run of ended blocks the encoder makes, 0 for a damaged scan.
Headers == {h \in [ss : Coeffs, se : Coeffs, ah : Nat, al : Nat, run : Nat] :
               h.ss <= h.se}
Tokens == [kind : {"symbol"}, zeros : 0 .. MaxRun, size : Nat]
              \cup [kind : {"bits"}, count : Nat, value : Nat]

ASSUME SizeAssumption ==
    /\ LastCoeff \in Nat \ {0}
    /\ MaxRun \in Nat \ {0, 1}

ASSUME FilesAssumption ==
    \A f \in Files :
        /\ f.blocks \in Seq(Blocks) /\ f.blocks # <<>>
        /\ f.script \in Seq(Headers)
        /\ \A n \in DOMAIN f.script :
              \A t \in Streams(f.blocks, f.script[n]) : t \in Seq(Tokens)

VARIABLES
    target,     \* the blocks that were encoded
    script,     \* the scans still to come, the current one first
    covered,    \* the scans decoded
    stream,     \* the tokens of the current scan still unread
    pc,         \* where process_mcu_generic is
    block,      \* the block being decoded
    k,          \* spec_sel, next_pixel_index, or index of refine_block
    num_zeros,  \* zeros refine_block has yet to pass
    value,      \* coefficient decode_block_with_sbh has yet to store
    eob_run,
    diff_dc,
    mem         \* scan_memory

vars == <<target, script, covered, stream, pc, block, k, num_zeros, value,
          eob_run, diff_dc, mem>>

scan == Head(script)
bit == 2^scan.al

-----------------------------------------------------------------------------
(***************************************************************************)
(* Reading                                                                 *)
(***************************************************************************)

Reads(kind) == stream # <<>> /\ Head(stream).kind = kind

\* The n bits after the first i tokens; no bits, no token.
ReadsBits(i, n) ==
    n > 0 => /\ Len(stream) > i
             /\ stream[i + 1].kind = "bits"
             /\ stream[i + 1].count = n

BitsRead(i, n) == IF n > 0 THEN stream[i + 1].value ELSE 0

\* What is left after i tokens and n bits.
Unread(i, n) == SubSeq(stream, i + (IF n > 0 THEN 2 ELSE 1), Len(stream))

twos_complement(magnitude, v) ==
    IF v < 2^(magnitude - 1) THEN v - 2^magnitude + 1 ELSE v

-----------------------------------------------------------------------------

FirstStep(s) == IF s.ss = 0 THEN "dc" ELSE "band"

Init ==
    /\ \E f \in Files : target = f.blocks /\ script = f.script
    /\ covered = <<>>
    /\ stream = <<>>
    /\ pc = "scan"
    /\ block = 1
    /\ k = 0
    /\ num_zeros = 0
    /\ value = 0
    /\ eob_run = 0
    /\ diff_dc = 0
    /\ mem = [b \in DOMAIN target |-> [i \in Coeffs |-> 0]]

StartScan ==
    /\ pc = "scan"
    /\ script # <<>>
    /\ stream' \in Streams(target, scan)
    /\ pc' = FirstStep(scan)
    /\ block' = 1
    /\ eob_run' = 0
    /\ diff_dc' = 0
    /\ UNCHANGED <<target, script, covered, k, num_zeros, value, mem>>

\* On to the next block, or to the next scan.
NextBlock ==
    /\ UNCHANGED target
    /\ IF block < Len(target)
       THEN /\ block' = block + 1
            /\ pc' = FirstStep(scan)
            /\ UNCHANGED <<script, covered>>
       ELSE /\ block' = 1
            /\ pc' = "scan"
            /\ script' = Tail(script)
            /\ covered' = Append(covered, scan)

SameBlock == UNCHANGED <<target, script, covered, block>>

\* block_mem[i] = v.  Outside the block it would add an index to it.
Store(i, v) ==
    mem' = [mem EXCEPT ![block] =
               [j \in DOMAIN mem[block] \cup {i} |-> IF j = i THEN v ELSE mem[block][j]]]

-----------------------------------------------------------------------------
(***************************************************************************)
(* DC coefficients, and the first scan of AC coefficients                  *)
(***************************************************************************)

DecodeDC ==
    /\ pc = "dc" /\ scan.ah = 0
    /\ Reads("symbol")
    /\ LET magnitude == Head(stream).size IN
       /\ ReadsBits(1, magnitude)
       /\ stream' = Unread(1, magnitude)
       /\ diff_dc' = diff_dc + IF magnitude = 0 THEN 0
                         ELSE twos_complement(magnitude, BitsRead(1, magnitude))
    /\ Store(0, diff_dc' * bit)
    /\ IF scan.se = 0 THEN NextBlock ELSE pc' = "band" /\ SameBlock
    /\ UNCHANGED <<k, num_zeros, value, eob_run>>

RefineDC ==
    /\ pc = "dc" /\ scan.ah > 0
    /\ ReadsBits(0, 1)
    /\ stream' = Tail(stream)
    /\ Store(0, mem[block][0] + BitsRead(0, 1) * bit)
    /\ NextBlock
    /\ UNCHANGED <<k, num_zeros, value, eob_run, diff_dc>>

\* The block is part of a run of ended blocks.
SkipBlock ==
    /\ pc = "band" /\ scan.ah = 0 /\ eob_run > 0
    /\ eob_run' = eob_run - 1
    /\ NextBlock
    /\ UNCHANGED <<stream, k, num_zeros, value, diff_dc, mem>>

StartBand ==
    /\ pc = "band" /\ scan.ah = 0 /\ eob_run = 0
    /\ k' = IF scan.ss = 0 THEN 1 ELSE scan.ss
    /\ pc' = "ac"
    /\ SameBlock
    /\ UNCHANGED <<stream, num_zeros, value, eob_run, diff_dc, mem>>

\* spec_sel has passed the band.
EndBand ==
    /\ pc \in {"ac", "sbh"}
    /\ k > scan.se
    /\ NextBlock
    /\ UNCHANGED <<stream, k, num_zeros, value, eob_run, diff_dc, mem>>

\* A symbol without a value: the longest run of zeros, or the end of a run
\* of blocks, this one included.
DecodeZeros ==
    /\ pc = "ac" /\ k <= scan.se
    /\ Reads("symbol") /\ Head(stream).size = 0
    /\ LET zeros == Head(stream).zeros IN
       \/ /\ zeros = MaxRun
          /\ k' = k + MaxRun + 1
          /\ stream' = Tail(stream)
          /\ UNCHANGED <<pc, eob_run>> /\ SameBlock
       \/ /\ zeros # MaxRun
          /\ ReadsBits(1, zeros)
          /\ stream' = Unread(1, zeros)
          /\ eob_run' = 2^zeros - 1 + BitsRead(1, zeros)
          /\ NextBlock
          /\ UNCHANGED k
    /\ UNCHANGED <<num_zeros, value, diff_dc, mem>>

\* Mutant: the run of zeros before a value is not checked against the band.
DecodeACUnchecked ==
    /\ pc = "ac" /\ k <= scan.se
    /\ Reads("symbol") /\ Head(stream).size # 0
    /\ LET sym == Head(stream)
           i == k + sym.zeros
       IN  /\ ReadsBits(1, sym.size)
           /\ stream' = Unread(1, sym.size)
           /\ Store(i, twos_complement(sym.size, BitsRead(1, sym.size)) * bit)
           /\ k' = i + 1
           /\ UNCHANGED pc /\ SameBlock
    /\ UNCHANGED <<num_zeros, value, eob_run, diff_dc>>

DecodeAC ==
    /\ pc = "ac" /\ k <= scan.se
    /\ Reads("symbol") /\ Head(stream).size # 0
    /\ LET sym == Head(stream)
           i == k + sym.zeros
       IN  \/ /\ i <= scan.se
              /\ ReadsBits(1, sym.size)
              /\ stream' = Unread(1, sym.size)
              /\ Store(i, twos_complement(sym.size, BitsRead(1, sym.size)) * bit)
              /\ k' = i + 1
              /\ UNCHANGED pc /\ SameBlock
           \/ /\ i > scan.se
              /\ stream' = Tail(stream)
              /\ NextBlock
              /\ UNCHANGED <<k, mem>>
    /\ UNCHANGED <<num_zeros, value, eob_run, diff_dc>>

-----------------------------------------------------------------------------
(***************************************************************************)
(* A later scan of AC coefficients                                         *)
(***************************************************************************)

\* More zeros than a block has.
AllZeros == LastCoeff + 1

\* decode_block_with_sbh, or refine_block alone for a block that has ended.
StartRefine ==
    /\ pc = "band" /\ scan.ah > 0
    /\ k' = scan.ss
    /\ value' = 0
    /\ IF eob_run > 0
       THEN pc' = "ended" /\ num_zeros' = AllZeros /\ eob_run' = eob_run - 1
       ELSE pc' = "sbh" /\ UNCHANGED <<num_zeros, eob_run>>
    /\ SameBlock
    /\ UNCHANGED <<stream, diff_dc, mem>>

\* Mutant: the block that starts a run of ended blocks is not refined.
ReadEndUnrefined(zeros) ==
    /\ ReadsBits(1, zeros)
    /\ stream' = Unread(1, zeros)
    /\ num_zeros' = 0
    /\ value' = 0
    /\ eob_run' = 2^zeros - 1 + BitsRead(1, zeros)

\* The end of a run of blocks: what is left of this one is still refined.
ReadEnd(zeros) ==
    /\ ReadsBits(1, zeros)
    /\ stream' = Unread(1, zeros)
    /\ num_zeros' = AllZeros
    /\ value' = 0
    /\ eob_run' = 2^zeros - 1 + BitsRead(1, zeros)

\* A symbol, and the sign of the new coefficient if it has one.
ReadSymbol ==
    /\ pc = "sbh" /\ k <= scan.se
    /\ Reads("symbol")
    /\ LET sym == Head(stream) IN
       \/ /\ sym.size = 0 /\ sym.zeros # MaxRun
          /\ ReadEnd(sym.zeros)
       \/ /\ sym.size = 0 /\ sym.zeros = MaxRun
          /\ num_zeros' = MaxRun
          /\ value' = 0
          /\ stream' = Tail(stream)
          /\ UNCHANGED eob_run
       \/ /\ sym.size # 0
          /\ ReadsBits(1, 1)
          /\ num_zeros' = sym.zeros
          /\ value' = IF BitsRead(1, 1) = 1 THEN bit ELSE -bit
          /\ stream' = Unread(1, 1)
          /\ UNCHANGED eob_run
    /\ pc' = "refine"
    /\ SameBlock
    /\ UNCHANGED <<k, diff_dc, mem>>

\* refine_block: pass a zero, or correct a coefficient by one bit.
PassZero ==
    /\ pc \in {"refine", "ended"} /\ k <= scan.se
    /\ mem[block][k] = 0 /\ num_zeros > 0
    /\ num_zeros' = num_zeros - 1
    /\ k' = k + 1
    /\ SameBlock
    /\ UNCHANGED <<stream, pc, value, eob_run, diff_dc, mem>>

\* Mutant: negative coefficients are corrected upwards too.
CorrectedUp(v) == v + bit

Corrected(v) == IF v > 0 THEN v + bit ELSE v - bit

Correct ==
    /\ pc \in {"refine", "ended"} /\ k <= scan.se
    /\ mem[block][k] # 0
    /\ ReadsBits(0, 1)
    /\ IF BitsRead(0, 1) = 1 /\ (mem[block][k] \div bit) % 2 = 0
       THEN Store(k, Corrected(mem[block][k])) ELSE UNCHANGED mem
    /\ stream' = Tail(stream)
    /\ k' = k + 1
    /\ SameBlock
    /\ UNCHANGED <<pc, num_zeros, value, eob_run, diff_dc>>

\* refine_block returns the zero it stopped at, or the end of the band.
StoreValue ==
    /\ pc = "refine"
    /\ k <= scan.se => mem[block][k] = 0 /\ num_zeros = 0
    /\ LET i == IF k <= scan.se THEN k ELSE scan.se IN
       /\ IF value # 0 THEN Store(i, value) ELSE UNCHANGED mem
       /\ k' = i + 1
    /\ pc' = "sbh"
    /\ SameBlock
    /\ UNCHANGED <<stream, num_zeros, value, eob_run, diff_dc>>

EndRefine ==
    /\ pc = "ended" /\ k > scan.se
    /\ NextBlock
    /\ UNCHANGED <<stream, k, num_zeros, value, eob_run, diff_dc, mem>>

Decoded ==
    /\ pc = "scan" /\ script = <<>>
    /\ UNCHANGED vars

-----------------------------------------------------------------------------

Next ==
    \/ StartScan
    \/ DecodeDC \/ RefineDC
    \/ SkipBlock \/ StartBand \/ EndBand
    \/ DecodeZeros \/ DecodeAC
    \/ StartRefine \/ ReadSymbol \/ PassZero \/ Correct \/ StoreValue
    \/ EndRefine
    \/ Decoded

Spec == Init /\ [][Next]_vars

-----------------------------------------------------------------------------
(***************************************************************************)
(* Properties                                                              *)
(***************************************************************************)

\* Every variable has its type: no store leaves its block, whatever the
\* tokens are.
TypeOK ==
    /\ target \in Seq(Blocks) /\ target # <<>>
    /\ script \in Seq(Headers)
    /\ covered \in Seq(Headers)
    /\ stream \in Seq(Tokens)
    /\ pc \in {"scan", "dc", "band", "ac", "sbh", "refine", "ended"}
    /\ pc # "scan" => script # <<>>
    /\ block \in DOMAIN target
    /\ k \in Nat
    /\ num_zeros \in Nat
    /\ value \in Int
    /\ eob_run \in Nat
    /\ diff_dc \in Int
    /\ mem \in [DOMAIN target -> Blocks]

\* A scan changes only the coefficients of its band, and only in the block it
\* is at, whatever the tokens are: what other scans sent is safe from it.
KeepsOtherBands ==
    [][\A b \in DOMAIN mem : \A i \in DOMAIN mem'[b] :
           mem'[b][i] # mem[b][i] => b = block /\ i \in scan.ss .. scan.se]_mem

\* No scan up to the current one is damaged.
Intact ==
    /\ \A n \in DOMAIN covered : covered[n].run > 0
    /\ pc # "scan" => scan.run > 0

\* How many bits the decoder takes from the stream with symbol sym.
BitsBehind(sym) ==
    IF pc = "dc" \/ (pc = "ac" /\ sym.size > 0) THEN sym.size
    ELSE IF sym.size > 0 THEN 1
    ELSE IF sym.zeros = MaxRun THEN 0 ELSE sym.zeros

\* On intact scans, decoder and encoder agree on where they are: the decoder
\* never looks up a symbol where the stream holds raw bits or the other way
\* round, never reads more or fewer bits than were written, and a scan ends with
\* its last token.
InSync ==
    Intact =>
    /\ (\/ pc = "dc" /\ scan.ah = 0
        \/ pc \in {"ac", "sbh"} /\ k <= scan.se)
           => Reads("symbol") /\ ReadsBits(1, BitsBehind(Head(stream)))
    /\ (\/ pc = "dc" /\ scan.ah > 0
        \/ pc \in {"refine", "ended"} /\ k <= scan.se /\ mem[block][k] # 0)
           => ReadsBits(0, 1)
    /\ pc = "scan" => stream = <<>>

Abs(v) == IF v < 0 THEN -v ELSE v

\* What is left of a coefficient without its low bits: AC coefficients lose
\* them towards zero, DC values downwards.
PointTransform(v, i, al) ==
    IF i = 0 THEN v \div 2^al
    ELSE IF v < 0 THEN -(Abs(v) \div 2^al) ELSE v \div 2^al

\* What the given scans tell about coefficient i with value v.
Known(v, i, scans) ==
    LET S == {n \in DOMAIN scans : i \in scans[n].ss .. scans[n].se}
    IN  IF S = {} THEN 0
        ELSE LET last == CHOOSE n \in S : \A m \in S : m <= n
             IN  PointTransform(v, i, scans[last].al) * 2^scans[last].al

\* In an intact file each coefficient has at every moment the value that the
\* finished scans give it, or with the current scan's bit: the current scan's in the blocks it has
\* passed, the finished scans' in the blocks it has yet to reach.  So between
\* scans every coefficient is known to the precision the scans sent.
Approximation ==
    LET Old(b, i) == Known(target[b][i], i, covered)
        New(b, i) == Known(target[b][i], i, Append(covered, scan))
    IN  Intact => \A b \in DOMAIN target, i \in Coeffs :
            IF pc = "scan" \/ b > block THEN mem[b][i] = Old(b, i)
            ELSE IF b < block THEN mem[b][i] = New(b, i)
            ELSE mem[b][i] \in {Old(b, i), New(b, i)}

=============================================================================
