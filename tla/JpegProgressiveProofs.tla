----------------------- MODULE JpegProgressiveProofs -----------------------
(***************************************************************************)
(* Whatever tokens the stream holds, the decoder of JpegProgressive stays  *)
(* inside the block, and inside the band of its scan.                      *)
(*                                                                         *)
(* And if they are those of JpegScanEncoder, it reads each where it was    *)
(* written, and its memory is at every moment what the scans sent.         *)
(***************************************************************************)
EXTENDS JpegScanEncoder, BasicProofs

\* The current scan and those still to come are scans of the file.
FromFile ==
    \E f \in Files :
        /\ target = f.blocks
        /\ \A n \in DOMAIN script : \E m \in DOMAIN f.script : script[n] = f.script[m]

\* The loops of a band start inside it and only move forward.
InBand ==
    /\ pc = "dc" => scan.ss = 0
    /\ pc \in {"ac", "sbh", "refine", "ended"} => scan.ss <= k

IInv == TypeOK /\ FromFile /\ InBand

\* The header of the scan in progress, and the blocks.
LEMMA ScanFacts ==
    ASSUME TypeOK, pc # "scan" \/ script # <<>>
    PROVE  /\ scan \in Headers
           /\ scan.ss \in Nat /\ scan.se \in Nat /\ scan.ss <= scan.se
           /\ scan.ss \in Coeffs /\ scan.se \in Coeffs
           /\ scan.ah \in Nat /\ scan.al \in Nat
           /\ bit \in Nat /\ bit > 0
           /\ script # <<>>
<1>1. script \in Seq(Headers) /\ script # <<>>
    BY DEF TypeOK
<1>2. scan \in Headers
    BY <1>1 DEF scan
<1>3. scan.al \in Nat /\ scan.ah \in Nat /\ scan.ss \in Coeffs /\ scan.se \in Coeffs
      /\ scan.ss <= scan.se
    BY <1>2 DEF Headers
<1> QED
    BY <1>1, <1>2, <1>3, PowerFacts, SizeAssumption DEF bit, Coeffs

\* What is read has its type, and so has what is left.
LEMMA ReadFacts ==
    ASSUME TypeOK
    PROVE  /\ \A i \in Nat, n \in Nat : ReadsBits(i, n) => BitsRead(i, n) \in Nat
           /\ \A i \in {0, 1}, n \in Nat : Unread(i, n) \in Seq(Tokens)
           /\ stream # <<>> => Tail(stream) \in Seq(Tokens)
           /\ ReadsBits(0, 1) => Tail(stream) \in Seq(Tokens)
           /\ Reads("symbol") => Head(stream).size \in Nat /\ Head(stream).zeros \in Nat
<1>1. stream \in Seq(Tokens)
    BY DEF TypeOK
<1>2. ASSUME NEW i \in Nat, NEW n \in Nat, ReadsBits(i, n)
      PROVE  BitsRead(i, n) \in Nat
    <2>1. CASE n > 0
        <3>1. Len(stream) > i /\ stream[i + 1].kind = "bits"
            BY <1>2, <2>1 DEF ReadsBits
        <3>2. stream[i + 1] \in Tokens
            BY <1>1, <3>1
        <3>3. stream[i + 1].value \in Nat
            BY <3>1, <3>2 DEF Tokens
        <3> QED
            BY <2>1, <3>3 DEF BitsRead
    <2>2. CASE ~(n > 0)
        BY <2>2 DEF BitsRead
    <2> QED
        BY <2>1, <2>2
<1>3. ASSUME NEW i \in {0, 1}, NEW n \in Nat
      PROVE  Unread(i, n) \in Seq(Tokens)
    BY <1>1 DEF Unread
<1>4. stream # <<>> => Tail(stream) \in Seq(Tokens)
    BY <1>1
<1>5. ReadsBits(0, 1) => stream # <<>>
    BY <1>1 DEF ReadsBits
<1>6. ASSUME Reads("symbol")
      PROVE  Head(stream).size \in Nat /\ Head(stream).zeros \in Nat
    <2>1. stream # <<>> /\ Head(stream) \in Tokens /\ Head(stream).kind = "symbol"
        BY <1>1, <1>6 DEF Reads
    <2> QED
        BY <2>1, SizeAssumption DEF Tokens
<1> QED
    BY <1>2, <1>3, <1>4, <1>5, <1>6

\* A store inside the block keeps the type and changes nothing else.
LEMMA StoreFacts ==
    ASSUME TypeOK, NEW i \in Coeffs, NEW v \in Int, Store(i, v)
    PROVE  /\ mem' \in [DOMAIN target -> Blocks]
           /\ \A b \in DOMAIN mem : \A j \in DOMAIN mem'[b] :
                  mem'[b][j] # mem[b][j] => b = block /\ j = i
<1>1. mem \in [DOMAIN target -> Blocks] /\ block \in DOMAIN target
    BY DEF TypeOK
<1>2. mem[block] \in [Coeffs -> Int]
    BY <1>1 DEF Blocks
<1>3. DOMAIN mem[block] \cup {i} = Coeffs
    BY <1>2
<1>4. mem' = [mem EXCEPT ![block] =
                 [j \in Coeffs |-> IF j = i THEN v ELSE mem[block][j]]]
    BY <1>3 DEF Store
<1> DEFINE new == [j \in Coeffs |-> IF j = i THEN v ELSE mem[block][j]]
<1>5. new \in Blocks
    BY <1>2 DEF Blocks
<1>6. mem' = [mem EXCEPT ![block] = new]
    BY <1>4
<1>7. \A j \in Coeffs : new[j] # mem[block][j] => j = i
    OBVIOUS
<1>8. DOMAIN new = Coeffs
    OBVIOUS
<1> HIDE DEF new
<1> QED
    BY <1>1, <1>5, <1>6, <1>7, <1>8

\* On to the next block.
LEMMA BlockFacts ==
    ASSUME TypeOK, FromFile, pc # "scan", NextBlock,
           stream' \in Seq(Tokens), k' \in Nat, num_zeros' \in Nat, value' \in Int,
           eob_run' \in Nat, diff_dc' \in Int, mem' \in [DOMAIN target -> Blocks]
    PROVE  IInv'
<1>1. /\ script \in Seq(Headers) /\ script # <<>>
      /\ target \in Seq(Blocks) /\ target # <<>>
      /\ covered \in Seq(Headers) /\ block \in DOMAIN target
    BY DEF TypeOK
<1>2. target' = target /\ scan \in Headers
    BY <1>1 DEF NextBlock, scan
<1>3. CASE block < Len(target)
    <2>1. /\ block' = block + 1 /\ pc' = FirstStep(scan)
          /\ script' = script /\ covered' = covered
        BY <1>3 DEF NextBlock
    <2>2. block' \in DOMAIN target
        BY <1>1, <1>3, <2>1
    <2>3. pc' \in {"dc", "band"} /\ (pc' = "dc" => scan'.ss = 0)
        BY <2>1 DEF FirstStep, scan
    <2> QED
        BY <1>1, <1>2, <2>1, <2>2, <2>3 DEF IInv, TypeOK, FromFile, InBand
<1>4. CASE ~(block < Len(target))
    <2>1. /\ block' = 1 /\ pc' = "scan"
          /\ script' = Tail(script) /\ covered' = Append(covered, scan)
        BY <1>4 DEF NextBlock
    <2>2. block' \in DOMAIN target
        BY <1>1, <2>1
    <2>3. script' \in Seq(Headers) /\ covered' \in Seq(Headers)
        BY <1>1, <1>2, <2>1
    <2>4. \A n \in DOMAIN script' : n + 1 \in DOMAIN script /\ script'[n] = script[n + 1]
        BY <1>1, <2>1
    <2>5. FromFile'
        BY <1>2, <2>4 DEF FromFile
    <2> QED
        BY <1>1, <1>2, <2>1, <2>2, <2>3, <2>5 DEF IInv, TypeOK, InBand
<1> QED
    BY <1>3, <1>4

\* A step inside a block.
LEMMA InsideFacts ==
    ASSUME TypeOK, FromFile, pc # "scan", SameBlock,
           pc' \in {"band", "ac", "sbh", "refine", "ended"},
           pc' # "band" => scan.ss <= k',
           stream' \in Seq(Tokens), k' \in Nat, num_zeros' \in Nat, value' \in Int,
           eob_run' \in Nat, diff_dc' \in Int, mem' \in [DOMAIN target -> Blocks]
    PROVE  IInv'
BY DEF SameBlock, IInv, TypeOK, FromFile, InBand, scan

-----------------------------------------------------------------------------

\* What every step of the decoder relies on.
TypedState ==
    /\ target \in Seq(Blocks) /\ target # <<>>
    /\ stream \in Seq(Tokens)
    /\ k \in Nat /\ num_zeros \in Nat /\ value \in Int /\ eob_run \in Nat
    /\ diff_dc \in Int
    /\ mem \in [DOMAIN target -> Blocks]
    /\ block \in DOMAIN target

LEMMA StateFacts == TypeOK => TypedState
BY DEF TypeOK, TypedState

LEMMA Initial == Init => IInv
<1> SUFFICES ASSUME Init PROVE IInv
    OBVIOUS
<1>1. PICK f \in Files : target = f.blocks /\ script = f.script
    BY DEF Init
<1>2. target \in Seq(Blocks) /\ target # <<>> /\ script \in Seq(Headers)
    BY <1>1, FilesAssumption
<1>3. FromFile
    BY <1>1, <1>2 DEF FromFile
<1>4. mem \in [DOMAIN target -> Blocks]
    BY DEF Init, Blocks
<1>5. 1 \in DOMAIN target
    BY <1>2
<1> QED
    BY <1>2, <1>3, <1>4, <1>5 DEF Init, IInv, TypeOK, InBand

LEMMA StartScanKeeps == IInv /\ StartScan => IInv'
<1> SUFFICES ASSUME IInv, StartScan PROVE IInv'
    OBVIOUS
<1>1. TypedState /\ script \in Seq(Headers) /\ script # <<>>
    BY StateFacts DEF IInv, TypeOK, StartScan
<1>2. PICK f \in Files : target = f.blocks
                         /\ \A n \in DOMAIN script :
                               \E m \in DOMAIN f.script : script[n] = f.script[m]
    BY DEF IInv, FromFile
<1>3. 1 \in DOMAIN script /\ scan = script[1]
    BY <1>1 DEF scan
<1>4. PICK m \in DOMAIN f.script : scan = f.script[m]
    BY <1>2, <1>3
<1>5. stream' \in Seq(Tokens)
    BY <1>2, <1>4, FilesAssumption DEF StartScan
<1>6. 1 \in DOMAIN target
    BY <1>1 DEF TypedState
<1>7. pc' \in {"dc", "band"} /\ (pc' = "dc" => scan'.ss = 0)
    BY DEF StartScan, FirstStep, scan
<1> QED
    BY <1>5, <1>6, <1>7 DEF IInv, TypeOK, FromFile, InBand, StartScan

\* How far a step may go: blocks of the band, of the block it is at.
Writes ==
    \A b \in DOMAIN mem : \A i \in DOMAIN mem'[b] :
        mem'[b][i] # mem[b][i] => b = block /\ i \in scan.ss .. scan.se

LEMMA NoWrites == mem' = mem => Writes
BY DEF Writes

\* A store inside the band.
LEMMA StoreInBand ==
    ASSUME TypeOK, pc # "scan", NEW i \in Int, scan.ss <= i, i <= scan.se,
           NEW v \in Int, Store(i, v)
    PROVE  mem' \in [DOMAIN target -> Blocks] /\ Writes
<1>1. scan.ss \in Coeffs /\ scan.se \in Coeffs
    BY ScanFacts
<1>2. i \in Coeffs /\ i \in scan.ss .. scan.se
    BY <1>1, SizeAssumption DEF Coeffs
<1> QED
    BY <1>2, StoreFacts DEF Writes

\* The value of magnitude bits.
LEMMA ComplementFacts ==
    ASSUME NEW m \in Nat, m # 0, NEW v \in Nat
    PROVE  twos_complement(m, v) \in Int
<1>1. m - 1 \in Nat
    OBVIOUS
<1> QED
    BY <1>1, PowerFacts DEF twos_complement

LEMMA DecodeDCKeeps == IInv /\ DecodeDC => IInv' /\ Writes
<1> SUFFICES ASSUME IInv, DecodeDC PROVE IInv' /\ Writes
    OBVIOUS
<1> DEFINE magnitude == Head(stream).size
<1>1. TypedState /\ TypeOK /\ FromFile /\ pc = "dc" /\ scan.ss = 0
    BY StateFacts DEF IInv, InBand, DecodeDC
<1>2. magnitude \in Nat /\ ReadsBits(1, magnitude)
    BY <1>1, ReadFacts DEF DecodeDC
<1>3. BitsRead(1, magnitude) \in Nat /\ stream' \in Seq(Tokens)
    BY <1>1, <1>2, ReadFacts DEF DecodeDC
<1>4. diff_dc' \in Int
    BY <1>1, <1>2, <1>3, ComplementFacts DEF DecodeDC, TypedState
<1>5. bit \in Nat /\ scan.se \in Nat
    BY <1>1, ScanFacts
<1>6. diff_dc' * bit \in Int /\ Store(0, diff_dc' * bit)
    BY <1>4, <1>5 DEF DecodeDC
<1>7. mem' \in [DOMAIN target -> Blocks] /\ Writes
    BY <1>1, <1>5, <1>6, StoreInBand
<1>8. /\ k' \in Nat /\ num_zeros' \in Nat /\ value' \in Int /\ eob_run' \in Nat
    BY <1>1 DEF DecodeDC, TypedState
<1>9. CASE scan.se = 0
    BY <1>1, <1>3, <1>4, <1>7, <1>8, <1>9, BlockFacts DEF DecodeDC
<1>10. CASE scan.se # 0
    BY <1>1, <1>3, <1>4, <1>7, <1>8, <1>10, InsideFacts DEF DecodeDC
<1> QED
    BY <1>7, <1>9, <1>10

LEMMA RefineDCKeeps == IInv /\ RefineDC => IInv' /\ Writes
<1> SUFFICES ASSUME IInv, RefineDC PROVE IInv' /\ Writes
    OBVIOUS
<1>1. TypedState /\ TypeOK /\ FromFile /\ pc = "dc" /\ scan.ss = 0
    BY StateFacts DEF IInv, InBand, RefineDC
<1>2. BitsRead(0, 1) \in Nat /\ stream' \in Seq(Tokens)
    BY <1>1, ReadFacts DEF RefineDC
<1>3. bit \in Nat /\ scan.se \in Nat
    BY <1>1, ScanFacts
<1>4. mem[block][0] \in Int
    BY <1>1, SizeAssumption DEF TypedState, Blocks, Coeffs
<1>5. mem[block][0] + BitsRead(0, 1) * bit \in Int
    BY <1>2, <1>3, <1>4
<1>6. mem' \in [DOMAIN target -> Blocks] /\ Writes
    BY <1>1, <1>3, <1>5, StoreInBand DEF RefineDC
<1> QED
    BY <1>1, <1>2, <1>6, BlockFacts DEF RefineDC, TypedState

LEMMA SkipBlockKeeps == IInv /\ SkipBlock => IInv' /\ Writes
<1> SUFFICES ASSUME IInv, SkipBlock PROVE IInv' /\ Writes
    OBVIOUS
<1>1. TypedState /\ TypeOK /\ FromFile /\ pc = "band"
    BY StateFacts DEF IInv, SkipBlock
<1> QED
    BY <1>1, BlockFacts, NoWrites DEF SkipBlock, TypedState

LEMMA StartBandKeeps == IInv /\ StartBand => IInv' /\ Writes
<1> SUFFICES ASSUME IInv, StartBand PROVE IInv' /\ Writes
    OBVIOUS
<1>1. TypedState /\ TypeOK /\ FromFile /\ pc = "band"
    BY StateFacts DEF IInv, StartBand
<1>2. scan.ss \in Nat
    BY <1>1, ScanFacts
<1> QED
    BY <1>1, <1>2, InsideFacts, NoWrites DEF StartBand, TypedState

LEMMA EndBandKeeps == IInv /\ EndBand => IInv' /\ Writes
<1> SUFFICES ASSUME IInv, EndBand PROVE IInv' /\ Writes
    OBVIOUS
<1>1. TypedState /\ TypeOK /\ FromFile /\ pc \in {"ac", "sbh"}
    BY StateFacts DEF IInv, EndBand
<1> QED
    BY <1>1, BlockFacts, NoWrites DEF EndBand, TypedState

LEMMA DecodeZerosKeeps == IInv /\ DecodeZeros => IInv' /\ Writes
<1> SUFFICES ASSUME IInv, DecodeZeros PROVE IInv' /\ Writes
    OBVIOUS
<1> DEFINE zeros == Head(stream).zeros
<1>1. TypedState /\ TypeOK /\ FromFile /\ pc = "ac" /\ scan.ss <= k
    BY StateFacts DEF IInv, InBand, DecodeZeros
<1>2. zeros \in Nat /\ scan.ss \in Nat
    BY <1>1, ReadFacts, ScanFacts DEF DecodeZeros
<1>3. CASE zeros = MaxRun
    <2>1. /\ k' = k + MaxRun + 1 /\ stream' = Tail(stream)
          /\ UNCHANGED <<pc, eob_run>> /\ SameBlock
        BY <1>3 DEF DecodeZeros
    <2>2. stream' \in Seq(Tokens)
        BY <1>1, <2>1, ReadFacts DEF DecodeZeros, Reads
    <2>3. k' \in Nat /\ scan.ss <= k'
        BY <1>1, <1>2, <2>1, SizeAssumption DEF TypedState
    <2> QED
        BY <1>1, <2>1, <2>2, <2>3, InsideFacts, NoWrites DEF DecodeZeros, TypedState
<1>4. CASE zeros # MaxRun
    <2>1. /\ ReadsBits(1, zeros) /\ stream' = Unread(1, zeros)
          /\ eob_run' = 2^zeros - 1 + BitsRead(1, zeros)
          /\ NextBlock /\ k' = k
        BY <1>4 DEF DecodeZeros
    <2>2. stream' \in Seq(Tokens) /\ BitsRead(1, zeros) \in Nat
        BY <1>1, <1>2, <2>1, ReadFacts
    <2>3. eob_run' \in Nat
        BY <1>2, <2>1, <2>2, PowerFacts
    <2> QED
        BY <1>1, <2>1, <2>2, <2>3, BlockFacts, NoWrites DEF DecodeZeros, TypedState
<1> QED
    BY <1>3, <1>4

LEMMA DecodeACKeeps == IInv /\ DecodeAC => IInv' /\ Writes
<1> SUFFICES ASSUME IInv, DecodeAC PROVE IInv' /\ Writes
    OBVIOUS
<1> DEFINE sym == Head(stream)
           i == k + sym.zeros
           v == twos_complement(sym.size, BitsRead(1, sym.size)) * bit
<1>1. TypedState /\ TypeOK /\ FromFile /\ pc = "ac" /\ scan.ss <= k
    BY StateFacts DEF IInv, InBand, DecodeAC
<1>2. sym.zeros \in Nat /\ sym.size \in Nat /\ sym.size # 0 /\ stream # <<>>
    BY <1>1, ReadFacts DEF DecodeAC, Reads
<1>3. scan.ss \in Nat /\ scan.se \in Nat /\ bit \in Nat
    BY <1>1, ScanFacts
<1>4. i \in Nat /\ scan.ss <= i
    BY <1>1, <1>2, <1>3 DEF TypedState
<1>5. CASE i <= scan.se
    <2>1. /\ ReadsBits(1, sym.size) /\ stream' = Unread(1, sym.size)
          /\ Store(i, v) /\ k' = i + 1 /\ pc' = pc /\ SameBlock
        BY <1>3, <1>4, <1>5 DEF DecodeAC
    <2>2. stream' \in Seq(Tokens) /\ BitsRead(1, sym.size) \in Nat
        BY <1>1, <1>2, <2>1, ReadFacts
    <2>3. twos_complement(sym.size, BitsRead(1, sym.size)) \in Int
        BY <1>2, <2>2, ComplementFacts
    <2>4. v \in Int
        BY <1>3, <2>3
    <2> HIDE DEF i, v
    <2>5. mem' \in [DOMAIN target -> Blocks] /\ Writes
        BY <1>1, <1>4, <1>5, <2>1, <2>4, StoreInBand
    <2>6. k' \in Nat /\ scan.ss <= k'
        BY <1>3, <1>4, <2>1
    <2> QED
        BY <1>1, <2>1, <2>2, <2>5, <2>6, InsideFacts DEF DecodeAC, TypedState
<1>6. CASE i > scan.se
    <2>1. stream' = Tail(stream) /\ NextBlock /\ k' = k /\ mem' = mem
        BY <1>3, <1>4, <1>6 DEF DecodeAC
    <2>2. stream' \in Seq(Tokens)
        BY <1>1, <1>2, <2>1, ReadFacts
    <2> QED
        BY <1>1, <2>1, <2>2, BlockFacts, NoWrites DEF DecodeAC, TypedState
<1> QED
    BY <1>3, <1>4, <1>5, <1>6

LEMMA StartRefineKeeps == IInv /\ StartRefine => IInv' /\ Writes
<1> SUFFICES ASSUME IInv, StartRefine PROVE IInv' /\ Writes
    OBVIOUS
<1>1. TypedState /\ TypeOK /\ FromFile /\ pc = "band"
    BY StateFacts DEF IInv, StartRefine
<1>2. scan.ss \in Nat /\ AllZeros \in Nat
    BY <1>1, ScanFacts, SizeAssumption DEF AllZeros
<1>3. CASE eob_run > 0
    BY <1>1, <1>2, <1>3, InsideFacts, NoWrites DEF StartRefine, TypedState
<1>4. CASE ~(eob_run > 0)
    BY <1>1, <1>2, <1>4, InsideFacts, NoWrites DEF StartRefine, TypedState
<1> QED
    BY <1>3, <1>4

LEMMA ReadSymbolKeeps == IInv /\ ReadSymbol => IInv' /\ Writes
<1> SUFFICES ASSUME IInv, ReadSymbol PROVE IInv' /\ Writes
    OBVIOUS
<1> DEFINE sym == Head(stream)
<1>1. TypedState /\ TypeOK /\ FromFile /\ pc = "sbh" /\ scan.ss <= k
    BY StateFacts DEF IInv, InBand, ReadSymbol
<1>2. sym.zeros \in Nat /\ stream # <<>> /\ Tail(stream) \in Seq(Tokens)
    BY <1>1, ReadFacts DEF ReadSymbol, Reads
<1>3. bit \in Nat /\ AllZeros \in Nat /\ MaxRun \in Nat
    BY <1>1, ScanFacts, SizeAssumption DEF AllZeros
<1>4. /\ stream' \in Seq(Tokens) /\ num_zeros' \in Nat /\ value' \in Int
      /\ eob_run' \in Nat
    <2>1. CASE sym.size = 0 /\ sym.zeros # MaxRun
        <3>1. ReadEnd(sym.zeros)
            BY <2>1 DEF ReadSymbol
        <3>2. Unread(1, sym.zeros) \in Seq(Tokens) /\ BitsRead(1, sym.zeros) \in Nat
            BY <1>1, <1>2, <3>1, ReadFacts DEF ReadEnd
        <3>3. 2^(sym.zeros) \in Nat /\ 2^(sym.zeros) > 0
            BY <1>2, PowerFacts
        <3> QED
            BY <1>3, <3>1, <3>2, <3>3 DEF ReadEnd
    <2>2. CASE sym.size = 0 /\ sym.zeros = MaxRun
        <3>1. /\ num_zeros' = MaxRun /\ value' = 0 /\ stream' = Tail(stream)
              /\ eob_run' = eob_run
            BY <2>2 DEF ReadSymbol
        <3> QED
            BY <1>1, <1>2, <1>3, <3>1 DEF TypedState
    <2>3. CASE sym.size # 0
        <3>1. Unread(1, 1) \in Seq(Tokens)
            BY <1>1, ReadFacts
        <3>2. /\ num_zeros' = sym.zeros /\ stream' = Unread(1, 1)
              /\ value' \in {bit, -bit} /\ eob_run' = eob_run
            BY <2>3 DEF ReadSymbol
        <3>3. -bit \in Int /\ bit \in Int
            BY <1>3
        <3>4. value' \in Int
            BY <3>2, <3>3
        <3> QED
            BY <1>1, <1>2, <3>1, <3>2, <3>4 DEF TypedState
    <2> QED
        BY <2>1, <2>2, <2>3
<1> QED
    BY <1>1, <1>4, InsideFacts, NoWrites DEF ReadSymbol, TypedState

LEMMA PassZeroKeeps == IInv /\ PassZero => IInv' /\ Writes
<1> SUFFICES ASSUME IInv, PassZero PROVE IInv' /\ Writes
    OBVIOUS
<1>1. TypedState /\ TypeOK /\ FromFile /\ pc \in {"refine", "ended"} /\ scan.ss <= k
    BY StateFacts DEF IInv, InBand, PassZero
<1>2. scan.ss \in Nat
    BY <1>1, ScanFacts
<1> QED
    BY <1>1, <1>2, InsideFacts, NoWrites DEF PassZero, TypedState

LEMMA CorrectKeeps == IInv /\ Correct => IInv' /\ Writes
<1> SUFFICES ASSUME IInv, Correct PROVE IInv' /\ Writes
    OBVIOUS
<1>1. TypedState /\ TypeOK /\ FromFile /\ pc \in {"refine", "ended"} /\ scan.ss <= k
    BY StateFacts DEF IInv, InBand, Correct
<1>2. scan.ss \in Coeffs /\ scan.se \in Coeffs /\ bit \in Nat
    BY <1>1, ScanFacts
<1>3. stream' \in Seq(Tokens)
    BY <1>1, ReadFacts DEF Correct
<1>4. k \in Coeffs /\ k <= scan.se
    BY <1>1, <1>2, SizeAssumption DEF Correct, Coeffs, TypedState
<1>5. mem[block][k] \in Int
    BY <1>1, <1>4 DEF TypedState, Blocks
<1>6. Corrected(mem[block][k]) \in Int
    BY <1>2, <1>5 DEF Corrected
<1>7. mem' \in [DOMAIN target -> Blocks] /\ Writes
    <2>1. CASE Store(k, Corrected(mem[block][k]))
        <3>1. k \in Int
            BY <1>1 DEF TypedState
        <3> QED
            BY <1>1, <1>4, <1>6, <2>1, <3>1, StoreInBand
    <2>2. CASE mem' = mem
        BY <1>1, <2>2, NoWrites DEF TypedState
    <2> QED
        BY <2>1, <2>2 DEF Correct
<1>8. k' = k + 1 /\ k' \in Nat /\ scan.ss <= k'
    BY <1>1, <1>2 DEF Correct, TypedState, Coeffs
<1> QED
    BY <1>1, <1>3, <1>7, <1>8, InsideFacts DEF Correct, TypedState

LEMMA StoreValueKeeps == IInv /\ StoreValue => IInv' /\ Writes
<1> SUFFICES ASSUME IInv, StoreValue PROVE IInv' /\ Writes
    OBVIOUS
<1> DEFINE i == IF k <= scan.se THEN k ELSE scan.se
<1>1. TypedState /\ TypeOK /\ FromFile /\ pc = "refine" /\ scan.ss <= k
    BY StateFacts DEF IInv, InBand, StoreValue
<1>2. scan.ss \in Nat /\ scan.se \in Nat /\ scan.ss <= scan.se
    BY <1>1, ScanFacts
<1>3. i \in Nat /\ scan.ss <= i /\ i <= scan.se
    BY <1>1, <1>2 DEF TypedState
<1>4. IF value # 0 THEN Store(i, value) ELSE mem' = mem
    BY DEF StoreValue
<1>5. k' = i + 1
    BY DEF StoreValue
<1> HIDE DEF i
<1>6. mem' \in [DOMAIN target -> Blocks] /\ Writes
    <2>1. CASE value # 0
        <3>1. i \in Int /\ value \in Int /\ Store(i, value)
            BY <1>1, <1>3, <1>4, <2>1 DEF TypedState
        <3> QED
            BY <1>1, <1>3, <3>1, StoreInBand
    <2>2. CASE value = 0
        BY <1>1, <1>4, <2>2, NoWrites DEF TypedState
    <2> QED
        BY <2>1, <2>2
<1>7. k' \in Nat /\ scan.ss <= k'
    BY <1>2, <1>3, <1>5
<1> QED
    BY <1>1, <1>6, <1>7, InsideFacts DEF StoreValue, TypedState

LEMMA EndRefineKeeps == IInv /\ EndRefine => IInv' /\ Writes
<1> SUFFICES ASSUME IInv, EndRefine PROVE IInv' /\ Writes
    OBVIOUS
<1>1. TypedState /\ TypeOK /\ FromFile /\ pc = "ended"
    BY StateFacts DEF IInv, EndRefine
<1> QED
    BY <1>1, BlockFacts, NoWrites DEF EndRefine, TypedState

LEMMA StutterKeeps == IInv /\ UNCHANGED vars => IInv' /\ Writes
<1> SUFFICES ASSUME IInv, UNCHANGED vars PROVE IInv' /\ Writes
    OBVIOUS
<1>1. Writes
    BY NoWrites DEF vars
<1>2. IInv'
    BY DEF IInv, TypeOK, FromFile, InBand, scan, vars
<1> QED
    BY <1>1, <1>2

LEMMA Step == IInv /\ [Next]_vars => IInv' /\ Writes
<1> SUFFICES ASSUME IInv, [Next]_vars PROVE IInv' /\ Writes
    OBVIOUS
<1>1. CASE StartScan
    <2>1. mem' = mem
        BY <1>1 DEF StartScan
    <2> QED
        BY <1>1, <2>1, StartScanKeeps, NoWrites
<1>2. CASE DecodeDC
    BY <1>2, DecodeDCKeeps
<1>3. CASE RefineDC
    BY <1>3, RefineDCKeeps
<1>4. CASE SkipBlock
    BY <1>4, SkipBlockKeeps
<1>5. CASE StartBand
    BY <1>5, StartBandKeeps
<1>6. CASE EndBand
    BY <1>6, EndBandKeeps
<1>7. CASE DecodeZeros
    BY <1>7, DecodeZerosKeeps
<1>8. CASE DecodeAC
    BY <1>8, DecodeACKeeps
<1>9. CASE StartRefine
    BY <1>9, StartRefineKeeps
<1>10. CASE ReadSymbol
    BY <1>10, ReadSymbolKeeps
<1>11. CASE PassZero
    BY <1>11, PassZeroKeeps
<1>12. CASE Correct
    BY <1>12, CorrectKeeps
<1>13. CASE StoreValue
    BY <1>13, StoreValueKeeps
<1>14. CASE EndRefine
    BY <1>14, EndRefineKeeps
<1>15. CASE Decoded
    BY <1>15, StutterKeeps DEF Decoded
<1>16. CASE UNCHANGED vars
    BY <1>16, StutterKeeps
<1> QED
    BY <1>1, <1>2, <1>3, <1>4, <1>5, <1>6, <1>7, <1>8, <1>9, <1>10, <1>11,
       <1>12, <1>13, <1>14, <1>15, <1>16 DEF Next

-----------------------------------------------------------------------------

\* Type correctness: whatever the tokens of a scan are, and however many
\* blocks there are, no store of decode_dc, decode_block_ac, refine_block or
\* decode_block_with_sbh leaves its block of coefficients.
THEOREM TypeCorrect == Spec => []TypeOK
<1>1. IInv => TypeOK
    BY DEF IInv
<1> QED
    BY <1>1, Initial, Step, PTL DEF Spec

\* Whatever its tokens are, a scan writes only in its band, of the block it is
\* at: what the other scans have sent stays as it is.
THEOREM OtherBandsKept == Spec => KeepsOtherBands
<1>1. Spec => []IInv
    BY Initial, Step, PTL DEF Spec
<1>2. IInv /\ [Next]_vars => [Writes]_mem
    BY Step
<1> QED
    BY <1>1, <1>2, PTL DEF Spec, KeepsOtherBands, Writes

-----------------------------------------------------------------------------
(***************************************************************************)
(* Sizes of values                                                         *)
(***************************************************************************)

\* The size of a value, between the powers of two around it.
IsSize(n, v) ==
    /\ n \in Nat /\ Abs(v) < 2^n
    /\ \A m \in 0 .. n - 1 : 2^m <= Abs(v)

\* Every value has such a size.
LEMMA SizeFacts ==
    ASSUME NEW v \in Int
    PROVE  IsSize(SizeOf(v), v)
<1>1. Abs(v) \in Nat
  BY DEF Abs
<1> DEFINE T == {n \in Nat : Abs(v) < 2^n}
<1>2. Abs(v) \in T
  BY <1>1, PowerExceeds
<1>3. PICK n \in T : \A m \in T : n <= m
  <2>1. T \in SUBSET Nat /\ T # {}
    BY <1>2
  <2> HIDE DEF T
  <2> QED
    BY <2>1, LeastNumber
<1>4. n \in 0 .. Abs(v)
  BY <1>1, <1>2, <1>3
<1>5. \A m \in 0 .. n - 1 : 2^m <= Abs(v)
  <2> SUFFICES ASSUME NEW m \in 0 .. n - 1 PROVE 2^m <= Abs(v)
    OBVIOUS
  <2>1. m \in Nat /\ m < n
    BY <1>4
  <2>2. m \notin T
    BY <1>3, <2>1
  <2>3. PICK p \in Nat : p = 2^m
    BY <2>1, PowerFacts
  <2> QED
    BY <1>1, <2>1, <2>2, <2>3
<1>6. 2^n > Abs(v)
  <2>1. PICK p \in Nat : p = 2^n
    BY <1>3, PowerFacts
  <2> QED
    BY <1>1, <1>3, <2>1
<1> DEFINE Smallest(m) == 2^m > Abs(v) /\ \A l \in 0 .. m - 1 : 2^l <= Abs(v)
<1>7. Smallest(SizeOf(v)) /\ SizeOf(v) \in 0 .. Abs(v)
  <2>1. \E m \in 0 .. Abs(v) : Smallest(m)
    BY <1>4, <1>5, <1>6
  <2>2. SizeOf(v) = CHOOSE m \in 0 .. Abs(v) : Smallest(m)
    BY DEF SizeOf
  <2> HIDE DEF Smallest
  <2> QED
    BY <2>1, <2>2
<1>8. SizeOf(v) \in Nat
  BY <1>7
<1>9. PICK p \in Nat : p = 2^SizeOf(v)
  BY <1>8, PowerFacts
<1>10. Abs(v) < 2^SizeOf(v)
  BY <1>1, <1>7, <1>9
<1> QED
  BY <1>7, <1>8, <1>10 DEF IsSize

\* Only zero has size zero; the others fill their size.
LEMMA SizeOfZero ==
    ASSUME NEW v \in Int
    PROVE  v # 0 <=> SizeOf(v) > 0
<1>1. IsSize(SizeOf(v), v) /\ Abs(v) \in Nat
  BY SizeFacts DEF Abs
<1>2. CASE SizeOf(v) = 0
  <2>1. Abs(v) < 1
    BY <1>1, <1>2, PowerOfZero DEF IsSize
  <2> QED
    BY <1>1, <1>2, <2>1 DEF Abs
<1>3. CASE SizeOf(v) # 0
  <2>1. SizeOf(v) > 0 /\ 0 \in 0 .. SizeOf(v) - 1
    BY <1>1, <1>3 DEF IsSize
  <2>2. 1 <= Abs(v)
    BY <1>1, <2>1, PowerOfZero DEF IsSize
  <2> QED
    BY <2>1, <2>2 DEF Abs
<1> QED
  BY <1>2, <1>3

\* A magnitude lies between two powers of two.
LEMMA SizeBetween ==
    ASSUME NEW v \in Int, v # 0
    PROVE  \E r \in Nat, p \in Nat :
               /\ SizeOf(v) = r + 1 /\ p = 2^r /\ 2^SizeOf(v) = 2 * p /\ p > 0
               /\ p <= Abs(v) /\ Abs(v) < 2 * p
<1>1. IsSize(SizeOf(v), v) /\ SizeOf(v) > 0
  BY SizeFacts, SizeOfZero
<1>2. PICK r \in Nat : SizeOf(v) = r + 1
  <2>1. SizeOf(v) - 1 \in Nat /\ SizeOf(v) = (SizeOf(v) - 1) + 1
    BY <1>1 DEF IsSize
  <2> QED
    BY <2>1
<1>3. PICK p \in Nat : p = 2^r /\ 2^(r + 1) = 2 * p /\ p > 0
  BY PowerFacts, PowerNext
<1>4. r \in 0 .. SizeOf(v) - 1
  BY <1>2
<1>5. p <= Abs(v)
  BY <1>1, <1>3, <1>4 DEF IsSize
<1>6. Abs(v) < 2 * p
  BY <1>1, <1>2, <1>3 DEF IsSize
<1> QED
  BY <1>2, <1>3, <1>5, <1>6

\* What a value's bits are, and what twos_complement makes of them.
IsRead(v, n, w) == n = SizeOf(v) /\ n \in Nat /\ n > 0 /\ w \in Nat /\ twos_complement(n, w) = v

\* The bits of a value are read as that value.
LEMMA ValueRead ==
    ASSUME NEW v \in Int, v # 0
    PROVE  \E n \in Nat, w \in Nat : ValueBits(v) = Bits(n, w) /\ IsRead(v, n, w)
<1>1. PICK r \in Nat, p \in Nat :
               /\ SizeOf(v) = r + 1 /\ p = 2^r /\ 2^SizeOf(v) = 2 * p /\ p > 0
               /\ p <= Abs(v) /\ Abs(v) < 2 * p
  BY SizeBetween
<1> DEFINE w == IF v < 0 THEN v + 2^SizeOf(v) - 1 ELSE v
<1>2. w = IF v < 0 THEN v + 2 * p - 1 ELSE v
  BY <1>1
<1>3. ValueBits(v) = Bits(SizeOf(v), w)
  BY DEF ValueBits
<1>4. w \in Nat
  BY <1>1, <1>2 DEF Abs
<1>5. (r + 1) - 1 = r
  OBVIOUS
<1>6. twos_complement(r + 1, w) = IF w < p THEN w - 2 * p + 1 ELSE w
  BY <1>1, <1>5 DEF twos_complement
<1> HIDE DEF w
<1>7. (IF w < p THEN w - 2 * p + 1 ELSE w) = v
  BY <1>1, <1>2 DEF Abs
<1>8. IsRead(v, r + 1, w)
  BY <1>1, <1>4, <1>6, <1>7 DEF IsRead
<1> QED
  BY <1>1, <1>3, <1>4, <1>8

\* The value one, and minus one, need one bit, their sign.
LEMMA OneRead ==
    SizeOf(1) = 1 /\ SizeOf(-1) = 1 /\ ValueBits(1) = Bits(1, 1) /\ ValueBits(-1) = Bits(1, 0)
<1>1. PICK e \in Nat : e = 1 /\ 2^e = 2
  <2>1. 2^(0 + 1) = 2 * 2^0 /\ 2^0 = 1 /\ 0 + 1 \in Nat /\ 0 + 1 = 1
    BY PowerOfZero, PowerNext
  <2>2. 2^(0 + 1) = 2
    BY <2>1
  <2> QED
    BY <2>1, <2>2
<1>2. ASSUME NEW v \in {1, -1}
      PROVE  SizeOf(v) = 1
  <2>1. Abs(v) = 1 /\ v \in Int
    BY DEF Abs
  <2>2. IsSize(SizeOf(v), v) /\ SizeOf(v) > 0
    BY <2>1, SizeFacts, SizeOfZero
  <2>3. ~(SizeOf(v) > 1)
    <3>1. SizeOf(v) > 1 => e \in 0 .. SizeOf(v) - 1
      BY <1>1, <2>2 DEF IsSize
    <3>2. SizeOf(v) > 1 => 2^e <= Abs(v)
      BY <2>2, <3>1 DEF IsSize
    <3> QED
      BY <1>1, <2>1, <3>2
  <2> QED
    BY <2>2, <2>3 DEF IsSize
<1>3. ValueBits(1) = Bits(1, 1)
  BY <1>2 DEF ValueBits
<1>4. ValueBits(-1) = Bits(1, 0)
  <2>1. SizeOf(-1) = e /\ -1 + 2^e - 1 = 0
    BY <1>1, <1>2
  <2>2. -1 + 2^SizeOf(-1) - 1 = 0
    BY <2>1
  <2> QED
    BY <1>2, <2>2 DEF ValueBits
<1> QED
  BY <1>2, <1>3, <1>4

\* What the end of a run of n blocks looks like, and which number is read from it.
IsEnd(n, r, w) ==
    /\ r \in Nat /\ w \in Nat
    /\ EndOfBand(n) = <<Symbol(r, 0)>> \o (IF r = 0 THEN <<>> ELSE <<Bits(r, w)>>)
    /\ r = 0 => w = 0
    /\ 2^r - 1 + w = n - 1

\* The end of a run is read as its length, if a symbol can hold it.
LEMMA EndRead ==
    ASSUME NEW n \in Nat, n > 0, n < 2^MaxRun
    PROVE  \E r \in Nat, w \in Nat : IsEnd(n, r, w) /\ r \in 0 .. MaxRun - 1
<1>1. PICK r \in Nat, p \in Nat :
               /\ SizeOf(n) = r + 1 /\ p = 2^r /\ p > 0
               /\ p <= Abs(n) /\ Abs(n) < 2 * p
  BY SizeBetween
<1>2. Abs(n) = n
  BY DEF Abs
<1>3. n - p \in Nat
  BY <1>1, <1>2
<1>4. (r + 1) - 1 = r
  OBVIOUS
<1>5. EndOfBand(n) = <<Symbol(r, 0)>> \o (IF r = 0 THEN <<>> ELSE <<Bits(r, n - p)>>)
  BY <1>1, <1>4 DEF EndOfBand
<1>6. r = 0 => n - p = 0
  BY <1>1, <1>2, PowerOfZero
<1>7. p - 1 + (n - p) = n - 1
  BY <1>1
<1>8. r < MaxRun
  <2>1. MaxRun \in Nat
    BY SizeAssumption
  <2>2. MaxRun <= r => 2^MaxRun <= 2^r
    BY <1>1, <2>1, PowerGrows
  <2>3. PICK q \in Nat : q = 2^MaxRun
    BY <2>1, PowerFacts
  <2>4. p <= n /\ n < q
    BY <1>1, <1>2, <2>3
  <2>5. MaxRun <= r => q <= p
    BY <1>1, <2>2, <2>3
  <2> HIDE DEF IsEnd
  <2> QED
    BY <2>1, <2>4, <2>5
<1>9. IsEnd(n, r, n - p)
  BY <1>1, <1>3, <1>5, <1>6, <1>7 DEF IsEnd
<1>10. r \in 0 .. MaxRun - 1
  BY <1>8, SizeAssumption
<1> QED
  BY <1>3, <1>9, <1>10

-----------------------------------------------------------------------------
(***************************************************************************)
(* Values without their low bits                                           *)
(***************************************************************************)

\* A value without its low bits is a number.
LEMMA TransformType ==
    ASSUME NEW v \in Int, NEW i \in Coeffs, NEW al \in Nat
    PROVE  PointTransform(v, i, al) \in Int
<1>1. PICK p \in Nat : p = 2^al /\ p > 0
  BY PowerFacts
<1>2. \A w \in Int : w \div p \in Int
  BY <1>1
<1>3. Abs(v) \in Int
  BY DEF Abs
<1>4. -(Abs(v) \div p) \in Int /\ v \div p \in Int
  BY <1>2, <1>3
<1> QED
  BY <1>1, <1>4 DEF PointTransform

\* The DC value with one bit more.
LEMMA RefinedDC ==
    ASSUME NEW v \in Int, NEW al \in Nat
    PROVE  LET c == PointTransform(v, 0, al)
               h == PointTransform(v, 0, al + 1)
           IN  c \in Int /\ h \in Int /\ c % 2 \in {0, 1} /\ c = 2 * h + (c % 2)
<1>1. PICK p \in Nat : p = 2^al /\ p > 0 /\ 2^(al + 1) = 2 * p
  BY PowerFacts, PowerNext
<1>2. PointTransform(v, 0, al) = v \div p /\ PointTransform(v, 0, al + 1) = v \div (2 * p)
  BY <1>1 DEF PointTransform
<1> QED
  BY <1>1, <1>2, HalvedQuotient

\* An AC coefficient with one bit more: what was zero becomes one at most, what
\* was not keeps its sign.
IsRefined(h, c) ==
    /\ h \in Int /\ c \in Int
    /\ h = 0 => c \in {-1, 0, 1}
    /\ h # 0 => c # 0
    /\ h > 0 => c = 2 * h + (Abs(c) % 2)
    /\ h < 0 => c = 2 * h - (Abs(c) % 2)
    /\ Abs(c) % 2 \in {0, 1}

\* So every AC coefficient is refined.
LEMMA RefinedAC ==
    ASSUME NEW v \in Int, NEW i \in Coeffs, i # 0, NEW al \in Nat
    PROVE  IsRefined(PointTransform(v, i, al + 1), PointTransform(v, i, al))
<1>1. PICK p \in Nat : p = 2^al /\ p > 0 /\ 2^(al + 1) = 2 * p
  BY PowerFacts, PowerNext
<1>2. Abs(v) \in Nat
  BY DEF Abs
<1>3. PICK a \in Nat, b \in Nat, d \in {0, 1} :
          a = Abs(v) \div p /\ b = Abs(v) \div (2 * p) /\ a = 2 * b + d /\ d = a % 2
  <2>1. Abs(v) \div p \in Nat /\ Abs(v) \div (2 * p) \in Nat
    <3>1. PICK q \in Nat : q = 2 * p /\ q > 0
      BY <1>1
    <3> QED
      BY <1>1, <1>2, <3>1, Division
  <2> QED
    BY <1>1, <1>2, <2>1, HalvedQuotient
<1>4. PointTransform(v, i, al) = IF v < 0 THEN -a ELSE a
  BY <1>1, <1>3 DEF PointTransform, Abs
<1>5. PointTransform(v, i, al + 1) = IF v < 0 THEN -b ELSE b
  BY <1>1, <1>3 DEF PointTransform, Abs
<1>6. Abs(PointTransform(v, i, al)) = a
  BY <1>4 DEF Abs
<1>7. Abs(PointTransform(v, i, al)) % 2 = d
  BY <1>3, <1>6
<1> HIDE DEF Abs
<1> QED
  BY <1>3, <1>4, <1>5, <1>7 DEF IsRefined

-----------------------------------------------------------------------------
(***************************************************************************)
(* The band of a block                                                     *)
(***************************************************************************)

\* The band of a scan lies in the block and holds no DC value.
LEMMA BandFacts ==
    ASSUME NEW s \in Headers
    PROVE  /\ FirstAC(s) \in Nat /\ FirstAC(s) >= 1 /\ FirstAC(s) <= s.se + 1
           /\ s.se \in Nat /\ s.se <= LastCoeff /\ s.ss \in Nat /\ s.ss <= s.se
           /\ s.ah \in Nat /\ s.al \in Nat /\ s.run \in Nat
           /\ s.ss <= FirstAC(s) /\ LastCoeff \in Nat
           /\ \A i \in FirstAC(s) .. s.se : i \in Coeffs /\ i # 0 /\ i >= s.ss
<1>1. /\ s.ss \in Coeffs /\ s.se \in Coeffs /\ s.ss <= s.se
      /\ s.ah \in Nat /\ s.al \in Nat /\ s.run \in Nat
  BY DEF Headers
<1> QED
  BY <1>1, SizeAssumption DEF Coeffs, FirstAC

\* Behind the last coded coefficient none is coded.
LEMMA LastFacts ==
    ASSUME NEW v \in Blocks, NEW s \in Headers
    PROVE  /\ LastCoded(v, s) \in Nat
           /\ FirstAC(s) - 1 <= LastCoded(v, s) /\ LastCoded(v, s) <= s.se
           /\ FirstAC(s) <= LastCoded(v, s) => Coded(v, LastCoded(v, s), s)
           /\ \A i \in FirstAC(s) .. s.se : Coded(v, i, s) => i <= LastCoded(v, s)
<1> DEFINE S == {i \in FirstAC(s) .. s.se : Coded(v, i, s)}
<1>0. /\ FirstAC(s) \in Nat /\ FirstAC(s) >= 1 /\ FirstAC(s) <= s.se + 1 /\ s.se \in Nat
  BY BandFacts
<1>1. CASE S = {}
  <2>1. LastCoded(v, s) = FirstAC(s) - 1
    BY <1>1 DEF LastCoded
  <2>2. \A i \in FirstAC(s) .. s.se : ~Coded(v, i, s)
    BY <1>1
  <2> QED
    BY <1>0, <2>1, <2>2
<1>2. CASE S # {}
  <2>1. LastCoded(v, s) = CHOOSE i \in S : \A j \in S : j <= i
    BY <1>2 DEF LastCoded
  <2>2. \E i \in S : \A j \in S : j <= i
    <3>1. S \in SUBSET Nat /\ \A i \in S : i <= s.se
      BY <1>0
    <3> HIDE DEF S
    <3> QED
      BY <1>0, <1>2, <3>1, GreatestNumber
  <2>3. LastCoded(v, s) \in S /\ \A j \in S : j <= LastCoded(v, s)
    <3> HIDE DEF S
    <3> QED
      BY <2>1, <2>2
  <2> QED
    BY <1>0, <2>3
<1> QED
  BY <1>1, <1>2

\* How the zeros that are waiting for a symbol change at coefficient i.
LEMMA ZerosStep ==
    ASSUME NEW v \in Blocks, NEW s \in Headers, NEW i \in FirstAC(s) .. s.se
    PROVE  /\ Zeros(v, i, s) \in 0 .. MaxRun
           /\ Coded(v, i, s) => Zeros(v, i + 1, s) = 0
           /\ Nonzero(v, i, s) => Zeros(v, i + 1, s) = Zeros(v, i, s)
           /\ ~Coded(v, i, s) /\ ~Nonzero(v, i, s) =>
                  Zeros(v, i + 1, s) = IF Zeros(v, i, s) = MaxRun THEN 0 ELSE Zeros(v, i, s) + 1
<1> DEFINE F == FirstAC(s)
           Waiting(n) == {j \in F .. n - 1 :
                             ~Nonzero(v, j, s) /\ \A m \in j .. n - 1 : ~Coded(v, m, s)}
<1>0. F \in Nat /\ s.se \in Nat /\ i \in Nat /\ F <= i /\ (i + 1) - 1 = i /\ MaxRun \in Nat
  BY BandFacts, SizeAssumption
<1>1. \A n : Zeros(v, n, s) = Cardinality(Waiting(n)) % (MaxRun + 1)
  BY DEF Zeros
<1>2. ASSUME NEW n \in Nat
      PROVE  IsFiniteSet(Waiting(n)) /\ Cardinality(Waiting(n)) \in Nat
  <2>1. IsFiniteSet(F .. n - 1)
    BY <1>0, FS_Interval, n - 1 \in Int
  <2>2. Waiting(n) \subseteq F .. n - 1
    OBVIOUS
  <2> HIDE DEF Waiting
  <2> QED
    BY <2>1, <2>2, FS_Subset, FS_CardinalityType
<1>3. PICK c \in Nat : c = Cardinality(Waiting(i)) /\ Zeros(v, i, s) = c % (MaxRun + 1)
                       /\ Zeros(v, i, s) \in 0 .. MaxRun
  <2> HIDE DEF Waiting
  <2>1. PICK c \in Nat : c = Cardinality(Waiting(i))
    BY <1>0, <1>2
  <2>2. c % (MaxRun + 1) \in 0 .. MaxRun
    BY <1>0, NextRemainder
  <2> QED
    BY <1>1, <2>1, <2>2
<1>4. CASE Coded(v, i, s)
  <2>1. \A j \in F .. i : i \in j .. i
    BY <1>0
  <2>2. Waiting(i + 1) = {}
    BY <1>0, <1>4, <2>1
  <2>3. Cardinality(Waiting(i + 1)) = 0
    BY <2>2, FS_EmptySet
  <2>4. Zeros(v, i + 1, s) = 0
    BY <1>0, <1>1, <2>3, DivisionUnique, 0 * (MaxRun + 1) + 0 = 0
  <2>5. ~Nonzero(v, i, s)
    BY <1>4 DEF Coded
  <2> QED
    BY <1>3, <1>4, <2>4, <2>5
<1>5. CASE Nonzero(v, i, s)
  <2>1. ~Coded(v, i, s)
    BY <1>5 DEF Coded
  <2>2. \A j \in F .. i : j # i => j \in F .. i - 1
    BY <1>0
  <2>3. \A j \in F .. i - 1 : j \in F .. i
    BY <1>0
  <2>4. \A j \in F .. i - 1 : \A m \in j .. i : m \in j .. i - 1 \/ m = i
    BY <1>0
  <2>5. \A j \in F .. i - 1 : \A m \in j .. i - 1 : m \in j .. i
    BY <1>0
  <2>6. Waiting(i + 1) = Waiting(i)
    BY <1>0, <1>5, <2>1, <2>2, <2>3, <2>4, <2>5
  <2> HIDE DEF Waiting
  <2> QED
    BY <1>1, <1>3, <1>5, <2>1, <2>6
<1>6. CASE ~Coded(v, i, s) /\ ~Nonzero(v, i, s)
  <2>2. \A j \in F .. i : j # i => j \in F .. i - 1
    BY <1>0
  <2>3. (\A j \in F .. i - 1 : j \in F .. i) /\ i \in F .. i /\ i \notin F .. i - 1
    BY <1>0
  <2>4. \A j \in F .. i - 1 : \A m \in j .. i : m \in j .. i - 1 \/ m = i
    BY <1>0
  <2>5. \A j \in F .. i - 1 : \A m \in j .. i - 1 : m \in j .. i
    BY <1>0
  <2>6. \A m \in i .. i : m = i
    BY <1>0
  <2>7. Waiting(i + 1) = Waiting(i) \cup {i} /\ i \notin Waiting(i)
    BY <1>0, <1>6, <2>2, <2>3, <2>4, <2>5, <2>6
  <2> HIDE DEF Waiting
  <2>8. Cardinality(Waiting(i + 1)) = Cardinality(Waiting(i)) + 1
    BY <1>0, <1>2, <2>7, FS_AddElement
  <2>9. Zeros(v, i + 1, s) = (c + 1) % (MaxRun + 1)
    BY <1>1, <1>3, <2>8
  <2>10. (c + 1) % (MaxRun + 1) = IF c % (MaxRun + 1) = MaxRun THEN 0 ELSE (c % (MaxRun + 1)) + 1
    BY <1>0, NextRemainder
  <2> QED
    BY <1>3, <1>6, <2>9, <2>10
<1> QED
  BY <1>4, <1>5, <1>6

\* Where a symbol begins no zeros are waiting.
LEMMA ZerosAtBegin ==
    ASSUME NEW v \in Blocks, NEW s \in Headers, NEW i \in FirstAC(s) .. s.se,
           BeginsSymbol(v, i, s)
    PROVE  Zeros(v, i, s) = 0
<1>0. FirstAC(s) \in Nat /\ s.se \in Nat /\ MaxRun \in Nat
  BY BandFacts, SizeAssumption
<1>1. CASE i = FirstAC(s)
  <2>1. FirstAC(s) .. i - 1 = {}
    BY <1>0, <1>1
  <2>2. {j \in FirstAC(s) .. i - 1 : ~Nonzero(v, j, s) /\ \A m \in j .. i - 1 : ~Coded(v, m, s)} = {}
    BY <2>1
  <2>3. Zeros(v, i, s) = 0 % (MaxRun + 1)
    BY <2>2, FS_EmptySet DEF Zeros
  <2> QED
    BY <1>0, <2>3, DivisionUnique, 0 * (MaxRun + 1) + 0 = 0
<1>2. CASE i # FirstAC(s)
  <2>1. i - 1 \in FirstAC(s) .. s.se /\ (i - 1) + 1 = i
    BY <1>0, <1>2
  <2>2. EndsSymbol(v, i - 1, s)
    BY <1>2 DEF BeginsSymbol
  <2>3. /\ Coded(v, i - 1, s) => Zeros(v, i, s) = 0
        /\ ~Coded(v, i - 1, s) /\ ~Nonzero(v, i - 1, s) =>
               Zeros(v, i, s) = IF Zeros(v, i - 1, s) = MaxRun THEN 0 ELSE Zeros(v, i - 1, s) + 1
    BY <2>1, ZerosStep
  <2> QED
    BY <2>2, <2>3 DEF EndsSymbol
<1> QED
  BY <1>1, <1>2

\* While no symbol ends the zeros add up; in a first scan there is nothing else.
LEMMA ZerosAddUp ==
    ASSUME NEW v \in Blocks, NEW s \in Headers, NEW i \in FirstAC(s) .. s.se,
           NEW e \in i .. s.se, \A j \in i .. e - 1 : ~EndsSymbol(v, j, s)
    PROVE  /\ Zeros(v, i, s) \in 0 .. MaxRun /\ Zeros(v, e, s) \in 0 .. MaxRun
           /\ Zeros(v, i, s) <= Zeros(v, e, s)
           /\ s.ah = 0 => Zeros(v, e, s) = Zeros(v, i, s) + (e - i)
<1>0. FirstAC(s) \in Nat /\ s.se \in Nat /\ MaxRun \in Nat /\ i \in Nat /\ e \in Nat /\ i <= e
  BY BandFacts, SizeAssumption
<1> DEFINE Added(n) == /\ Zeros(v, i, s) <= Zeros(v, n, s)
                       /\ s.ah = 0 => Zeros(v, n, s) = Zeros(v, i, s) + (n - i)
           T == {d \in Nat : i + d <= e => Added(i + d)}
<1>1. \A n \in i .. e : Zeros(v, n, s) \in 0 .. MaxRun
  <2> SUFFICES ASSUME NEW n \in i .. e PROVE Zeros(v, n, s) \in 0 .. MaxRun
    OBVIOUS
  <2>1. n \in FirstAC(s) .. s.se
    BY <1>0
  <2> QED
    BY <2>1, ZerosStep
<1>2. 0 \in T
  <2>1. i + 0 = i /\ i \in i .. e
    BY <1>0
  <2>2. Added(i)
    BY <1>0, <1>1, <2>1
  <2> QED
    BY <2>1, <2>2
<1>3. ASSUME NEW d \in T
      PROVE  d + 1 \in T
  <2>1. ASSUME i + (d + 1) <= e
        PROVE  Added(i + (d + 1))
    <3>1. PICK n \in i .. e : n = i + d /\ n + 1 = i + (d + 1) /\ n + 1 \in i .. e /\ n < e
      BY <1>0, <2>1
    <3>2. Added(n)
      BY <3>1
    <3>3. n \in FirstAC(s) .. s.se /\ ~EndsSymbol(v, n, s)
      BY <1>0, <3>1
    <3>4. ~Coded(v, n, s) /\ (Nonzero(v, n, s) \/ Zeros(v, n, s) # MaxRun)
      BY <3>3 DEF EndsSymbol
    <3>5. /\ Nonzero(v, n, s) => Zeros(v, n + 1, s) = Zeros(v, n, s)
          /\ ~Nonzero(v, n, s) => Zeros(v, n + 1, s) = Zeros(v, n, s) + 1
      BY <3>3, <3>4, ZerosStep
    <3>6. s.ah = 0 => ~Nonzero(v, n, s)
      BY DEF Nonzero
    <3>7. Zeros(v, n, s) \in Nat /\ Zeros(v, i, s) \in Nat
      BY <1>0, <1>1
    <3>8. Added(n + 1)
      BY <1>0, <3>2, <3>5, <3>6, <3>7
    <3> QED
      BY <3>1, <3>8
  <2> QED
    BY <2>1
<1>4. T = Nat
  <2>1. T \in SUBSET Nat
    OBVIOUS
  <2> HIDE DEF T
  <2> QED
    BY <1>2, <1>3, <2>1, SetInduction
<1>5. e - i \in T /\ i + (e - i) = e
  <2>1. e - i \in Nat /\ i + (e - i) = e
    BY <1>0
  <2> HIDE DEF T
  <2> QED
    BY <1>4, <2>1
<1>6. Added(e)
  BY <1>0, <1>5
<1> QED
  BY <1>0, <1>1, <1>6

\* The symbol that begins with coefficient i ends with coefficient e.
IsSymbol(v, i, e, s) ==
    /\ e \in i .. LastCoded(v, s) /\ EndsSymbol(v, e, s)
    /\ \A j \in i .. e - 1 : ~EndsSymbol(v, j, s)

\* The tokens of that symbol.
Sends(tokens, v, e, s) ==
    LET c == PointTransform(v[e], e, s.al)
    IN  tokens = IF Coded(v, e, s)
                 THEN <<Symbol(Zeros(v, e, s), SizeOf(c)), ValueBits(c)>>
                 ELSE <<Symbol(MaxRun, 0)>>

\* There is such a coefficient, and SymbolFrom holds the tokens.
LEMMA SymbolFacts ==
    ASSUME NEW v \in Blocks, NEW s \in Headers, NEW i \in FirstAC(s) .. LastCoded(v, s)
    PROVE  \E e : IsSymbol(v, i, e, s) /\ Sends(SymbolFrom(v, i, s), v, e, s)
<1> DEFINE L == LastCoded(v, s)
           First(e) == EndsSymbol(v, e, s) /\ \A j \in i .. e - 1 : ~EndsSymbol(v, j, s)
           S == {e \in i .. L : EndsSymbol(v, e, s)}
           end == CHOOSE e \in i .. L : First(e)
<1>0. L \in Nat /\ L <= s.se /\ FirstAC(s) \in Nat /\ i \in Nat /\ i <= L /\ s.se \in Nat
  BY LastFacts, BandFacts
<1>1. L \in S
  BY <1>0, LastFacts DEF EndsSymbol
<1>2. PICK e \in S : \A x \in S : e <= x
  <2>1. S \in SUBSET Nat /\ S # {}
    BY <1>0, <1>1
  <2> HIDE DEF S
  <2> QED
    BY <2>1, LeastNumber
<1>3. First(e)
  <2>1. \A j \in i .. e - 1 : j \in i .. L /\ ~(e <= j)
    BY <1>0
  <2> QED
    BY <1>2, <2>1
<1>4. end \in i .. L /\ First(end)
  <2>1. \E x \in i .. L : First(x)
    BY <1>3
  <2> HIDE DEF First
  <2> QED
    BY <2>1
<1>5. Sends(SymbolFrom(v, i, s), v, end, s)
  BY DEF SymbolFrom, Sends
<1> HIDE DEF end
<1>6. IsSymbol(v, i, end, s)
  BY <1>4 DEF IsSymbol
<1> QED
  BY <1>5, <1>6

-----------------------------------------------------------------------------
(***************************************************************************)
(* The tokens of a band and of a scan                                      *)
(***************************************************************************)

\* How long a run of ended blocks may be.
IsRunLength(n) == n \in Nat /\ n < 2^MaxRun

\* Symbols and bits are tokens.
LEMMA TokenFacts ==
    /\ \A r \in 0 .. MaxRun, n \in Nat : Symbol(r, n) \in Tokens
    /\ \A n, w \in Nat : Bits(n, w) \in Tokens
BY DEF Symbol, Bits, Tokens

\* Sequences of one or two.
LEMMA ShortSequences ==
    ASSUME NEW S, NEW a \in S
    PROVE  <<a>> \in Seq(S) /\ \A b \in S : <<a, b>> \in Seq(S)
OBVIOUS

\* So are those of the end of a band,
LEMMA EndOfBandType ==
    ASSUME NEW n, IsRunLength(n), n > 0
    PROVE  EndOfBand(n) \in Seq(Tokens)
<1>1. PICK r \in Nat, w \in Nat : IsEnd(n, r, w) /\ r \in 0 .. MaxRun - 1
  BY EndRead DEF IsRunLength
<1>2. Symbol(r, 0) \in Tokens /\ Bits(r, w) \in Tokens
  BY <1>1, TokenFacts, SizeAssumption
<1>3. <<Symbol(r, 0)>> \in Seq(Tokens) /\ <<Bits(r, w)>> \in Seq(Tokens) /\ <<>> \in Seq(Tokens)
  BY <1>2, ShortSequences, EmptySeq
<1>4. \A s, t \in Seq(Tokens) : s \o t \in Seq(Tokens)
  BY ConcatProperties
<1> QED
  BY <1>1, <1>3, <1>4, Zenon DEF IsEnd

\* of a value,
LEMMA ValueBitsType ==
    ASSUME NEW v \in Int, v # 0
    PROVE  ValueBits(v) \in Tokens
<1>1. PICK n \in Nat, w \in Nat : ValueBits(v) = Bits(n, w)
  BY ValueRead
<1> QED
  BY <1>1, TokenFacts

\* of a symbol that ends with a coefficient,
LEMMA SentType ==
    ASSUME NEW v \in Blocks, NEW s \in Headers, NEW e \in FirstAC(s) .. s.se,
           NEW tokens, Sends(tokens, v, e, s)
    PROVE  tokens \in Seq(Tokens)
<1> DEFINE c == PointTransform(v[e], e, s.al)
<1>1. e \in Coeffs /\ s.al \in Nat /\ v[e] \in Int
  BY BandFacts DEF Blocks
<1>2. c \in Int
  BY <1>1, TransformType
<1>3. Zeros(v, e, s) \in 0 .. MaxRun /\ MaxRun \in 0 .. MaxRun
  BY ZerosStep, SizeAssumption
<1>4. tokens = IF Coded(v, e, s) THEN <<Symbol(Zeros(v, e, s), SizeOf(c)), ValueBits(c)>>
               ELSE <<Symbol(MaxRun, 0)>>
  BY DEF Sends
<1>5. Coded(v, e, s) => c # 0
  BY DEF Coded
<1> HIDE DEF c
<1>6. CASE Coded(v, e, s)
  <2>1. SizeOf(c) \in Nat
    BY <1>2, SizeFacts DEF IsSize
  <2>2. Symbol(Zeros(v, e, s), SizeOf(c)) \in Tokens
    BY <1>3, <2>1, TokenFacts
  <2>3. ValueBits(c) \in Tokens
    BY <1>2, <1>5, <1>6, ValueBitsType
  <2> QED
    BY <1>4, <1>6, <2>2, <2>3, ShortSequences
<1>7. CASE ~Coded(v, e, s)
  <2>1. Symbol(MaxRun, 0) \in Tokens
    BY <1>3, TokenFacts
  <2> QED
    BY <1>4, <1>7, <2>1, ShortSequences
<1> QED
  BY <1>6, <1>7

\* of the symbol that begins with a coefficient, if one does,
LEMMA SymbolTokensType ==
    ASSUME NEW v \in Blocks, NEW s \in Headers, NEW i \in FirstAC(s) .. s.se,
           NEW n, IsRunLength(n)
    PROVE  SymbolTokens(v, i, s, n) \in Seq(Tokens)
<1>0. /\ FirstAC(s) \in Nat /\ s.se \in Nat /\ i \in Nat /\ FirstAC(s) <= i
      /\ LastCoded(v, s) \in Nat /\ LastCoded(v, s) <= s.se /\ n \in Nat
      /\ <<>> \in Seq(Tokens)
  BY BandFacts, LastFacts, EmptySeq DEF IsRunLength
<1>1. CASE i <= LastCoded(v, s) /\ BeginsSymbol(v, i, s)
  <2>1. i \in FirstAC(s) .. LastCoded(v, s)
    BY <1>0, <1>1
  <2>2. PICK e : IsSymbol(v, i, e, s) /\ Sends(SymbolFrom(v, i, s), v, e, s)
    BY <2>1, SymbolFacts
  <2>3. e \in FirstAC(s) .. s.se
    BY <1>0, <2>2 DEF IsSymbol
  <2>4. SymbolFrom(v, i, s) \in Seq(Tokens)
    BY <2>2, <2>3, SentType
  <2> QED
    BY <1>1, <2>4 DEF SymbolTokens
<1>2. CASE i = LastCoded(v, s) + 1 /\ n > 0
  <2>1. EndOfBand(n) \in Seq(Tokens)
    BY <1>2, EndOfBandType
  <2>2. ~(i <= LastCoded(v, s))
    BY <1>0, <1>2
  <2> QED
    BY <1>2, <2>1, <2>2 DEF SymbolTokens
<1>3. CASE ~(i <= LastCoded(v, s) /\ BeginsSymbol(v, i, s)) /\ ~(i = LastCoded(v, s) + 1 /\ n > 0)
  BY <1>0, <1>3 DEF SymbolTokens
<1> QED
  BY <1>1, <1>2, <1>3

\* and of its correction.
LEMMA CorrectionTokensType ==
    ASSUME NEW v \in Blocks, NEW s \in Headers, NEW i \in FirstAC(s) .. s.se
    PROVE  CorrectionTokens(v, i, s) \in Seq(Tokens)
<1>1. i \in Coeffs /\ s.al \in Nat /\ v[i] \in Int
  BY BandFacts DEF Blocks
<1>2. PICK c \in Int : c = PointTransform(v[i], i, s.al)
  BY <1>1, TransformType
<1>3. Abs(c) % 2 \in Nat
  BY DEF Abs
<1>4. Bits(1, Abs(c) % 2) \in Tokens
  BY <1>3, TokenFacts
<1>5. <<Bits(1, Abs(c) % 2)>> \in Seq(Tokens) /\ <<>> \in Seq(Tokens)
  BY <1>4, ShortSequences, EmptySeq
<1> QED
  BY <1>2, <1>5 DEF CorrectionTokens

\* The number of coefficients in the band of scan s.
Width(s) == s.se + 1 - FirstAC(s)

\* The tokens of a band belong to its coefficients, one after the other.
LEMMA BandTokensFacts ==
    ASSUME NEW v \in Blocks, NEW s \in Headers, NEW n, IsRunLength(n)
    PROVE  /\ Width(s) \in Nat
           /\ BandTokens(v, s, n) \in [1 .. Width(s) -> Seq(Tokens)]
           /\ \A i \in FirstAC(s) .. s.se :
                  /\ i + 1 - FirstAC(s) \in 1 .. Width(s)
                  /\ BandTokens(v, s, n)[i + 1 - FirstAC(s)] =
                         SymbolTokens(v, i, s, n) \o CorrectionTokens(v, i, s)
<1> DEFINE F == FirstAC(s)
           Both(i) == SymbolTokens(v, i, s, n) \o CorrectionTokens(v, i, s)
<1>0. F \in Nat /\ s.se \in Nat /\ F <= s.se + 1
  BY BandFacts
<1>1. \A x, y \in Seq(Tokens) : x \o y \in Seq(Tokens)
  BY ConcatProperties
<1>2. ASSUME NEW i \in F .. s.se
      PROVE  Both(i) \in Seq(Tokens)
  BY <1>1, SymbolTokensType, CorrectionTokensType
<1>3. BandTokens(v, s, n) = [m \in 1 .. Width(s) |-> Both(F + m - 1)]
  BY DEF BandTokens, Width
<1>4. \A m \in 1 .. Width(s) : F + m - 1 \in F .. s.se
  BY <1>0 DEF Width
<1>5. \A i \in F .. s.se : i + 1 - F \in 1 .. Width(s) /\ F + (i + 1 - F) - 1 = i
  BY <1>0 DEF Width
<1>6. Width(s) \in Nat
  BY <1>0 DEF Width
<1> HIDE DEF Both, F
<1>7. BandTokens(v, s, n) \in [1 .. Width(s) -> Seq(Tokens)]
  BY <1>2, <1>3, <1>4
<1>8. \A i \in F .. s.se : BandTokens(v, s, n)[i + 1 - F] = Both(i)
  BY <1>3, <1>5
<1> QED
  BY <1>5, <1>6, <1>7, <1>8 DEF Both, F

\* The DC value a scan sends of a block is a number.
LEMMA DCFacts ==
    ASSUME NEW bs \in Seq(Blocks), NEW s \in Headers, NEW b \in 1 .. Len(bs)
    PROVE  /\ bs[b] \in Blocks /\ bs[b][0] \in Int
           /\ DC(bs, s, b) = PointTransform(bs[b][0], 0, s.al)
           /\ DC(bs, s, b) \in Int /\ DC(bs, s, b - 1) \in Int
<1>1. ASSUME NEW c \in 1 .. Len(bs)
      PROVE  bs[c] \in Blocks /\ bs[c][0] \in Int /\ PointTransform(bs[c][0], 0, s.al) \in Int
  <2>1. bs[c] \in Blocks
    BY ElementOfSeq
  <2>2. 0 \in Coeffs /\ s.al \in Nat
    BY SizeAssumption, BandFacts DEF Coeffs
  <2>3. bs[c][0] \in Int
    BY <2>1, <2>2 DEF Blocks
  <2> QED
    BY <2>1, <2>2, <2>3, TransformType
<1>2. b # 0 /\ (b - 1 = 0 \/ b - 1 \in 1 .. Len(bs))
  BY LenProperties
<1> QED
  BY <1>1, <1>2 DEF DC

\* What it sends are tokens.
LEMMA DCTokensType ==
    ASSUME NEW bs \in Seq(Blocks), NEW s \in Headers, NEW b \in 1 .. Len(bs)
    PROVE  DCTokens(bs, s, b) \in Seq(Tokens)
<1>1. PICK c \in Int, p \in Int : c = DC(bs, s, b) /\ p = DC(bs, s, b - 1)
  BY DCFacts
<1>2. c % 2 \in Nat
  OBVIOUS
<1>3. Bits(1, c % 2) \in Tokens
  BY <1>2, TokenFacts
<1>4. <<Bits(1, c % 2)>> \in Seq(Tokens) /\ <<>> \in Seq(Tokens)
  BY <1>3, ShortSequences, EmptySeq
<1>5. PICK d \in Int : d = c - p
  OBVIOUS
<1>6. Symbol(0, SizeOf(d)) \in Tokens
  <2>1. SizeOf(d) \in Nat
    BY SizeFacts DEF IsSize
  <2> QED
    BY <2>1, TokenFacts, SizeAssumption
<1>7. <<Symbol(0, SizeOf(d))>> \in Seq(Tokens)
  BY <1>6, ShortSequences
<1>8. d # 0 => <<ValueBits(d)>> \in Seq(Tokens)
  <2>1. d # 0 => ValueBits(d) \in Tokens
    BY ValueBitsType
  <2> QED
    BY <2>1, ShortSequences
<1>9. \A x, y \in Seq(Tokens) : x \o y \in Seq(Tokens)
  BY ConcatProperties
<1>10. <<Symbol(0, SizeOf(d))>> \o (IF d = 0 THEN <<>> ELSE <<ValueBits(d)>>) \in Seq(Tokens)
  <2>1. (IF d = 0 THEN <<>> ELSE <<ValueBits(d)>>) \in Seq(Tokens)
    BY <1>4, <1>8
  <2> QED
    BY <1>7, <1>9, <2>1
<1>11. DC(bs, s, b) - DC(bs, s, b - 1) = d
  BY <1>1, <1>5
<1> QED
  BY <1>1, <1>4, <1>10, <1>11 DEF DCTokens

\* What is left of the band of a block from coefficient i on, and of a scan from
\* block b on.
BandRest(r, v, s, n, i) == IsRest(r, BandTokens(v, s, n), Width(s), Tokens, i + 1 - FirstAC(s))
ScanRest(r, bs, s, run, b) == IsRest(r, ScanTokens(bs, s, run), Len(bs), Tokens, b)

\* The next coefficient: the symbol put there, then its correction.
IsBehind(r, v, s, n, i) ==
    \E t, q \in Seq(Tokens) :
        /\ r = SymbolTokens(v, i, s, n) \o t
        /\ t = CorrectionTokens(v, i, s) \o q
        /\ BandRest(q, v, s, n, i + 1)

\* What is left begins with the tokens of the next coefficient.
LEMMA BandNext ==
    ASSUME NEW v \in Blocks, NEW s \in Headers, NEW n, IsRunLength(n),
           NEW i \in FirstAC(s) .. s.se, NEW r, BandRest(r, v, s, n, i)
    PROVE  IsBehind(r, v, s, n, i)
<1>0. FirstAC(s) \in Nat /\ s.se \in Nat /\ i \in Nat
  BY BandFacts
<1>1. PICK w \in Nat, m \in Nat :
          /\ w = Width(s) /\ m = i + 1 - FirstAC(s) /\ m \in 1 .. w
          /\ BandTokens(v, s, n) \in [1 .. w -> Seq(Tokens)]
          /\ BandTokens(v, s, n)[m] = SymbolTokens(v, i, s, n) \o CorrectionTokens(v, i, s)
  <2>1. /\ Width(s) \in Nat /\ BandTokens(v, s, n) \in [1 .. Width(s) -> Seq(Tokens)]
        /\ i + 1 - FirstAC(s) \in 1 .. Width(s)
        /\ BandTokens(v, s, n)[i + 1 - FirstAC(s)] =
               SymbolTokens(v, i, s, n) \o CorrectionTokens(v, i, s)
    BY BandTokensFacts
  <2>2. i + 1 - FirstAC(s) \in Nat
    BY <2>1
  <2> QED
    BY <2>1, <2>2, Zenon
<1>2. IsRest(r, BandTokens(v, s, n), w, Tokens, m)
  BY <1>1 DEF BandRest
<1>3. PICK q : r = BandTokens(v, s, n)[m] \o q /\ IsRest(q, BandTokens(v, s, n), w, Tokens, m + 1)
  BY <1>1, <1>2, RestNext
<1>4. m + 1 = (i + 1) + 1 - FirstAC(s)
  BY <1>0, <1>1
<1>5. BandRest(q, v, s, n, i + 1) /\ q \in Seq(Tokens)
  BY <1>1, <1>3, <1>4 DEF BandRest, IsRest
<1>6. /\ SymbolTokens(v, i, s, n) \in Seq(Tokens)
      /\ CorrectionTokens(v, i, s) \in Seq(Tokens)
  BY SymbolTokensType, CorrectionTokensType
<1>7. /\ (SymbolTokens(v, i, s, n) \o CorrectionTokens(v, i, s)) \o q =
             SymbolTokens(v, i, s, n) \o (CorrectionTokens(v, i, s) \o q)
      /\ CorrectionTokens(v, i, s) \o q \in Seq(Tokens)
  BY <1>5, <1>6, Regroup
<1> QED
  BY <1>1, <1>3, <1>5, <1>7, Zenon DEF IsBehind

\* Nothing is left behind the last one.
LEMMA BandAtEnd ==
    ASSUME NEW v \in Blocks, NEW s \in Headers, NEW n, IsRunLength(n),
           NEW r, BandRest(r, v, s, n, s.se + 1)
    PROVE  r = <<>>
<1>1. PICK w \in Nat : w = Width(s) /\ BandTokens(v, s, n) \in [1 .. w -> Seq(Tokens)]
  BY BandTokensFacts
<1>2. (s.se + 1) + 1 - FirstAC(s) = w + 1
  BY <1>1, BandFacts DEF Width
<1>3. IsRest(r, BandTokens(v, s, n), w, Tokens, w + 1)
  BY <1>1, <1>2 DEF BandRest
<1> QED
  BY <1>1, <1>3, RestAtEnd

\* In a first scan of AC coefficients there are only symbols.
LEMMA BandSkip ==
    ASSUME NEW v \in Blocks, NEW s \in Headers, NEW n, IsRunLength(n), s.ah = 0,
           NEW i, NEW j, i \in FirstAC(s) .. s.se + 1, j \in i .. s.se + 1,
           \A l \in i .. j - 1 : SymbolTokens(v, l, s, n) = <<>>,
           NEW r, BandRest(r, v, s, n, i)
    PROVE  BandRest(r, v, s, n, j)
<1>0. FirstAC(s) \in Nat /\ s.se \in Nat /\ i \in Nat /\ j \in Nat /\ FirstAC(s) <= s.se + 1
  BY BandFacts
<1>1. PICK w \in Nat : w = Width(s) /\ w = s.se + 1 - FirstAC(s)
                       /\ BandTokens(v, s, n) \in [1 .. w -> Seq(Tokens)]
  BY BandTokensFacts DEF Width
<1>2. PICK x \in Nat, y \in Nat : /\ x = i + 1 - FirstAC(s) /\ y = j + 1 - FirstAC(s)
                                 /\ x \in 1 .. w + 1 /\ y \in x .. w + 1
  <2>1. i \in FirstAC(s) .. s.se + 1 /\ j \in i .. s.se + 1
    OBVIOUS
  <2>2. /\ i + 1 - FirstAC(s) \in Nat /\ j + 1 - FirstAC(s) \in Nat
        /\ i + 1 - FirstAC(s) \in 1 .. w + 1 /\ j + 1 - FirstAC(s) \in i + 1 - FirstAC(s) .. w + 1
    BY <1>0, <1>1, <2>1
  <2> QED
    BY <2>2, Zenon
<1>3. ASSUME NEW m \in x .. y - 1
      PROVE  BandTokens(v, s, n)[m] = <<>>
  <2>1. PICK l \in i .. j - 1 : m = l + 1 - FirstAC(s)
    <3>1. m \in Int /\ x <= m /\ m <= y - 1
      BY <1>2
    <3>2. \A f, a, b, c \in Int : a + 1 - f <= c /\ c <= (b + 1 - f) - 1 =>
              c + f - 1 \in a .. b - 1 /\ c = (c + f - 1) + 1 - f
      OBVIOUS
    <3>3. FirstAC(s) \in Int /\ i \in Int /\ j \in Int
      BY <1>0
    <3>4. m + FirstAC(s) - 1 \in i .. j - 1 /\ m = (m + FirstAC(s) - 1) + 1 - FirstAC(s)
      BY <1>2, <3>1, <3>2, <3>3, Zenon
    <3> QED
      BY <3>4, Zenon
  <2>2. l \in FirstAC(s) .. s.se
    BY <1>0, <2>1
  <2>3. BandTokens(v, s, n)[m] = SymbolTokens(v, l, s, n) \o CorrectionTokens(v, l, s)
    BY <2>1, <2>2, BandTokensFacts
  <2>4. CorrectionTokens(v, l, s) = <<>>
    BY DEF CorrectionTokens, Nonzero
  <2>5. SymbolTokens(v, l, s, n) = <<>>
    BY <2>1
  <2> QED
    BY <2>3, <2>4, <2>5
<1>4. IsRest(r, BandTokens(v, s, n), w, Tokens, x)
  BY <1>1, <1>2 DEF BandRest
<1>5. IsRest(r, BandTokens(v, s, n), w, Tokens, y)
  <2>1. PICK ss \in [1 .. w -> Seq(Tokens)] : ss = BandTokens(v, s, n)
    BY <1>1
  <2>2. (\A m \in x .. y - 1 : ss[m] = <<>>) /\ IsRest(r, ss, w, Tokens, x)
    BY <1>3, <1>4, <2>1, Zenon
  <2>3. x \in 1 .. w + 1 /\ y \in x .. w + 1 /\ w \in Nat /\ ss \in [1 .. w -> Seq(Tokens)]
    BY <1>2
  <2>4. IsRest(r, ss, w, Tokens, y)
    BY <2>2, <2>3, RestSkip, Zenon
  <2> QED
    BY <2>1, <2>4, Zenon
<1> QED
  BY <1>1, <1>2, <1>5 DEF BandRest

\* Before the first one all of the band is left.
LEMMA BandFromStart ==
    ASSUME NEW v \in Blocks, NEW s \in Headers, NEW n, IsRunLength(n)
    PROVE  BandRest(FlattenSeq(BandTokens(v, s, n)), v, s, n, FirstAC(s))
<1>1. PICK w \in Nat : w = Width(s) /\ BandTokens(v, s, n) \in [1 .. w -> Seq(Tokens)]
  BY BandTokensFacts
<1>2. FirstAC(s) + 1 - FirstAC(s) = 1
  BY BandFacts
<1>3. IsRest(FlattenSeq(BandTokens(v, s, n)), BandTokens(v, s, n), w, Tokens, 1)
  BY <1>1, RestOfAll
<1> QED
  BY <1>1, <1>2, <1>3 DEF BandRest

-----------------------------------------------------------------------------
(***************************************************************************)
(* What is left of a scan inside a block                                   *)
(***************************************************************************)

\* Runs of blocks whose lengths can be sent.
Sendable(run, bs, s) == run \in Runs(bs, s) /\ s.run < 2^MaxRun

\* The blocks have coefficients, and their runs a length.
LEMMA RunFacts ==
    ASSUME NEW bs \in Seq(Blocks), NEW s \in Headers, NEW run, Sendable(run, bs, s),
           NEW b \in 1 .. Len(bs)
    PROVE  bs[b] \in Blocks /\ IsRunLength(run[b])
<1>1. s.run \in Nat /\ run \in [1 .. Len(bs) -> 0 .. s.run]
  BY BandFacts DEF Sendable, Runs
<1>2. run[b] \in Nat /\ run[b] <= s.run
  BY <1>1
<1>3. PICK p \in Nat : p = 2^MaxRun
  BY PowerFacts, SizeAssumption
<1>4. run[b] < 2^MaxRun
  BY <1>1, <1>2, <1>3 DEF Sendable
<1>5. bs[b] \in Blocks
  BY ElementOfSeq
<1> QED
  BY <1>2, <1>4, <1>5 DEF IsRunLength

\* The tokens of a scan belong to its blocks, one after the other.
LEMMA ScanTokensFacts ==
    ASSUME NEW bs \in Seq(Blocks), NEW s \in Headers, NEW run, Sendable(run, bs, s)
    PROVE  /\ Len(bs) \in Nat
           /\ ScanTokens(bs, s, run) \in [1 .. Len(bs) -> Seq(Tokens)]
           /\ \A b \in 1 .. Len(bs) : ScanTokens(bs, s, run)[b] =
                  DCTokens(bs, s, b) \o FlattenSeq(BandTokens(bs[b], s, run[b]))
<1> DEFINE Both(b) == DCTokens(bs, s, b) \o FlattenSeq(BandTokens(bs[b], s, run[b]))
<1>1. ASSUME NEW b \in 1 .. Len(bs)
      PROVE  Both(b) \in Seq(Tokens)
  <2>1. bs[b] \in Blocks /\ IsRunLength(run[b])
    BY RunFacts
  <2>2. BandRest(FlattenSeq(BandTokens(bs[b], s, run[b])), bs[b], s, run[b], FirstAC(s))
    BY <2>1, BandFromStart
  <2>3. FlattenSeq(BandTokens(bs[b], s, run[b])) \in Seq(Tokens)
    BY <2>2 DEF BandRest, IsRest
  <2>4. DCTokens(bs, s, b) \in Seq(Tokens)
    BY DCTokensType
  <2> QED
    BY <2>3, <2>4, ConcatProperties
<1>2. ScanTokens(bs, s, run) = [b \in 1 .. Len(bs) |-> Both(b)]
  BY DEF ScanTokens
<1> HIDE DEF Both
<1>3. ScanTokens(bs, s, run) \in [1 .. Len(bs) -> Seq(Tokens)]
  BY <1>1, <1>2
<1>4. \A b \in 1 .. Len(bs) : ScanTokens(bs, s, run)[b] = Both(b)
  BY <1>2
<1> QED
  BY <1>3, <1>4, LenProperties DEF Both

\* t is what is left from coefficient i of block b on.
Rests(t, bs, s, run, b, i) ==
    \E x, y \in Seq(Tokens) :
        t = x \o y /\ BandRest(x, bs[b], s, run[b], i) /\ ScanRest(y, bs, s, run, b + 1)

\* The same, when the symbol that stands there has been read.
Behind(t, bs, s, run, b, i) ==
    IF i > s.se THEN Rests(t, bs, s, run, b, i)
    ELSE \E q \in Seq(Tokens) :
             t = CorrectionTokens(bs[b], i, s) \o q /\ Rests(q, bs, s, run, b, i + 1)

\* The next block: its DC value, then its band.
IsNextBlock(t, bs, s, run, b) ==
    \E q \in Seq(Tokens) : t = DCTokens(bs, s, b) \o q /\ Rests(q, bs, s, run, b, FirstAC(s))

\* What is left begins with the tokens of the next block.
LEMMA ScanNext ==
    ASSUME NEW bs \in Seq(Blocks), NEW s \in Headers, NEW run, Sendable(run, bs, s),
           NEW b \in 1 .. Len(bs), NEW t, ScanRest(t, bs, s, run, b)
    PROVE  IsNextBlock(t, bs, s, run, b)
<1> DEFINE f == FlattenSeq(BandTokens(bs[b], s, run[b]))
<1>1. bs[b] \in Blocks /\ IsRunLength(run[b]) /\ DCTokens(bs, s, b) \in Seq(Tokens)
  BY RunFacts, DCTokensType
<1>2. BandRest(f, bs[b], s, run[b], FirstAC(s)) /\ f \in Seq(Tokens)
  <2>1. BandRest(f, bs[b], s, run[b], FirstAC(s))
    BY <1>1, BandFromStart
  <2> QED
    BY <2>1 DEF BandRest, IsRest
<1>3. PICK n \in Nat : n = Len(bs) /\ ScanTokens(bs, s, run) \in [1 .. n -> Seq(Tokens)] /\ b \in 1 .. n
  BY ScanTokensFacts
<1>4. ScanTokens(bs, s, run)[b] = DCTokens(bs, s, b) \o f
  BY ScanTokensFacts
<1> HIDE DEF f
<1>5. IsRest(t, ScanTokens(bs, s, run), n, Tokens, b)
  BY <1>3 DEF ScanRest
<1>6. PICK q : /\ t = ScanTokens(bs, s, run)[b] \o q
               /\ IsRest(q, ScanTokens(bs, s, run), n, Tokens, b + 1)
  BY <1>3, <1>5, RestNext
<1>7. q \in Seq(Tokens) /\ ScanRest(q, bs, s, run, b + 1)
  BY <1>3, <1>6 DEF ScanRest, IsRest
<1>8. /\ (DCTokens(bs, s, b) \o f) \o q = DCTokens(bs, s, b) \o (f \o q)
      /\ f \o q \in Seq(Tokens)
  BY SMTT(30), <1>1, <1>2, <1>7, Regroup
<1>9. Rests(f \o q, bs, s, run, b, FirstAC(s))
  BY <1>2, <1>7, Zenon DEF Rests
<1> QED
  BY <1>4, <1>6, <1>8, <1>9, Zenon DEF IsNextBlock

\* Nothing is left behind the last one.
LEMMA ScanAtEnd ==
    ASSUME NEW bs \in Seq(Blocks), NEW s \in Headers, NEW run, Sendable(run, bs, s),
           NEW t, ScanRest(t, bs, s, run, Len(bs) + 1)
    PROVE  t = <<>>
<1>1. PICK n \in Nat : n = Len(bs) /\ ScanTokens(bs, s, run) \in [1 .. n -> Seq(Tokens)]
  BY ScanTokensFacts
<1>2. IsRest(t, ScanTokens(bs, s, run), n, Tokens, n + 1)
  BY <1>1 DEF ScanRest
<1> QED
  BY <1>1, <1>2, RestAtEnd

\* An encoding is what is left at the first block.
LEMMA ScanFromStart ==
    ASSUME NEW bs \in Seq(Blocks), NEW s \in Headers, s.run < 2^MaxRun,
           NEW t \in Encodings(bs, s)
    PROVE  \E run : Sendable(run, bs, s) /\ ScanRest(t, bs, s, run, 1)
<1>1. PICK run \in Runs(bs, s) : t = FlattenSeq(ScanTokens(bs, s, run))
  BY DEF Encodings
<1>2. Sendable(run, bs, s)
  BY <1>1 DEF Sendable
<1>3. PICK n \in Nat : n = Len(bs) /\ ScanTokens(bs, s, run) \in [1 .. n -> Seq(Tokens)]
  BY <1>2, ScanTokensFacts
<1>4. IsRest(t, ScanTokens(bs, s, run), n, Tokens, 1)
  BY <1>1, <1>3, RestOfAll
<1> QED
  BY <1>2, <1>3, <1>4 DEF ScanRest

\* The next coefficient: its symbol, if it has one.
IsNextSymbol(t, bs, s, run, b, i) ==
    \E q \in Seq(Tokens) :
        t = SymbolTokens(bs[b], i, s, run[b]) \o q /\ Behind(q, bs, s, run, b, i)

\* What is left begins with the symbol that stands there.
LEMMA RestsNext ==
    ASSUME NEW bs \in Seq(Blocks), NEW s \in Headers, NEW run, Sendable(run, bs, s),
           NEW b \in 1 .. Len(bs), NEW i \in FirstAC(s) .. s.se,
           NEW t, Rests(t, bs, s, run, b, i)
    PROVE  IsNextSymbol(t, bs, s, run, b, i)
<1>1. bs[b] \in Blocks /\ IsRunLength(run[b]) /\ ~(i > s.se)
  BY RunFacts, BandFacts
<1>2. PICK x, y \in Seq(Tokens) :
          t = x \o y /\ BandRest(x, bs[b], s, run[b], i) /\ ScanRest(y, bs, s, run, b + 1)
  BY DEF Rests
<1>3. IsBehind(x, bs[b], s, run[b], i)
  BY <1>1, <1>2, BandNext
<1>4. PICK c, d \in Seq(Tokens) :
          c = SymbolTokens(bs[b], i, s, run[b]) /\ d = CorrectionTokens(bs[b], i, s)
  BY <1>1, SymbolTokensType, CorrectionTokensType
<1>5. PICK u, q \in Seq(Tokens) :
          x = c \o u /\ u = d \o q /\ BandRest(q, bs[b], s, run[b], i + 1)
  BY <1>3, <1>4, Zenon DEF IsBehind
<1>6. (c \o u) \o y = c \o (u \o y) /\ u \o y \in Seq(Tokens)
  BY SMTT(30), Regroup
<1>7. (d \o q) \o y = d \o (q \o y) /\ q \o y \in Seq(Tokens)
  BY SMTT(30), Regroup
<1>8. Rests(q \o y, bs, s, run, b, i + 1)
  BY <1>2, <1>5, Zenon DEF Rests
<1>9. Behind(u \o y, bs, s, run, b, i)
  BY <1>1, <1>4, <1>5, <1>7, <1>8, Zenon DEF Behind
<1> QED
  BY <1>2, <1>4, <1>5, <1>6, <1>9, Zenon DEF IsNextSymbol

\* Where no symbol stands there is nothing to read.
LEMMA RestsBehind ==
    ASSUME NEW bs \in Seq(Blocks), NEW s \in Headers, NEW run, Sendable(run, bs, s),
           NEW b \in 1 .. Len(bs), NEW i \in FirstAC(s) .. s.se + 1,
           i <= s.se => SymbolTokens(bs[b], i, s, run[b]) = <<>>,
           NEW t, Rests(t, bs, s, run, b, i)
    PROVE  Behind(t, bs, s, run, b, i)
<1>0. FirstAC(s) \in Nat /\ s.se \in Nat /\ i \in Nat
  BY BandFacts
<1>1. CASE i <= s.se
  <2>1. i \in FirstAC(s) .. s.se
    BY <1>0, <1>1
  <2>2. IsNextSymbol(t, bs, s, run, b, i)
    BY <2>1, RestsNext
  <2>3. PICK q \in Seq(Tokens) : t = <<>> \o q /\ Behind(q, bs, s, run, b, i)
    BY <1>1, <2>2, Zenon DEF IsNextSymbol
  <2>4. t = q
    BY <2>3, ConcatEmptySeq
  <2> QED
    BY <2>3, <2>4
<1>2. CASE ~(i <= s.se)
  <2>1. i > s.se
    BY <1>0, <1>2
  <2> QED
    BY <2>1 DEF Behind
<1> QED
  BY <1>1, <1>2

\* At the end of the band follows the next block.
LEMMA RestsAtEnd ==
    ASSUME NEW bs \in Seq(Blocks), NEW s \in Headers, NEW run, Sendable(run, bs, s),
           NEW b \in 1 .. Len(bs), NEW t, Rests(t, bs, s, run, b, s.se + 1)
    PROVE  ScanRest(t, bs, s, run, b + 1)
<1>1. bs[b] \in Blocks /\ IsRunLength(run[b])
  BY RunFacts
<1>2. PICK x, y \in Seq(Tokens) :
          t = x \o y /\ BandRest(x, bs[b], s, run[b], s.se + 1) /\ ScanRest(y, bs, s, run, b + 1)
  BY DEF Rests
<1>3. x = <<>>
  BY <1>1, <1>2, BandAtEnd
<1>4. t = y
  BY <1>2, <1>3, ConcatEmptySeq
<1> QED
  BY <1>2, <1>4

\* In a first scan coefficients where no symbol stands may be passed over.
LEMMA RestsSkip ==
    ASSUME NEW bs \in Seq(Blocks), NEW s \in Headers, NEW run, Sendable(run, bs, s), s.ah = 0,
           NEW b \in 1 .. Len(bs), NEW i \in FirstAC(s) .. s.se + 1, NEW j \in i .. s.se + 1,
           \A l \in i .. j - 1 : SymbolTokens(bs[b], l, s, run[b]) = <<>>,
           NEW t, Rests(t, bs, s, run, b, i)
    PROVE  Rests(t, bs, s, run, b, j)
<1>1. bs[b] \in Blocks /\ IsRunLength(run[b])
  BY RunFacts
<1>2. PICK x, y \in Seq(Tokens) :
          t = x \o y /\ BandRest(x, bs[b], s, run[b], i) /\ ScanRest(y, bs, s, run, b + 1)
  BY DEF Rests
<1>3. BandRest(x, bs[b], s, run[b], j)
  BY <1>1, <1>2, BandSkip
<1> QED
  BY <1>2, <1>3, Zenon DEF Rests

-----------------------------------------------------------------------------
(***************************************************************************)
(* Runs of ended blocks                                                    *)
(***************************************************************************)

\* The run that begins before block b has n blocks left there.
Left(run, b, n) ==
    /\ n \in Nat
    /\ n = 0 => \A a \in 1 .. b - 1 : a + run[a] <= b
    /\ n > 0 => \E a \in 1 .. b - 1 : a + run[a] = b + n

\* What Runs says of every block.
LEMMA RunTypes ==
    ASSUME NEW bs \in Seq(Blocks), NEW s \in Headers, NEW run \in Runs(bs, s)
    PROVE  /\ \A a \in 1 .. Len(bs) : run[a] \in Nat
           /\ \A a \in 1 .. Len(bs) : run[a] > 0 =>
                  /\ a + run[a] - 1 <= Len(bs)
                  /\ LastCoded(bs[a], s) < s.se
                  /\ \A j \in a + 1 .. a + run[a] - 1 :
                         run[j] = 0 /\ LastCoded(bs[j], s) < FirstAC(s)
           /\ \A a \in 1 .. Len(bs) : run[a] = 0 =>
                  LastCoded(bs[a], s) = s.se \/ \E c \in 1 .. a - 1 : c + run[c] > a
<1>1. s.run \in Nat /\ run \in [1 .. Len(bs) -> 0 .. s.run]
  BY BandFacts DEF Runs
<1> QED
  BY <1>1 DEF Runs

\* No run begins before the first block.
LEMMA NoneLeftAtFirst == \A run : Left(run, 1, 0)
BY DEF Left

\* A block inside a run: nothing of it is coded, and one block less is left.
LEMMA LeftInside ==
    ASSUME NEW bs \in Seq(Blocks), NEW s \in Headers, NEW run \in Runs(bs, s),
           NEW b \in 1 .. Len(bs), NEW n, Left(run, b, n), n > 0
    PROVE  /\ run[b] = 0 /\ LastCoded(bs[b], s) < FirstAC(s)
           /\ Left(run, b + 1, n - 1)
<1>0. Len(bs) \in Nat /\ b \in Nat /\ n \in Nat
  BY LenProperties DEF Left
<1>1. PICK a \in 1 .. b - 1 : a + run[a] = b + n
  BY DEF Left
<1>2. a \in 1 .. Len(bs) /\ a < b
  BY <1>0
<1>3. run[a] \in Nat /\ run[a] > 0 /\ b \in a + 1 .. a + run[a] - 1
  <2>1. run[a] \in Nat
    BY <1>2, RunTypes
  <2> QED
    BY <1>0, <1>1, <1>2, <2>1
<1>4. \A j \in a + 1 .. a + run[a] - 1 : run[j] = 0 /\ LastCoded(bs[j], s) < FirstAC(s)
  BY <1>2, <1>3, RunTypes
<1>5. run[b] = 0 /\ LastCoded(bs[b], s) < FirstAC(s)
  BY <1>3, <1>4
<1>6. CASE n = 1
  <2>1. ASSUME NEW c \in 1 .. b
        PROVE  c + run[c] <= b + 1
    <3>1. c \in 1 .. Len(bs) /\ run[c] \in Nat
      BY <1>0, RunTypes
    <3>2. CASE c = a
      BY <1>1, <1>6, <3>2
    <3>3. CASE c > a
      <4>1. c \in a + 1 .. a + run[a] - 1
        BY <1>0, <1>1, <1>3, <3>3
      <4>2. run[c] = 0
        BY <1>4, <4>1
      <4> QED
        BY <1>0, <4>2
    <3>4. CASE c < a
      <4>1. ~(c + run[c] > b + 1)
        <5>1. SUFFICES ASSUME c + run[c] > b + 1 PROVE FALSE
          OBVIOUS
        <5>2. run[c] > 0 /\ a \in c + 1 .. c + run[c] - 1
          BY <1>0, <1>2, <3>1, <3>4, <5>1
        <5>3. run[a] = 0
          BY <3>1, <5>2, RunTypes
        <5> QED
          BY <1>3, <5>3
      <4> QED
        BY <1>0, <3>1, <4>1
    <3> QED
      BY <1>0, <1>2, <3>2, <3>3, <3>4
  <2>2. (b + 1) - 1 = b /\ n - 1 = 0
    BY <1>0, <1>6
  <2> QED
    BY <1>5, <2>1, <2>2 DEF Left
<1>7. CASE n # 1
  <2>1. n - 1 \in Nat /\ n - 1 > 0 /\ (b + 1) - 1 = b /\ a \in 1 .. b
    BY <1>0, <1>7
  <2>2. a + run[a] = (b + 1) + (n - 1)
    BY <1>0, <1>1
  <2> QED
    BY <1>5, <2>1, <2>2 DEF Left
<1> QED
  BY <1>6, <1>7

\* A block outside: a run begins with it, or it has no end.
LEMMA LeftOutside ==
    ASSUME NEW bs \in Seq(Blocks), NEW s \in Headers, NEW run \in Runs(bs, s),
           NEW b \in 1 .. Len(bs), Left(run, b, 0)
    PROVE  /\ run[b] \in Nat
           /\ run[b] > 0 => Left(run, b + 1, run[b] - 1) /\ LastCoded(bs[b], s) < s.se
           /\ run[b] = 0 => Left(run, b + 1, 0) /\ LastCoded(bs[b], s) = s.se
<1>0. Len(bs) \in Nat /\ b \in Nat /\ (b + 1) - 1 = b
  BY LenProperties
<1>1. run[b] \in Nat
  BY RunTypes
<1>2. \A a \in 1 .. b - 1 : a + run[a] <= b /\ a + run[a] \in Nat
  <2>1. \A a \in 1 .. b - 1 : a \in 1 .. Len(bs) /\ a \in Nat
    BY <1>0
  <2>2. \A a \in 1 .. b - 1 : run[a] \in Nat
    BY <2>1, RunTypes
  <2> QED
    BY <2>1, <2>2 DEF Left
<1>3. \A a \in 1 .. b : a = b \/ a \in 1 .. b - 1
  BY <1>0
<1>4. CASE run[b] > 0
  <2>1. LastCoded(bs[b], s) < s.se
    BY <1>4, RunTypes
  <2>2. run[b] - 1 \in Nat /\ b + run[b] = (b + 1) + (run[b] - 1) /\ b \in 1 .. b
    BY <1>0, <1>1, <1>4
  <2>3. run[b] - 1 = 0 => \A a \in 1 .. b : a + run[a] <= b + 1
    BY <1>0, <1>1, <1>2, <1>3
  <2>4. Left(run, b + 1, run[b] - 1)
    BY <1>0, <2>2, <2>3 DEF Left
  <2> QED
    BY <1>1, <1>4, <2>1, <2>4
<1>5. CASE run[b] = 0
  <2>1. ~\E c \in 1 .. b - 1 : c + run[c] > b
    BY <1>0, <1>2
  <2>2. LastCoded(bs[b], s) = s.se
    BY <1>5, <2>1, RunTypes
  <2>3. \A a \in 1 .. b : a + run[a] <= b + 1
    BY <1>0, <1>2, <1>3, <1>5
  <2>4. Left(run, b + 1, 0)
    BY <1>0, <2>3 DEF Left
  <2> QED
    BY <1>1, <1>5, <2>2, <2>4
<1> QED
  BY <1>1, <1>4, <1>5

-----------------------------------------------------------------------------
(***************************************************************************)
(* What the scans tell about a coefficient                                 *)
(***************************************************************************)

\* The scans that send coefficient i, and the last of them.
Senders(i, scans) == {n \in DOMAIN scans : i \in scans[n].ss .. scans[n].se}
LastSender(i, scans) ==
    CHOOSE n \in Senders(i, scans) : \A m \in Senders(i, scans) : m <= n

\* Known, in these words.
LEMMA KnownIs ==
    \A v, i, scans : Known(v, i, scans) =
        IF Senders(i, scans) = {} THEN 0
        ELSE PointTransform(v, i, scans[LastSender(i, scans)].al)
                 * 2^scans[LastSender(i, scans)].al
BY DEF Known, Senders, LastSender

\* Nothing is known of a coefficient that no scan sends.
LEMMA KnownNone ==
    ASSUME NEW v, NEW i, NEW scans, \A n \in DOMAIN scans : i \notin scans[n].ss .. scans[n].se
    PROVE  Known(v, i, scans) = 0
<1>1. Senders(i, scans) = {}
  BY DEF Senders
<1> QED
  BY <1>1, KnownIs

\* Of one that is sent, what the last scan says.
LEMMA KnownLast ==
    ASSUME NEW v, NEW i, NEW scans \in Seq(Headers), NEW n \in DOMAIN scans,
           i \in scans[n].ss .. scans[n].se,
           \A l \in DOMAIN scans : l > n => i \notin scans[l].ss .. scans[l].se
    PROVE  Known(v, i, scans) = PointTransform(v, i, scans[n].al) * 2^scans[n].al
<1>1. n \in Senders(i, scans) /\ n \in Nat
  BY DEF Senders
<1>2. \A m \in Senders(i, scans) : m \in Nat /\ m <= n
  BY <1>1 DEF Senders
<1>3. /\ LastSender(i, scans) \in Senders(i, scans)
      /\ \A m \in Senders(i, scans) : m <= LastSender(i, scans)
  BY <1>1, <1>2 DEF LastSender
<1>4. LastSender(i, scans) = n
  <2>1. LastSender(i, scans) \in Nat /\ LastSender(i, scans) <= n /\ n <= LastSender(i, scans)
    BY <1>1, <1>2, <1>3
  <2> QED
    BY <1>1, <2>1
<1>5. Senders(i, scans) # {}
  BY <1>1
<1> QED
  BY <1>4, <1>5, KnownIs

\* A scan of another band tells nothing new.
LEMMA KnownAppend ==
    ASSUME NEW v, NEW i, NEW scans \in Seq(Headers), NEW s \in Headers, i \notin s.ss .. s.se
    PROVE  Known(v, i, Append(scans, s)) = Known(v, i, scans)
<1>1. /\ Append(scans, s) \in Seq(Headers) /\ Len(scans) \in Nat
      /\ Len(Append(scans, s)) = Len(scans) + 1
      /\ \A n \in 1 .. Len(scans) : Append(scans, s)[n] = scans[n]
      /\ Append(scans, s)[Len(scans) + 1] = s
  BY AppendProperties
<1>2. /\ DOMAIN scans = 1 .. Len(scans)
      /\ DOMAIN Append(scans, s) = 1 .. Len(scans) + 1
  BY <1>1, LenProperties
<1>3. \A n \in 1 .. Len(scans) + 1 : n \in 1 .. Len(scans) \/ n = Len(scans) + 1
  BY <1>1
<1>4. \A n \in 1 .. Len(scans) : n \in 1 .. Len(scans) + 1
  BY <1>1
<1>5. Senders(i, Append(scans, s)) = Senders(i, scans)
  BY <1>1, <1>2, <1>3, <1>4 DEF Senders
<1>6. LastSender(i, Append(scans, s)) = LastSender(i, scans)
  BY <1>5 DEF LastSender
<1>7. CASE Senders(i, scans) = {}
  BY <1>5, <1>7, KnownIs
<1>8. CASE Senders(i, scans) # {}
  <2>1. LastSender(i, scans) \in Senders(i, scans)
    <3>1. Senders(i, scans) \in SUBSET Nat /\ \A n \in Senders(i, scans) : n <= Len(scans)
      BY <1>1, <1>2 DEF Senders
    <3>2. \E n \in Senders(i, scans) : \A m \in Senders(i, scans) : m <= n
      BY <1>1, <1>8, <3>1, GreatestNumber
    <3> QED
      BY <3>2 DEF LastSender
  <2>2. Append(scans, s)[LastSender(i, scans)] = scans[LastSender(i, scans)]
    BY <1>1, <1>2, <2>1 DEF Senders
  <2> QED
    BY <1>5, <1>6, <1>8, <2>2, KnownIs
<1> QED
  BY <1>7, <1>8

\* What coefficient i of block b is before the current scan, and behind it.
Before(b, i) == Known(target[b][i], i, covered)
After(b, i) == Known(target[b][i], i, Append(covered, scan))

\* The current scan may follow those before it.
Legal ==
    /\ scan.run < 2^MaxRun
    /\ scan.ss = 0 /\ scan.se > 0 => scan.ah = 0 /\ scan.run = 1
    /\ scan.ah > 0 => scan.ah = scan.al + 1
    /\ \A i \in scan.ss .. scan.se :
          IF scan.ah = 0 THEN \A m \in DOMAIN covered : i \notin covered[m].ss .. covered[m].se
          ELSE \E m \in DOMAIN covered :
                  /\ i \in covered[m].ss .. covered[m].se /\ covered[m].al = scan.ah
                  /\ \A l \in DOMAIN covered : l > m => i \notin covered[l].ss .. covered[l].se

\* What the current scan says of a coefficient, and what was known before.
IsNews(b, i) ==
    /\ Before(b, i) \in Int /\ After(b, i) \in Int
    /\ i \notin scan.ss .. scan.se => After(b, i) = Before(b, i)
    /\ i \in scan.ss .. scan.se =>
           /\ After(b, i) = PointTransform(target[b][i], i, scan.al) * bit
           /\ scan.ah = 0 => Before(b, i) = 0
           /\ scan.ah > 0 => /\ scan.ah = scan.al + 1
                             /\ Before(b, i) = PointTransform(target[b][i], i, scan.ah) * 2^scan.ah

\* It is a number.
LEMMA KnownType ==
    ASSUME NEW v \in Int, NEW i \in Coeffs, NEW scans \in Seq(Headers)
    PROVE  Known(v, i, scans) \in Int
<1>1. CASE Senders(i, scans) = {}
  BY <1>1, KnownIs
<1>2. CASE Senders(i, scans) # {}
  <2>1. LastSender(i, scans) \in Senders(i, scans)
    <3>1. Len(scans) \in Nat /\ DOMAIN scans = 1 .. Len(scans)
      BY LenProperties
    <3>2. Senders(i, scans) \in SUBSET Nat /\ \A n \in Senders(i, scans) : n <= Len(scans)
      BY <3>1 DEF Senders
    <3>3. \E n \in Senders(i, scans) : \A m \in Senders(i, scans) : m <= n
      BY <1>2, <3>1, <3>2, GreatestNumber
    <3> QED
      BY <3>3 DEF LastSender
  <2>2. PICK al \in Nat : al = scans[LastSender(i, scans)].al
    <3>1. scans[LastSender(i, scans)] \in Headers
      BY <2>1 DEF Senders
    <3> QED
      BY <3>1 DEF Headers
  <2>3. PICK c \in Int, p \in Int : c = PointTransform(v, i, al) /\ p = 2^al
    BY TransformType, PowerFacts
  <2> QED
    BY <1>2, <2>2, <2>3, KnownIs
<1> QED
  BY <1>1, <1>2

\* This is so for every coefficient.
LEMMA News ==
    ASSUME TypeOK, script # <<>>, Legal, NEW b \in DOMAIN target, NEW i \in Coeffs
    PROVE  IsNews(b, i)
<1>1. /\ covered \in Seq(Headers) /\ scan \in Headers /\ scan.al \in Nat
      /\ target[b] \in Blocks
  BY ScanFacts DEF TypeOK
<1>2. target[b][i] \in Int
  BY <1>1 DEF Blocks
<1>3. /\ Append(covered, scan) \in Seq(Headers) /\ Len(covered) \in Nat
      /\ Len(Append(covered, scan)) = Len(covered) + 1
      /\ Append(covered, scan)[Len(covered) + 1] = scan
  BY <1>1, AppendProperties, LenProperties
<1>4. DOMAIN Append(covered, scan) = 1 .. Len(covered) + 1
  BY <1>3, LenProperties
<1>5. Before(b, i) \in Int /\ After(b, i) \in Int
  BY <1>1, <1>2, <1>3, KnownType DEF Before, After
<1>6. i \notin scan.ss .. scan.se => After(b, i) = Before(b, i)
  BY <1>1, KnownAppend DEF Before, After
<1>7. ASSUME i \in scan.ss .. scan.se
      PROVE  /\ After(b, i) = PointTransform(target[b][i], i, scan.al) * bit
             /\ scan.ah = 0 => Before(b, i) = 0
             /\ scan.ah > 0 => /\ scan.ah = scan.al + 1
                               /\ Before(b, i) = PointTransform(target[b][i], i, scan.ah) * 2^scan.ah
  <2>1. After(b, i) = PointTransform(target[b][i], i, scan.al) * bit
    <3>1. Len(covered) + 1 \in DOMAIN Append(covered, scan)
      BY <1>3, <1>4
    <3>2. \A l \in DOMAIN Append(covered, scan) : ~(l > Len(covered) + 1)
      BY <1>3, <1>4
    <3>3. Known(target[b][i], i, Append(covered, scan)) =
              PointTransform(target[b][i], i, scan.al) * 2^scan.al
      BY <1>3, <1>7, <3>1, <3>2, KnownLast
    <3> QED
      BY <3>3 DEF After, bit
  <2>2. scan.ah = 0 => Before(b, i) = 0
    BY <1>7, KnownNone DEF Before, Legal
  <2>3. ASSUME scan.ah > 0
        PROVE  Before(b, i) = PointTransform(target[b][i], i, scan.ah) * 2^scan.ah
    <3>1. PICK m \in DOMAIN covered :
              /\ i \in covered[m].ss .. covered[m].se /\ covered[m].al = scan.ah
              /\ \A l \in DOMAIN covered : l > m => i \notin covered[l].ss .. covered[l].se
      BY <1>7, <2>3 DEF Legal
    <3> QED
      BY <1>1, <3>1, KnownLast DEF Before
  <2> QED
    BY <2>1, <2>2, <2>3 DEF Legal
<1> QED
  BY <1>5, <1>6, <1>7 DEF IsNews

\* The same for AC coefficients, in the words of the encoder.  A refined
\* coefficient was h, and gets a bit more.
IsACNews(b, i, c) ==
    /\ c = PointTransform(target[b][i], i, scan.al) /\ c \in Int
    /\ After(b, i) = c * bit
    /\ Before(b, i) # 0 <=> Nonzero(target[b], i, scan)
    /\ Coded(target[b], i, scan) => c # 0 /\ Before(b, i) = 0
    /\ Coded(target[b], i, scan) /\ scan.ah > 0 => c \in {-1, 1}
    /\ ~Coded(target[b], i, scan) /\ ~Nonzero(target[b], i, scan) => After(b, i) = 0
    /\ Nonzero(target[b], i, scan) =>
           \E h \in Int : h # 0 /\ IsRefined(h, c) /\ Before(b, i) = h * (2 * bit)
    /\ scan.ah = 0 => ~Nonzero(target[b], i, scan)

\* This is so for every AC coefficient of the band.
LEMMA ACNews ==
    ASSUME TypeOK, script # <<>>, Legal, NEW b \in DOMAIN target,
           NEW i \in FirstAC(scan) .. scan.se
    PROVE  \E c : IsACNews(b, i, c)
<1>1. /\ scan \in Headers /\ scan.al \in Nat /\ scan.ah \in Nat /\ target[b] \in Blocks
      /\ i \in Coeffs /\ i # 0 /\ i \in scan.ss .. scan.se
  <2>1. scan \in Headers /\ scan.al \in Nat /\ target[b] \in Blocks /\ scan.ah \in Nat
    BY ScanFacts DEF TypeOK
  <2>2. i \in Coeffs /\ i # 0 /\ i >= scan.ss /\ scan.ss \in Nat /\ scan.se \in Nat
    BY <2>1, BandFacts
  <2> QED
    BY <2>1, <2>2
<1>2. PICK v \in Int : v = target[b][i]
  BY <1>1 DEF Blocks
<1>3. PICK c \in Int : c = PointTransform(v, i, scan.al)
  BY <1>1, TransformType
<1>4. PICK p \in Nat : p = bit /\ p > 0 /\ p = 2^scan.al
  BY ScanFacts DEF bit
<1>5. IsNews(b, i)
  BY <1>1, News
<1>6. After(b, i) = c * p
  BY <1>1, <1>2, <1>3, <1>4, <1>5 DEF IsNews
<1>7. \A x \in Int, y \in Nat : y > 0 => (x * y = 0 <=> x = 0) /\ (0 * y = 0)
  <2> SUFFICES ASSUME NEW x \in Int, NEW y \in Nat, y > 0
               PROVE  (x * y = 0 <=> x = 0) /\ (0 * y = 0)
    OBVIOUS
  <2>2. PICK z \in Nat : y = z + 1
    BY y - 1 \in Nat
  <2>3. x * (z + 1) = x * z + x
    OBVIOUS
  <2>4. x > 0 => x * z \in Nat
    BY Products
  <2>5. x < 0 => (-x) * z \in Nat /\ (-x) * z = -(x * z) /\ x * z \in Int
    <3>1. x < 0 => -x \in Nat
      OBVIOUS
    <3>2. (-x) * z = -(x * z) /\ x * z \in Int
      OBVIOUS
    <3> QED
      BY <3>1, <3>2, Products
  <2> QED
    BY <2>2, <2>3, <2>4, <2>5
<1>8. CASE scan.ah = 0
  <2>1. ~Nonzero(target[b], i, scan) /\ Before(b, i) = 0
    BY <1>1, <1>5, <1>8 DEF Nonzero, IsNews
  <2>2. Coded(target[b], i, scan) <=> c # 0
    BY <1>2, <1>3, <2>1 DEF Coded
  <2>3. c = 0 => After(b, i) = 0
    BY <1>4, <1>6, <1>7
  <2> QED
    BY <1>2, <1>3, <1>4, <1>6, <1>8, <2>1, <2>2, <2>3 DEF IsACNews
<1>9. CASE scan.ah # 0
  <2>1. scan.ah > 0 /\ scan.ah = scan.al + 1
    BY <1>1, <1>5, <1>9 DEF IsNews
  <2>2. PICK h \in Int : h = PointTransform(v, i, scan.ah) /\ IsRefined(h, c)
    <3>1. IsRefined(PointTransform(v, i, scan.al + 1), PointTransform(v, i, scan.al))
      BY <1>1, RefinedAC
    <3> QED
      BY <1>3, <2>1, <3>1 DEF IsRefined
  <2>3. 2^scan.ah = 2 * p
    BY <1>1, <1>4, <2>1, PowerNext
  <2>4. Before(b, i) = h * (2 * p)
    BY <1>1, <1>2, <1>5, <2>1, <2>2, <2>3 DEF IsNews
  <2>5. Nonzero(target[b], i, scan) <=> h # 0
    BY <1>2, <2>1, <2>2 DEF Nonzero
  <2>6. Before(b, i) = 0 <=> h = 0
    <3>1. PICK y \in Nat : y = 2 * p /\ y > 0
      BY <1>4
    <3> QED
      BY <1>7, <2>4, <3>1
  <2>7. Coded(target[b], i, scan) <=> c # 0 /\ h = 0
    BY <1>2, <1>3, <2>5 DEF Coded
  <2>8. h = 0 => c \in {-1, 0, 1}
    BY <2>2 DEF IsRefined
  <2>9. c = 0 => After(b, i) = 0
    BY <1>4, <1>6, <1>7
  <2>10. Nonzero(target[b], i, scan) =>
             \E g \in Int : g # 0 /\ IsRefined(g, c) /\ Before(b, i) = g * (2 * p)
    BY <2>2, <2>4, <2>5, Zenon
  <2>11. Coded(target[b], i, scan) => c # 0 /\ Before(b, i) = 0 /\ c \in {-1, 1}
    BY <2>6, <2>7, <2>8
  <2>12. ~Coded(target[b], i, scan) /\ ~Nonzero(target[b], i, scan) => After(b, i) = 0
    BY <2>5, <2>7, <2>9
  <2>13. Before(b, i) # 0 <=> Nonzero(target[b], i, scan)
    BY <2>5, <2>6
  <2> QED
    BY <1>2, <1>3, <1>4, <1>6, <1>9, <2>10, <2>11, <2>12, <2>13, Zenon DEF IsACNews
<1> QED
  BY <1>8, <1>9

-----------------------------------------------------------------------------
(***************************************************************************)
(* How far the memory is                                                   *)
(***************************************************************************)

\* The current scan has passed the coefficients before i of block b, and the
\* blocks before it.
MemoryIs(m, b, i) ==
    \A c \in DOMAIN target, j \in Coeffs :
        m[c][j] = IF c < b \/ (c = b /\ j < i) THEN After(c, j) ELSE Before(c, j)

\* Over coefficients the scan leaves as they are,
LEMMA MemoryMoves ==
    ASSUME TypeOK, NEW m, NEW b \in DOMAIN target, NEW i \in Nat, NEW e \in Nat, i <= e,
           MemoryIs(m, b, i),
           \A j \in Coeffs : i <= j /\ j < e => After(b, j) = Before(b, j)
    PROVE  MemoryIs(m, b, e)
<1>1. \A c \in DOMAIN target : c \in Nat
  BY DEF TypeOK
<1>2. \A j \in Coeffs : j \in Nat
  BY DEF Coeffs
<1> QED
  BY <1>1, <1>2 DEF MemoryIs

\* over one it stores,
LEMMA MemoryStores ==
    ASSUME TypeOK, NEW i \in Coeffs, NEW v \in Int, v = After(block, i), Store(i, v),
           MemoryIs(mem, block, i)
    PROVE  MemoryIs(mem', block, i + 1)
<1>1. /\ block \in DOMAIN target /\ mem \in [DOMAIN target -> Blocks]
      /\ mem' \in [DOMAIN target -> Blocks]
      /\ \A c \in DOMAIN target : c \in Nat
      /\ \A j \in Coeffs : j \in Nat
  BY StoreFacts DEF TypeOK, Coeffs
<1>2. \A c \in DOMAIN target, j \in Coeffs :
          mem'[c][j] = IF c = block /\ j = i THEN v ELSE mem[c][j]
  <2>1. mem[block] \in [Coeffs -> Int]
    BY <1>1 DEF Blocks
  <2>2. DOMAIN mem[block] \cup {i} = Coeffs
    BY <2>1
  <2>3. mem' = [mem EXCEPT ![block] =
                   [j \in Coeffs |-> IF j = i THEN v ELSE mem[block][j]]]
    BY <2>2 DEF Store
  <2> QED
    BY <1>1, <2>3
<1>3. ASSUME NEW c \in DOMAIN target, NEW j \in Coeffs
      PROVE  mem'[c][j] = IF c < block \/ (c = block /\ j < i + 1) THEN After(c, j) ELSE Before(c, j)
  <2>1. mem[c][j] = IF c < block \/ (c = block /\ j < i) THEN After(c, j) ELSE Before(c, j)
    BY DEF MemoryIs
  <2>2. CASE c = block /\ j = i
    BY <1>1, <1>2, <2>2
  <2>3. CASE ~(c = block /\ j = i)
    <3>1. mem'[c][j] = mem[c][j]
      BY <1>2, <2>3
    <3>2. c = block => (j < i + 1 <=> j < i)
      BY <1>1, <2>3
    <3> QED
      BY <2>1, <3>1, <3>2
  <2> QED
    BY <2>2, <2>3
<1> QED
  BY <1>3 DEF MemoryIs

\* and from the end of the band to the next block.
LEMMA MemoryEnds ==
    ASSUME TypeOK, script # <<>>, Legal, NEW m, NEW b \in DOMAIN target, MemoryIs(m, b, scan.se + 1)
    PROVE  MemoryIs(m, b + 1, 0)
<1>1. /\ \A c \in DOMAIN target : c \in Nat
      /\ \A j \in Coeffs : j \in Nat
      /\ scan.se \in Nat
  BY ScanFacts DEF TypeOK, Coeffs
<1>2. \A j \in Coeffs : scan.se + 1 <= j => After(b, j) = Before(b, j)
  <2>1. ASSUME NEW j \in Coeffs, scan.se + 1 <= j
        PROVE  After(b, j) = Before(b, j)
    <3>1. IsNews(b, j)
      BY News
    <3>2. j \notin scan.ss .. scan.se
      BY <1>1, <2>1
    <3> QED
      BY <3>1, <3>2 DEF IsNews
  <2> QED
    BY <2>1
<1> QED
  BY <1>1, <1>2 DEF MemoryIs

\* Before the band of a block nothing is new but its DC value.
LEMMA MemoryBegins ==
    ASSUME TypeOK, script # <<>>, Legal, NEW m, NEW b \in DOMAIN target,
           scan.ss > 0, MemoryIs(m, b, 0)
    PROVE  MemoryIs(m, b, FirstAC(scan))
<1>1. /\ \A j \in Coeffs : j \in Nat
      /\ scan.ss \in Nat /\ scan.se \in Nat /\ FirstAC(scan) = scan.ss
  BY ScanFacts DEF Coeffs, FirstAC
<1>2. \A j \in Coeffs : j < scan.ss => After(b, j) = Before(b, j)
  <2>1. ASSUME NEW j \in Coeffs, j < scan.ss
        PROVE  After(b, j) = Before(b, j)
    <3>1. IsNews(b, j)
      BY News
    <3>2. j \notin scan.ss .. scan.se
      BY <1>1, <2>1
    <3> QED
      BY <3>1, <3>2 DEF IsNews
  <2> QED
    BY <2>1
<1> QED
  BY <1>1, <1>2, MemoryMoves

\* Coefficients that are zero before the scan and behind it are passed over.
LEMMA MemoryPasses ==
    ASSUME TypeOK, script # <<>>, Legal, NEW m, NEW b \in DOMAIN target,
           NEW i \in FirstAC(scan) .. scan.se + 1, NEW e \in i .. scan.se + 1,
           \A j \in i .. e - 1 : ~Coded(target[b], j, scan) /\ ~Nonzero(target[b], j, scan),
           MemoryIs(m, b, i)
    PROVE  MemoryIs(m, b, e)
<1>1. /\ \A j \in Coeffs : j \in Nat
      /\ scan \in Headers /\ scan.se \in Nat /\ FirstAC(scan) \in Nat
  BY ScanFacts, BandFacts DEF Coeffs
<1>2. i \in Nat /\ e \in Nat /\ i <= e
  BY <1>1
<1>3. ASSUME NEW j \in Coeffs, i <= j, j < e
      PROVE  After(b, j) = Before(b, j)
  <2>1. j \in FirstAC(scan) .. scan.se /\ j \in i .. e - 1
    BY <1>1, <1>2, <1>3
  <2>2. PICK c : IsACNews(b, j, c)
    BY <2>1, ACNews
  <2>3. After(b, j) = 0 /\ Before(b, j) = 0
    BY <2>1, <2>2 DEF IsACNews
  <2> QED
    BY <2>3
<1> QED
  BY <1>2, <1>3, MemoryMoves

-----------------------------------------------------------------------------
(***************************************************************************)
(* What the decoder reads                                                  *)
(***************************************************************************)

\* Two sequences of one token each.
LEMMA Pair ==
    ASSUME NEW S, NEW a \in S, NEW d \in S
    PROVE  <<a>> \o <<d>> = <<a, d>>
<1>1. PICK x \in Seq(S), y \in Seq(S), z \in Seq(S) :
          /\ x = <<a>> /\ y = <<d>> /\ z = <<a, d>>
          /\ Len(x) = 1 /\ Len(y) = 1 /\ Len(z) = 2
          /\ x[1] = a /\ y[1] = d /\ z[1] = a /\ z[2] = d
  <2>1. <<a>> \in Seq(S) /\ <<d>> \in Seq(S) /\ <<a, d>> \in Seq(S)
    BY ShortSequences
  <2>2. Len(<<a>>) = 1 /\ Len(<<d>>) = 1 /\ <<a>>[1] = a /\ <<d>>[1] = d
    OBVIOUS
  <2>3. Len(<<a, d>>) = 2 /\ <<a, d>>[1] = a /\ <<a, d>>[2] = d
    OBVIOUS
  <2> QED
    BY <2>1, <2>2, <2>3, Zenon
<1>2. /\ x \o y \in Seq(S) /\ Len(x \o y) = 2
      /\ \A i \in 1 .. 2 : (x \o y)[i] = IF i <= 1 THEN x[i] ELSE y[i - 1]
  <2>1. /\ x \o y \in Seq(S) /\ Len(x \o y) = Len(x) + Len(y)
        /\ \A i \in 1 .. Len(x) + Len(y) : (x \o y)[i] =
               IF i <= Len(x) THEN x[i] ELSE y[i - Len(x)]
    BY ConcatProperties
  <2> QED
    BY <1>1, <2>1
<1>3. \A i \in 1 .. 2 : (x \o y)[i] = z[i]
  BY <1>1, <1>2
<1>4. x \o y = z
  BY <1>1, <1>2, <1>3, SeqEqual
<1> QED
  BY <1>1, <1>4, Zenon

\* The decoder takes one token,
LEMMA ReadOne ==
    ASSUME NEW a, NEW q, a \in Tokens, q \in Seq(Tokens), stream = <<a>> \o q
    PROVE  /\ stream # <<>> /\ Head(stream) = a /\ Tail(stream) = q
           /\ Len(stream) > 0 /\ stream[1] = a
           /\ Unread(1, 0) = q
<1>1. stream \in Seq(Tokens) /\ Len(stream) = Len(q) + 1 /\ Len(q) \in Nat
      /\ Head(stream) = a /\ Tail(stream) = q /\ stream # <<>> /\ stream[1] = a
  OBVIOUS
<1>2. Unread(1, 0) = SubSeq(stream, 2, Len(stream))
  BY DEF Unread
<1>3. SubSeq(stream, 2, Len(stream)) = q
  BY <1>1, TailIsSubSeq
<1>4. Len(stream) > 0
  BY <1>1
<1> QED
  BY <1>1, <1>2, <1>3, <1>4, Zenon

\* or a symbol and the bits behind it.
LEMMA ReadTwo ==
    ASSUME NEW a, NEW d, NEW q, a \in Tokens, d \in Tokens, q \in Seq(Tokens),
           stream = <<a, d>> \o q
    PROVE  /\ stream # <<>> /\ Head(stream) = a
           /\ Len(stream) > 1 /\ stream[2] = d
           /\ \A n \in Nat : n > 0 => Unread(1, n) = q
<1>1. stream \in Seq(Tokens) /\ Len(stream) = Len(q) + 2 /\ Len(q) \in Nat
      /\ Head(stream) = a /\ stream # <<>> /\ stream[2] = d
  OBVIOUS
<1>2. ASSUME NEW n \in Nat, n > 0
      PROVE  Unread(1, n) = q
  <2>1. Unread(1, n) = SubSeq(stream, 3, Len(stream))
    BY <1>2 DEF Unread
  <2>2. SubSeq(stream, 3, Len(stream)) = q
    BY <1>1
  <2> QED
    BY <2>1, <2>2
<1> QED
  BY <1>1, <1>2

\* It finds a symbol without bits,
LEMMA ReadAlone ==
    ASSUME NEW r \in 0 .. MaxRun, NEW n \in Nat, NEW q, q \in Seq(Tokens),
           stream = <<Symbol(r, n)>> \o q
    PROVE  /\ Reads("symbol") /\ Head(stream).zeros = r /\ Head(stream).size = n
           /\ Tail(stream) = q /\ Unread(1, 0) = q
<1>1. PICK a \in Tokens : a = Symbol(r, n)
  BY TokenFacts
<1>2. stream # <<>> /\ Head(stream) = a /\ Tail(stream) = q /\ Unread(1, 0) = q
  BY SMTT(30), <1>1, ReadOne
<1>3. a.kind = "symbol" /\ a.zeros = r /\ a.size = n
  BY <1>1 DEF Symbol
<1> QED
  BY <1>2, <1>3 DEF Reads

\* one with bits,
LEMMA ReadWithBits ==
    ASSUME NEW r \in 0 .. MaxRun, NEW n \in Nat, NEW c \in Nat, NEW w \in Nat, c > 0,
           NEW q, q \in Seq(Tokens), stream = <<Symbol(r, n), Bits(c, w)>> \o q
    PROVE  /\ Reads("symbol") /\ Head(stream).zeros = r /\ Head(stream).size = n
           /\ ReadsBits(1, c) /\ BitsRead(1, c) = w /\ Unread(1, c) = q
<1>1. PICK a \in Tokens, d \in Tokens : a = Symbol(r, n) /\ d = Bits(c, w)
  BY TokenFacts
<1>2. /\ stream # <<>> /\ Head(stream) = a
      /\ Len(stream) > 1 /\ stream[2] = d /\ Unread(1, c) = q
  BY <1>1, ReadTwo
<1>3. a.kind = "symbol" /\ a.zeros = r /\ a.size = n
  BY <1>1 DEF Symbol
<1>4. d.kind = "bits" /\ d.count = c /\ d.value = w
  BY <1>1 DEF Bits
<1> QED
  BY <1>2, <1>3, <1>4 DEF Reads, ReadsBits, BitsRead

\* or a bit alone.
LEMMA ReadABit ==
    ASSUME NEW w \in Nat, NEW q, q \in Seq(Tokens), stream = <<Bits(1, w)>> \o q
    PROVE  ReadsBits(0, 1) /\ BitsRead(0, 1) = w /\ Tail(stream) = q
<1>1. PICK d \in Tokens : d = Bits(1, w)
  BY TokenFacts
<1>2. Len(stream) > 0 /\ stream[1] = d /\ Tail(stream) = q
  BY SMTT(30), <1>1, ReadOne
<1>3. d.kind = "bits" /\ d.count = 1 /\ d.value = w
  BY <1>1 DEF Bits
<1> QED
  BY <1>2, <1>3 DEF ReadsBits, BitsRead

-----------------------------------------------------------------------------
(***************************************************************************)
(* Where a symbol begins                                                   *)
(***************************************************************************)

\* The block that the current one was encoded from.
Current == target[block]

\* The decoder is at coefficient i, where a symbol begins or the band is at its
\* end; t is unread, and n blocks more have ended.
AtSymbol(run, t, i, n) ==
    /\ Rests(t, target, scan, run, block, i)
    /\ i \in FirstAC(scan) .. scan.se + 1
    /\ i <= scan.se => /\ n = 0 /\ Left(run, block, 0)
                       /\ i <= LastCoded(Current, scan) + 1
                       /\ BeginsSymbol(Current, i, scan)
    /\ i > scan.se => Left(run, block + 1, n)

\* The symbol that stands there ends with coefficient e; q is behind it.
LeadsTo(run, e, q) ==
    /\ q \in Seq(Tokens) /\ Behind(q, target, scan, run, block, k)
    /\ IsSymbol(Current, k, e, scan)
    /\ Reads("symbol")

\* It has the value of e.
ValueAhead(run, e, q, n, c) ==
    /\ LeadsTo(run, e, q)
    /\ Coded(Current, e, scan) /\ c = PointTransform(Current[e], e, scan.al) /\ c \in Int /\ c # 0
    /\ Head(stream).zeros = Zeros(Current, e, scan)
    /\ Head(stream).size = n /\ n \in Nat /\ n > 0
    /\ ReadsBits(1, n) /\ twos_complement(n, BitsRead(1, n)) = c /\ Unread(1, n) = q
    /\ c \in {-1, 1} => n = 1 /\ BitsRead(1, 1) = IF c = 1 THEN 1 ELSE 0

\* It has only zeros.
ZerosAhead(run, e, q) ==
    /\ LeadsTo(run, e, q)
    /\ ~Coded(Current, e, scan)
    /\ Head(stream).zeros = MaxRun /\ Head(stream).size = 0
    /\ Tail(stream) = q

\* It ends the band, for a run of blocks.
EndAhead(run, q, r) ==
    /\ q \in Seq(Tokens) /\ Behind(q, target, scan, run, block, k)
    /\ k = LastCoded(Current, scan) + 1
    /\ run[block] \in Nat /\ run[block] > 0 /\ Left(run, block + 1, run[block] - 1)
    /\ Reads("symbol") /\ Head(stream).zeros = r /\ Head(stream).size = 0
    /\ r \in Nat /\ r # MaxRun
    /\ ReadsBits(1, r) /\ Unread(1, r) = q
    /\ 2^r - 1 + BitsRead(1, r) = run[block] - 1

\* A symbol of a coefficient is read with its value.
LEMMA WithValue ==
    ASSUME TypeOK, pc # "scan", NEW run, Sendable(run, target, scan),
           NEW e, IsSymbol(Current, k, e, scan), e \in FirstAC(scan) .. scan.se,
           Coded(Current, e, scan),
           NEW q, q \in Seq(Tokens), Behind(q, target, scan, run, block, k),
           NEW tokens, Sends(tokens, Current, e, scan), stream = tokens \o q
    PROVE  \E n, c : ValueAhead(run, e, q, n, c)
<1>1. /\ scan \in Headers /\ Current \in Blocks /\ scan.al \in Nat
      /\ target \in Seq(Blocks) /\ block \in DOMAIN target
  BY ScanFacts DEF TypeOK, Current
<1>2. e \in Coeffs /\ Current[e] \in Int
  BY <1>1, BandFacts DEF Blocks
<1>3. PICK c \in Int : c = PointTransform(Current[e], e, scan.al)
  BY <1>1, <1>2, TransformType
<1>4. c # 0
  BY <1>3 DEF Coded
<1>5. PICK n \in Nat, w \in Nat : ValueBits(c) = Bits(n, w) /\ IsRead(c, n, w)
  BY <1>4, ValueRead
<1>6. n = SizeOf(c) /\ n > 0 /\ twos_complement(n, w) = c
  BY <1>5 DEF IsRead
<1>7. PICK z \in 0 .. MaxRun : z = Zeros(Current, e, scan)
  BY <1>1, ZerosStep
<1>8. tokens = <<Symbol(z, n), Bits(n, w)>>
  BY <1>3, <1>5, <1>6, <1>7 DEF Sends
<1>9. /\ Reads("symbol") /\ Head(stream).zeros = z /\ Head(stream).size = n
      /\ ReadsBits(1, n) /\ BitsRead(1, n) = w /\ Unread(1, n) = q
  BY <1>6, <1>8, ReadWithBits
<1>10. ASSUME c \in {-1, 1}
       PROVE  n = 1 /\ BitsRead(1, 1) = IF c = 1 THEN 1 ELSE 0
  <2>1. n = 1
    BY <1>6, <1>10, OneRead
  <2>2. Bits(1, w) = Bits(1, IF c = 1 THEN 1 ELSE 0)
    BY <1>5, <1>10, <2>1, OneRead
  <2>3. w = IF c = 1 THEN 1 ELSE 0
    BY <2>2 DEF Bits
  <2> QED
    BY <1>9, <2>1, <2>3
<1>11. ValueAhead(run, e, q, n, c)
  BY <1>3, <1>4, <1>6, <1>7, <1>9, <1>10 DEF ValueAhead, LeadsTo
<1> QED
  BY <1>11

\* Where a symbol begins it is one of these three.
LEMMA SymbolAhead ==
    ASSUME TypeOK, pc # "scan", NEW run, Sendable(run, target, scan),
           AtSymbol(run, stream, k, eob_run), k <= scan.se
    PROVE  \/ \E e, q, n, c : ValueAhead(run, e, q, n, c)
           \/ \E e, q : ZerosAhead(run, e, q)
           \/ \E q, r : EndAhead(run, q, r)
<1>1. /\ scan \in Headers /\ target \in Seq(Blocks) /\ block \in 1 .. Len(target)
      /\ Current \in Blocks /\ IsRunLength(run[block])
      /\ FirstAC(scan) \in Nat /\ scan.se \in Nat
  <2>1. scan \in Headers /\ target \in Seq(Blocks) /\ block \in 1 .. Len(target)
    BY ScanFacts DEF TypeOK
  <2> QED
    BY <2>1, RunFacts, BandFacts DEF Current
<1>2. k \in FirstAC(scan) .. scan.se
  BY <1>1 DEF AtSymbol
<1>3. PICK q \in Seq(Tokens) :
          /\ stream = SymbolTokens(Current, k, scan, run[block]) \o q
          /\ Behind(q, target, scan, run, block, k)
  <2>1. IsNextSymbol(stream, target, scan, run, block, k)
    BY <1>1, <1>2, RestsNext DEF AtSymbol
  <2> QED
    BY <2>1 DEF IsNextSymbol, Current
<1>4. LastCoded(Current, scan) \in Nat /\ LastCoded(Current, scan) <= scan.se
  BY <1>1, LastFacts
<1>5. CASE k <= LastCoded(Current, scan)
  <2>1. k \in FirstAC(scan) .. LastCoded(Current, scan)
    BY <1>1, <1>2, <1>4, <1>5
  <2>2. PICK e : /\ IsSymbol(Current, k, e, scan)
                 /\ Sends(SymbolFrom(Current, k, scan), Current, e, scan)
    BY <1>1, <2>1, SymbolFacts
  <2>3. SymbolTokens(Current, k, scan, run[block]) = SymbolFrom(Current, k, scan)
    BY <1>2, <1>5 DEF AtSymbol, SymbolTokens
  <2>4. e \in FirstAC(scan) .. scan.se
    BY <1>1, <1>2, <1>4, <2>2 DEF IsSymbol
  <2>5. CASE Coded(Current, e, scan)
    BY <1>3, <2>2, <2>3, <2>4, <2>5, WithValue
  <2>6. CASE ~Coded(Current, e, scan)
    <3>1. stream = <<Symbol(MaxRun, 0)>> \o q
      BY <1>3, <2>2, <2>3, <2>6 DEF Sends
    <3>2. MaxRun \in 0 .. MaxRun
      BY SizeAssumption
    <3>3. /\ Reads("symbol") /\ Head(stream).zeros = MaxRun /\ Head(stream).size = 0
          /\ Tail(stream) = q
      BY <3>1, <3>2, ReadAlone
    <3>4. ZerosAhead(run, e, q)
      BY <1>3, <2>2, <2>6, <3>3 DEF ZerosAhead, LeadsTo
    <3> QED
      BY <3>4
  <2> QED
    BY <2>5, <2>6
<1>6. CASE ~(k <= LastCoded(Current, scan))
  <2>1. k = LastCoded(Current, scan) + 1 /\ ~(k <= LastCoded(Current, scan))
    BY <1>1, <1>2, <1>4, <1>6 DEF AtSymbol
  <2>2. /\ run[block] \in Nat /\ run[block] > 0 /\ run[block] < 2^MaxRun
        /\ Left(run, block + 1, run[block] - 1)
    <3>1. Left(run, block, 0) /\ LastCoded(Current, scan) # scan.se
      BY <1>1, <1>2, <1>4, <2>1 DEF AtSymbol
    <3>2. run \in Runs(target, scan)
      BY DEF Sendable
    <3>3. /\ run[block] \in Nat
          /\ run[block] > 0 => Left(run, block + 1, run[block] - 1)
          /\ run[block] = 0 => LastCoded(target[block], scan) = scan.se
      BY <1>1, <3>1, <3>2, LeftOutside
    <3> QED
      BY <1>1, <3>1, <3>3 DEF IsRunLength, Current
  <2>3. stream = EndOfBand(run[block]) \o q
    BY <1>3, <2>1, <2>2 DEF SymbolTokens
  <2>4. PICK n \in Nat : n = run[block] /\ n > 0 /\ n < 2^MaxRun
    BY <2>2
  <2>5. PICK r \in Nat, w \in Nat : IsEnd(n, r, w) /\ r \in 0 .. MaxRun - 1
    BY <2>4, EndRead
  <2>6. r \in 0 .. MaxRun /\ r # MaxRun
    BY <2>5, SizeAssumption
  <2>7. /\ Reads("symbol") /\ Head(stream).zeros = r /\ Head(stream).size = 0
        /\ ReadsBits(1, r) /\ Unread(1, r) = q
        /\ 2^r - 1 + BitsRead(1, r) = n - 1
    <3>1. CASE r = 0
      <4>1. stream = <<Symbol(r, 0)>> \o <<>> \o q
        BY <2>3, <2>4, <2>5, <3>1 DEF IsEnd
      <4>2. PICK t \in Seq(Tokens) : t = <<Symbol(r, 0)>>
        BY <2>6, TokenFacts, ShortSequences
      <4>3. t \o <<>> = t
        BY ConcatEmptySeq
      <4>4. stream = <<Symbol(r, 0)>> \o q
        BY <4>1, <4>2, <4>3, Zenon
      <4>5. Reads("symbol") /\ Head(stream).zeros = r /\ Head(stream).size = 0 /\ Unread(1, 0) = q
        BY <2>6, <4>4, ReadAlone
      <4>6. ReadsBits(1, 0) /\ BitsRead(1, 0) = 0
        BY DEF ReadsBits, BitsRead
      <4>7. w = 0 /\ 2^r - 1 + w = n - 1
        BY <2>5, <3>1 DEF IsEnd
      <4> QED
        BY <3>1, <4>5, <4>6, <4>7
    <3>2. CASE r # 0
      <4>1. stream = (<<Symbol(r, 0)>> \o <<Bits(r, w)>>) \o q
        BY <2>3, <2>4, <2>5, <3>2 DEF IsEnd
      <4>2. <<Symbol(r, 0)>> \o <<Bits(r, w)>> = <<Symbol(r, 0), Bits(r, w)>>
        <5>1. PICK a \in Tokens, d \in Tokens : a = Symbol(r, 0) /\ d = Bits(r, w)
          BY <2>6, TokenFacts
        <5>2. <<a>> \o <<d>> = <<a, d>>
          BY Pair
        <5> QED
          BY <5>1, <5>2
      <4>3. stream = <<Symbol(r, 0), Bits(r, w)>> \o q
        BY <4>1, <4>2, Zenon
      <4>4. r > 0
        BY <2>5, <3>2
      <4>5. /\ Reads("symbol") /\ Head(stream).zeros = r /\ Head(stream).size = 0
            /\ ReadsBits(1, r) /\ BitsRead(1, r) = w /\ Unread(1, r) = q
        BY <2>6, <4>3, <4>4, ReadWithBits
      <4> QED
        BY <2>5, <4>5 DEF IsEnd
    <3> QED
      BY <3>1, <3>2
  <2>8. EndAhead(run, q, r)
    BY <1>3, <2>1, <2>2, <2>4, <2>6, <2>7 DEF EndAhead
  <2> QED
    BY <2>8
<1> QED
  BY <1>5, <1>6

-----------------------------------------------------------------------------
(***************************************************************************)
(* The invariant: decoder and stream are in step                           *)
(***************************************************************************)

\* The decoder of a later scan is inside a symbol, at coefficient i, with z zeros
\* to pass and the value v to store.
Inside(run, i, z, v, n) ==
    /\ \E e : /\ IsSymbol(Current, i, e, scan)
              /\ z = Zeros(Current, e, scan) - Zeros(Current, i, scan)
              /\ v = IF Coded(Current, e, scan) THEN After(block, e) ELSE 0
    /\ n = 0 /\ Left(run, block, 0)

\* It is behind the last symbol of the band, and only refines.
Ended(run, i, z, v, n) ==
    /\ i > LastCoded(Current, scan)
    /\ z + i > LastCoeff
    /\ v = 0
    /\ Left(run, block + 1, n)

\* In one of the two ways it is inside the band.
Refining(run, t, p, i, z, v, n) ==
    /\ i \in FirstAC(scan) .. scan.se + 1
    /\ Behind(t, target, scan, run, block, i)
    /\ (p = "refine" /\ Inside(run, i, z, v, n)) \/ Ended(run, i, z, v, n)

\* What is unread, and how much of a run is left, wherever the decoder is.
InStream(run) ==
    /\ pc = "dc" => ScanRest(stream, target, scan, run, block) /\ Left(run, block, eob_run)
    /\ pc = "band" => /\ Rests(stream, target, scan, run, block, FirstAC(scan))
                      /\ Left(run, block, eob_run)
                      /\ scan.ah > 0 => scan.ss > 0
    /\ pc \in {"ac", "sbh"} => AtSymbol(run, stream, k, eob_run)
    /\ pc \in {"refine", "ended"} => Refining(run, stream, pc, k, num_zeros, value, eob_run)
    /\ pc = "ac" => scan.ah = 0
    /\ pc \in {"sbh", "refine", "ended"} => scan.ah > 0

\* diff_dc is the DC value sent last.
Difference ==
    scan.ss = 0 /\ scan.ah = 0 =>
        diff_dc = DC(target, scan, IF pc = "dc" THEN block - 1 ELSE block)

\* The first coefficient of the current block that the scan has not passed.
Position == IF pc = "dc" THEN 0 ELSE IF pc = "band" THEN FirstAC(scan) ELSE k

\* Stream and memory are those of the place where the decoder is.
Synced ==
    IF pc = "scan" THEN stream = <<>> /\ MemoryIs(mem, 1, 0)
    ELSE /\ Legal /\ Difference
         /\ MemoryIs(mem, block, Position)
         /\ \E run : Sendable(run, target, scan) /\ InStream(run)

\* The scans decoded and those to come are those of the file, in their order.
InOrder == \E f \in Files : target = f.blocks /\ covered \o script = f.script

\* The inductive invariant.
SyncInv == IInv /\ InOrder /\ (Intact => Synced)

\* Nothing of the scan and the file changes.
LEMMA SameScan ==
    ASSUME UNCHANGED <<target, script, covered>>
    PROVE  /\ scan' = scan /\ bit' = bit
           /\ Legal => Legal'
           /\ MemoryIs(mem', block', Position') => MemoryIs(mem, block, Position)'
<1>1. scan' = scan
  BY DEF scan
<1>2. bit' = bit
  BY <1>1 DEF bit
<1>3. Legal => Legal'
  BY <1>1 DEF Legal
<1>4. MemoryIs(mem', block', Position') => MemoryIs(mem, block, Position)'
  BY <1>1 DEF MemoryIs, After, Before
<1> QED
  BY <1>1, <1>2, <1>3, <1>4

\* A step to a place where a symbol begins, or to the end of the band.
LEMMA ToSymbol ==
    ASSUME TypeOK, pc # "scan", pc # "dc", Legal, Difference, SameBlock,
           NEW run, Sendable(run, target, scan),
           \/ pc' = "ac" /\ scan.ah = 0
           \/ pc' = "sbh" /\ scan.ah > 0,
           AtSymbol(run, stream', k', eob_run'), MemoryIs(mem', block, k'), diff_dc' = diff_dc
    PROVE  Synced'
<1>1. scan' = scan /\ Legal' /\ target' = target /\ block' = block
  BY SameScan DEF SameBlock
<1>2. AtSymbol(run, stream, k, eob_run)'
  BY <1>1 DEF AtSymbol, Current
<1>3. MemoryIs(mem, block, Position)'
  BY <1>1, SameScan DEF SameBlock, Position
<1>4. Difference'
  BY <1>1 DEF Difference
<1>5. Sendable(run, target', scan') /\ InStream(run)'
  BY <1>1, <1>2 DEF InStream
<1>6. pc' # "scan"
  OBVIOUS
<1> QED
  BY <1>1, <1>3, <1>4, <1>5, <1>6 DEF Synced

\* A step inside a symbol of a later scan.
LEMMA ToRefine ==
    ASSUME TypeOK, pc # "scan", pc # "dc", Legal, Difference, SameBlock,
           NEW run, Sendable(run, target, scan),
           pc' \in {"refine", "ended"}, scan.ah > 0,
           Refining(run, stream', pc', k', num_zeros', value', eob_run'),
           MemoryIs(mem', block, k'), diff_dc' = diff_dc
    PROVE  Synced'
<1>1. scan' = scan /\ Legal' /\ target' = target /\ block' = block /\ covered' = covered
  BY SameScan DEF SameBlock
<1>2. Refining(run, stream, pc, k, num_zeros, value, eob_run)'
  <2>1. Current' = Current
    BY <1>1 DEF Current
  <2>2. Inside(run, k', num_zeros', value', eob_run') => Inside(run, k, num_zeros, value, eob_run)'
    BY <1>1, <2>1 DEF Inside, After
  <2>3. Ended(run, k', num_zeros', value', eob_run') => Ended(run, k, num_zeros, value, eob_run)'
    BY <1>1, <2>1 DEF Ended
  <2> QED
    BY <1>1, <2>2, <2>3 DEF Refining
<1>3. MemoryIs(mem, block, Position)'
  BY <1>1, SameScan DEF SameBlock, Position
<1>4. Difference'
  BY <1>1 DEF Difference
<1>5. Sendable(run, target', scan') /\ InStream(run)'
  BY <1>1, <1>2 DEF InStream
<1>6. pc' # "scan"
  OBVIOUS
<1> QED
  BY <1>1, <1>3, <1>4, <1>5, <1>6 DEF Synced

\* A step to the beginning of block b.
LEMMA ToBlock ==
    ASSUME TypeOK, script # <<>>, Legal, UNCHANGED <<target, script, covered>>,
           NEW b \in 1 .. Len(target), block' = b, pc' = FirstStep(scan),
           NEW run, Sendable(run, target, scan),
           ScanRest(stream', target, scan, run, b), Left(run, b, eob_run'),
           MemoryIs(mem', b, 0),
           scan.ss = 0 /\ scan.ah = 0 => diff_dc' = DC(target, scan, b - 1)
    PROVE  Synced'
<1>1. /\ target \in Seq(Blocks) /\ Len(target) \in Nat /\ DOMAIN target = 1 .. Len(target)
      /\ scan \in Headers
  BY ScanFacts, LenProperties DEF TypeOK
<1>2. scan' = scan /\ Legal' /\ target' = target
  BY SameScan
<1>3. CASE scan.ss = 0
  <2>1. pc' = "dc"
    BY <1>3 DEF FirstStep
  <2>2. MemoryIs(mem, block, Position)'
    BY <2>1, SameScan DEF Position
  <2>3. InStream(run)'
    BY <1>2, <2>1 DEF InStream
  <2>4. Difference'
    BY <1>2, <2>1 DEF Difference
  <2> QED
    BY <1>2, <2>1, <2>2, <2>3, <2>4 DEF Synced
<1>4. CASE scan.ss # 0
  <2>1. pc' = "band" /\ scan.ss > 0
    BY <1>1, <1>4, BandFacts DEF FirstStep
  <2>2. MemoryIs(mem', b, FirstAC(scan))
    BY <1>1, <2>1, MemoryBegins
  <2>3. MemoryIs(mem, block, Position)'
    BY <1>2, <2>1, <2>2, SameScan DEF Position
  <2>4. Rests(stream', target, scan, run, b, FirstAC(scan))
    <3>1. IsNextBlock(stream', target, scan, run, b)
      BY <1>1, ScanNext
    <3>2. PICK q \in Seq(Tokens) :
              stream' = <<>> \o q /\ Rests(q, target, scan, run, b, FirstAC(scan))
      BY <2>1, <3>1 DEF IsNextBlock, DCTokens
    <3>3. stream' = q
      BY <3>2, ConcatEmptySeq
    <3> QED
      BY <3>2, <3>3
  <2>5. InStream(run)'
    BY <1>2, <2>1, <2>4 DEF InStream
  <2>6. Difference'
    BY <1>2, <1>4 DEF Difference
  <2> QED
    BY <1>2, <2>1, <2>3, <2>5, <2>6 DEF Synced
<1> QED
  BY <1>3, <1>4

\* The step to the next block, or to the end of the scan.
LEMMA ToNextBlock ==
    ASSUME TypeOK, pc # "scan", Legal, NextBlock,
           NEW run, Sendable(run, target, scan),
           ScanRest(stream', target, scan, run, block + 1), Left(run, block + 1, eob_run'),
           MemoryIs(mem', block + 1, 0),
           scan.ss = 0 /\ scan.ah = 0 => diff_dc' = DC(target, scan, block)
    PROVE  Synced'
<1>1. /\ target' = target /\ target \in Seq(Blocks) /\ block \in 1 .. Len(target)
      /\ Len(target) \in Nat /\ scan \in Headers /\ script # <<>>
  BY ScanFacts DEF TypeOK, NextBlock
<1>2. CASE block < Len(target)
  <2>1. /\ block' = block + 1 /\ pc' = FirstStep(scan) /\ UNCHANGED <<target, script, covered>>
        /\ block + 1 \in 1 .. Len(target) /\ (block + 1) - 1 = block
    BY <1>1, <1>2 DEF NextBlock
  <2> QED
    BY <1>1, <2>1, ToBlock
<1>3. CASE ~(block < Len(target))
  <2>1. /\ block' = 1 /\ pc' = "scan" /\ covered' = Append(covered, scan)
        /\ block = Len(target)
    BY <1>1, <1>3 DEF NextBlock
  <2>2. stream' = <<>>
    BY <1>1, <2>1, ScanAtEnd
  <2>3. \A b \in DOMAIN target, i \in Coeffs : mem'[b][i] = After(b, i)
    <3>1. \A b \in DOMAIN target : b < block + 1
      BY <1>1, <2>1
    <3> QED
      BY <3>1 DEF MemoryIs
  <2>4. MemoryIs(mem, 1, 0)'
    <3>1. \A b \in DOMAIN target : ~(b < 1)
      BY <1>1
    <3>2. \A i \in Coeffs : ~(i < 0)
      BY DEF Coeffs
    <3>3. \A b \in DOMAIN target, i \in Coeffs : mem'[b][i] = Before(b, i)'
      BY <1>1, <2>1, <2>3 DEF After, Before
    <3> QED
      BY <1>1, <3>1, <3>2, <3>3 DEF MemoryIs
  <2> QED
    BY <2>1, <2>2, <2>4 DEF Synced
<1> QED
  BY <1>2, <1>3

\* What a step inside a scan may rely on.
InScan(run) ==
    /\ Legal /\ Difference /\ MemoryIs(mem, block, Position)
    /\ Sendable(run, target, scan) /\ InStream(run)

\* The types of what a step inside a scan uses.
Typed ==
    /\ script # <<>> /\ scan \in Headers /\ target \in Seq(Blocks)
    /\ block \in 1 .. Len(target) /\ block \in DOMAIN target /\ block \in Nat /\ Len(target) \in Nat
    /\ Current \in Blocks /\ Current = target[block]
    /\ FirstAC(scan) \in Nat /\ scan.ss \in Nat /\ scan.se \in Nat /\ scan.ah \in Nat
    /\ scan.al \in Nat /\ bit \in Nat /\ bit > 0
    /\ k \in Nat /\ num_zeros \in Nat /\ eob_run \in Nat

\* TypeOK says so.
LEMMA TypedFacts ==
    ASSUME TypeOK, pc # "scan"
    PROVE  Typed
<1>1. target \in Seq(Blocks) /\ block \in DOMAIN target /\ k \in Nat /\ num_zeros \in Nat
      /\ eob_run \in Nat
  BY DEF TypeOK
<1>2. scan \in Headers /\ script # <<>> /\ bit \in Nat /\ bit > 0 /\ scan.al \in Nat
      /\ scan.ah \in Nat
  BY ScanFacts
<1>3. Len(target) \in Nat /\ block \in 1 .. Len(target) /\ block \in Nat /\ target[block] \in Blocks
  BY <1>1
<1>4. FirstAC(scan) \in Nat /\ scan.ss \in Nat /\ scan.se \in Nat
  BY <1>2, BandFacts
<1> QED
  BY <1>1, <1>2, <1>3, <1>4 DEF Typed, Current

\* Inside a scan the runs are known.
LEMMA ScanIsKnown ==
    ASSUME Synced, pc # "scan"
    PROVE  \E run : InScan(run)
BY DEF Synced, InScan

\* The invariant holds at first.
LEMMA InitSynced == Init => SyncInv
<1> SUFFICES ASSUME Init PROVE SyncInv
    OBVIOUS
<1>1. IInv
  BY Initial
<1>2. PICK f \in Files : target = f.blocks /\ script = f.script /\ covered = <<>>
  BY DEF Init
<1>3. script \in Seq(Headers)
  BY <1>1 DEF IInv, TypeOK
<1>4. InOrder
  <2>1. covered \o script = script
    BY <1>2, <1>3, ConcatEmptySeq
  <2> QED
    BY <1>2, <2>1 DEF InOrder
<1>5. Synced
  <2>1. MemoryIs(mem, 1, 0)
    <3>1. \A b \in DOMAIN target : ~(b < 1)
      BY <1>1 DEF IInv, TypeOK
    <3>2. \A i \in Coeffs : ~(i < 0)
      BY DEF Coeffs
    <3>3. \A b \in DOMAIN target, i \in Coeffs : mem[b][i] = 0
      BY DEF Init
    <3>4. \A b \in DOMAIN target, i \in Coeffs : Before(b, i) = 0
      <4>1. \A n \in DOMAIN covered : FALSE
        BY <1>2
      <4> QED
        BY <4>1, KnownNone DEF Before
    <3> QED
      BY <3>1, <3>2, <3>3, <3>4 DEF MemoryIs
  <2> QED
    BY <2>1 DEF Init, Synced
<1> QED
  BY <1>1, <1>4, <1>5 DEF SyncInv

\* The header at the head of the script is the next one of the file.
IsNext(f, n) ==
    /\ n = Len(covered) + 1 /\ n \in DOMAIN f.script /\ f.script[n] = scan /\ n \in Nat
    /\ \A m \in 1 .. n - 1 : m \in DOMAIN covered /\ f.script[m] = covered[m]
    /\ \A m \in DOMAIN covered : m \in 1 .. n - 1

\* There is such a number.
LEMMA NextHeader ==
    ASSUME TypeOK, script # <<>>, NEW f \in Files, covered \o script = f.script
    PROVE  \E n : IsNext(f, n)
<1>1. covered \in Seq(Headers) /\ script \in Seq(Headers)
  BY DEF TypeOK
<1>2. PICK c \in Nat, s \in Nat : c = Len(covered) /\ s = Len(script) /\ s > 0
  BY <1>1
<1>3. /\ covered \o script \in Seq(Headers) /\ Len(covered \o script) = c + s
      /\ \A i \in 1 .. c + s : (covered \o script)[i] = IF i <= c THEN covered[i] ELSE script[i - c]
  BY <1>1, <1>2, ConcatProperties
<1>4. DOMAIN f.script = 1 .. c + s /\ DOMAIN covered = 1 .. c
  BY <1>1, <1>2, <1>3, LenProperties
<1>5. c + 1 \in 1 .. c + s /\ ~(c + 1 <= c) /\ (c + 1) - c = 1 /\ scan = script[1]
  BY <1>1, <1>2 DEF scan
<1>6. f.script[c + 1] = scan
  BY <1>3, <1>5
<1>7. \A m \in 1 .. (c + 1) - 1 : m \in 1 .. c /\ m \in 1 .. c + s /\ m <= c
  BY <1>2
<1>8. IsNext(f, c + 1)
  BY <1>2, <1>3, <1>4, <1>5, <1>6, <1>7 DEF IsNext
<1> QED
  BY <1>8

\* It may follow the scans before it.
LEMMA LegalNext ==
    ASSUME TypeOK, script # <<>>, NEW f \in Files, NEW n, IsNext(f, n), LegalScan(f.script, n)
    PROVE  Legal
<1>1. f.script[n] = scan
  BY DEF IsNext
<1>2. /\ scan.run < 2^MaxRun
      /\ scan.ss = 0 /\ scan.se > 0 => scan.ah = 0 /\ scan.run = 1
      /\ scan.ah > 0 => scan.ah = scan.al + 1
  BY <1>1 DEF LegalScan
<1>3. ASSUME NEW i \in scan.ss .. scan.se, scan.ah = 0, NEW m \in DOMAIN covered
      PROVE  i \notin covered[m].ss .. covered[m].se
  <2>1. m \in 1 .. n - 1 /\ f.script[m] = covered[m]
    BY DEF IsNext
  <2>2. i \notin f.script[m].ss .. f.script[m].se
    BY <1>1, <1>3, <2>1 DEF LegalScan
  <2> QED
    BY <2>1, <2>2
<1>4. ASSUME NEW i \in scan.ss .. scan.se, scan.ah # 0
      PROVE  \E m \in DOMAIN covered :
                  /\ i \in covered[m].ss .. covered[m].se /\ covered[m].al = scan.ah
                  /\ \A l \in DOMAIN covered : l > m => i \notin covered[l].ss .. covered[l].se
  <2>1. PICK m \in 1 .. n - 1 :
            /\ i \in f.script[m].ss .. f.script[m].se /\ f.script[m].al = scan.ah
            /\ \A l \in m + 1 .. n - 1 : i \notin f.script[l].ss .. f.script[l].se
    BY <1>1, <1>4 DEF LegalScan
  <2>2. m \in DOMAIN covered /\ f.script[m] = covered[m] /\ n \in Nat
    BY DEF IsNext
  <2>3. \A l \in DOMAIN covered : l > m => l \in m + 1 .. n - 1 /\ f.script[l] = covered[l]
    <3>1. \A l \in DOMAIN covered : l \in 1 .. n - 1 /\ f.script[l] = covered[l]
      BY DEF IsNext
    <3> QED
      BY <2>2, <3>1
  <2> QED
    BY <2>1, <2>2, <2>3
<1> QED
  BY <1>2, <1>3, <1>4 DEF Legal

\* A scan starts with all its tokens unread.
LEMMA StartScanSyncs ==
    ASSUME IInv, InOrder, Synced, StartScan, Intact'
    PROVE  Synced'
<1>1. TypeOK /\ pc = "scan" /\ script # <<>> /\ UNCHANGED <<target, script, covered, mem>>
      /\ stream' \in Streams(target, scan) /\ pc' = FirstStep(scan) /\ block' = 1
      /\ eob_run' = 0 /\ diff_dc' = 0
  BY DEF IInv, StartScan
<1>2. PICK f \in Files : target = f.blocks /\ covered \o script = f.script
  BY DEF InOrder
<1>3. PICK n : IsNext(f, n)
  BY <1>1, <1>2, NextHeader
<1>4. \A m \in 1 .. n : f.script[m].run > 0
  <2>1. pc' # "scan"
    BY <1>1 DEF FirstStep
  <2>2. (\A m \in DOMAIN covered : covered[m].run > 0) /\ scan.run > 0
    BY <1>1, <2>1 DEF Intact, scan
  <2>3. \A m \in 1 .. n : m = n \/ m \in 1 .. n - 1
    BY <1>3 DEF IsNext
  <2>4. f.script[n] = scan /\ \A m \in 1 .. n - 1 : m \in DOMAIN covered /\ f.script[m] = covered[m]
    BY <1>3 DEF IsNext
  <2> QED
    BY <2>2, <2>3, <2>4
<1>5. LegalScan(f.script, n) /\ stream' \in Encodings(target, scan)
  <2>1. n \in DOMAIN f.script /\ f.script[n] = scan
    BY <1>3 DEF IsNext
  <2> QED
    BY <1>1, <1>2, <1>4, <2>1, EncoderAssumption
<1>6. Legal
  BY <1>1, <1>3, <1>5, LegalNext
<1>7. scan \in Headers /\ target \in Seq(Blocks) /\ 1 \in 1 .. Len(target)
  <2>1. target \in Seq(Blocks) /\ target # <<>>
    BY <1>1 DEF TypeOK
  <2> QED
    BY <1>1, <2>1, ScanFacts
<1>8. PICK run : Sendable(run, target, scan) /\ ScanRest(stream', target, scan, run, 1)
  BY <1>5, <1>6, <1>7, ScanFromStart DEF Legal
<1>9. MemoryIs(mem', 1, 0)
  BY <1>1 DEF Synced
<1>10. diff_dc' = DC(target, scan, 1 - 1)
  BY <1>1 DEF DC
<1>11. Left(run, 1, eob_run')
  BY <1>1, NoneLeftAtFirst
<1> QED
  BY <1>1, <1>6, <1>7, <1>8, <1>9, <1>10, <1>11, ToBlock

-----------------------------------------------------------------------------

\* A scan of the DC value alone has no runs of blocks.
LEMMA EmptyBand ==
    ASSUME NEW bs \in Seq(Blocks), NEW s \in Headers, NEW run \in Runs(bs, s),
           NEW b \in 1 .. Len(bs), FirstAC(s) = s.se + 1, NEW n, Left(run, b, n)
    PROVE  Left(run, b + 1, n)
<1>0. Len(bs) \in Nat /\ b \in Nat /\ n \in Nat
  BY LenProperties DEF Left
<1>1. \A a \in 1 .. Len(bs) : ~(LastCoded(bs[a], s) < s.se)
  <2>1. SUFFICES ASSUME NEW a \in 1 .. Len(bs) PROVE ~(LastCoded(bs[a], s) < s.se)
    OBVIOUS
  <2>2. bs[a] \in Blocks
    BY <2>1, ElementOfSeq
  <2> QED
    BY <2>2, LastFacts, BandFacts
<1>2. n = 0
  <2>1. SUFFICES ASSUME n # 0 PROVE FALSE
    OBVIOUS
  <2>2. PICK a \in 1 .. b - 1 : a + run[a] = b + n
    BY <1>0, <2>1 DEF Left
  <2>3. a \in 1 .. Len(bs) /\ run[a] > 0
    <3>1. a \in 1 .. Len(bs)
      BY <1>0
    <3>2. run[a] \in Nat
      BY <3>1, RunTypes
    <3> QED
      BY <1>0, <2>2, <3>1, <3>2
  <2> QED
    BY <1>1, <2>3, RunTypes
<1>3. /\ run[b] \in Nat
      /\ run[b] > 0 => LastCoded(bs[b], s) < s.se
      /\ run[b] = 0 => Left(run, b + 1, 0)
  BY <1>2, LeftOutside
<1> QED
  BY <1>1, <1>2, <1>3

\* The difference of two DC values.
DifferenceAhead(q, n, d) ==
    /\ d = DC(target, scan, block) - DC(target, scan, block - 1)
    /\ Reads("symbol") /\ Head(stream).size = n /\ n \in Nat
    /\ ReadsBits(1, n) /\ Unread(1, n) = q
    /\ d = IF n = 0 THEN 0 ELSE twos_complement(n, BitsRead(1, n))

\* The difference is there.
LEMMA DCAhead ==
    ASSUME TypeOK, pc = "dc", scan.ss = 0, scan.ah = 0, NEW run, InScan(run)
    PROVE  \E q, n, d : /\ DifferenceAhead(q, n, d)
                        /\ Rests(q, target, scan, run, block, FirstAC(scan))
<1>0. Typed
  BY TypedFacts
<1>1. IsNextBlock(stream, target, scan, run, block)
  BY <1>0, ScanNext DEF InScan, InStream, Typed
<1>2. PICK q \in Seq(Tokens) :
          /\ stream = DCTokens(target, scan, block) \o q
          /\ Rests(q, target, scan, run, block, FirstAC(scan))
  BY <1>1 DEF IsNextBlock
<1>3. PICK d \in Int : d = DC(target, scan, block) - DC(target, scan, block - 1)
  BY <1>0, DCFacts DEF Typed
<1>4. CASE d = 0
  <2>1. DCTokens(target, scan, block) = <<Symbol(0, SizeOf(0))>> \o <<>>
    <3>1. DC(target, scan, block) - DC(target, scan, block - 1) = 0
      BY <1>3, <1>4
    <3>2. ~(scan.ss > 0) /\ ~(scan.ah > 0)
      OBVIOUS
    <3> QED
      BY <3>1, <3>2, Zenon DEF DCTokens
  <2>2. SizeOf(0) = 0
    <3>1. SizeOf(0) \in Nat
      BY SizeFacts DEF IsSize
    <3> QED
      BY <3>1, SizeOfZero
  <2>3. PICK z \in 0 .. MaxRun, m \in Nat : z = 0 /\ m = 0
    BY SizeAssumption
  <2>4. PICK t \in Seq(Tokens) : t = <<Symbol(z, m)>>
    BY <2>3, TokenFacts, ShortSequences
  <2>5. t \o <<>> = t
    BY ConcatEmptySeq
  <2>6. stream = <<Symbol(z, m)>> \o q
    BY <1>2, <2>1, <2>2, <2>3, <2>4, <2>5, Zenon
  <2>7. Reads("symbol") /\ Head(stream).size = 0 /\ Unread(1, 0) = q
    <3>1. Reads("symbol") /\ Head(stream).size = m /\ Unread(1, 0) = q
      BY <2>6, ReadAlone
    <3> QED
      BY <2>3, <3>1
  <2>8. ReadsBits(1, 0)
    BY DEF ReadsBits
  <2>9. DifferenceAhead(q, 0, d)
    BY <1>3, <1>4, <2>7, <2>8 DEF DifferenceAhead
  <2> QED
    BY <1>2, <2>9
<1>5. CASE d # 0
  <2>1. DCTokens(target, scan, block) = <<Symbol(0, SizeOf(d))>> \o <<ValueBits(d)>>
    BY <1>3, <1>5 DEF DCTokens
  <2>2. PICK n \in Nat, w \in Nat : ValueBits(d) = Bits(n, w) /\ IsRead(d, n, w)
    BY <1>5, ValueRead
  <2>3. n = SizeOf(d) /\ n > 0 /\ twos_complement(n, w) = d /\ 0 \in 0 .. MaxRun
    BY <2>2, SizeAssumption DEF IsRead
  <2>4. <<Symbol(0, n)>> \o <<Bits(n, w)>> = <<Symbol(0, n), Bits(n, w)>>
    BY <2>3, TokenFacts, Pair
  <2>5. stream = <<Symbol(0, n), Bits(n, w)>> \o q
    BY <1>2, <2>1, <2>2, <2>3, <2>4, Zenon
  <2>6. /\ Reads("symbol") /\ Head(stream).size = n
        /\ ReadsBits(1, n) /\ BitsRead(1, n) = w /\ Unread(1, n) = q
    BY <2>3, <2>5, ReadWithBits
  <2>7. DifferenceAhead(q, n, d)
    BY <1>3, <2>2, <2>3, <2>6 DEF DifferenceAhead
  <2> QED
    BY <1>2, <2>7
<1> QED
  BY <1>4, <1>5

\* A bit of a DC value.
LEMMA DCBitAhead ==
    ASSUME TypeOK, pc = "dc", scan.ss = 0, scan.ah > 0, NEW run, InScan(run)
    PROVE  /\ ReadsBits(0, 1) /\ BitsRead(0, 1) = DC(target, scan, block) % 2
           /\ DC(target, scan, block) \in Int
           /\ Rests(Tail(stream), target, scan, run, block, FirstAC(scan))
<1>0. Typed
  BY TypedFacts
<1>1. IsNextBlock(stream, target, scan, run, block)
  BY <1>0, ScanNext DEF InScan, InStream, Typed
<1>2. PICK q \in Seq(Tokens) :
          /\ stream = DCTokens(target, scan, block) \o q
          /\ Rests(q, target, scan, run, block, FirstAC(scan))
  BY <1>1 DEF IsNextBlock
<1>3. PICK d \in Int : d = DC(target, scan, block)
  BY <1>0, DCFacts DEF Typed
<1>4. d % 2 \in Nat
  OBVIOUS
<1>5. stream = <<Bits(1, d % 2)>> \o q
  BY <1>2, <1>3 DEF DCTokens
<1>6. ReadsBits(0, 1) /\ BitsRead(0, 1) = d % 2 /\ Tail(stream) = q
  BY <1>4, <1>5, ReadABit
<1> QED
  BY <1>2, <1>3, <1>6

\* A step to the band of the block.
LEMMA ToBand ==
    ASSUME TypeOK, pc = "dc", Legal, SameBlock, pc' = "band", scan.ah = 0,
           NEW run, Sendable(run, target, scan),
           Rests(stream', target, scan, run, block, FirstAC(scan)), Left(run, block, eob_run'),
           MemoryIs(mem', block, FirstAC(scan)),
           scan.ss = 0 /\ scan.ah = 0 => diff_dc' = DC(target, scan, block)
    PROVE  Synced'
<1>1. scan' = scan /\ Legal' /\ target' = target /\ block' = block
  BY SameScan DEF SameBlock
<1>2. MemoryIs(mem, block, Position)'
  BY <1>1, SameScan DEF SameBlock, Position
<1>3. Difference'
  BY <1>1 DEF Difference
<1>4. Sendable(run, target', scan') /\ InStream(run)'
  BY <1>1 DEF InStream
<1> QED
  BY <1>1, <1>2, <1>3, <1>4 DEF Synced

\* A block that ends with its DC value.
LEMMA ToNextDC ==
    ASSUME TypeOK, pc = "dc", Legal, NextBlock, scan.ss = 0, scan.se = 0,
           NEW run, Sendable(run, target, scan),
           Rests(stream', target, scan, run, block, 1), Left(run, block, eob_run'),
           MemoryIs(mem', block, 1),
           scan.ah = 0 => diff_dc' = DC(target, scan, block)
    PROVE  Synced'
<1>0. Typed /\ pc # "scan"
  BY TypedFacts
<1>1. scan.se + 1 = 1 /\ FirstAC(scan) = scan.se + 1
  BY DEF FirstAC
<1>2. ScanRest(stream', target, scan, run, block + 1)
  BY <1>0, <1>1, RestsAtEnd DEF Typed
<1>3. Left(run, block + 1, eob_run')
  BY <1>0, <1>1, EmptyBand DEF Typed, Sendable
<1>4. MemoryIs(mem', block + 1, 0)
  BY <1>0, <1>1, MemoryEnds DEF Typed
<1> QED
  BY <1>0, <1>2, <1>3, <1>4, ToNextBlock

\* The first scan of the DC value adds the difference to the last value,
LEMMA DecodeDCSyncs ==
    ASSUME IInv, Synced, DecodeDC
    PROVE  Synced'
<1>0. TypeOK /\ pc = "dc" /\ scan.ss = 0 /\ scan.ah = 0 /\ Typed
  BY TypedFacts DEF IInv, InBand, DecodeDC
<1>1. PICK run : InScan(run)
  BY <1>0, ScanIsKnown
<1>2. PICK q, n, d : DifferenceAhead(q, n, d) /\ Rests(q, target, scan, run, block, FirstAC(scan))
  BY <1>0, <1>1, DCAhead
<1>3. stream' = q /\ diff_dc' = diff_dc + d
  BY <1>2 DEF DifferenceAhead, DecodeDC
<1>4. diff_dc' = DC(target, scan, block) /\ DC(target, scan, block) \in Int
  <2>1. PICK c \in Int, e \in Int : c = DC(target, scan, block) /\ e = DC(target, scan, block - 1)
    BY <1>0, DCFacts DEF Typed
  <2>2. diff_dc = e
    BY <1>0, <1>1, <2>1 DEF InScan, Difference
  <2>3. d = c - e
    BY <1>2, <2>1 DEF DifferenceAhead
  <2> QED
    BY <1>3, <2>1, <2>2, <2>3
<1>5. MemoryIs(mem', block, 1)
  <2>1. 0 \in Coeffs /\ 0 \in scan.ss .. scan.se
    BY <1>0, SizeAssumption DEF Coeffs, Typed
  <2>2. IsNews(block, 0)
    BY <1>0, <1>1, <2>1, News DEF Typed, InScan
  <2>3. After(block, 0) = DC(target, scan, block) * bit
    BY <1>0, <2>1, <2>2, DCFacts DEF IsNews, Typed
  <2>4. Store(0, After(block, 0))
    BY <1>4, <2>3 DEF DecodeDC
  <2>5. MemoryIs(mem, block, 0)
    BY <1>0, <1>1 DEF InScan, Position
  <2>6. After(block, 0) \in Int
    BY <2>2 DEF IsNews
  <2>7. MemoryIs(mem', block, 0 + 1)
    BY <1>0, <2>1, <2>4, <2>5, <2>6, MemoryStores
  <2> QED
    BY <2>7
<1>6. FirstAC(scan) = 1
  BY <1>0 DEF FirstAC
<1>7. Left(run, block, eob_run') /\ Legal /\ Sendable(run, target, scan)
  BY <1>0, <1>1 DEF InScan, InStream, DecodeDC
<1>8. CASE scan.se = 0
  <2>1. NextBlock
    BY <1>8 DEF DecodeDC
  <2> QED
    BY <1>0, <1>2, <1>3, <1>4, <1>5, <1>6, <1>7, <1>8, <2>1, ToNextDC
<1>9. CASE scan.se # 0
  <2>1. pc' = "band" /\ SameBlock
    BY <1>9 DEF DecodeDC
  <2> QED
    BY <1>0, <1>2, <1>3, <1>4, <1>5, <1>6, <1>7, <2>1, ToBand
<1> QED
  BY <1>8, <1>9

\* a later one adds a bit.
LEMMA RefineDCSyncs ==
    ASSUME IInv, Synced, RefineDC
    PROVE  Synced'
<1>0. TypeOK /\ pc = "dc" /\ scan.ss = 0 /\ scan.ah > 0 /\ Typed
  BY TypedFacts DEF IInv, InBand, RefineDC
<1>1. PICK run : InScan(run)
  BY <1>0, ScanIsKnown
<1>2. scan.se = 0 /\ scan.ah = scan.al + 1
  BY <1>0, <1>1 DEF InScan, Legal, Typed
<1>3. PICK c \in Int : /\ c = DC(target, scan, block) /\ BitsRead(0, 1) = c % 2
                       /\ Rests(Tail(stream), target, scan, run, block, FirstAC(scan))
  BY <1>0, <1>1, DCBitAhead
<1>4. MemoryIs(mem', block, 1)
  <2>1. 0 \in Coeffs /\ 0 \in scan.ss .. scan.se
    BY <1>0, SizeAssumption DEF Coeffs, Typed
  <2>2. IsNews(block, 0)
    BY <1>0, <1>1, <2>1, News DEF Typed, InScan
  <2>3. PICK v \in Int, p \in Nat, al \in Nat :
            v = target[block][0] /\ p = bit /\ al = scan.al /\ p = 2^al
    BY <1>0, DCFacts DEF Typed, bit
  <2>4. After(block, 0) = c * p
    BY <1>0, <1>3, <2>1, <2>2, <2>3, DCFacts DEF IsNews, Typed
  <2>5. PICK h \in Int, b \in {0, 1} : /\ h = PointTransform(v, 0, al + 1)
                                       /\ b = c % 2 /\ c = 2 * h + b
    <3>1. c = PointTransform(v, 0, al)
      BY <1>0, <1>3, <2>3, DCFacts DEF Typed
    <3>2. /\ PointTransform(v, 0, al) % 2 \in {0, 1} /\ PointTransform(v, 0, al + 1) \in Int
          /\ PointTransform(v, 0, al) =
                 2 * PointTransform(v, 0, al + 1) + (PointTransform(v, 0, al) % 2)
      BY RefinedDC, Zenon
    <3> QED
      BY <3>1, <3>2
  <2>6. Before(block, 0) = h * (2 * p)
    <3>1. 2^(al + 1) = 2 * p
      BY <2>3, PowerNext
    <3> QED
      BY <1>0, <1>2, <2>1, <2>2, <2>3, <2>5, <3>1 DEF IsNews
  <2>7. MemoryIs(mem, block, 0)
    BY <1>0, <1>1 DEF InScan, Position
  <2>8. mem[block][0] = Before(block, 0)
    BY <1>0, <2>1, <2>7 DEF MemoryIs, Typed
  <2>9. mem[block][0] + BitsRead(0, 1) * bit = After(block, 0)
    <3>1. (2 * h + b) * p = h * (2 * p) + b * p
      OBVIOUS
    <3> QED
      BY <1>3, <2>3, <2>4, <2>5, <2>6, <2>8, <3>1
  <2>10. Store(0, After(block, 0))
    BY <2>9 DEF RefineDC
  <2>11. After(block, 0) \in Int
    BY <2>2 DEF IsNews
  <2>12. MemoryIs(mem', block, 0 + 1)
    BY <1>0, <2>1, <2>7, <2>10, <2>11, MemoryStores
  <2> QED
    BY <2>12
<1>5. FirstAC(scan) = 1
  BY <1>0 DEF FirstAC
<1>6. Left(run, block, eob_run') /\ Legal /\ Sendable(run, target, scan)
  BY <1>0, <1>1 DEF InScan, InStream, RefineDC
<1>7. stream' = Tail(stream) /\ NextBlock /\ ~(scan.ah = 0)
  BY <1>0 DEF RefineDC
<1> QED
  BY <1>0, <1>2, <1>3, <1>4, <1>5, <1>6, <1>7, ToNextDC

-----------------------------------------------------------------------------

\* Behind the last coded coefficient a first scan has zeros only, and no symbol.
LEMMA NothingCoded ==
    ASSUME TypeOK, pc # "scan", NEW run, NEW i \in FirstAC(scan) .. scan.se + 1,
           i > LastCoded(Current, scan)
    PROVE  /\ \A j \in i .. (scan.se + 1) - 1 : ~Coded(Current, j, scan)
           /\ i > LastCoded(Current, scan) + 1 \/ run[block] = 0 =>
                  \A j \in i .. (scan.se + 1) - 1 : SymbolTokens(Current, j, scan, run[block]) = <<>>
<1>0. Typed
  BY TypedFacts
<1>1. /\ LastCoded(Current, scan) \in Nat
      /\ \A j \in FirstAC(scan) .. scan.se : Coded(Current, j, scan) => j <= LastCoded(Current, scan)
  BY <1>0, LastFacts DEF Typed
<1>2. ASSUME NEW j \in i .. (scan.se + 1) - 1
      PROVE  /\ ~(j <= LastCoded(Current, scan)) /\ j \in FirstAC(scan) .. scan.se
             /\ i > LastCoded(Current, scan) + 1 => j # LastCoded(Current, scan) + 1
  BY <1>0, <1>1 DEF Typed
<1>3. \A j \in i .. (scan.se + 1) - 1 : ~Coded(Current, j, scan)
  BY <1>1, <1>2
<1>4. ASSUME i > LastCoded(Current, scan) + 1 \/ run[block] = 0,
             NEW j \in i .. (scan.se + 1) - 1
      PROVE  SymbolTokens(Current, j, scan, run[block]) = <<>>
  BY <1>2, <1>4 DEF SymbolTokens
<1> QED
  BY <1>3, <1>4

\* The rest of such a block adds nothing.
LEMMA MemoryToEnd ==
    ASSUME TypeOK, pc # "scan", Legal, scan.ah = 0, NEW run,
           NEW m, NEW i \in FirstAC(scan) .. scan.se + 1, i > LastCoded(Current, scan),
           MemoryIs(m, block, i)
    PROVE  MemoryIs(m, block + 1, 0)
<1>0. Typed
  BY TypedFacts
<1>1. scan.se + 1 \in i .. scan.se + 1
  BY <1>0 DEF Typed
<1>2. \A j \in i .. (scan.se + 1) - 1 :
          ~Coded(target[block], j, scan) /\ ~Nonzero(target[block], j, scan)
  BY <1>0, NothingCoded DEF Nonzero, Current
<1>3. MemoryIs(m, block, scan.se + 1)
  BY <1>0, <1>1, <1>2, MemoryPasses DEF Typed
<1> QED
  BY <1>0, <1>3, MemoryEnds DEF Typed

\* Of a block inside a run nothing is read.
LEMMA SkipBlockSyncs ==
    ASSUME IInv, Synced, SkipBlock
    PROVE  Synced'
<1>0. TypeOK /\ pc = "band" /\ scan.ah = 0 /\ Typed /\ eob_run > 0
  BY TypedFacts DEF IInv, SkipBlock
<1>1. PICK run : InScan(run)
  BY <1>0, ScanIsKnown
<1>2. /\ Rests(stream, target, scan, run, block, FirstAC(scan)) /\ Left(run, block, eob_run)
      /\ Sendable(run, target, scan) /\ Legal /\ MemoryIs(mem, block, FirstAC(scan))
      /\ run \in Runs(target, scan)
  BY <1>0, <1>1 DEF InScan, InStream, Position, Sendable
<1>3. /\ run[block] = 0 /\ LastCoded(Current, scan) < FirstAC(scan)
      /\ Left(run, block + 1, eob_run - 1)
  BY <1>0, <1>2, LeftInside DEF Typed
<1>4. /\ FirstAC(scan) \in FirstAC(scan) .. scan.se + 1 /\ FirstAC(scan) > LastCoded(Current, scan)
      /\ scan.se + 1 \in FirstAC(scan) .. scan.se + 1
  BY <1>0, <1>3, BandFacts, LastFacts DEF Typed
<1>5. ScanRest(stream, target, scan, run, block + 1)
  <2>1. \A j \in FirstAC(scan) .. (scan.se + 1) - 1 :
            SymbolTokens(target[block], j, scan, run[block]) = <<>>
    BY <1>0, <1>3, <1>4, NothingCoded DEF Current
  <2>2. Rests(stream, target, scan, run, block, scan.se + 1)
    BY <1>0, <1>2, <1>4, <2>1, RestsSkip DEF Typed
  <2> QED
    BY <1>0, <1>2, <2>2, RestsAtEnd DEF Typed
<1>6. MemoryIs(mem, block + 1, 0)
  BY <1>0, <1>2, <1>4, MemoryToEnd
<1>7. diff_dc' = diff_dc /\ mem' = mem /\ stream' = stream /\ eob_run' = eob_run - 1 /\ NextBlock
  BY DEF SkipBlock
<1>8. scan.ss = 0 /\ scan.ah = 0 => diff_dc' = DC(target, scan, block)
  BY <1>0, <1>1, <1>7 DEF InScan, Difference
<1> QED
  BY <1>0, <1>2, <1>3, <1>5, <1>6, <1>7, <1>8, ToNextBlock

\* At the first coefficient of a block outside a run a symbol begins, or the band is empty.
LEMMA BandBegins ==
    ASSUME TypeOK, pc # "scan", NEW run, Sendable(run, target, scan),
           NEW t, Rests(t, target, scan, run, block, FirstAC(scan)), Left(run, block, 0)
    PROVE  AtSymbol(run, t, FirstAC(scan), 0)
<1>0. Typed /\ run \in Runs(target, scan)
  BY TypedFacts DEF Sendable
<1>1. FirstAC(scan) \in FirstAC(scan) .. scan.se + 1
  BY <1>0, BandFacts DEF Typed
<1>2. FirstAC(scan) <= LastCoded(Current, scan) + 1
  BY <1>0, LastFacts DEF Typed
<1>3. BeginsSymbol(Current, FirstAC(scan), scan)
  BY DEF BeginsSymbol
<1>4. FirstAC(scan) > scan.se => Left(run, block + 1, 0)
  <2>1. FirstAC(scan) > scan.se => FirstAC(scan) = scan.se + 1
    BY <1>0, <1>1 DEF Typed
  <2> QED
    BY <1>0, <2>1, EmptyBand DEF Typed
<1> QED
  BY <1>1, <1>2, <1>3, <1>4 DEF AtSymbol

\* So the loop over the band starts in step,
LEMMA StartBandSyncs ==
    ASSUME IInv, Synced, StartBand
    PROVE  Synced'
<1>0. TypeOK /\ pc = "band" /\ scan.ah = 0 /\ Typed /\ eob_run = 0 /\ SameBlock
      /\ k' = FirstAC(scan) /\ pc' = "ac" /\ UNCHANGED <<stream, eob_run, diff_dc, mem>>
  BY TypedFacts DEF IInv, StartBand, FirstAC
<1>1. PICK run : InScan(run)
  BY <1>0, ScanIsKnown
<1>2. /\ Rests(stream, target, scan, run, block, FirstAC(scan)) /\ Left(run, block, 0)
      /\ Sendable(run, target, scan) /\ Legal /\ MemoryIs(mem, block, FirstAC(scan))
      /\ Difference
  BY <1>0, <1>1 DEF InScan, InStream, Position
<1>3. AtSymbol(run, stream, FirstAC(scan), 0)
  BY <1>0, <1>2, BandBegins
<1> QED
  BY <1>0, <1>2, <1>3, ToSymbol

\* and it ends in step.
LEMMA EndBandSyncs ==
    ASSUME IInv, Synced, EndBand
    PROVE  Synced'
<1>0. TypeOK /\ pc \in {"ac", "sbh"} /\ Typed /\ k > scan.se /\ NextBlock /\ pc # "scan"
      /\ UNCHANGED <<stream, eob_run, diff_dc, mem>>
  BY TypedFacts DEF IInv, EndBand
<1>1. PICK run : InScan(run)
  BY <1>0, ScanIsKnown
<1>2. /\ AtSymbol(run, stream, k, eob_run)
      /\ Sendable(run, target, scan) /\ Legal /\ MemoryIs(mem, block, k) /\ Difference
  BY <1>0, <1>1 DEF InScan, InStream, Position
<1>3. k = scan.se + 1 /\ Left(run, block + 1, eob_run)
  BY <1>0, <1>2 DEF AtSymbol, Typed
<1>4. ScanRest(stream, target, scan, run, block + 1)
  BY <1>0, <1>2, <1>3, RestsAtEnd DEF AtSymbol, Typed
<1>5. MemoryIs(mem, block + 1, 0)
  BY <1>0, <1>2, <1>3, MemoryEnds DEF Typed
<1>6. scan.ss = 0 /\ scan.ah = 0 => diff_dc' = DC(target, scan, block)
  BY <1>0, <1>2 DEF Difference
<1> QED
  BY <1>0, <1>2, <1>3, <1>4, <1>5, <1>6, ToNextBlock

-----------------------------------------------------------------------------
(***************************************************************************)
(* The first scan of AC coefficients                                       *)
(***************************************************************************)

\* A symbol ends inside the band.
LEMMA SymbolRange ==
    ASSUME TypeOK, pc # "scan", NEW i \in FirstAC(scan) .. scan.se + 1,
           NEW e, IsSymbol(Current, i, e, scan)
    PROVE  /\ e \in Nat /\ i \in Nat /\ i <= e /\ e <= LastCoded(Current, scan)
           /\ LastCoded(Current, scan) \in Nat /\ LastCoded(Current, scan) <= scan.se
           /\ e \in FirstAC(scan) .. scan.se /\ e \in i .. scan.se
           /\ e + 1 \in FirstAC(scan) .. scan.se + 1
           /\ e \in Coeffs /\ e # 0
           /\ i \in FirstAC(scan) .. scan.se
<1>0. Typed
  BY TypedFacts
<1>1. LastCoded(Current, scan) \in Nat /\ LastCoded(Current, scan) <= scan.se
  BY <1>0, LastFacts DEF Typed
<1>2. e \in i .. LastCoded(Current, scan)
  BY DEF IsSymbol
<1>3. /\ e \in Nat /\ i \in Nat /\ i <= e /\ e <= LastCoded(Current, scan)
      /\ e \in FirstAC(scan) .. scan.se /\ e \in i .. scan.se
      /\ e + 1 \in FirstAC(scan) .. scan.se + 1 /\ i \in FirstAC(scan) .. scan.se
  BY <1>0, <1>1, <1>2 DEF Typed
<1>4. e \in Coeffs /\ e # 0
  BY <1>0, <1>3, BandFacts DEF Typed
<1> QED
  BY <1>1, <1>3, <1>4

\* Inside a symbol no other one begins.
LEMMA NoSymbolInside ==
    ASSUME TypeOK, pc # "scan", NEW i \in FirstAC(scan) .. scan.se + 1,
           NEW e, IsSymbol(Current, i, e, scan), NEW n
    PROVE  \A l \in i + 1 .. e : SymbolTokens(Current, l, scan, n) = <<>>
<1>0. Typed
  BY TypedFacts
<1>1. /\ e \in Nat /\ i \in Nat /\ e <= LastCoded(Current, scan)
      /\ LastCoded(Current, scan) \in Nat
  BY SymbolRange
<1>2. SUFFICES ASSUME NEW l \in i + 1 .. e
               PROVE  SymbolTokens(Current, l, scan, n) = <<>>
  OBVIOUS
<1>3. l <= LastCoded(Current, scan) /\ l # FirstAC(scan) /\ l - 1 \in i .. e - 1
  BY <1>0, <1>1, <1>2 DEF Typed
<1>4. ~BeginsSymbol(Current, l, scan)
  BY <1>3 DEF IsSymbol, BeginsSymbol
<1> QED
  BY <1>3, <1>4 DEF SymbolTokens

\* Behind a symbol the next one begins, or the band is at its end.
LEMMA BehindSymbol ==
    ASSUME TypeOK, pc # "scan", NEW run, Sendable(run, target, scan), Left(run, block, 0),
           NEW i \in FirstAC(scan) .. scan.se + 1, NEW e, IsSymbol(Current, i, e, scan),
           NEW t, Rests(t, target, scan, run, block, e + 1)
    PROVE  AtSymbol(run, t, e + 1, 0)
<1>0. Typed
  BY TypedFacts
<1>1. /\ e \in Nat /\ e <= LastCoded(Current, scan) /\ e + 1 \in FirstAC(scan) .. scan.se + 1
      /\ LastCoded(Current, scan) \in Nat /\ LastCoded(Current, scan) <= scan.se
  BY SymbolRange
<1>2. e + 1 <= LastCoded(Current, scan) + 1
  BY <1>1
<1>3. BeginsSymbol(Current, e + 1, scan)
  <2>1. (e + 1) - 1 = e
    BY <1>1
  <2> QED
    BY <2>1 DEF BeginsSymbol, IsSymbol
<1>4. ASSUME e + 1 > scan.se
      PROVE  Left(run, block + 1, 0)
  <2>1. ~(LastCoded(Current, scan) < scan.se)
    BY <1>0, <1>1, <1>4 DEF Typed
  <2>2. /\ run[block] \in Nat
        /\ run[block] > 0 => LastCoded(target[block], scan) < scan.se
        /\ run[block] = 0 => Left(run, block + 1, 0)
    BY <1>0, LeftOutside DEF Typed, Sendable
  <2> QED
    BY <2>1, <2>2 DEF Current
<1> QED
  BY <1>1, <1>2, <1>3, <1>4 DEF AtSymbol

\* In a first scan only the symbol itself has to be read.
LEMMA FirstScanSymbol ==
    ASSUME TypeOK, pc # "scan", scan.ah = 0, NEW run, Sendable(run, target, scan),
           Legal, NEW i \in FirstAC(scan) .. scan.se + 1, NEW e, IsSymbol(Current, i, e, scan),
           BeginsSymbol(Current, i, scan),
           NEW t \in Seq(Tokens), Behind(t, target, scan, run, block, i),
           NEW m, MemoryIs(m, block, i)
    PROVE  /\ Rests(t, target, scan, run, block, e + 1)
           /\ Zeros(Current, e, scan) = e - i
           /\ MemoryIs(m, block, e)
           /\ ~Coded(Current, e, scan) => MemoryIs(m, block, e + 1)
<1>0. Typed
  BY TypedFacts
<1>1. /\ e \in Nat /\ i \in Nat /\ i <= e /\ e \in FirstAC(scan) .. scan.se /\ e \in i .. scan.se
      /\ i \in FirstAC(scan) .. scan.se
  BY SymbolRange
<1>2. i + 1 \in FirstAC(scan) .. scan.se + 1 /\ e + 1 \in i + 1 .. scan.se + 1
      /\ (e + 1) - 1 = e /\ ~(i > scan.se) /\ e + 1 \in i .. scan.se + 1
  BY <1>0, <1>1 DEF Typed
<1>3. Rests(t, target, scan, run, block, i + 1)
  <2>1. CorrectionTokens(target[block], i, scan) = <<>>
    BY <1>0 DEF CorrectionTokens, Nonzero
  <2>2. PICK q \in Seq(Tokens) : t = <<>> \o q /\ Rests(q, target, scan, run, block, i + 1)
    BY <1>2, <2>1 DEF Behind
  <2>3. t = q
    BY <2>2, ConcatEmptySeq
  <2> QED
    BY <2>2, <2>3
<1>4. Rests(t, target, scan, run, block, e + 1)
  <2>1. \A l \in i + 1 .. (e + 1) - 1 : SymbolTokens(target[block], l, scan, run[block]) = <<>>
    BY <1>2, NoSymbolInside DEF Current
  <2> QED
    BY <1>0, <1>2, <1>3, <2>1, RestsSkip DEF Typed
<1>5. Zeros(Current, e, scan) = e - i
  <2>1. Zeros(Current, i, scan) = 0
    BY <1>0, <1>1, ZerosAtBegin DEF Typed
  <2>2. \A j \in i .. e - 1 : ~EndsSymbol(Current, j, scan)
    BY DEF IsSymbol
  <2>3. Zeros(Current, e, scan) = Zeros(Current, i, scan) + (e - i)
    BY <1>0, <1>1, <2>2, ZerosAddUp DEF Typed
  <2> QED
    BY <1>1, <2>1, <2>3
<1>6. \A j \in i .. e - 1 : ~Coded(target[block], j, scan) /\ ~Nonzero(target[block], j, scan)
  BY <1>0 DEF IsSymbol, EndsSymbol, Nonzero, Current
<1>7. e \in i .. scan.se + 1
  BY <1>0, <1>1 DEF Typed
<1>8. MemoryIs(m, block, e)
  BY <1>0, <1>6, <1>7, MemoryPasses DEF Typed
<1>9. ASSUME ~Coded(Current, e, scan)
      PROVE  MemoryIs(m, block, e + 1)
  <2>1. \A j \in i .. (e + 1) - 1 : j = e \/ j \in i .. e - 1
    BY <1>1
  <2>2. \A j \in i .. (e + 1) - 1 :
            ~Coded(target[block], j, scan) /\ ~Nonzero(target[block], j, scan)
    BY <1>0, <1>6, <1>9, <2>1 DEF Nonzero, Current
  <2> QED
    BY <1>0, <1>2, <2>2, MemoryPasses DEF Typed
<1> QED
  BY <1>4, <1>5, <1>8, <1>9

\* The end of the band in a first scan.
LEMMA FirstScanEnd ==
    ASSUME TypeOK, pc # "scan", scan.ah = 0, NEW run, Sendable(run, target, scan),
           Legal, NEW i \in FirstAC(scan) .. scan.se, i = LastCoded(Current, scan) + 1,
           NEW t \in Seq(Tokens), Behind(t, target, scan, run, block, i),
           NEW m, MemoryIs(m, block, i)
    PROVE  /\ ScanRest(t, target, scan, run, block + 1)
           /\ MemoryIs(m, block + 1, 0)
<1>0. Typed
  BY TypedFacts
<1>1. LastCoded(Current, scan) \in Nat
  BY <1>0, LastFacts DEF Typed
<1>2. /\ i \in FirstAC(scan) .. scan.se + 1 /\ i + 1 \in FirstAC(scan) .. scan.se + 1
      /\ scan.se + 1 \in i + 1 .. scan.se + 1
      /\ i > LastCoded(Current, scan) /\ i + 1 > LastCoded(Current, scan) + 1
      /\ i + 1 > LastCoded(Current, scan) /\ ~(i > scan.se)
  BY <1>0, <1>1 DEF Typed
<1>3. Rests(t, target, scan, run, block, i + 1)
  <2>1. CorrectionTokens(target[block], i, scan) = <<>>
    BY <1>0 DEF CorrectionTokens, Nonzero
  <2>2. PICK q \in Seq(Tokens) : t = <<>> \o q /\ Rests(q, target, scan, run, block, i + 1)
    BY <1>2, <2>1 DEF Behind
  <2>3. t = q
    BY <2>2, ConcatEmptySeq
  <2> QED
    BY <2>2, <2>3
<1>4. Rests(t, target, scan, run, block, scan.se + 1)
  <2>1. \A l \in i + 1 .. (scan.se + 1) - 1 :
            SymbolTokens(target[block], l, scan, run[block]) = <<>>
    BY <1>2, NothingCoded DEF Current
  <2> QED
    BY <1>0, <1>2, <1>3, <2>1, RestsSkip DEF Typed
<1>5. ScanRest(t, target, scan, run, block + 1)
  BY <1>0, <1>4, RestsAtEnd DEF Typed
<1>6. MemoryIs(m, block + 1, 0)
  BY <1>2, MemoryToEnd
<1> QED
  BY <1>5, <1>6

\* A symbol without a value passes zeros, or the rest of the block.
LEMMA DecodeZerosSyncs ==
    ASSUME IInv, Synced, DecodeZeros
    PROVE  Synced'
<1>0. TypeOK /\ pc = "ac" /\ pc # "scan" /\ Typed /\ k <= scan.se
      /\ Head(stream).size = 0 /\ UNCHANGED <<diff_dc, mem>>
  BY TypedFacts DEF IInv, DecodeZeros
<1>1. PICK run : InScan(run)
  BY <1>0, ScanIsKnown
<1>2. /\ AtSymbol(run, stream, k, eob_run) /\ scan.ah = 0
      /\ Sendable(run, target, scan) /\ Legal /\ MemoryIs(mem, block, k) /\ Difference
  BY <1>0, <1>1 DEF InScan, InStream, Position
<1>3. /\ k \in FirstAC(scan) .. scan.se + 1 /\ k \in FirstAC(scan) .. scan.se
      /\ eob_run = 0 /\ Left(run, block, 0) /\ BeginsSymbol(Current, k, scan)
  BY <1>0, <1>2 DEF AtSymbol, Typed
<1>4. CASE \E e, q, n, c : ValueAhead(run, e, q, n, c)
  <2>1. PICK e, q, n, c : ValueAhead(run, e, q, n, c)
    BY <1>4
  <2>2. Head(stream).size = n /\ n > 0 /\ n \in Nat
    BY <2>1 DEF ValueAhead
  <2> QED
    BY <1>0, <2>2
<1>5. CASE \E e, q : ZerosAhead(run, e, q)
  <2>1. PICK e, q : ZerosAhead(run, e, q)
    BY <1>5
  <2>2. /\ q \in Seq(Tokens) /\ Behind(q, target, scan, run, block, k)
        /\ IsSymbol(Current, k, e, scan) /\ ~Coded(Current, e, scan)
        /\ Head(stream).zeros = MaxRun /\ Tail(stream) = q
    BY <2>1 DEF ZerosAhead, LeadsTo
  <2>3. e \in Nat /\ e \in FirstAC(scan) .. scan.se
    BY <1>0, <1>3, <2>2, SymbolRange
  <2>4. /\ Rests(q, target, scan, run, block, e + 1)
        /\ Zeros(Current, e, scan) = e - k
        /\ MemoryIs(mem, block, e + 1)
    BY <1>0, <1>2, <1>3, <2>2, FirstScanSymbol
  <2>5. Zeros(Current, e, scan) = MaxRun
    BY <2>2 DEF IsSymbol, EndsSymbol
  <2>6. /\ k' = k + MaxRun + 1 /\ stream' = q /\ pc' = "ac" /\ eob_run' = 0 /\ SameBlock
    BY <1>0, <1>3, <2>2 DEF DecodeZeros
  <2>7. k' = e + 1
    BY <1>0, <2>3, <2>4, <2>5, <2>6, SizeAssumption DEF Typed
  <2>8. AtSymbol(run, q, e + 1, 0)
    BY <1>0, <1>2, <1>3, <2>2, <2>4, BehindSymbol
  <2> QED
    BY <1>0, <1>2, <2>4, <2>6, <2>7, <2>8, ToSymbol
<1>6. CASE \E q, r : EndAhead(run, q, r)
  <2>1. PICK q, r : EndAhead(run, q, r)
    BY <1>6
  <2>2. /\ q \in Seq(Tokens) /\ Behind(q, target, scan, run, block, k)
        /\ k = LastCoded(Current, scan) + 1 /\ Left(run, block + 1, run[block] - 1)
        /\ Head(stream).zeros = r /\ r # MaxRun /\ Unread(1, r) = q
        /\ 2^r - 1 + BitsRead(1, r) = run[block] - 1
    BY <2>1 DEF EndAhead
  <2>3. stream' = q /\ eob_run' = run[block] - 1 /\ NextBlock
    BY <1>0, <2>2 DEF DecodeZeros
  <2>4. ScanRest(q, target, scan, run, block + 1) /\ MemoryIs(mem, block + 1, 0)
    BY <1>0, <1>2, <1>3, <2>2, FirstScanEnd
  <2>5. scan.ss = 0 /\ scan.ah = 0 => diff_dc' = DC(target, scan, block)
    BY <1>0, <1>2 DEF Difference
  <2> QED
    BY <1>0, <1>2, <2>2, <2>3, <2>4, <2>5, ToNextBlock
<1> QED
  BY <1>0, <1>2, <1>4, <1>5, <1>6, SymbolAhead

\* One with a value passes its zeros and stores the value behind them.
LEMMA DecodeACSyncs ==
    ASSUME IInv, Synced, DecodeAC
    PROVE  Synced'
<1>0. TypeOK /\ pc = "ac" /\ pc # "scan" /\ Typed /\ k <= scan.se
      /\ Head(stream).size # 0 /\ UNCHANGED <<diff_dc, eob_run>>
  BY TypedFacts DEF IInv, DecodeAC
<1>1. PICK run : InScan(run)
  BY <1>0, ScanIsKnown
<1>2. /\ AtSymbol(run, stream, k, eob_run) /\ scan.ah = 0
      /\ Sendable(run, target, scan) /\ Legal /\ MemoryIs(mem, block, k) /\ Difference
  BY <1>0, <1>1 DEF InScan, InStream, Position
<1>3. /\ k \in FirstAC(scan) .. scan.se + 1
      /\ eob_run = 0 /\ Left(run, block, 0) /\ BeginsSymbol(Current, k, scan)
  BY <1>0, <1>2 DEF AtSymbol
<1>4. PICK e, q, n, c : ValueAhead(run, e, q, n, c)
  <2>1. ~\E e, q : ZerosAhead(run, e, q)
    BY <1>0 DEF ZerosAhead
  <2>2. ~\E q, r : EndAhead(run, q, r)
    BY <1>0 DEF EndAhead
  <2>3. \E e, q, n, c : ValueAhead(run, e, q, n, c)
    BY <1>0, <1>2, <2>1, <2>2, SymbolAhead
  <2> QED
    BY <2>3
<1>5. /\ q \in Seq(Tokens) /\ Behind(q, target, scan, run, block, k)
      /\ IsSymbol(Current, k, e, scan) /\ c = PointTransform(Current[e], e, scan.al)
      /\ Head(stream).zeros = Zeros(Current, e, scan) /\ Head(stream).size = n
      /\ twos_complement(n, BitsRead(1, n)) = c /\ Unread(1, n) = q
  BY <1>4 DEF ValueAhead, LeadsTo
<1>6. e \in Nat /\ e \in FirstAC(scan) .. scan.se /\ e \in Coeffs /\ e # 0
  BY <1>0, <1>3, <1>5, SymbolRange
<1>7. /\ Rests(q, target, scan, run, block, e + 1)
      /\ Zeros(Current, e, scan) = e - k
      /\ MemoryIs(mem, block, e)
  BY <1>0, <1>2, <1>3, <1>5, FirstScanSymbol
<1>8. k + Head(stream).zeros = e
  BY <1>0, <1>5, <1>6, <1>7 DEF Typed
<1>9. ~(e > scan.se)
  BY <1>0, <1>6 DEF Typed
<1>10. /\ stream' = q /\ Store(e, c * bit) /\ k' = e + 1 /\ pc' = "ac" /\ SameBlock
  BY <1>0, <1>5, <1>8, <1>9 DEF DecodeAC
<1>11. c * bit = After(block, e) /\ After(block, e) \in Int
  <2>1. e \in scan.ss .. scan.se
    BY <1>0, <1>6, BandFacts DEF Typed
  <2>2. IsNews(block, e)
    BY <1>0, <1>2, <1>6, News DEF Typed
  <2> QED
    BY <1>5, <2>1, <2>2 DEF IsNews, Current
<1>12. MemoryIs(mem', block, e + 1)
  BY <1>0, <1>6, <1>7, <1>10, <1>11, MemoryStores
<1>13. AtSymbol(run, q, e + 1, 0)
  BY <1>0, <1>2, <1>3, <1>5, <1>7, BehindSymbol
<1> QED
  BY <1>0, <1>2, <1>3, <1>10, <1>12, <1>13, ToSymbol

-----------------------------------------------------------------------------
(***************************************************************************)
(* A later scan of AC coefficients                                         *)
(***************************************************************************)

\* Inside a run a block is only refined, outside a symbol begins.
LEMMA StartRefineSyncs ==
    ASSUME IInv, Synced, StartRefine
    PROVE  Synced'
<1>0. TypeOK /\ pc = "band" /\ pc # "scan" /\ scan.ah > 0 /\ Typed /\ SameBlock
      /\ k' = scan.ss /\ value' = 0 /\ UNCHANGED <<stream, diff_dc, mem>>
  BY TypedFacts DEF IInv, StartRefine
<1>1. PICK run : InScan(run)
  BY <1>0, ScanIsKnown
<1>2. /\ Rests(stream, target, scan, run, block, FirstAC(scan)) /\ Left(run, block, eob_run)
      /\ Sendable(run, target, scan) /\ Legal /\ MemoryIs(mem, block, FirstAC(scan))
      /\ run \in Runs(target, scan) /\ Difference /\ scan.ss > 0
  BY <1>0, <1>1 DEF InScan, InStream, Position, Sendable
<1>3. FirstAC(scan) = scan.ss
  BY <1>0, <1>2 DEF FirstAC, Typed
<1>4. CASE eob_run > 0
  <2>1. pc' = "ended" /\ num_zeros' = AllZeros /\ eob_run' = eob_run - 1
    BY <1>4 DEF StartRefine
  <2>2. /\ run[block] = 0 /\ LastCoded(Current, scan) < FirstAC(scan)
        /\ Left(run, block + 1, eob_run - 1)
    BY <1>0, <1>2, <1>4, LeftInside DEF Typed
  <2>3. /\ FirstAC(scan) \in FirstAC(scan) .. scan.se + 1 /\ FirstAC(scan) > LastCoded(Current, scan)
    BY <1>0, <2>2, BandFacts, LastFacts DEF Typed
  <2>4. FirstAC(scan) <= scan.se => SymbolTokens(target[block], FirstAC(scan), scan, run[block]) = <<>>
    <3>1. FirstAC(scan) <= scan.se => FirstAC(scan) \in FirstAC(scan) .. (scan.se + 1) - 1
      BY <1>0 DEF Typed
    <3> QED
      BY <1>0, <2>2, <2>3, <3>1, NothingCoded DEF Current
  <2>5. Behind(stream, target, scan, run, block, FirstAC(scan))
    BY <1>0, <1>2, <2>3, <2>4, RestsBehind DEF Typed
  <2>6. AllZeros + FirstAC(scan) > LastCoeff
    BY <1>0, SizeAssumption DEF AllZeros, Typed
  <2>7. Ended(run, FirstAC(scan), AllZeros, 0, eob_run - 1)
    BY <2>2, <2>3, <2>6 DEF Ended
  <2>8. Refining(run, stream, "ended", FirstAC(scan), AllZeros, 0, eob_run - 1)
    BY <2>3, <2>5, <2>7 DEF Refining
  <2> QED
    BY <1>0, <1>2, <1>3, <2>1, <2>8, ToRefine
<1>5. CASE ~(eob_run > 0)
  <2>1. pc' = "sbh" /\ eob_run' = 0 /\ eob_run = 0
    BY <1>0, <1>5 DEF StartRefine, Typed
  <2>2. AtSymbol(run, stream, FirstAC(scan), 0)
    BY <1>0, <1>2, <2>1, BandBegins
  <2> QED
    BY <1>0, <1>2, <1>3, <2>1, <2>2, ToSymbol
<1> QED
  BY <1>4, <1>5

\* The symbol says how many zeros to pass and what to store then.
LEMMA ReadSymbolSyncs ==
    ASSUME IInv, Synced, ReadSymbol
    PROVE  Synced'
<1>0. TypeOK /\ pc = "sbh" /\ pc # "scan" /\ Typed /\ k <= scan.se /\ SameBlock
      /\ pc' = "refine" /\ UNCHANGED <<k, diff_dc, mem>>
  BY TypedFacts DEF IInv, ReadSymbol
<1>1. PICK run : InScan(run)
  BY <1>0, ScanIsKnown
<1>2. /\ AtSymbol(run, stream, k, eob_run) /\ scan.ah > 0
      /\ Sendable(run, target, scan) /\ Legal /\ MemoryIs(mem, block, k) /\ Difference
  BY <1>0, <1>1 DEF InScan, InStream, Position
<1>3. /\ k \in FirstAC(scan) .. scan.se + 1 /\ k \in FirstAC(scan) .. scan.se
      /\ eob_run = 0 /\ Left(run, block, 0) /\ BeginsSymbol(Current, k, scan)
  BY <1>0, <1>2 DEF AtSymbol, Typed
<1>4. Zeros(Current, k, scan) = 0
  BY <1>0, <1>3, ZerosAtBegin DEF Typed
<1>5. SUFFICES Refining(run, stream', "refine", k, num_zeros', value', eob_run')
  BY <1>0, <1>2, ToRefine
<1>6. \A e : IsSymbol(Current, k, e, scan) =>
          Zeros(Current, e, scan) \in Nat /\ Zeros(Current, e, scan) - 0 = Zeros(Current, e, scan)
  <2>1. ASSUME NEW e, IsSymbol(Current, k, e, scan)
        PROVE  Zeros(Current, e, scan) \in Nat
    <3>1. e \in FirstAC(scan) .. scan.se
      BY <1>0, <1>3, <2>1, SymbolRange
    <3>2. Zeros(Current, e, scan) \in 0 .. MaxRun
      BY <1>0, <3>1, ZerosStep DEF Typed
    <3> QED
      BY <3>2, SizeAssumption
  <2>2. \A z \in Nat : z - 0 = z
    OBVIOUS
  <2> QED
    BY <2>1, <2>2, Zenon
<1>7. CASE \E e, q, n, c : ValueAhead(run, e, q, n, c)
  <2>1. PICK e, q, n, c : ValueAhead(run, e, q, n, c)
    BY <1>7
  <2>2. /\ q \in Seq(Tokens) /\ Behind(q, target, scan, run, block, k)
        /\ IsSymbol(Current, k, e, scan) /\ c = PointTransform(Current[e], e, scan.al)
        /\ Head(stream).zeros = Zeros(Current, e, scan) /\ Head(stream).size = n /\ n \in Nat
        /\ n > 0 /\ Unread(1, n) = q /\ Coded(Current, e, scan) /\ c \in Int
        /\ c \in {-1, 1} => n = 1 /\ BitsRead(1, 1) = IF c = 1 THEN 1 ELSE 0
    BY <2>1 DEF ValueAhead, LeadsTo
  <2>3. e \in FirstAC(scan) .. scan.se
    BY <1>0, <1>3, <2>2, SymbolRange
  <2>4. PICK d : IsACNews(block, e, d)
    BY <1>0, <1>2, <2>3, ACNews DEF Typed
  <2>5. c \in {-1, 1} /\ After(block, e) = c * bit
    BY <1>0, <1>2, <2>2, <2>4 DEF IsACNews, Current
  <2>6. n = 1 /\ BitsRead(1, 1) = IF c = 1 THEN 1 ELSE 0
    BY <2>2, <2>5
  <2>7. /\ num_zeros' = Zeros(Current, e, scan)
        /\ value' = IF BitsRead(1, 1) = 1 THEN bit ELSE -bit
        /\ stream' = q /\ eob_run' = 0
    BY <1>3, <2>2, <2>6 DEF ReadSymbol
  <2>8. value' = After(block, e)
    <3>1. PICK p \in Nat : p = bit
      BY <1>0 DEF Typed
    <3>2. 1 * p = p /\ (-1) * p = -p
      OBVIOUS
    <3>3. c = 1 \/ c = -1
      BY <2>5
    <3>4. 1 # -1 /\ 0 # 1
      OBVIOUS
    <3> QED
      BY <2>5, <2>6, <2>7, <3>1, <3>2, <3>3, <3>4
  <2>9. Inside(run, k, num_zeros', value', eob_run')
    BY <1>3, <1>4, <1>6, <2>2, <2>7, <2>8 DEF Inside
  <2> QED
    BY <1>3, <2>2, <2>7, <2>9 DEF Refining
<1>8. CASE \E e, q : ZerosAhead(run, e, q)
  <2>1. PICK e, q : ZerosAhead(run, e, q)
    BY <1>8
  <2>2. /\ q \in Seq(Tokens) /\ Behind(q, target, scan, run, block, k)
        /\ IsSymbol(Current, k, e, scan) /\ ~Coded(Current, e, scan)
        /\ Head(stream).zeros = MaxRun /\ Head(stream).size = 0 /\ Tail(stream) = q
    BY <2>1 DEF ZerosAhead, LeadsTo
  <2>3. Zeros(Current, e, scan) = MaxRun
    BY <2>2 DEF IsSymbol, EndsSymbol
  <2>4. num_zeros' = MaxRun /\ value' = 0 /\ stream' = q /\ eob_run' = 0
    BY <1>3, <2>2 DEF ReadSymbol
  <2>5. Inside(run, k, num_zeros', value', eob_run')
    BY <1>3, <1>4, <1>6, <2>2, <2>3, <2>4 DEF Inside
  <2> QED
    BY <1>3, <2>2, <2>4, <2>5 DEF Refining
<1>9. CASE \E q, r : EndAhead(run, q, r)
  <2>1. PICK q, r : EndAhead(run, q, r)
    BY <1>9
  <2>2. /\ q \in Seq(Tokens) /\ Behind(q, target, scan, run, block, k)
        /\ k = LastCoded(Current, scan) + 1 /\ Left(run, block + 1, run[block] - 1)
        /\ Head(stream).zeros = r /\ Head(stream).size = 0 /\ r # MaxRun /\ Unread(1, r) = q
        /\ 2^r - 1 + BitsRead(1, r) = run[block] - 1
    BY <2>1 DEF EndAhead
  <2>3. /\ stream' = q /\ eob_run' = run[block] - 1 /\ num_zeros' = AllZeros /\ value' = 0
    BY <2>2 DEF ReadSymbol, ReadEnd
  <2>4. k > LastCoded(Current, scan)
    BY <1>0, <2>2, LastFacts DEF Typed
  <2>5. AllZeros + k > LastCoeff
    BY <1>0, SizeAssumption DEF AllZeros, Typed
  <2>6. Ended(run, k, num_zeros', value', eob_run')
    BY <2>2, <2>3, <2>4, <2>5 DEF Ended
  <2> QED
    BY <1>3, <2>2, <2>3, <2>6 DEF Refining
<1> QED
  BY <1>0, <1>2, <1>7, <1>8, <1>9, SymbolAhead

\* What the decoder knows while it refines.
RefineState(run) ==
    /\ Refining(run, stream, pc, k, num_zeros, value, eob_run) /\ scan.ah > 0
    /\ Sendable(run, target, scan) /\ Legal /\ MemoryIs(mem, block, k) /\ Difference

\* The coefficient it looks at.
LEMMA Looked ==
    ASSUME TypeOK, pc # "scan", NEW run, RefineState(run), k <= scan.se
    PROVE  /\ k \in FirstAC(scan) .. scan.se /\ k \in FirstAC(scan) .. scan.se + 1
           /\ k + 1 \in FirstAC(scan) .. scan.se + 1
           /\ k \in Coeffs /\ ~(k > scan.se) /\ (k + 1) - 1 = k /\ k + 1 \in k .. scan.se + 1
           /\ mem[block][k] = Before(block, k)
           /\ \E c : IsACNews(block, k, c)
<1>0. Typed
  BY TypedFacts
<1>1. /\ k \in FirstAC(scan) .. scan.se /\ k \in FirstAC(scan) .. scan.se + 1
      /\ k + 1 \in FirstAC(scan) .. scan.se + 1
      /\ ~(k > scan.se) /\ (k + 1) - 1 = k /\ k + 1 \in k .. scan.se + 1
  BY <1>0 DEF RefineState, Refining, Typed
<1>2. k \in Coeffs
  BY <1>0, <1>1, BandFacts DEF Typed
<1>3. mem[block][k] = Before(block, k)
  <2>1. ~(block < block \/ (block = block /\ k < k))
    BY <1>0 DEF Typed
  <2> QED
    BY <1>0, <1>2, <2>1 DEF RefineState, MemoryIs, Typed
<1>4. \E c : IsACNews(block, k, c)
  BY <1>0, <1>1, ACNews DEF Typed, RefineState
<1> QED
  BY <1>1, <1>2, <1>3, <1>4

\* A coefficient that ends no symbol has been passed.
LEMMA OnInSymbol ==
    ASSUME TypeOK, pc # "scan", NEW run, RefineState(run), k <= scan.se,
           NEW t, Rests(t, target, scan, run, block, k + 1),
           NEW e, IsSymbol(Current, k, e, scan), ~EndsSymbol(Current, k, scan)
    PROVE  /\ IsSymbol(Current, k + 1, e, scan) /\ k + 1 <= e
           /\ Behind(t, target, scan, run, block, k + 1)
<1>0. Typed
  BY TypedFacts
<1>1. k \in FirstAC(scan) .. scan.se + 1 /\ k + 1 \in FirstAC(scan) .. scan.se + 1
  BY Looked
<1>2. /\ e \in Nat /\ k <= e /\ e <= LastCoded(Current, scan)
      /\ LastCoded(Current, scan) \in Nat
  BY <1>1, SymbolRange
<1>3. k # e
  BY DEF IsSymbol
<1>4. k + 1 <= e /\ k + 1 \in k + 1 .. e
  BY <1>0, <1>2, <1>3 DEF Typed
<1>5. IsSymbol(Current, k + 1, e, scan)
  <2>1. e \in k + 1 .. LastCoded(Current, scan)
    BY <1>0, <1>2, <1>4 DEF Typed
  <2>2. \A j \in k + 1 .. e - 1 : j \in k .. e - 1
    BY <1>0, <1>2 DEF Typed
  <2> QED
    BY <2>1, <2>2 DEF IsSymbol
<1>6. SymbolTokens(target[block], k + 1, scan, run[block]) = <<>>
  BY <1>1, <1>4, NoSymbolInside DEF Current
<1>7. Behind(t, target, scan, run, block, k + 1)
  BY <1>0, <1>1, <1>6, RestsBehind DEF Typed, RefineState
<1> QED
  BY <1>4, <1>5, <1>7

\* The same behind the last symbol.
LEMMA OnBehindEnd ==
    ASSUME TypeOK, pc # "scan", NEW run, RefineState(run), k <= scan.se,
           NEW t, Rests(t, target, scan, run, block, k + 1), k > LastCoded(Current, scan)
    PROVE  Behind(t, target, scan, run, block, k + 1) /\ k + 1 > LastCoded(Current, scan)
<1>0. Typed
  BY TypedFacts
<1>1. k \in FirstAC(scan) .. scan.se + 1 /\ k + 1 \in FirstAC(scan) .. scan.se + 1
  BY Looked
<1>2. LastCoded(Current, scan) \in Nat /\ k + 1 > LastCoded(Current, scan) + 1
      /\ k + 1 > LastCoded(Current, scan)
  BY <1>0, LastFacts DEF Typed
<1>3. k + 1 <= scan.se => SymbolTokens(target[block], k + 1, scan, run[block]) = <<>>
  <2>1. k + 1 <= scan.se => k + 1 \in k + 1 .. (scan.se + 1) - 1
    BY <1>0 DEF Typed
  <2> QED
    BY <1>1, <1>2, <2>1, NothingCoded DEF Current
<1>4. Behind(t, target, scan, run, block, k + 1)
  BY <1>0, <1>1, <1>3, RestsBehind DEF Typed, RefineState
<1> QED
  BY <1>2, <1>4

\* The invariant says so.
LEMMA RefineStateFacts ==
    ASSUME TypeOK, pc \in {"refine", "ended"}, NEW run, InScan(run)
    PROVE  RefineState(run)
BY DEF InScan, InStream, Position, RefineState

\* The tokens of a coefficient that is not refined.
LEMMA NoCorrection ==
    ASSUME TypeOK, pc # "scan", NEW run, RefineState(run), k <= scan.se,
           ~Nonzero(Current, k, scan)
    PROVE  Rests(stream, target, scan, run, block, k + 1)
<1>1. CorrectionTokens(target[block], k, scan) = <<>>
  BY DEF CorrectionTokens, Current
<1>2. ~(k > scan.se)
  BY Looked
<1>3. PICK q \in Seq(Tokens) : stream = <<>> \o q /\ Rests(q, target, scan, run, block, k + 1)
  BY <1>1, <1>2 DEF RefineState, Refining, Behind
<1>4. stream = q
  BY <1>3, ConcatEmptySeq
<1> QED
  BY <1>3, <1>4

\* And of one that is.
LEMMA CorrectionAhead ==
    ASSUME TypeOK, pc # "scan", NEW run, RefineState(run), k <= scan.se,
           Nonzero(Current, k, scan), NEW c, IsACNews(block, k, c)
    PROVE  /\ ReadsBits(0, 1) /\ BitsRead(0, 1) = Abs(c) % 2
           /\ Rests(Tail(stream), target, scan, run, block, k + 1)
<1>1. /\ c \in Int /\ c = PointTransform(Current[k], k, scan.al)
      /\ Nonzero(target[block], k, scan)
  BY DEF IsACNews, Current
<1>2. CorrectionTokens(target[block], k, scan) = <<Bits(1, Abs(c) % 2)>>
  BY <1>1 DEF CorrectionTokens, Current
<1>3. ~(k > scan.se)
  BY Looked
<1>4. PICK q \in Seq(Tokens) :
          stream = <<Bits(1, Abs(c) % 2)>> \o q /\ Rests(q, target, scan, run, block, k + 1)
  BY <1>2, <1>3 DEF RefineState, Refining, Behind
<1>5. Abs(c) % 2 \in Nat
  BY <1>1 DEF Abs
<1>6. ReadsBits(0, 1) /\ BitsRead(0, 1) = Abs(c) % 2 /\ Tail(stream) = q
  BY <1>4, <1>5, ReadABit
<1> QED
  BY <1>4, <1>6

\* A zero that stays zero counts,
LEMMA PassZeroSyncs ==
    ASSUME IInv, Synced, PassZero
    PROVE  Synced'
<1>0. TypeOK /\ pc \in {"refine", "ended"} /\ pc # "scan" /\ pc # "dc" /\ Typed /\ k <= scan.se
      /\ mem[block][k] = 0 /\ num_zeros > 0 /\ num_zeros' = num_zeros - 1 /\ k' = k + 1
      /\ SameBlock /\ UNCHANGED <<stream, pc, value, eob_run, diff_dc, mem>>
  BY TypedFacts DEF IInv, PassZero
<1>1. PICK run : InScan(run)
  BY <1>0, ScanIsKnown
<1>2. RefineState(run)
  BY <1>0, <1>1, RefineStateFacts
<1>3. /\ k \in FirstAC(scan) .. scan.se /\ k \in FirstAC(scan) .. scan.se + 1
      /\ k + 1 \in FirstAC(scan) .. scan.se + 1
      /\ k \in Coeffs /\ (k + 1) - 1 = k /\ k + 1 \in k .. scan.se + 1
      /\ mem[block][k] = Before(block, k)
  BY <1>0, <1>2, Looked
<1>4. PICK c : IsACNews(block, k, c)
  BY <1>0, <1>2, Looked
<1>5. ~Nonzero(Current, k, scan)
  BY <1>0, <1>3, <1>4 DEF IsACNews, Current
<1>6. Rests(stream, target, scan, run, block, k + 1)
  BY <1>0, <1>2, <1>5, NoCorrection
<1>7. SUFFICES /\ ~Coded(Current, k, scan)
               /\ Refining(run, stream, pc, k + 1, num_zeros - 1, value, eob_run)
  <2>1. \A j \in k .. (k + 1) - 1 : j = k
    BY <1>0, <1>3 DEF Typed
  <2>2. \A j \in k .. (k + 1) - 1 :
            ~Coded(target[block], j, scan) /\ ~Nonzero(target[block], j, scan)
    BY <1>5, <1>7, <2>1 DEF Current
  <2>3. MemoryIs(mem, block, k + 1)
    BY <1>0, <1>2, <1>3, <2>2, MemoryPasses DEF Typed, RefineState
  <2> QED
    BY <1>0, <1>2, <1>7, <2>3, ToRefine DEF RefineState
<1>8. CASE pc = "refine" /\ Inside(run, k, num_zeros, value, eob_run)
  <2>1. PICK e : /\ IsSymbol(Current, k, e, scan)
                 /\ num_zeros = Zeros(Current, e, scan) - Zeros(Current, k, scan)
                 /\ value = IF Coded(Current, e, scan) THEN After(block, e) ELSE 0
    BY <1>8 DEF Inside
  <2>2. e \in FirstAC(scan) .. scan.se
    BY <1>0, <1>3, <2>1, SymbolRange
  <2>3. Zeros(Current, e, scan) \in 0 .. MaxRun /\ Zeros(Current, k, scan) \in 0 .. MaxRun
    BY <1>0, <1>3, <2>2, ZerosStep DEF Typed
  <2>4. k # e
    BY <1>0, <2>1, <2>3, SizeAssumption
  <2>5. ~EndsSymbol(Current, k, scan)
    <3>1. k \in k .. e - 1
      BY <1>0, <1>3, <2>1, <2>4, SymbolRange DEF Typed
    <3> QED
      BY <2>1, <3>1 DEF IsSymbol
  <2>6. ~Coded(Current, k, scan) /\ Zeros(Current, k, scan) # MaxRun
    BY <1>5, <2>5 DEF EndsSymbol
  <2>7. Zeros(Current, k + 1, scan) = Zeros(Current, k, scan) + 1
    BY <1>0, <1>3, <1>5, <2>6, ZerosStep DEF Typed
  <2>8. num_zeros - 1 = Zeros(Current, e, scan) - Zeros(Current, k + 1, scan)
    BY <2>1, <2>3, <2>7, SizeAssumption
  <2>9. /\ IsSymbol(Current, k + 1, e, scan)
        /\ Behind(stream, target, scan, run, block, k + 1)
    BY <1>0, <1>2, <1>6, <2>1, <2>5, OnInSymbol
  <2>10. Inside(run, k + 1, num_zeros - 1, value, eob_run)
    BY <1>8, <2>1, <2>8, <2>9 DEF Inside
  <2> QED
    BY <1>3, <1>8, <2>6, <2>9, <2>10 DEF Refining
<1>9. CASE Ended(run, k, num_zeros, value, eob_run)
  <2>1. k > LastCoded(Current, scan)
    BY <1>9 DEF Ended
  <2>2. ~Coded(Current, k, scan)
    BY <1>0, <1>3, <2>1, LastFacts DEF Typed
  <2>3. Behind(stream, target, scan, run, block, k + 1) /\ k + 1 > LastCoded(Current, scan)
    BY <1>0, <1>2, <1>6, <2>1, OnBehindEnd
  <2>4. (num_zeros - 1) + (k + 1) > LastCoeff
    <3>1. num_zeros + k > LastCoeff
      BY <1>9 DEF Ended
    <3> QED
      BY <1>0, <3>1, SizeAssumption DEF Typed
  <2>5. Ended(run, k + 1, num_zeros - 1, value, eob_run)
    BY <1>9, <2>3, <2>4 DEF Ended
  <2> QED
    BY <1>3, <2>2, <2>3, <2>5 DEF Refining
<1> QED
  BY <1>2, <1>8, <1>9 DEF RefineState, Refining

\* What a bit more makes of a coefficient.
LEMMA CorrectedFacts ==
    ASSUME NEW h \in Int, h # 0, NEW p \in Nat, p > 0
    PROVE  /\ h * (2 * p) \in Int
           /\ ((h * (2 * p)) \div p) % 2 = 0
           /\ h > 0 => h * (2 * p) > 0 /\ h * (2 * p) + p = (2 * h + 1) * p
           /\ h < 0 => ~(h * (2 * p) > 0) /\ h * (2 * p) - p = (2 * h - 1) * p
           /\ h * (2 * p) = (2 * h + 0) * p /\ h * (2 * p) = (2 * h - 0) * p
<1>1. PICK y \in Int : y = h * p
  OBVIOUS
<1>2. h * (2 * p) = 2 * y /\ (2 * h + 1) * p = 2 * y + p /\ (2 * h - 1) * p = 2 * y - p
      /\ (2 * h + 0) * p = 2 * y /\ (2 * h - 0) * p = 2 * y
  BY <1>1
<1>3. PICK q \in Nat : p = q + 1
  BY p - 1 \in Nat
<1>4. h * (q + 1) = h * q + h
  OBVIOUS
<1>5. h > 0 => y > 0
  <2>1. h > 0 => h * q \in Nat
    BY Products
  <2> QED
    BY <1>1, <1>3, <1>4, <2>1
<1>6. h < 0 => y < 0
  <2>1. h < 0 => -h \in Nat /\ (-h) * q = -(h * q) /\ h * q \in Int
    OBVIOUS
  <2>2. h < 0 => (-h) * q \in Nat
    BY <2>1, Products
  <2> QED
    BY <1>1, <1>3, <1>4, <2>1, <2>2
<1>7. (2 * y) \div p = 2 * h
  <2>1. (2 * h) * p = 2 * y
    BY <1>1
  <2>2. ((2 * h) * p) \div p = 2 * h
    <3>1. PICK g \in Int : g = 2 * h
      OBVIOUS
    <3>2. (g * p) \div p = g
      OBVIOUS
    <3> QED
      BY <3>1, <3>2
  <2> QED
    BY <2>1, <2>2
<1>8. (2 * h) % 2 = 0
  OBVIOUS
<1> QED
  BY <1>1, <1>2, <1>5, <1>6, <1>7, <1>8

\* a coefficient that is known gets its bit and does not,
LEMMA CorrectSyncs ==
    ASSUME IInv, Synced, Correct
    PROVE  Synced'
<1>0. TypeOK /\ pc \in {"refine", "ended"} /\ pc # "scan" /\ pc # "dc" /\ Typed /\ k <= scan.se
      /\ mem[block][k] # 0 /\ k' = k + 1 /\ stream' = Tail(stream)
      /\ SameBlock /\ UNCHANGED <<pc, num_zeros, value, eob_run, diff_dc>>
  BY TypedFacts DEF IInv, Correct
<1>1. PICK run : InScan(run)
  BY <1>0, ScanIsKnown
<1>2. RefineState(run)
  BY <1>0, <1>1, RefineStateFacts
<1>3. /\ k \in FirstAC(scan) .. scan.se /\ k \in FirstAC(scan) .. scan.se + 1
      /\ k + 1 \in FirstAC(scan) .. scan.se + 1
      /\ k \in Coeffs /\ mem[block][k] = Before(block, k)
  BY <1>0, <1>2, Looked
<1>4. PICK c : IsACNews(block, k, c)
  BY <1>0, <1>2, Looked
<1>5. Nonzero(Current, k, scan)
  BY <1>0, <1>3, <1>4 DEF IsACNews, Current
<1>6. /\ BitsRead(0, 1) = Abs(c) % 2
      /\ Rests(Tail(stream), target, scan, run, block, k + 1)
  BY <1>0, <1>2, <1>4, <1>5, CorrectionAhead
<1>7. ~EndsSymbol(Current, k, scan)
  BY <1>5 DEF EndsSymbol, Coded
<1>8. MemoryIs(mem', block, k + 1)
  <2>1. PICK h \in Int, p \in Nat : /\ h # 0 /\ IsRefined(h, c) /\ p = bit /\ p > 0
                                    /\ Before(block, k) = h * (2 * p)
    BY <1>0, <1>4, <1>5 DEF IsACNews, Current, Typed
  <2>2. /\ Before(block, k) \in Int
        /\ (Before(block, k) \div p) % 2 = 0
        /\ h > 0 => Before(block, k) > 0 /\ Before(block, k) + p = (2 * h + 1) * p
        /\ h < 0 => ~(Before(block, k) > 0) /\ Before(block, k) - p = (2 * h - 1) * p
        /\ Before(block, k) = (2 * h + 0) * p /\ Before(block, k) = (2 * h - 0) * p
    BY <2>1, CorrectedFacts
  <2>3. After(block, k) = c * p
    BY <1>4, <2>1 DEF IsACNews
  <2>4. /\ h > 0 => c = 2 * h + (Abs(c) % 2)
        /\ h < 0 => c = 2 * h - (Abs(c) % 2)
        /\ Abs(c) % 2 \in {0, 1} /\ (h > 0 \/ h < 0)
    BY <2>1 DEF IsRefined
  <2>5. CASE Abs(c) % 2 = 1
    <3>1. Store(k, Corrected(mem[block][k]))
      BY <1>3, <1>6, <2>1, <2>2, <2>5 DEF Correct
    <3>2. Corrected(mem[block][k]) = After(block, k)
      BY <1>3, <2>1, <2>2, <2>3, <2>4, <2>5 DEF Corrected
    <3>3. After(block, k) \in Int
      <4>1. c \in Int
        BY <1>4 DEF IsACNews
      <4> QED
        BY <2>1, <2>3, <4>1
    <3> QED
      BY <1>0, <1>2, <1>3, <3>1, <3>2, <3>3, MemoryStores DEF RefineState
  <2>6. CASE Abs(c) % 2 = 0
    <3>1. mem' = mem
      BY <1>6, <2>6 DEF Correct
    <3>2. After(block, k) = Before(block, k)
      BY <2>2, <2>3, <2>4, <2>6
    <3>3. \A j \in Coeffs : k <= j /\ j < k + 1 => j = k
      BY <1>0 DEF Typed, Coeffs
    <3>4. \A j \in Coeffs : k <= j /\ j < k + 1 => After(block, j) = Before(block, j)
      BY <3>2, <3>3
    <3>5. k \in Nat /\ k + 1 \in Nat /\ k <= k + 1
      BY <1>0 DEF Typed
    <3> QED
      BY <1>0, <1>2, <3>1, <3>4, <3>5, MemoryMoves DEF Typed, RefineState
  <2> QED
    BY <2>4, <2>5, <2>6
<1>9. SUFFICES Refining(run, Tail(stream), pc, k + 1, num_zeros, value, eob_run)
  BY <1>0, <1>2, <1>8, ToRefine DEF RefineState
<1>10. CASE pc = "refine" /\ Inside(run, k, num_zeros, value, eob_run)
  <2>1. PICK e : /\ IsSymbol(Current, k, e, scan)
                 /\ num_zeros = Zeros(Current, e, scan) - Zeros(Current, k, scan)
                 /\ value = IF Coded(Current, e, scan) THEN After(block, e) ELSE 0
    BY <1>10 DEF Inside
  <2>2. Zeros(Current, k + 1, scan) = Zeros(Current, k, scan)
    BY <1>0, <1>3, <1>5, ZerosStep DEF Typed
  <2>3. /\ IsSymbol(Current, k + 1, e, scan)
        /\ Behind(Tail(stream), target, scan, run, block, k + 1)
    BY <1>0, <1>2, <1>6, <1>7, <2>1, OnInSymbol
  <2>4. Inside(run, k + 1, num_zeros, value, eob_run)
    BY <1>10, <2>1, <2>2, <2>3 DEF Inside
  <2> QED
    BY <1>3, <1>10, <2>3, <2>4 DEF Refining
<1>11. CASE Ended(run, k, num_zeros, value, eob_run)
  <2>1. k > LastCoded(Current, scan)
    BY <1>11 DEF Ended
  <2>2. Behind(Tail(stream), target, scan, run, block, k + 1) /\ k + 1 > LastCoded(Current, scan)
    BY <1>0, <1>2, <1>6, <2>1, OnBehindEnd
  <2>3. num_zeros + (k + 1) > LastCoeff
    <3>1. num_zeros + k > LastCoeff
      BY <1>11 DEF Ended
    <3> QED
      BY <1>0, <3>1, SizeAssumption DEF Typed
  <2>4. Ended(run, k + 1, num_zeros, value, eob_run)
    BY <1>11, <2>2, <2>3 DEF Ended
  <2> QED
    BY <1>3, <2>2, <2>4 DEF Refining
<1> QED
  BY <1>2, <1>10, <1>11 DEF RefineState, Refining

\* and the value is stored where the encoder found it.
LEMMA StoreValueSyncs ==
    ASSUME IInv, Synced, StoreValue
    PROVE  Synced'
<1>0. TypeOK /\ pc = "refine" /\ pc # "scan" /\ Typed /\ pc' = "sbh"
      /\ (k <= scan.se => mem[block][k] = 0 /\ num_zeros = 0)
      /\ SameBlock /\ UNCHANGED <<stream, num_zeros, value, eob_run, diff_dc>>
  BY TypedFacts DEF IInv, StoreValue
<1>1. PICK run : InScan(run)
  BY <1>0, ScanIsKnown
<1>2. RefineState(run)
  BY <1>0, <1>1, RefineStateFacts
<1>3. k \in FirstAC(scan) .. scan.se + 1 /\ Behind(stream, target, scan, run, block, k)
  BY <1>2 DEF RefineState, Refining
<1>4. CASE Inside(run, k, num_zeros, value, eob_run)
  <2>1. PICK e : /\ IsSymbol(Current, k, e, scan)
                 /\ num_zeros = Zeros(Current, e, scan) - Zeros(Current, k, scan)
                 /\ value = IF Coded(Current, e, scan) THEN After(block, e) ELSE 0
    BY <1>4 DEF Inside
  <2>2. eob_run = 0 /\ Left(run, block, 0)
    BY <1>4 DEF Inside
  <2>3. /\ e \in Nat /\ k <= e /\ e \in FirstAC(scan) .. scan.se /\ e \in k .. scan.se
        /\ k \in FirstAC(scan) .. scan.se
    BY <1>0, <1>3, <2>1, SymbolRange
  <2>4. k <= scan.se /\ mem[block][k] = 0 /\ num_zeros = 0
    BY <1>0, <2>3 DEF Typed
  <2>5. /\ k \in Coeffs /\ mem[block][k] = Before(block, k)
        /\ k + 1 \in FirstAC(scan) .. scan.se + 1
    BY <1>0, <1>2, <2>4, Looked
  <2>6. PICK c : IsACNews(block, k, c)
    BY <1>0, <1>2, <2>4, Looked
  <2>7. ~Nonzero(Current, k, scan)
    BY <2>4, <2>5, <2>6 DEF IsACNews, Current
  <2>8. k = e
    <3>1. SUFFICES ASSUME k # e PROVE FALSE
      OBVIOUS
    <3>2. k \in k .. e - 1 /\ k + 1 \in FirstAC(scan) .. scan.se /\ e \in k + 1 .. scan.se
      BY <1>0, <2>3, <3>1 DEF Typed
    <3>3. ~EndsSymbol(Current, k, scan)
      BY <2>1, <3>2 DEF IsSymbol
    <3>4. ~Coded(Current, k, scan) /\ Zeros(Current, k, scan) # MaxRun
      BY <2>7, <3>3 DEF EndsSymbol
    <3>5. Zeros(Current, k + 1, scan) = Zeros(Current, k, scan) + 1
      BY <1>0, <2>3, <2>7, <3>4, ZerosStep DEF Typed
    <3>6. \A j \in k + 1 .. e - 1 : ~EndsSymbol(Current, j, scan)
      <4>1. \A j \in k + 1 .. e - 1 : j \in k .. e - 1
        BY <1>0, <2>3 DEF Typed
      <4> QED
        BY <2>1, <4>1 DEF IsSymbol
    <3>7. Zeros(Current, k + 1, scan) <= Zeros(Current, e, scan)
      BY <1>0, <3>2, <3>6, ZerosAddUp DEF Typed
    <3>8. Zeros(Current, k, scan) \in 0 .. MaxRun /\ Zeros(Current, e, scan) \in 0 .. MaxRun
      BY <1>0, <2>3, ZerosStep DEF Typed
    <3> QED
      BY <2>1, <2>4, <3>5, <3>7, <3>8, SizeAssumption
  <2>9. k' = k + 1 /\ IF value # 0 THEN Store(k, value) ELSE mem' = mem
    BY <2>4 DEF StoreValue
  <2>10. MemoryIs(mem', block, k + 1)
    <3>1. CASE value # 0
      <4>1. value = After(block, k) /\ value \in Int
        BY <1>0, <2>1, <2>8, <3>1 DEF TypeOK
      <4> QED
        BY <1>0, <1>2, <2>5, <2>9, <3>1, <4>1, MemoryStores DEF RefineState
    <3>2. CASE value = 0
      <4>1. After(block, k) = 0 /\ Before(block, k) = 0
        <5>1. Coded(Current, k, scan) => After(block, k) = 0
          BY <2>1, <2>8, <3>2
        <5>2. ~Coded(Current, k, scan) => After(block, k) = 0
          BY <2>6, <2>7 DEF IsACNews, Current
        <5> QED
          BY <2>4, <2>5, <5>1, <5>2
      <4>2. \A j \in Coeffs : k <= j /\ j < k + 1 => j = k
        BY <1>0 DEF Typed, Coeffs
      <4>3. \A j \in Coeffs : k <= j /\ j < k + 1 => After(block, j) = Before(block, j)
        BY <4>1, <4>2
      <4>4. k \in Nat /\ k + 1 \in Nat /\ k <= k + 1
        BY <1>0 DEF Typed
      <4> QED
        BY <1>0, <1>2, <2>9, <3>2, <4>3, <4>4, MemoryMoves DEF Typed, RefineState
    <3> QED
      BY <3>1, <3>2
  <2>11. Rests(stream, target, scan, run, block, k + 1)
    BY <1>0, <1>2, <2>4, <2>7, NoCorrection
  <2>12. AtSymbol(run, stream, k + 1, 0)
    BY <1>0, <1>2, <1>3, <2>1, <2>2, <2>8, <2>11, BehindSymbol DEF RefineState
  <2> QED
    BY <1>0, <1>2, <2>2, <2>9, <2>10, <2>12, ToSymbol DEF RefineState
<1>5. CASE Ended(run, k, num_zeros, value, eob_run)
  <2>1. k > LastCoded(Current, scan) /\ num_zeros + k > LastCoeff /\ value = 0
        /\ Left(run, block + 1, eob_run)
    BY <1>5 DEF Ended
  <2>2. k = scan.se + 1
    <3>1. scan.se <= LastCoeff
      BY <1>0, BandFacts DEF Typed
    <3>2. ~(k <= scan.se)
      BY <1>0, <2>1, <3>1, SizeAssumption DEF Typed
    <3> QED
      BY <1>0, <1>3, <3>2 DEF Typed
  <2>3. scan.se + 1 > scan.se /\ ~(scan.se + 1 <= scan.se)
    BY <1>0 DEF Typed
  <2>4. k' = scan.se + 1 /\ mem' = mem
    BY <2>1, <2>2, <2>3 DEF StoreValue
  <2>5. Rests(stream, target, scan, run, block, k)
    BY <1>3, <2>2, <2>3 DEF Behind
  <2>6. AtSymbol(run, stream, k, eob_run)
    BY <1>3, <2>1, <2>2, <2>3, <2>5 DEF AtSymbol
  <2> QED
    BY <1>0, <1>2, <2>2, <2>4, <2>6, ToSymbol DEF RefineState
<1> QED
  BY <1>0, <1>2, <1>4, <1>5 DEF RefineState, Refining

\* At the end of the band the block is done.
LEMMA EndRefineSyncs ==
    ASSUME IInv, Synced, EndRefine
    PROVE  Synced'
<1>0. TypeOK /\ pc = "ended" /\ pc # "scan" /\ Typed /\ k > scan.se /\ NextBlock
      /\ UNCHANGED <<stream, eob_run, diff_dc, mem>>
  BY TypedFacts DEF IInv, EndRefine
<1>1. PICK run : InScan(run)
  BY <1>0, ScanIsKnown
<1>2. RefineState(run)
  BY <1>0, <1>1, RefineStateFacts
<1>3. k = scan.se + 1 /\ Left(run, block + 1, eob_run)
  BY <1>0, <1>2 DEF RefineState, Refining, Ended, Typed
<1>4. Rests(stream, target, scan, run, block, scan.se + 1)
  BY <1>0, <1>2, <1>3 DEF RefineState, Refining, Behind
<1>5. ScanRest(stream, target, scan, run, block + 1)
  BY <1>0, <1>2, <1>4, RestsAtEnd DEF RefineState, Typed
<1>6. MemoryIs(mem, block + 1, 0)
  BY <1>0, <1>2, <1>3, MemoryEnds DEF RefineState, Typed
<1>7. scan.ss = 0 /\ scan.ah = 0 => diff_dc' = DC(target, scan, block)
  BY <1>0, <1>2 DEF RefineState, Difference
<1> QED
  BY <1>0, <1>2, <1>3, <1>5, <1>6, <1>7, ToNextBlock DEF RefineState

-----------------------------------------------------------------------------
(***************************************************************************)
(* Every step keeps decoder and stream in step                             *)
(***************************************************************************)

\* A step within the scan, or between two scans.
Stays == UNCHANGED <<target, script, covered>> /\ (pc # "scan" => pc' # "scan")

\* The last step of a scan.
Finishes ==
    /\ pc # "scan" /\ pc' = "scan"
    /\ target' = target /\ script' = Tail(script) /\ covered' = Append(covered, scan)

\* NextBlock is one of the two,
LEMMA NextBlockMoves ==
    ASSUME pc # "scan", NextBlock
    PROVE  Stays \/ Finishes
<1>1. CASE block < Len(target)
  BY <1>1 DEF NextBlock, FirstStep, Stays
<1>2. CASE ~(block < Len(target))
  BY <1>2 DEF NextBlock, Finishes
<1> QED
  BY <1>1, <1>2

\* and so is every step.
LEMMA StepMoves ==
    ASSUME [Next]_vars
    PROVE  Stays \/ Finishes
<1>1. CASE StartScan
  BY <1>1 DEF StartScan, Stays
<1>2. CASE DecodeDC
  <2>1. (NextBlock \/ (pc' = "band" /\ SameBlock)) /\ pc = "dc"
    BY <1>2 DEF DecodeDC
  <2> QED
    BY <2>1, NextBlockMoves DEF SameBlock, Stays
<1>3. CASE RefineDC \/ SkipBlock \/ EndBand \/ EndRefine
  <2>1. NextBlock /\ pc # "scan"
    BY <1>3 DEF RefineDC, SkipBlock, EndBand, EndRefine
  <2> QED
    BY <2>1, NextBlockMoves
<1>4. CASE DecodeZeros
  <2>1. (NextBlock \/ (pc' = pc /\ SameBlock)) /\ pc = "ac"
    BY <1>4 DEF DecodeZeros
  <2> QED
    BY <2>1, NextBlockMoves DEF SameBlock, Stays
<1>5. CASE DecodeAC
  <2>1. (NextBlock \/ (pc' = pc /\ SameBlock)) /\ pc = "ac"
    BY <1>5 DEF DecodeAC
  <2> QED
    BY <2>1, NextBlockMoves DEF SameBlock, Stays
<1>6. CASE StartBand \/ StartRefine \/ ReadSymbol \/ PassZero \/ Correct \/ StoreValue
  <2>1. SameBlock /\ pc' # "scan"
    BY <1>6 DEF StartBand, StartRefine, ReadSymbol, PassZero, Correct, StoreValue
  <2> QED
    BY <2>1 DEF SameBlock, Stays
<1>7. CASE Decoded \/ UNCHANGED vars
  BY <1>7 DEF Decoded, vars, Stays
<1> QED
  BY <1>1, <1>2, <1>3, <1>4, <1>5, <1>6, <1>7 DEF Next

\* The scans stay in the order of the file,
LEMMA OrderKept ==
    ASSUME TypeOK, InOrder, [Next]_vars
    PROVE  InOrder'
<1>1. PICK f \in Files : target = f.blocks /\ covered \o script = f.script
  BY DEF InOrder
<1>2. CASE Stays
  BY <1>1, <1>2 DEF Stays, InOrder
<1>3. CASE Finishes
  <2>1. covered \in Seq(Headers) /\ script \in Seq(Headers) /\ script # <<>> /\ scan \in Headers
    BY <1>3, ScanFacts DEF TypeOK, Finishes
  <2>2. script = <<scan>> \o Tail(script)
    BY <2>1 DEF scan
  <2>3. Append(covered, scan) = covered \o <<scan>>
    BY <2>1
  <2>4. <<scan>> \in Seq(Headers) /\ Tail(script) \in Seq(Headers)
    BY <2>1
  <2>5. (covered \o <<scan>>) \o Tail(script) = covered \o (<<scan>> \o Tail(script))
    BY <2>1, <2>4, ConcatAssociative
  <2>6. covered' \o script' = covered \o script
    <3>1. covered' = Append(covered, scan) /\ script' = Tail(script)
      BY <1>3 DEF Finishes
    <3> QED
      BY <2>2, <2>3, <2>5, <3>1, Zenon
  <2> QED
    BY <1>1, <1>3, <2>6 DEF Finishes, InOrder
<1> QED
  BY <1>2, <1>3, StepMoves

\* and a scan that is damaged stays so.
LEMMA IntactBefore ==
    ASSUME TypeOK, [Next]_vars, Intact'
    PROVE  Intact
<1>1. CASE Stays
  <2>1. scan' = scan /\ covered' = covered
    BY <1>1 DEF scan, Stays
  <2> QED
    BY <1>1, <2>1 DEF Stays, Intact
<1>2. CASE Finishes
  <2>1. covered \in Seq(Headers) /\ scan \in Headers
    BY <1>2, ScanFacts DEF TypeOK, Finishes
  <2>2. PICK n \in Nat : n = Len(covered)
    BY <2>1
  <2>3. /\ DOMAIN covered = 1 .. n /\ DOMAIN covered' = 1 .. n + 1
        /\ \A m \in 1 .. n : covered'[m] = covered[m]
        /\ covered'[n + 1] = scan
    <3>1. covered' = Append(covered, scan)
      BY <1>2 DEF Finishes
    <3>2. /\ Append(covered, scan) \in Seq(Headers)
          /\ Len(Append(covered, scan)) = n + 1
          /\ \A m \in 1 .. n : Append(covered, scan)[m] = covered[m]
          /\ Append(covered, scan)[n + 1] = scan
      BY <2>1, <2>2, AppendProperties
    <3> QED
      BY <2>1, <2>2, <3>1, <3>2, LenProperties
  <2>4. \A m \in DOMAIN covered' : covered'[m].run > 0
    BY DEF Intact
  <2>5. scan.run > 0
    <3>1. n + 1 \in DOMAIN covered'
      BY <2>2, <2>3
    <3> QED
      BY <2>3, <2>4, <3>1
  <2>6. \A m \in DOMAIN covered : covered[m].run > 0
    <3>1. \A m \in DOMAIN covered : m \in DOMAIN covered' /\ covered'[m] = covered[m]
      BY <2>2, <2>3
    <3> QED
      BY <2>4, <3>1
  <2> QED
    BY <2>5, <2>6 DEF Intact
<1> QED
  BY <1>1, <1>2, StepMoves

\* A step that changes nothing keeps them in step.
LEMMA StutterSyncs ==
    ASSUME Synced, UNCHANGED vars
    PROVE  Synced'
<1>1. UNCHANGED <<target, script, covered, stream, pc, block, k, num_zeros, value, eob_run,
                  diff_dc, mem>>
  BY DEF vars
<1>2. scan' = scan /\ bit' = bit
  BY <1>1 DEF scan, bit
<1>3. Position' = Position
  BY <1>1, <1>2 DEF Position
<1>4. CASE pc = "scan"
  <2>1. MemoryIs(mem, 1, 0) => MemoryIs(mem, 1, 0)'
    BY <1>1, <1>2 DEF MemoryIs, After, Before
  <2> QED
    BY <1>1, <1>4, <2>1 DEF Synced
<1>5. CASE pc # "scan"
  <2>1. PICK run : InScan(run)
    BY <1>5, ScanIsKnown
  <2>2. Legal' /\ Difference'
    BY <1>1, <1>2, <2>1 DEF InScan, Legal, Difference
  <2>3. MemoryIs(mem, block, Position)'
    BY <1>1, <1>2, <1>3, <2>1 DEF InScan, MemoryIs, After, Before
  <2>4. InStream(run)'
    <3>1. Current' = Current
      BY <1>1 DEF Current
    <3>2. AtSymbol(run, stream, k, eob_run) => AtSymbol(run, stream, k, eob_run)'
      BY <1>1, <1>2, <3>1 DEF AtSymbol
    <3>3. Inside(run, k, num_zeros, value, eob_run) => Inside(run, k, num_zeros, value, eob_run)'
      BY <1>1, <1>2, <3>1 DEF Inside, After
    <3>4. Ended(run, k, num_zeros, value, eob_run) => Ended(run, k, num_zeros, value, eob_run)'
      BY <1>1, <1>2, <3>1 DEF Ended
    <3>5. Refining(run, stream, pc, k, num_zeros, value, eob_run)
              => Refining(run, stream, pc, k, num_zeros, value, eob_run)'
      BY <1>1, <1>2, <3>3, <3>4 DEF Refining
    <3> QED
      BY <1>1, <1>2, <2>1, <3>2, <3>5 DEF InScan, InStream
  <2>5. Sendable(run, target, scan)'
    BY <1>1, <1>2, <2>1 DEF InScan
  <2> QED
    BY <1>1, <1>5, <2>2, <2>3, <2>4, <2>5 DEF Synced
<1> QED
  BY <1>4, <1>5

\* Every step keeps the invariant.
LEMMA SyncStep == SyncInv /\ [Next]_vars => SyncInv'
<1> SUFFICES ASSUME SyncInv, [Next]_vars PROVE SyncInv'
    OBVIOUS
<1>1. IInv /\ IInv' /\ InOrder' /\ InOrder
  BY Step, OrderKept DEF SyncInv, IInv
<1> SUFFICES ASSUME Intact' PROVE Synced'
  BY <1>1 DEF SyncInv
<1>2. Synced
  BY <1>1, IntactBefore DEF SyncInv, IInv
<1>3. CASE StartScan
  BY <1>1, <1>2, <1>3, StartScanSyncs
<1>4. CASE DecodeDC
  BY <1>1, <1>2, <1>4, DecodeDCSyncs
<1>5. CASE RefineDC
  BY <1>1, <1>2, <1>5, RefineDCSyncs
<1>6. CASE SkipBlock
  BY <1>1, <1>2, <1>6, SkipBlockSyncs
<1>7. CASE StartBand
  BY <1>1, <1>2, <1>7, StartBandSyncs
<1>8. CASE EndBand
  BY <1>1, <1>2, <1>8, EndBandSyncs
<1>9. CASE DecodeZeros
  BY <1>1, <1>2, <1>9, DecodeZerosSyncs
<1>10. CASE DecodeAC
  BY <1>1, <1>2, <1>10, DecodeACSyncs
<1>11. CASE StartRefine
  BY <1>1, <1>2, <1>11, StartRefineSyncs
<1>12. CASE ReadSymbol
  BY <1>1, <1>2, <1>12, ReadSymbolSyncs
<1>13. CASE PassZero
  BY <1>1, <1>2, <1>13, PassZeroSyncs
<1>14. CASE Correct
  BY <1>1, <1>2, <1>14, CorrectSyncs
<1>15. CASE StoreValue
  BY <1>1, <1>2, <1>15, StoreValueSyncs
<1>16. CASE EndRefine
  BY <1>1, <1>2, <1>16, EndRefineSyncs
<1>17. CASE Decoded \/ UNCHANGED vars
  BY <1>2, <1>17, StutterSyncs DEF Decoded
<1> QED
  BY <1>3, <1>4, <1>5, <1>6, <1>7, <1>8, <1>9, <1>10, <1>11, <1>12, <1>13, <1>14, <1>15,
     <1>16, <1>17 DEF Next

-----------------------------------------------------------------------------
(***************************************************************************)
(* What follows                                                            *)
(***************************************************************************)

\* Where the decoder looks up a symbol there is one, with its bits behind it;
LEMMA SymbolInSync ==
    ASSUME IInv, Synced, pc \in {"ac", "sbh"}, k <= scan.se
    PROVE  Reads("symbol") /\ ReadsBits(1, BitsBehind(Head(stream)))
<1>0. TypeOK /\ pc # "scan" /\ pc # "dc" /\ Typed /\ MaxRun \in Nat
  BY TypedFacts, SizeAssumption DEF IInv
<1>1. PICK run : InScan(run)
  BY <1>0, ScanIsKnown
<1>2. /\ AtSymbol(run, stream, k, eob_run) /\ (pc = "sbh" => scan.ah > 0)
      /\ Sendable(run, target, scan) /\ Legal
  BY <1>0, <1>1 DEF InScan, InStream
<1>3. k \in FirstAC(scan) .. scan.se + 1
  BY <1>2 DEF AtSymbol
<1>4. CASE \E e, q, n, c : ValueAhead(run, e, q, n, c)
  <2>1. PICK e, q, n, c : ValueAhead(run, e, q, n, c)
    BY <1>4
  <2>2. /\ Reads("symbol") /\ Head(stream).size = n /\ n \in Nat /\ n > 0 /\ ReadsBits(1, n)
        /\ IsSymbol(Current, k, e, scan) /\ Coded(Current, e, scan)
        /\ c = PointTransform(Current[e], e, scan.al)
        /\ c \in {-1, 1} => n = 1
    BY <2>1 DEF ValueAhead, LeadsTo
  <2>3. ASSUME pc = "sbh"
        PROVE  n = 1
    <3>1. e \in FirstAC(scan) .. scan.se
      BY <1>0, <1>3, <2>2, SymbolRange
    <3>2. PICK d : IsACNews(block, e, d)
      BY <1>0, <1>2, <3>1, ACNews DEF Typed
    <3>3. c \in {-1, 1}
      BY <1>0, <1>2, <2>2, <2>3, <3>2 DEF IsACNews, Current
    <3> QED
      BY <2>2, <3>3
  <2>4. BitsBehind(Head(stream)) = n
    BY <1>0, <2>2, <2>3 DEF BitsBehind
  <2> QED
    BY <2>2, <2>4
<1>5. CASE \E e, q : ZerosAhead(run, e, q)
  <2>1. Reads("symbol") /\ Head(stream).zeros = MaxRun /\ Head(stream).size = 0
    BY <1>5 DEF ZerosAhead, LeadsTo
  <2>2. BitsBehind(Head(stream)) = 0
    BY <1>0, <2>1 DEF BitsBehind
  <2> QED
    BY <2>1, <2>2 DEF ReadsBits
<1>6. CASE \E q, r : EndAhead(run, q, r)
  <2>1. PICK q, r : EndAhead(run, q, r)
    BY <1>6
  <2>2. Reads("symbol") /\ Head(stream).zeros = r /\ Head(stream).size = 0 /\ r # MaxRun
        /\ ReadsBits(1, r)
    BY <2>1 DEF EndAhead
  <2>3. BitsBehind(Head(stream)) = r
    BY <1>0, <2>2 DEF BitsBehind
  <2> QED
    BY <2>2, <2>3
<1> QED
  BY <1>0, <1>2, <1>4, <1>5, <1>6, SymbolAhead

\* so it is for the difference of two DC values,
LEMMA DCInSync ==
    ASSUME IInv, Synced, pc = "dc"
    PROVE  /\ scan.ah = 0 => Reads("symbol") /\ ReadsBits(1, BitsBehind(Head(stream)))
           /\ scan.ah > 0 => ReadsBits(0, 1)
<1>0. TypeOK /\ scan.ss = 0
  BY DEF IInv, InBand
<1>1. PICK run : InScan(run)
  BY ScanIsKnown
<1>2. ASSUME scan.ah = 0
      PROVE  Reads("symbol") /\ ReadsBits(1, BitsBehind(Head(stream)))
  <2>1. PICK q, n, d : DifferenceAhead(q, n, d)
    BY <1>0, <1>1, <1>2, DCAhead
  <2>2. BitsBehind(Head(stream)) = Head(stream).size
    BY DEF BitsBehind
  <2> QED
    BY <2>1, <2>2 DEF DifferenceAhead
<1> QED
  BY <1>0, <1>1, <1>2, DCBitAhead

\* and where it corrects a coefficient there is the bit.
LEMMA BitInSync ==
    ASSUME IInv, Synced, pc \in {"refine", "ended"}, k <= scan.se, mem[block][k] # 0
    PROVE  ReadsBits(0, 1)
<1>0. TypeOK /\ pc # "scan"
  BY DEF IInv
<1>1. PICK run : InScan(run)
  BY <1>0, ScanIsKnown
<1>2. RefineState(run)
  BY <1>0, <1>1, RefineStateFacts
<1>3. mem[block][k] = Before(block, k)
  BY <1>0, <1>2, Looked
<1>4. PICK c : IsACNews(block, k, c)
  BY <1>0, <1>2, Looked
<1>5. Nonzero(Current, k, scan)
  BY <1>3, <1>4 DEF IsACNews, Current
<1> QED
  BY <1>0, <1>2, <1>4, <1>5, CorrectionAhead

\* From the invariant follows that the decoder reads what was written,
LEMMA SyncedInSync == SyncInv => InSync
<1> SUFFICES ASSUME SyncInv, Intact PROVE InSync
    BY DEF InSync
<1>1. IInv /\ Synced
  BY DEF SyncInv
<1>2. pc = "scan" => stream = <<>>
  BY <1>1 DEF Synced
<1> QED
  BY <1>1, <1>2, SymbolInSync, DCInSync, BitInSync DEF InSync

\* and that its memory holds what was sent.
LEMMA SyncedApproximates == SyncInv => Approximation
<1> SUFFICES ASSUME SyncInv, Intact, NEW b \in DOMAIN target, NEW i \in Coeffs
             PROVE  IF pc = "scan" \/ b > block THEN mem[b][i] = Before(b, i)
                    ELSE IF b < block THEN mem[b][i] = After(b, i)
                    ELSE mem[b][i] \in {Before(b, i), After(b, i)}
    BY DEF Approximation, Before, After
<1>1. /\ Synced /\ target \in Seq(Blocks) /\ block \in DOMAIN target
  BY DEF SyncInv, IInv, TypeOK
<1>2. block \in Nat /\ b \in Nat /\ b >= 1 /\ i \in Nat
  BY <1>1, LenProperties DEF Coeffs
<1>3. CASE pc = "scan"
  <2>1. ~(b < 1) /\ ~(i < 0)
    BY <1>2
  <2>2. MemoryIs(mem, 1, 0)
    BY <1>1, <1>3 DEF Synced
  <2>3. mem[b][i] = Before(b, i)
    BY <2>1, <2>2 DEF MemoryIs
  <2> QED
    BY <1>3, <2>3
<1>4. CASE pc # "scan"
  <2>1. MemoryIs(mem, block, Position)
    BY <1>1, <1>4 DEF Synced
  <2>2. mem[b][i] = IF b < block \/ (b = block /\ i < Position) THEN After(b, i) ELSE Before(b, i)
    BY <2>1 DEF MemoryIs
  <2> QED
    BY <1>2, <1>4, <2>2
<1> QED
  BY <1>3, <1>4

-----------------------------------------------------------------------------

\* In an intact file, whatever its blocks and scans, and however the encoder
\* gathers ended blocks into runs: decode_dc, decode_block_ac, refine_block and
\* decode_block_with_sbh look up a symbol exactly where one was written, read as
\* many bits as belong to it, and are through with the data when the scan ends.
THEOREM DecoderInStep == Spec => []InSync
<1>1. Init => SyncInv
  BY InitSynced
<1>2. SyncInv /\ [Next]_vars => SyncInv'
  BY SyncStep
<1>3. SyncInv => InSync
  BY SyncedInSync
<1> QED
  BY <1>1, <1>2, <1>3, PTL DEF Spec

\* And every coefficient in scan_memory is at every moment what the scans sent
\* of it: with the current scan's bit where the decoder has passed, without it
\* where it has yet to come.
THEOREM CoefficientsRight == Spec => []Approximation
<1>1. Init => SyncInv
  BY InitSynced
<1>2. SyncInv /\ [Next]_vars => SyncInv'
  BY SyncStep
<1>3. SyncInv => Approximation
  BY SyncedApproximates
<1> QED
  BY <1>1, <1>2, <1>3, PTL DEF Spec

=============================================================================
