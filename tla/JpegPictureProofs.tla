-------------------------- MODULE JpegPictureProofs --------------------------
(***************************************************************************)
(* Proofs about JpegPicture, for every set of frames, number of threads    *)
(* and both builds: the sizes are those of whole MCUs, nothing reaches     *)
(* beyond its buffers, and the picture of a handled frame is made of the   *)
(* samples the file has for it.  The inductive invariant says so of every  *)
(* stage: of the blocks in scan_memory, of the samples in                  *)
(* out_block_downsampled, and of the pixels behind each thread.            *)
(***************************************************************************)
EXTENDS JpegPicture, BasicProofs

-----------------------------------------------------------------------------
(***************************************************************************)
(* Numbers and sampling factors                                            *)
(***************************************************************************)

\* A multiple is divided without rest.
LEMMA Multiple ==
    ASSUME NEW a \in Nat, NEW p \in Nat, p > 0
    PROVE  (a * p) \div p = a /\ (a * p) % p = 0
<1>1. (a * p + 0) \div p = a /\ (a * p + 0) % p = 0
  BY DivisionUnique
<1>2. a * p + 0 = a * p
  OBVIOUS
<1> QED
  BY <1>1, <1>2

\* Below a multiple, so is the quotient.
LEMMA QuotientBelow ==
    ASSUME NEW w \in Nat, NEW p \in Nat, p > 0, NEW n \in Nat, w < n * p
    PROVE  w \div p \in Nat /\ w \div p < n
<1>1. PICK q \in Nat, r \in Nat : q = w \div p /\ w = q * p + r
  BY Division
<1>2. q >= n => q * p >= n * p
  BY ProductGrows
<1> QED
  BY <1>1, <1>2

\* Up to a multiple, so is the quotient.
LEMMA QuotientAtMost ==
    ASSUME NEW w \in Nat, NEW p \in Nat, p > 0, NEW n \in Nat, w <= n * p
    PROVE  w \div p \in Nat /\ w \div p <= n
<1>1. w < (n + 1) * p
  <2>1. (n + 1) * p = n * p + p /\ n * p \in Nat
    OBVIOUS
  <2> QED
    BY <2>1
<1> QED
  BY <1>1, QuotientBelow

\* A size that is not larger than the other rounded up is rounded up to the same.
LEMMA SameCeil ==
    ASSUME NEW s \in Nat, NEW w \in Nat, NEW d \in Nat, d > 0, s <= w, w <= Ceil(s, d) * d
    PROVE  Ceil(w, d) = Ceil(s, d)
<1>1. PICK k \in Nat : k = Ceil(s, d) /\ k * d \in Nat /\ s <= k * d /\ k * d < s + d
  BY Ceiling DEF Ceil
<1>2. PICK e \in Nat : e = Ceil(w, d) /\ e * d \in Nat /\ w <= e * d /\ e * d < w + d
  BY Ceiling DEF Ceil
<1>3. w <= k * d
  BY <1>1
<1>4. ~(e >= k + 1)
  <2>1. e >= k + 1 => e * d >= (k + 1) * d
    BY ProductGrows
  <2>2. (k + 1) * d = k * d + d
    OBVIOUS
  <2> QED
    BY <1>1, <1>2, <1>3, <2>1, <2>2
<1>5. ~(k >= e + 1)
  <2>1. k >= e + 1 => k * d >= (e + 1) * d
    BY ProductGrows
  <2>2. (e + 1) * d = e * d + d
    OBVIOUS
  <2> QED
    BY <1>1, <1>2, <2>1, <2>2
<1> QED
  BY <1>1, <1>2, <1>4, <1>5

\* A size rounded up is less than one unit larger.
LEMMA CeilFacts ==
    ASSUME NEW s \in Nat \ {0}, NEW d \in Nat, d > 0
    PROVE  /\ Ceil(s, d) \in Nat \ {0}
           /\ Ceil(s, d) * d \in Nat
           /\ s <= Ceil(s, d) * d
           /\ Ceil(s, d) * d < s + d
<1>1. PICK k \in Nat : k = Ceil(s, d) /\ k * d \in Nat /\ s <= k * d /\ k * d < s + d
  BY Ceiling DEF Ceil
<1>2. k # 0
  BY <1>1
<1> QED
  BY <1>1, <1>2

\* The largest of two numbers.
LEMMA LargestOfTwo ==
    ASSUME NEW a \in Nat, NEW b \in Nat
    PROVE  /\ Largest({a, b}) \in {a, b}
           /\ a <= Largest({a, b}) /\ b <= Largest({a, b})
<1>1. \E n \in {a, b} : \A m \in {a, b} : m <= n
  OBVIOUS
<1> QED
  BY <1>1 DEF Largest

\* The largest of three numbers.
LEMMA LargestOfThree ==
    ASSUME NEW a \in Nat, NEW b \in Nat, NEW c \in Nat
    PROVE  /\ Largest({a, b, c}) \in {a, b, c}
           /\ \A m \in {a, b, c} : m <= Largest({a, b, c})
<1>1. \E n \in {a, b, c} : \A m \in {a, b, c} : m <= n
  <2>1. CASE a >= b /\ a >= c
    BY <2>1
  <2>2. CASE b >= a /\ b >= c
    BY <2>2
  <2>3. CASE c >= a /\ c >= b
    BY <2>3
  <2> QED
    BY <2>1, <2>2, <2>3
<1> QED
  BY <1>1 DEF Largest

\* The code has 8 samples along a side; the runs of TLC have 4.
LEMMA BlockSizeFacts == BlockSize \in Nat /\ (BlockSize = 4 \/ BlockSize = 8)
BY BlockSizeAssumption

\* The sampling factors and their largest.
LEMMA FactorFacts ==
    ASSUME NEW f \in Frames
    PROVE  /\ f.X \in Nat \ {0} /\ f.Y \in Nat \ {0}
           /\ \A c \in Components :
                  /\ H(f, c) \in 1 .. 4 /\ H(f, c) <= HMax(f)
                  /\ V(f, c) \in 1 .. 4 /\ V(f, c) <= VMax(f)
           /\ HMax(f) \in 1 .. 4 /\ \E c \in Components : HMax(f) = H(f, c)
           /\ VMax(f) \in 1 .. 4 /\ \E c \in Components : VMax(f) = V(f, c)
<1>1. \A c \in Components : H(f, c) \in 1 .. 4 /\ V(f, c) \in 1 .. 4
  BY FramesAssumption DEF H, V
<1>2. {H(f, c) : c \in Components} = {H(f, 0), H(f, 1), H(f, 2)}
  BY DEF Components
<1>3. {V(f, c) : c \in Components} = {V(f, 0), V(f, 1), V(f, 2)}
  BY DEF Components
<1>4. 0 \in Components /\ 1 \in Components /\ 2 \in Components
  BY DEF Components
<1>5. /\ HMax(f) \in {H(f, 0), H(f, 1), H(f, 2)}
      /\ \A m \in {H(f, 0), H(f, 1), H(f, 2)} : m <= HMax(f)
  <2>1. H(f, 0) \in Nat /\ H(f, 1) \in Nat /\ H(f, 2) \in Nat
    BY <1>1, <1>4
  <2>2. HMax(f) = Largest({H(f, 0), H(f, 1), H(f, 2)})
    BY <1>2 DEF HMax
  <2> QED
    BY <2>1, <2>2, LargestOfThree
<1>6. /\ VMax(f) \in {V(f, 0), V(f, 1), V(f, 2)}
      /\ \A m \in {V(f, 0), V(f, 1), V(f, 2)} : m <= VMax(f)
  <2>1. V(f, 0) \in Nat /\ V(f, 1) \in Nat /\ V(f, 2) \in Nat
    BY <1>1, <1>4
  <2>2. VMax(f) = Largest({V(f, 0), V(f, 1), V(f, 2)})
    BY <1>3 DEF VMax
  <2> QED
    BY <2>1, <2>2, LargestOfThree
<1>7. \A c \in Components : H(f, c) <= HMax(f) /\ V(f, c) <= VMax(f)
  BY <1>2, <1>3, <1>5, <1>6
<1>8. (\E c \in Components : HMax(f) = H(f, c)) /\ (\E c \in Components : VMax(f) = V(f, c))
  BY <1>2, <1>3, <1>5, <1>6
<1>9. f.X \in Nat \ {0} /\ f.Y \in Nat \ {0}
  BY FramesAssumption
<1> QED
  BY <1>1, <1>7, <1>8, <1>9

\* The code's names for them.
LEMMA CodeFactors ==
    /\ \A c : vert_sample_factor(c) = H(frame, c) /\ horz_sample_factor(c) = V(frame, c)
    /\ max_vert_sample_factor = HMax(frame)
    /\ max_horz_sample_factor = VMax(frame)
BY DEF vert_sample_factor, horz_sample_factor, H, V, HMax, VMax,
       max_vert_sample_factor, max_horz_sample_factor

-----------------------------------------------------------------------------
(***************************************************************************)
(* The inductive invariant: the control of the decoder (ControlInv), and   *)
(* of handled frames what is decoded, processed and converted so far       *)
(***************************************************************************)

\* The MCUs of a row, the rows of them, and the blocks of a component in a row, as
\* the code counts them.
MCUColumns == Ceil(frame.X, BlockSize * max_horz_sample_factor)
MCURows == Ceil(frame.Y, BlockSize * max_vert_sample_factor)
BlocksInRow(c) == MCUColumns * (horz_sample_factor(c) * vert_sample_factor(c))

\* What does not change.
FrameInv ==
    /\ frame \in Frames
    /\ build \in [vectors : {"x64", "arm64"}, threads : {1, NumThreads}]

\* The sizes parse_sof computes are those of whole MCUs.
HasSizes == pc \notin {"header", "exited"}

SizesInv ==
    HasSizes =>
        /\ X = MCUColumns * (BlockSize * max_horz_sample_factor)
        /\ Y = MCURows * (BlockSize * max_vert_sample_factor)
        /\ image_components =
               [c \in Components |->
                   [vert_samples |-> MCURows * (BlockSize * vert_sample_factor(c)),
                    horz_samples |-> MCUColumns * (BlockSize * horz_sample_factor(c)),
                    num_scans |-> MCURows,
                    num_blocks_in_scan |-> BlocksInRow(c)]]

\* As many blocks have been read as the rows behind have.
PositionInv ==
    /\ pc \in {"header", "rows", "process", "convert", "done", "exited", "astray"}
    /\ scan \in DOMAIN Scans(frame)
    /\ mcu_row \in 0 .. MCURows
    /\ consumed = mcu_row * (MCUColumns * BlocksOfAll)
    /\ channel \in 0 .. 3

\* The padded picture has a pixel for each of its places.
ImageInv ==
    /\ image_data.height \in Nat /\ image_data.width \in Nat
    /\ pc \in {"rows", "process", "convert"} =>
           image_data = [data |-> [k \in 0 .. X * Y - 1 |-> image_data.data[k]],
                         height |-> RoundUp(frame.Y, BlockSize),
                         width |-> RoundUp(frame.X, BlockSize)]

\* Each thread is in its slice.
ConverterInv ==
    /\ pc \in {"header", "rows", "process", "astray"} => converter = <<>>
    /\ pc \in {"convert", "done"} =>
           /\ channel = 3
           /\ DOMAIN converter = 0 .. build.threads - 1
           /\ converter = [t \in 0 .. build.threads - 1 |-> converter[t]]
           /\ \A t \in 0 .. build.threads - 1 : converter[t] \in SliceStart(t) .. SliceEnd(t)

\* All but what the samples are.
ControlInv == FrameInv /\ SizesInv /\ PositionInv /\ ImageInv /\ ConverterInv

\* The block of the picture that belongs in place k of row r, and which rows of
\* a component's part have all of theirs.
OwnBlock(c, r, k) ==
    Block(c, k % (MCUColumns * horz_sample_factor(c)),
          r * vert_sample_factor(c) + k \div (MCUColumns * horz_sample_factor(c)))

\* Does scan s hold part p of component c?
InScan(s, c, p) ==
    /\ p \in Scans(frame)[s].parts
    /\ \E n \in DOMAIN Scans(frame)[s].comps : Scans(frame)[s].comps[n] = c

\* Is row r of part p of component c decoded?
IsDecoded(c, p, r) ==
    \/ pc \in {"process", "convert"}
    \/ \E s \in DOMAIN Scans(frame) :
           InScan(s, c, p) /\ (s < scan \/ (s = scan /\ r < mcu_row))

\* The decoded rows of a handled frame hold the blocks that belong there.
MemoryInv ==
    pc \in {"rows", "process", "convert"} =>
        \A c \in Components, p \in Parts :
            /\ scan_memory[c][p] = [r \in 0 .. MCURows - 1 |-> scan_memory[c][p][r]]
            /\ \A r \in 0 .. MCURows - 1 :
                   /\ DOMAIN scan_memory[c][p][r] = 0 .. BlocksInRow(c) - 1
                   /\ IsHandled(frame) /\ IsDecoded(c, p, r) =>
                          \A k \in 0 .. BlocksInRow(c) - 1 :
                              scan_memory[c][p][r][k] = OwnBlock(c, r, k)

\* The samples are those of their blocks.
SamplesInv ==
    pc \in {"rows", "process", "convert"} =>
        /\ out_block_downsampled = [c \in Components |-> out_block_downsampled[c]]
        /\ IsHandled(frame) =>
               \A c \in Components : c < channel =>
                   out_block_downsampled[c] =
                       [k \in 0 .. MCURows * BlocksInRow(c) - 1 |->
                           [p \in Parts |-> OwnBlock(c, k \div BlocksInRow(c), k % BlocksInRow(c))]]

\* What pixel k is to be made of, which is so in the rows behind.
Own(k) ==
    Pixel(SampleAt(frame, 0, k % X, k \div X),
          SampleAt(frame, 1, k % X, k \div X),
          SampleAt(frame, 2, k % X, k \div X))

\* In the rows a thread has behind it the pixels are right.
PixelsInv ==
    pc = "convert" /\ IsHandled(frame) =>
        \A t \in 0 .. build.threads - 1 :
            \A k \in 0 .. X * Y - 1 :
                k \div pixels_in_scan \in SliceStart(t) .. converter[t] - 1
                    => image_data.data[k] = Own(k)

\* The scans of a handled frame end where their data does.
NotAstray == IsHandled(frame) => pc # "astray"

\* Nothing is decoded before the header.
StartInv == pc = "header" => scan = 1 /\ mcu_row = 0 /\ channel = 0

\* The inductive invariant.
IInv == /\ ControlInv /\ StartInv /\ MemoryInv /\ SamplesInv /\ PixelsInv
        /\ NotAstray /\ PictureRight

-----------------------------------------------------------------------------
(***************************************************************************)
(* The sizes parse_sof computes                                            *)
(***************************************************************************)

\* Grown is defined by recursion.
LEMMA GrownDefinition ==
    /\ Grown[0] = [X |-> RoundUp(frame.X, BlockSize), Y |-> RoundUp(frame.Y, BlockSize)]
    /\ \A c \in Components :
           Grown[c + 1] = [X |-> Largest({Grown[c].X, horz_samples(c, Grown[c].X)}),
                           Y |-> Largest({Grown[c].Y, vert_samples(c, Grown[c].Y)})]
<1> DEFINE a == [X |-> RoundUp(frame.X, BlockSize), Y |-> RoundUp(frame.Y, BlockSize)]
           G(c, x) == [X |-> Largest({x.X, horz_samples(c, x.X)}),
                       Y |-> Largest({x.Y, vert_samples(c, x.Y)})]
           b == G(1 - 1, a)
           d == G(2 - 1, b)
           e == G(3 - 1, d)
           g == [c \in 0 .. 3 |-> IF c = 0 THEN a ELSE IF c = 1 THEN b ELSE IF c = 2 THEN d ELSE e]
<1>1. \E q : q = [c \in 0 .. 3 |-> IF c = 0 THEN a ELSE G(c - 1, q[c - 1])]
  <2>1. g[0] = a /\ g[1] = b /\ g[2] = d /\ g[3] = e
    <3> HIDE DEF a, b, d, e
    <3> QED
      OBVIOUS
  <2>2. b = G(1 - 1, g[1 - 1]) /\ d = G(2 - 1, g[2 - 1]) /\ e = G(3 - 1, g[3 - 1])
    <3>1. 1 - 1 = 0 /\ 2 - 1 = 1 /\ 3 - 1 = 2
      OBVIOUS
    <3>2. g[1 - 1] = a /\ g[2 - 1] = b /\ g[3 - 1] = d
      BY <2>1, <3>1
    <3> HIDE DEF g
    <3> QED
      BY <3>2
  <2>3. ASSUME NEW c \in 0 .. 3
        PROVE  g[c] = IF c = 0 THEN a ELSE G(c - 1, g[c - 1])
    <3>1. c = 0 \/ c = 1 \/ c = 2 \/ c = 3
      OBVIOUS
    <3> HIDE DEF g, a, b, d, e, G
    <3> QED
      BY <2>1, <2>2, <3>1
  <2>4. g = [c \in 0 .. 3 |-> g[c]]
    OBVIOUS
  <2> HIDE DEF g, a, b, d, e, G
  <2>5. g = [c \in 0 .. 3 |-> IF c = 0 THEN a ELSE G(c - 1, g[c - 1])]
    BY <2>3, <2>4
  <2> QED
    BY <2>5
<1>2. Grown = [c \in 0 .. 3 |-> IF c = 0 THEN a ELSE G(c - 1, Grown[c - 1])]
  BY <1>1 DEF Grown
<1> HIDE DEF a, G
<1>3. Grown[0] = a
  BY <1>2
<1>4. ASSUME NEW c \in Components
      PROVE  Grown[c + 1] = G(c, Grown[c])
  <2>1. c + 1 \in 0 .. 3 /\ c + 1 # 0 /\ (c + 1) - 1 = c
    BY DEF Components
  <2> QED
    BY <1>2, <2>1
<1> QED
  BY <1>3, <1>4 DEF a, G

\* Sizes are natural numbers.
LEMMA MCUFacts ==
    ASSUME frame \in Frames
    PROVE  /\ MCUColumns \in Nat \ {0} /\ MCURows \in Nat \ {0}
           /\ \A c \in Components : BlocksInRow(c) \in Nat \ {0}
           /\ frame.X <= MCUColumns * (BlockSize * max_horz_sample_factor)
           /\ frame.Y <= MCURows * (BlockSize * max_vert_sample_factor)
<1>1. /\ frame.X \in Nat \ {0} /\ frame.Y \in Nat \ {0}
      /\ max_horz_sample_factor \in 1 .. 4 /\ max_vert_sample_factor \in 1 .. 4
      /\ \A c \in Components : horz_sample_factor(c) \in 1 .. 4 /\ vert_sample_factor(c) \in 1 .. 4
  BY FactorFacts, CodeFactors
<1>2. PICK d \in Nat \ {0}, e \in Nat \ {0} :
          d = BlockSize * max_horz_sample_factor /\ e = BlockSize * max_vert_sample_factor
  BY <1>1, BlockSizeFacts
<1>3. MCUColumns \in Nat \ {0} /\ frame.X <= MCUColumns * d
  <2>1. Ceil(frame.X, d) \in Nat \ {0} /\ frame.X <= Ceil(frame.X, d) * d
    <3>1. d \in Nat /\ d > 0
      BY <1>2
    <3> QED
      BY <1>1, <3>1, CeilFacts
  <2>2. MCUColumns = Ceil(frame.X, d)
    BY <1>2 DEF MCUColumns
  <2> QED
    BY <2>1, <2>2
<1>4. MCURows \in Nat \ {0} /\ frame.Y <= MCURows * e
  <2>1. Ceil(frame.Y, e) \in Nat \ {0} /\ frame.Y <= Ceil(frame.Y, e) * e
    <3>1. e \in Nat /\ e > 0
      BY <1>2
    <3> QED
      BY <1>1, <3>1, CeilFacts
  <2>2. MCURows = Ceil(frame.Y, e)
    BY <1>2 DEF MCURows
  <2> QED
    BY <2>1, <2>2
<1>5. ASSUME NEW c \in Components
      PROVE  BlocksInRow(c) \in Nat \ {0}
  <2>1. PICK h \in 1 .. 4, v \in 1 .. 4 : h = horz_sample_factor(c) /\ v = vert_sample_factor(c)
    BY <1>1
  <2>2. PICK x \in Nat \ {0} : x = h * v
    OBVIOUS
  <2>3. \A k \in Nat \ {0} : k * x \in Nat \ {0}
    OBVIOUS
  <2> QED
    BY <1>3, <2>1, <2>2, <2>3 DEF BlocksInRow
<1> QED
  BY <1>2, <1>3, <1>4, <1>5

\* As long as the size is not larger than whole MCUs, a component gets its part
\* of these.
LEMMA SamplesOfSize ==
    ASSUME NEW s \in Nat \ {0}, NEW w \in Nat, NEW m \in 1 .. 4, NEW h \in 1 .. 4, h <= m,
           s <= w, w <= Ceil(s, BlockSize * m) * (BlockSize * m)
    PROVE  /\ (RoundUp(w, BlockSize * m) * h) \div m = Ceil(s, BlockSize * m) * (BlockSize * h)
           /\ Ceil(s, BlockSize * m) * (BlockSize * h) \in Nat
           /\ Ceil(s, BlockSize * m) * (BlockSize * h) <= Ceil(s, BlockSize * m) * (BlockSize * m)
<1>1. PICK b \in Nat : b = BlockSize /\ b > 0
  BY BlockSizeFacts
<1>2. PICK d \in Nat \ {0}, e \in Nat : d = b * m /\ e = b * h
  BY <1>1
<1>3. PICK k \in Nat : k = Ceil(s, d)
  BY <1>2, CeilFacts
<1>4. Ceil(w, d) = k
  BY <1>1, <1>2, <1>3, SameCeil
<1>5. (k * d) * h = (k * e) * m
  BY <1>2
<1>6. PICK x \in Nat : x = k * e
  BY Products
<1>7. ((k * d) * h) \div m = k * e
  BY <1>5, <1>6, Multiple
<1>8. e <= d
  <2>1. h * b <= m * b
    BY <1>1, ProductGrows
  <2>2. h * b = e /\ m * b = d
    BY <1>1, <1>2
  <2> QED
    BY <2>1, <2>2
<1>9. k * e <= k * d
  <2>1. e * k <= d * k
    BY <1>8, ProductGrows
  <2>2. e * k = k * e /\ d * k = k * d
    OBVIOUS
  <2> QED
    BY <2>1, <2>2
<1> QED
  BY <1>1, <1>2, <1>3, <1>4, <1>6, <1>7, <1>9 DEF RoundUp

\* The size does not grow beyond whole MCUs, and reaches them in the end.
LEMMA GrownSize ==
    ASSUME NEW s \in Nat \ {0}, NEW m \in 1 .. 4,
           NEW h \in [Components -> 1 .. 4],
           \A c \in Components : h[c] <= m,
           \E c \in Components : h[c] = m,
           NEW g, g[0] = RoundUp(s, BlockSize),
           \A c \in Components :
               g[c + 1] = Largest({g[c], (RoundUp(g[c], BlockSize * m) * h[c]) \div m})
    PROVE  /\ \A c \in Components :
                  (RoundUp(g[c], BlockSize * m) * h[c]) \div m = Ceil(s, BlockSize * m) * (BlockSize * h[c])
           /\ g[3] = Ceil(s, BlockSize * m) * (BlockSize * m)
           /\ g[0] \in Nat
<1>1. PICK b \in Nat : b = BlockSize /\ b > 0
  BY BlockSizeFacts
<1>2. PICK d \in Nat \ {0} : d = b * m
  BY <1>1
<1>3. PICK k \in Nat \ {0} : k = Ceil(s, d)
  BY <1>2, CeilFacts
<1>4. PICK w \in Nat : w = k * d
  BY Products
<1>5. s <= w
  <2>1. d \in Nat /\ d > 0
    OBVIOUS
  <2> QED
    BY <1>3, <1>4, <2>1, CeilFacts
<1> DEFINE Fits(x) == x \in Nat /\ s <= x /\ x <= w
           P(c) == k * (b * h[c])
<1>6. Fits(g[0])
  <2>1. PICK q \in Nat : q = Ceil(s, b) /\ q * b \in Nat /\ s <= q * b /\ q * b < s + b
    BY <1>1, CeilFacts
  <2>2. PICK n \in Nat : n = k * m
    BY Products
  <2>3. n * b = w
    BY <1>1, <1>2, <1>4, <2>2
  <2>4. q >= n + 1 => q * b >= (n + 1) * b
    BY <1>1, <2>1, ProductGrows
  <2>5. (n + 1) * b = n * b + b
    BY <1>1
  <2>6. q <= n
    BY <1>1, <1>5, <2>1, <2>3, <2>4, <2>5
  <2>7. q * b <= n * b
    BY <1>1, <2>1, <2>6, ProductGrows
  <2>8. g[0] = q * b
    BY <1>1, <2>1 DEF RoundUp
  <2> QED
    BY <2>1, <2>3, <2>7, <2>8
<1>7. ASSUME NEW c \in Components, Fits(g[c])
      PROVE  /\ (RoundUp(g[c], d) * h[c]) \div m = P(c)
             /\ P(c) \in Nat /\ P(c) <= w
             /\ g[c + 1] \in {g[c], P(c)}
             /\ g[c] <= g[c + 1] /\ P(c) <= g[c + 1]
             /\ Fits(g[c + 1])
  <2>1. PICK x \in Nat : x = g[c] /\ s <= x /\ x <= w
    BY <1>7
  <2>2. PICK j \in 1 .. 4 : j = h[c] /\ j <= m
    OBVIOUS
  <2>3. x <= Ceil(s, BlockSize * m) * (BlockSize * m)
    BY <1>1, <1>2, <1>3, <1>4, <2>1
  <2>4. /\ (RoundUp(x, BlockSize * m) * j) \div m = Ceil(s, BlockSize * m) * (BlockSize * j)
        /\ Ceil(s, BlockSize * m) * (BlockSize * j) \in Nat
        /\ Ceil(s, BlockSize * m) * (BlockSize * j) <= Ceil(s, BlockSize * m) * (BlockSize * m)
    BY <2>1, <2>2, <2>3, SamplesOfSize
  <2>5. (RoundUp(x, d) * j) \div m = P(c) /\ P(c) \in Nat /\ P(c) <= w
    BY <1>1, <1>2, <1>3, <1>4, <2>2, <2>4
  <2>6. g[c + 1] = Largest({x, P(c)})
    BY <1>1, <1>2, <2>1, <2>2, <2>5
  <2> HIDE DEF P
  <2>7. g[c + 1] \in {x, P(c)} /\ x <= g[c + 1] /\ P(c) <= g[c + 1]
    BY <2>5, <2>6, LargestOfTwo
  <2> QED
    BY <2>1, <2>2, <2>5, <2>7
<1>8. 0 \in Components /\ 1 \in Components /\ 2 \in Components
      /\ 0 + 1 = 1 /\ 1 + 1 = 2 /\ 2 + 1 = 3
  BY DEF Components
<1> HIDE DEF P
<1>9. Fits(g[1]) /\ g[0] <= g[1] /\ P(0) <= g[1]
  BY <1>6, <1>7, <1>8
<1>10. Fits(g[2]) /\ g[1] <= g[2] /\ P(1) <= g[2]
  BY <1>7, <1>8, <1>9
<1>11. Fits(g[3]) /\ g[2] <= g[3] /\ P(2) <= g[3]
  BY <1>7, <1>8, <1>10
<1>12. \A c \in Components : P(c) \in Nat
  <2>1. \A c \in Components : c = 0 \/ c = 1 \/ c = 2
    BY DEF Components
  <2> QED
    BY <1>6, <1>7, <1>8, <1>9, <1>10, <2>1
<1>13. \A c \in Components : P(c) <= g[3]
  <2>1. P(0) <= g[3] /\ P(1) <= g[3] /\ P(2) <= g[3]
    BY <1>6, <1>8, <1>9, <1>10, <1>11, <1>12
  <2> QED
    BY <2>1 DEF Components
<1>14. g[3] = w
  <2>1. PICK c \in Components : h[c] = m
    OBVIOUS
  <2>2. P(c) = w
    BY <1>1, <1>2, <1>4, <2>1 DEF P
  <2> QED
    BY <1>11, <1>13, <2>2
<1>15. ASSUME NEW c \in Components
       PROVE  (RoundUp(g[c], d) * h[c]) \div m = P(c)
  <2>1. c = 0 \/ c = 1 \/ c = 2
    BY DEF Components
  <2> QED
    BY <1>6, <1>7, <1>9, <1>10, <2>1
<1> QED
  BY <1>1, <1>2, <1>3, <1>4, <1>6, <1>14, <1>15 DEF P

\* The sizes parse_sof computes.
LEMMA Sizes ==
    ASSUME frame \in Frames
    PROVE  /\ Grown[0] = [X |-> RoundUp(frame.X, BlockSize), Y |-> RoundUp(frame.Y, BlockSize)]
           /\ Grown[0].X \in Nat /\ Grown[0].Y \in Nat
           /\ Grown[3].X = MCUColumns * (BlockSize * max_horz_sample_factor)
           /\ Grown[3].Y = MCURows * (BlockSize * max_vert_sample_factor)
           /\ \A c \in Components :
                  /\ horz_samples(c, Grown[c].X) = MCUColumns * (BlockSize * horz_sample_factor(c))
                  /\ vert_samples(c, Grown[c].Y) = MCURows * (BlockSize * vert_sample_factor(c))
<1> DEFINE hs == [c \in Components |-> horz_sample_factor(c)]
           vs == [c \in Components |-> vert_sample_factor(c)]
           xs == [c \in 0 .. 3 |-> Grown[c].X]
           ys == [c \in 0 .. 3 |-> Grown[c].Y]
<1>1. /\ frame.X \in Nat \ {0} /\ frame.Y \in Nat \ {0}
      /\ max_horz_sample_factor \in 1 .. 4 /\ max_vert_sample_factor \in 1 .. 4
      /\ \A c \in Components :
             /\ horz_sample_factor(c) \in 1 .. 4 /\ horz_sample_factor(c) <= max_horz_sample_factor
             /\ vert_sample_factor(c) \in 1 .. 4 /\ vert_sample_factor(c) <= max_vert_sample_factor
      /\ \E c \in Components : horz_sample_factor(c) = max_horz_sample_factor
      /\ \E c \in Components : vert_sample_factor(c) = max_vert_sample_factor
  BY FactorFacts, CodeFactors
<1>2. /\ hs \in [Components -> 1 .. 4] /\ vs \in [Components -> 1 .. 4]
      /\ \A c \in Components : hs[c] = horz_sample_factor(c) /\ vs[c] = vert_sample_factor(c)
  BY <1>1
<1>3. \A c \in Components : c \in 0 .. 3 /\ c + 1 \in 0 .. 3
  BY DEF Components
<1>4. \A c \in 0 .. 3 : xs[c] = Grown[c].X /\ ys[c] = Grown[c].Y
  OBVIOUS
<1> HIDE DEF hs, vs, xs, ys
<1>5. /\ xs[0] = RoundUp(frame.X, BlockSize) /\ ys[0] = RoundUp(frame.Y, BlockSize)
      /\ \A c \in Components :
             /\ xs[c + 1] =
                    Largest({xs[c],
                             (RoundUp(xs[c], BlockSize * max_horz_sample_factor) * hs[c])
                                 \div max_horz_sample_factor})
             /\ ys[c + 1] =
                    Largest({ys[c],
                             (RoundUp(ys[c], BlockSize * max_vert_sample_factor) * vs[c])
                                 \div max_vert_sample_factor})
  <2>1. 0 \in 0 .. 3
    OBVIOUS
  <2>2. xs[0] = RoundUp(frame.X, BlockSize) /\ ys[0] = RoundUp(frame.Y, BlockSize)
    BY <1>4, <2>1, GrownDefinition
  <2>3. ASSUME NEW c \in Components
        PROVE  /\ xs[c + 1] =
                      Largest({xs[c],
                               (RoundUp(xs[c], BlockSize * max_horz_sample_factor) * hs[c])
                                   \div max_horz_sample_factor})
               /\ ys[c + 1] =
                      Largest({ys[c],
                               (RoundUp(ys[c], BlockSize * max_vert_sample_factor) * vs[c])
                                   \div max_vert_sample_factor})
    <3>1. /\ Grown[c + 1].X = Largest({Grown[c].X, horz_samples(c, Grown[c].X)})
          /\ Grown[c + 1].Y = Largest({Grown[c].Y, vert_samples(c, Grown[c].Y)})
      <4>1. \A a, b : [X |-> a, Y |-> b].X = a /\ [X |-> a, Y |-> b].Y = b
        OBVIOUS
      <4>2. Grown[c + 1] = [X |-> Largest({Grown[c].X, horz_samples(c, Grown[c].X)}),
                            Y |-> Largest({Grown[c].Y, vert_samples(c, Grown[c].Y)})]
        BY GrownDefinition
      <4> QED
        BY <4>1, <4>2
    <3>2. /\ xs[c] = Grown[c].X /\ xs[c + 1] = Grown[c + 1].X
          /\ ys[c] = Grown[c].Y /\ ys[c + 1] = Grown[c + 1].Y
      BY <1>3, <1>4
    <3> QED
      BY <1>2, <3>1, <3>2 DEF horz_samples, vert_samples
  <2> QED
    BY <2>2, <2>3
<1>6. /\ \A c \in Components :
             (RoundUp(xs[c], BlockSize * max_horz_sample_factor) * hs[c]) \div max_horz_sample_factor
                 = MCUColumns * (BlockSize * hs[c])
      /\ xs[3] = MCUColumns * (BlockSize * max_horz_sample_factor)
      /\ xs[0] \in Nat
  <2>1. PICK s \in Nat \ {0}, m \in 1 .. 4 : s = frame.X /\ m = max_horz_sample_factor
    BY <1>1
  <2>2. \A c \in Components : hs[c] <= m
    BY <1>1, <1>2, <2>1
  <2>3. \E c \in Components : hs[c] = m
    BY <1>1, <1>2, <2>1
  <2>4. /\ \A c \in Components :
               (RoundUp(xs[c], BlockSize * m) * hs[c]) \div m = Ceil(s, BlockSize * m) * (BlockSize * hs[c])
        /\ xs[3] = Ceil(s, BlockSize * m) * (BlockSize * m)
        /\ xs[0] \in Nat
    <3>1. /\ xs[0] = RoundUp(s, BlockSize)
          /\ \A c \in Components :
                 xs[c + 1] = Largest({xs[c], (RoundUp(xs[c], BlockSize * m) * hs[c]) \div m})
      BY <1>5, <2>1
    <3> QED
      BY <1>2, <2>2, <2>3, <3>1, GrownSize
  <2> QED
    BY <2>1, <2>4 DEF MCUColumns
<1>7. /\ \A c \in Components :
             (RoundUp(ys[c], BlockSize * max_vert_sample_factor) * vs[c]) \div max_vert_sample_factor
                 = MCURows * (BlockSize * vs[c])
      /\ ys[3] = MCURows * (BlockSize * max_vert_sample_factor)
      /\ ys[0] \in Nat
  <2>1. PICK s \in Nat \ {0}, m \in 1 .. 4 : s = frame.Y /\ m = max_vert_sample_factor
    BY <1>1
  <2>2. \A c \in Components : vs[c] <= m
    BY <1>1, <1>2, <2>1
  <2>3. \E c \in Components : vs[c] = m
    BY <1>1, <1>2, <2>1
  <2>4. /\ \A c \in Components :
               (RoundUp(ys[c], BlockSize * m) * vs[c]) \div m = Ceil(s, BlockSize * m) * (BlockSize * vs[c])
        /\ ys[3] = Ceil(s, BlockSize * m) * (BlockSize * m)
        /\ ys[0] \in Nat
    <3>1. /\ ys[0] = RoundUp(s, BlockSize)
          /\ \A c \in Components :
                 ys[c + 1] = Largest({ys[c], (RoundUp(ys[c], BlockSize * m) * vs[c]) \div m})
      BY <1>5, <2>1
    <3> QED
      BY <1>2, <2>2, <2>3, <3>1, GrownSize
  <2> QED
    BY <2>1, <2>4 DEF MCURows
<1>8. 0 \in 0 .. 3 /\ 3 \in 0 .. 3
  OBVIOUS
<1> QED
  BY <1>2, <1>3, <1>4, <1>6, <1>7, <1>8, GrownDefinition DEF horz_samples, vert_samples

-----------------------------------------------------------------------------
(***************************************************************************)
(* Sequences                                                               *)
(***************************************************************************)

\* The joint of two sequences.
LEMMA Joined ==
    ASSUME NEW S, NEW s \in Seq(S), NEW t \in Seq(S), NEW m \in Nat, NEW n \in Nat,
           Len(s) = m, Len(t) = n
    PROVE  /\ s \o t \in Seq(S)
           /\ Len(s \o t) = m + n
           /\ DOMAIN (s \o t) = 1 .. m + n
           /\ \A i \in 1 .. m + n : (s \o t)[i] = IF i <= m THEN s[i] ELSE t[i - m]
<1>1. /\ s \o t \in Seq(S)
      /\ Len(s \o t) = m + n
      /\ \A i \in 1 .. m + n : (s \o t)[i] = IF i <= m THEN s[i] ELSE t[i - m]
  BY ConcatProperties
<1>2. DOMAIN (s \o t) = 1 .. Len(s \o t)
  BY <1>1, LenProperties
<1> QED
  BY <1>1, <1>2

-----------------------------------------------------------------------------
(***************************************************************************)
(* The sizes and the scans                                                 *)
(***************************************************************************)

\* The sampling factors under the code's names.
LEMMA CodeFactorFacts ==
    ASSUME frame \in Frames
    PROVE  /\ \A c \in Components :
                  /\ vert_sample_factor(c) \in 1 .. 4 /\ vert_sample_factor(c) <= max_vert_sample_factor
                  /\ horz_sample_factor(c) \in 1 .. 4 /\ horz_sample_factor(c) <= max_horz_sample_factor
           /\ max_vert_sample_factor \in 1 .. 4 /\ max_horz_sample_factor \in 1 .. 4
BY FactorFacts, CodeFactors

\* The record of a component's sizes.
LEMMA ComponentSizes ==
    ASSUME frame \in Frames, NEW c \in Components
    PROVE  ImageComponent(c) =
               [vert_samples |-> MCURows * (BlockSize * vert_sample_factor(c)),
                horz_samples |-> MCUColumns * (BlockSize * horz_sample_factor(c)),
                num_scans |-> MCURows,
                num_blocks_in_scan |-> BlocksInRow(c)]
<1>1. PICK b \in Nat : b = BlockSize /\ b > 0
  BY BlockSizeFacts
<1>2. PICK h \in 1 .. 4, v \in 1 .. 4 : h = horz_sample_factor(c) /\ v = vert_sample_factor(c)
  BY CodeFactorFacts
<1>3. PICK kx \in Nat, ky \in Nat : kx = MCUColumns /\ ky = MCURows
  BY MCUFacts
<1>4. /\ horz_samples(c, Grown[c].X) = kx * (b * h)
      /\ vert_samples(c, Grown[c].Y) = ky * (b * v)
  BY <1>1, <1>2, <1>3, Sizes
<1>5. ((ky * (b * v)) \div v) \div b = ky
  <2>1. PICK x \in Nat : x = ky * b
    BY <1>1, Products
  <2>2. ky * (b * v) = x * v
    BY <1>1, <2>1
  <2>3. (x * v) \div v = x
    BY Multiple
  <2>4. (ky * b) \div b = ky
    BY <1>1, Multiple
  <2> QED
    BY <2>1, <2>2, <2>3, <2>4
<1>6. (kx * (b * h) * v * b) \div (b * b) = kx * (h * v)
  <2>1. PICK x \in Nat : x = kx * (h * v)
    OBVIOUS
  <2>2. PICK y \in Nat : y = b * b /\ y > 0
    BY <1>1
  <2>3. kx * (b * h) * v * b = x * y
    BY <1>1, <2>1, <2>2
  <2> QED
    BY <2>1, <2>2, <2>3, Multiple
<1> QED
  BY <1>1, <1>2, <1>3, <1>4, <1>5, <1>6 DEF ImageComponent, BlocksInRow

\* What follows from the sizes once they are known.
LEMMA KnownSizes ==
    ASSUME frame \in Frames, SizesInv, HasSizes
    PROVE  /\ X \in Nat \ {0} /\ Y \in Nat \ {0}
           /\ X = MCUColumns * (BlockSize * max_horz_sample_factor)
           /\ Y = MCURows * (BlockSize * max_vert_sample_factor)
           /\ mcu_cols = MCUColumns /\ mcu_rows = MCURows
           /\ \A c \in Components :
                  /\ image_components[c].num_scans = MCURows
                  /\ image_components[c].num_blocks_in_scan = BlocksInRow(c)
                  /\ image_components[c].horz_samples = MCUColumns * (BlockSize * horz_sample_factor(c))
                  /\ image_components[c].vert_samples = MCURows * (BlockSize * vert_sample_factor(c))
                  /\ num_horz_blocks(c) = MCUColumns * horz_sample_factor(c)
<1>1. PICK b \in Nat : b = BlockSize /\ b > 0
  BY BlockSizeFacts
<1>2. PICK kx \in Nat \ {0}, ky \in Nat \ {0} : kx = MCUColumns /\ ky = MCURows
  BY MCUFacts
<1>3. PICK m \in 1 .. 4, n \in 1 .. 4 : m = max_horz_sample_factor /\ n = max_vert_sample_factor
  BY CodeFactorFacts
<1>4. ASSUME NEW c \in Components
      PROVE  /\ image_components[c].num_scans = MCURows
             /\ image_components[c].num_blocks_in_scan = BlocksInRow(c)
             /\ image_components[c].horz_samples = MCUColumns * (BlockSize * horz_sample_factor(c))
             /\ image_components[c].vert_samples = MCURows * (BlockSize * vert_sample_factor(c))
  BY DEF SizesInv
<1>5. X = kx * (b * m) /\ Y = ky * (b * n)
  BY <1>1, <1>2, <1>3 DEF SizesInv
<1>6. kx * (b * m) \in Nat \ {0} /\ ky * (b * n) \in Nat \ {0}
  <2>1. PICK d \in Nat \ {0}, e \in Nat \ {0} : d = b * m /\ e = b * n
    BY <1>1
  <2>2. \A p, q \in Nat \ {0} : p * q \in Nat \ {0}
    OBVIOUS
  <2> QED
    BY <2>1, <2>2
<1>7. \A k \in Nat, h \in 1 .. 4 : /\ (k * (b * h)) \div b = k * h
                                   /\ ((k * (b * h)) \div h) \div b = k
  <2>1. ASSUME NEW k \in Nat, NEW h \in 1 .. 4
        PROVE  (k * (b * h)) \div b = k * h /\ ((k * (b * h)) \div h) \div b = k
    <3>1. PICK x \in Nat, y \in Nat : x = k * h /\ y = k * b
      BY <1>1, Products
    <3>2. k * (b * h) = x * b /\ k * (b * h) = y * h
      BY <1>1, <3>1
    <3>3. (x * b) \div b = x /\ (y * h) \div h = y /\ (k * b) \div b = k
      BY <1>1, Multiple
    <3> QED
      BY <3>1, <3>2, <3>3
  <2> QED
    BY <2>1
<1>8. ASSUME NEW c \in Components
      PROVE  num_horz_blocks(c) = MCUColumns * horz_sample_factor(c)
  <2>1. PICK h \in 1 .. 4 : h = horz_sample_factor(c)
    BY CodeFactorFacts
  <2>2. image_components[c].horz_samples = kx * (b * h)
    BY <1>1, <1>2, <1>4, <2>1
  <2> QED
    BY <1>1, <1>2, <1>7, <2>1, <2>2 DEF num_horz_blocks
<1>9. mcu_cols = MCUColumns /\ mcu_rows = MCURows
  <2>0. 0 \in Components
    BY DEF Components
  <2>1. PICK h \in 1 .. 4, v \in 1 .. 4 : h = horz_sample_factor(0) /\ v = vert_sample_factor(0)
    BY <2>0, CodeFactorFacts
  <2>2. image_components[0].horz_samples = kx * (b * h) /\ image_components[0].vert_samples = ky * (b * v)
    BY <1>1, <1>2, <1>4, <2>0, <2>1
  <2>3. /\ ((kx * (b * h)) \div h) \div b = kx
        /\ ((ky * (b * v)) \div v) \div b = ky
    BY <1>2, <1>7
  <2>4. mcu_cols = ((kx * (b * h)) \div h) \div b /\ mcu_rows = ((ky * (b * v)) \div v) \div b
    BY <1>1, <2>1, <2>2, Zenon DEF mcu_cols, mcu_rows
  <2> QED
    BY <1>2, <2>3, <2>4, Zenon
<1> QED
  BY <1>1, <1>2, <1>3, <1>4, <1>5, <1>6, <1>8, <1>9

\* The scans of a file.
LEMMA ScanFacts ==
    ASSUME NEW f \in Frames
    PROVE  /\ ~f.progressive => /\ DOMAIN Scans(f) = {1} /\ Len(Scans(f)) = 1
                                /\ Scans(f)[1] = [comps |-> <<0, 1, 2>>, parts |-> Parts]
           /\ f.progressive => /\ DOMAIN Scans(f) = 1 .. 4 /\ Len(Scans(f)) = 4
                               /\ Scans(f)[1] = [comps |-> <<0, 1, 2>>, parts |-> {"DC"}]
                               /\ \A s \in 2 .. 4 :
                                      Scans(f)[s] = [comps |-> <<s - 2>>, parts |-> {"AC"}]
           /\ f.progressive \in BOOLEAN
<1>1. f.progressive \in BOOLEAN
  BY FramesAssumption
<1>2. CASE ~f.progressive
  BY <1>1, <1>2 DEF Scans
<1>3. CASE f.progressive
  <2> DEFINE first == <<[comps |-> <<0, 1, 2>>, parts |-> {"DC"}]>>
             rest == [c \in 1 .. 3 |-> [comps |-> <<c - 1>>, parts |-> {"AC"}]]
  <2>1. Scans(f) = first \o rest
    BY <1>3 DEF Scans
  <2>2. /\ first \in Seq({first[1]}) /\ Len(first) = 1
        /\ first[1] = [comps |-> <<0, 1, 2>>, parts |-> {"DC"}]
    OBVIOUS
  <2>3. \A i \in 1 .. 3 : rest[i] = [comps |-> <<i - 1>>, parts |-> {"AC"}]
    OBVIOUS
  <2>4. rest \in Seq({rest[i] : i \in 1 .. 3}) /\ Len(rest) = 3
    <3>1. rest \in [1 .. 3 -> {rest[i] : i \in 1 .. 3}]
      OBVIOUS
    <3> HIDE DEF rest
    <3> QED
      BY <3>1, FunctionAsSeq
  <2> HIDE DEF first, rest
  <2>5. /\ DOMAIN (first \o rest) = 1 .. 4 /\ Len(first \o rest) = 4
        /\ \A s \in 1 .. 4 : (first \o rest)[s] = IF s <= 1 THEN first[s] ELSE rest[s - 1]
    <3> DEFINE T == {first[1]} \cup {rest[i] : i \in 1 .. 3}
    <3>1. first \in Seq(T) /\ rest \in Seq(T)
      <4>1. {first[1]} \subseteq T /\ {rest[i] : i \in 1 .. 3} \subseteq T
        OBVIOUS
      <4> HIDE DEF T
      <4> QED
        BY <2>2, <2>4, <4>1, SeqMonotonic
    <3> HIDE DEF T
    <3>2. PICK m \in Nat, n \in Nat : m = 1 /\ n = 3
      OBVIOUS
    <3>3. Len(first) = m /\ Len(rest) = n
      BY <2>2, <2>4, <3>2
    <3>4. /\ DOMAIN (first \o rest) = 1 .. m + n /\ Len(first \o rest) = m + n
          /\ \A s \in 1 .. m + n : (first \o rest)[s] = IF s <= m THEN first[s] ELSE rest[s - m]
      BY <3>1, <3>3, Joined
    <3>5. m + n = 4
      BY <3>2
    <3> QED
      BY <3>2, <3>4, <3>5
  <2>6. \A s \in 2 .. 4 : Scans(f)[s] = [comps |-> <<s - 2>>, parts |-> {"AC"}]
    <3>1. ASSUME NEW s \in 2 .. 4
          PROVE  Scans(f)[s] = [comps |-> <<s - 2>>, parts |-> {"AC"}]
      <4>1. s - 1 \in 1 .. 3 /\ (s - 1) - 1 = s - 2 /\ s \in 1 .. 4 /\ ~(s <= 1)
        OBVIOUS
      <4>2. Scans(f)[s] = rest[s - 1]
        BY <2>1, <2>5, <4>1
      <4>3. rest[s - 1] = [comps |-> <<(s - 1) - 1>>, parts |-> {"AC"}]
        BY <2>3, <4>1
      <4> QED
        BY <4>1, <4>2, <4>3
    <3> QED
      BY <3>1
  <2>7. 1 \in 1 .. 4 /\ 1 <= 1
    OBVIOUS
  <2> QED
    BY <1>3, <2>1, <2>2, <2>5, <2>6, <2>7
<1> QED
  BY <1>1, <1>2, <1>3

\* Before is defined by recursion.
LEMMA BeforeDefinition ==
    Before = [n \in 1 .. 4 |-> IF n = 1 THEN 0 ELSE Before[n - 1] + BlocksPerMCU(comps[n - 1])]
<1> DEFINE G(n, x) == x + BlocksPerMCU(comps[n])
           a == 0
           b == G(2 - 1, a)
           d == G(3 - 1, b)
           e == G(4 - 1, d)
           g == [n \in 1 .. 4 |-> IF n = 1 THEN a ELSE IF n = 2 THEN b ELSE IF n = 3 THEN d ELSE e]
<1>1. \E q : q = [n \in 1 .. 4 |-> IF n = 1 THEN a ELSE G(n - 1, q[n - 1])]
  <2>1. g[1] = a /\ g[2] = b /\ g[3] = d /\ g[4] = e
    <3> HIDE DEF a, b, d, e
    <3> QED
      OBVIOUS
  <2>2. b = G(2 - 1, g[2 - 1]) /\ d = G(3 - 1, g[3 - 1]) /\ e = G(4 - 1, g[4 - 1])
    <3>1. 2 - 1 = 1 /\ 3 - 1 = 2 /\ 4 - 1 = 3
      OBVIOUS
    <3>2. g[2 - 1] = a /\ g[3 - 1] = b /\ g[4 - 1] = d
      BY <2>1, <3>1
    <3> HIDE DEF g
    <3> QED
      BY <3>2
  <2>3. ASSUME NEW n \in 1 .. 4
        PROVE  g[n] = IF n = 1 THEN a ELSE G(n - 1, g[n - 1])
    <3>1. n = 1 \/ n = 2 \/ n = 3 \/ n = 4
      OBVIOUS
    <3> HIDE DEF g, a, b, d, e, G
    <3> QED
      BY <2>1, <2>2, <3>1
  <2>4. g = [n \in 1 .. 4 |-> g[n]]
    OBVIOUS
  <2> HIDE DEF g, a, b, d, e, G
  <2>5. g = [n \in 1 .. 4 |-> IF n = 1 THEN a ELSE G(n - 1, g[n - 1])]
    BY <2>3, <2>4
  <2> QED
    BY <2>5
<1> QED
  BY <1>1 DEF Before

\* The components of a scan, and the blocks that come before them in an MCU.
LEMMA CompsFacts ==
    ASSUME frame \in Frames, scan \in DOMAIN Scans(frame)
    PROVE  /\ \/ comps = <<0, 1, 2>>
              \/ frame.progressive /\ scan \in 2 .. 4 /\ comps = <<scan - 2>>
           /\ \A n \in DOMAIN comps : comps[n] \in Components
           /\ Before[1] = 0
           /\ \A n \in DOMAIN comps :
                  /\ n \in Nat \ {0}
                  /\ BlocksPerMCU(comps[n]) \in Nat
                  /\ Before[n] \in Nat
                  /\ Before[n + 1] = Before[n] + BlocksPerMCU(comps[n])
           /\ BlocksOfAll \in Nat
<1>1. \/ comps = <<0, 1, 2>>
      \/ frame.progressive /\ scan \in 2 .. 4 /\ comps = <<scan - 2>>
  BY ScanFacts DEF comps
<1>2. \A c \in Components : BlocksPerMCU(c) \in Nat
  <2>1. \A h, v \in 1 .. 4 : v * h \in Nat
    OBVIOUS
  <2> QED
    BY <2>1, CodeFactorFacts DEF BlocksPerMCU
<1>3. \A n \in 1 .. 4 : Before[n] = IF n = 1 THEN 0 ELSE Before[n - 1] + BlocksPerMCU(comps[n - 1])
  BY BeforeDefinition
<1>4. Before[1] = 0 /\ \A n \in 1 .. 3 : Before[n + 1] = Before[n] + BlocksPerMCU(comps[n])
  <2>1. ASSUME NEW n \in 1 .. 3
        PROVE  Before[n + 1] = Before[n] + BlocksPerMCU(comps[n])
    <3>1. n + 1 \in 1 .. 4 /\ n + 1 # 1 /\ (n + 1) - 1 = n
      OBVIOUS
    <3> QED
      BY <1>3, <3>1
  <2> QED
    BY <1>3, <2>1
<1>5. CASE comps = <<0, 1, 2>>
  <2>1. DOMAIN comps = 1 .. 3 /\ Len(comps) = 3 /\ comps[1] = 0 /\ comps[2] = 1 /\ comps[3] = 2
    BY <1>5
  <2>2. comps[1] \in Components /\ comps[2] \in Components /\ comps[3] \in Components
    BY <2>1 DEF Components
  <2>3. /\ BlocksPerMCU(comps[1]) \in Nat /\ BlocksPerMCU(comps[2]) \in Nat
        /\ BlocksPerMCU(comps[3]) \in Nat
    BY <1>2, <2>2
  <2>4. /\ Before[1 + 1] = Before[1] + BlocksPerMCU(comps[1])
        /\ Before[2 + 1] = Before[2] + BlocksPerMCU(comps[2])
        /\ Before[3 + 1] = Before[3] + BlocksPerMCU(comps[3])
    BY <1>4
  <2>5. Before[1] \in Nat /\ Before[2] \in Nat /\ Before[3] \in Nat /\ Before[4] \in Nat
    BY <1>4, <2>3, <2>4
  <2>6. \A n \in DOMAIN comps : n = 1 \/ n = 2 \/ n = 3
    BY <2>1
  <2>7. BlocksOfAll = Before[4]
    BY <2>1 DEF BlocksOfAll
  <2> QED
    BY <1>4, <1>5, <2>2, <2>3, <2>4, <2>5, <2>6, <2>7
<1>6. CASE frame.progressive /\ scan \in 2 .. 4 /\ comps = <<scan - 2>>
  <2>1. DOMAIN comps = {1} /\ Len(comps) = 1 /\ comps[1] = scan - 2
    BY <1>6
  <2>2. comps[1] \in Components
    BY <1>6, <2>1 DEF Components
  <2>3. BlocksPerMCU(comps[1]) \in Nat
    BY <1>2, <2>2
  <2>4. Before[1 + 1] = Before[1] + BlocksPerMCU(comps[1])
    BY <1>4
  <2>5. BlocksOfAll = Before[1 + 1]
    BY <2>1 DEF BlocksOfAll
  <2> QED
    BY <1>4, <1>6, <2>1, <2>2, <2>3, <2>4, <2>5
<1> QED
  BY <1>1, <1>5, <1>6

-----------------------------------------------------------------------------
(***************************************************************************)
(* What no step changes, and the slices                                    *)
(***************************************************************************)

\* The frame never changes, nor do the sizes once they are known.
LEMMA Kept ==
    ASSUME [Next]_vars
    PROVE  /\ frame' = frame /\ build' = build
           /\ pc # "header" => X' = X /\ Y' = Y /\ image_components' = image_components
           /\ \A c : /\ vert_sample_factor(c)' = vert_sample_factor(c)
                     /\ horz_sample_factor(c)' = horz_sample_factor(c)
                     /\ BlocksInRow(c)' = BlocksInRow(c)
           /\ max_vert_sample_factor' = max_vert_sample_factor
           /\ max_horz_sample_factor' = max_horz_sample_factor
           /\ MCUColumns' = MCUColumns /\ MCURows' = MCURows
           /\ Scans(frame)' = Scans(frame)
<1>1. /\ frame' = frame /\ build' = build
      /\ pc # "header" => X' = X /\ Y' = Y /\ image_components' = image_components
  <2>1. CASE UNCHANGED vars
    BY <2>1 DEF vars, sizes
  <2>2. CASE RefusePrecision
    BY <2>2 DEF RefusePrecision, sizes
  <2>3. CASE ParseSOF
    BY <2>3 DEF ParseSOF
  <2>4. CASE DecodeRow
    BY <2>4 DEF DecodeRow, sizes
  <2>5. CASE EndScan
    BY <2>5 DEF EndScan, sizes
  <2>6. CASE ProcessChannel
    BY <2>6 DEF ProcessChannel, sizes
  <2>7. CASE StartConversion
    BY <2>7 DEF StartConversion, sizes
  <2>8. ASSUME NEW t \in DOMAIN converter, ConvertRow(t)
        PROVE  /\ frame' = frame /\ build' = build
               /\ X' = X /\ Y' = Y /\ image_components' = image_components
    BY <2>8 DEF ConvertRow, sizes
  <2>9. CASE CorrectImageSize
    BY <2>9 DEF CorrectImageSize, sizes
  <2>10. CASE Ended
    BY <2>1, <2>10 DEF Ended
  <2> QED
    BY <2>1, <2>2, <2>3, <2>4, <2>5, <2>6, <2>7, <2>8, <2>9, <2>10 DEF Next
<1>2. \A c : /\ vert_sample_factor(c)' = vert_sample_factor(c)
             /\ horz_sample_factor(c)' = horz_sample_factor(c)
  BY <1>1 DEF vert_sample_factor, horz_sample_factor
<1>3. /\ max_vert_sample_factor' = max_vert_sample_factor
      /\ max_horz_sample_factor' = max_horz_sample_factor
  BY <1>2 DEF max_vert_sample_factor, max_horz_sample_factor
<1>4. MCUColumns' = MCUColumns /\ MCURows' = MCURows
  BY <1>1, <1>3 DEF MCUColumns, MCURows
<1>5. \A c : BlocksInRow(c)' = BlocksInRow(c)
  BY <1>2, <1>4 DEF BlocksInRow
<1> QED
  BY <1>1, <1>2, <1>3, <1>4, <1>5

\* The slices are within the rows.
LEMMA SliceFacts ==
    ASSUME FrameInv, SizesInv, HasSizes
    PROVE  /\ build.threads \in Nat \ {0}
           /\ num_scans_per_thread \in Nat
           /\ num_scans_per_thread * build.threads <= MCURows
           /\ image_components[0].num_scans = MCURows
           /\ \A t \in 0 .. build.threads - 1 :
                  /\ SliceStart(t) = t * num_scans_per_thread
                  /\ SliceEnd(t) = IF t = build.threads - 1 THEN MCURows
                                   ELSE (t + 1) * num_scans_per_thread
                  /\ SliceStart(t) \in Nat /\ SliceEnd(t) \in Nat
                  /\ SliceStart(t) <= SliceEnd(t) /\ SliceEnd(t) <= MCURows
<1>1. build.threads \in Nat \ {0}
  BY NumThreadsAssumption DEF FrameInv
<1>2. image_components[0].num_scans = MCURows /\ MCURows \in Nat
  BY KnownSizes, MCUFacts DEF FrameInv, Components
<1>3. PICK n \in Nat, m \in Nat \ {0} : n = MCURows /\ m = build.threads
  BY <1>1, <1>2
<1>4. PICK q \in Nat, r \in Nat : q = n \div m /\ n = q * m + r
  <2>1. m \in Nat /\ m > 0
    OBVIOUS
  <2> QED
    BY <2>1, Division
<1>5. num_scans_per_thread = q
  BY <1>2, <1>3, <1>4 DEF num_scans_per_thread
<1>6. ASSUME NEW t \in 0 .. m - 1
      PROVE  /\ t * q \in Nat /\ (t + 1) * q \in Nat
             /\ t * q <= (t + 1) * q /\ (t + 1) * q <= n
  <2>1. t \in Nat /\ t + 1 \in Nat /\ t <= t + 1 /\ t + 1 <= m
    BY <1>3
  <2>2. /\ t * q \in Nat /\ (t + 1) * q \in Nat /\ m * q \in Nat
        /\ t * q <= (t + 1) * q /\ (t + 1) * q <= m * q
    BY <1>3, <1>4, <2>1, ProductGrows
  <2>3. m * q = q * m
    OBVIOUS
  <2>4. q * m <= n
    <3>1. PICK x \in Nat : x = q * m
      BY <1>3, <1>4, Products
    <3> QED
      BY <1>4, <3>1
  <2> QED
    BY <2>2, <2>3, <2>4
<1>7. q * m <= n
  <2>1. PICK x \in Nat : x = q * m
    BY <1>3, <1>4, Products
  <2> QED
    BY <1>4, <2>1
<1>8. ASSUME NEW t \in 0 .. build.threads - 1
      PROVE  /\ SliceStart(t) = t * q
             /\ SliceEnd(t) = IF t = build.threads - 1 THEN n ELSE (t + 1) * q
             /\ SliceStart(t) \in Nat /\ SliceEnd(t) \in Nat
             /\ SliceStart(t) <= SliceEnd(t) /\ SliceEnd(t) <= n
  <2>1. /\ SliceStart(t) = t * q
        /\ SliceEnd(t) = IF t = build.threads - 1 THEN n ELSE (t + 1) * q
    BY <1>2, <1>3, <1>5 DEF SliceStart, SliceEnd
  <2>2. /\ t * q \in Nat /\ (t + 1) * q \in Nat
        /\ t * q <= (t + 1) * q /\ (t + 1) * q <= n
    BY <1>3, <1>6
  <2>3. t * q <= n
    BY <1>3, <2>2
  <2> QED
    BY <1>3, <2>1, <2>2, <2>3
<1> QED
  BY <1>1, <1>2, <1>3, <1>5, <1>7, <1>8

\* Every row is in some slice.
LEMMA SlicesCover ==
    ASSUME FrameInv, SizesInv, HasSizes, NEW r \in 0 .. MCURows - 1
    PROVE  \E t \in 0 .. build.threads - 1 : r \in SliceStart(t) .. SliceEnd(t) - 1
<1>1. PICK n \in Nat, m \in Nat \ {0}, q \in Nat :
          n = MCURows /\ m = build.threads /\ q = num_scans_per_thread
  BY SliceFacts, MCUFacts DEF FrameInv
<1>2. \A t \in 0 .. m - 1 :
          /\ SliceStart(t) = t * q
          /\ SliceEnd(t) = IF t = m - 1 THEN n ELSE (t + 1) * q
          /\ SliceStart(t) \in Nat /\ SliceEnd(t) \in Nat
  BY <1>1, SliceFacts
<1>3. r \in Nat /\ r < n
  BY <1>1
<1>4. CASE r >= (m - 1) * q
  <2>1. m - 1 \in 0 .. m - 1
    BY <1>1
  <2>2. SliceStart(m - 1) = (m - 1) * q /\ SliceEnd(m - 1) = n /\ SliceStart(m - 1) \in Nat
    BY <1>2, <2>1
  <2>3. r \in SliceStart(m - 1) .. SliceEnd(m - 1) - 1
    BY <1>1, <1>3, <1>4, <2>2
  <2> QED
    BY <1>1, <2>1, <2>3
<1>5. CASE r < (m - 1) * q
  <2>0. q > 0
    <3>1. q = 0 => (m - 1) * q = 0
      BY <1>1
    <3> QED
      BY <1>1, <1>3, <1>5, <3>1
  <2>1. PICK t \in Nat, z \in Nat : t = r \div q /\ z < q /\ r = t * q + z
    BY <1>1, <1>3, <2>0, Division
  <2>2. t < m - 1
    <3>1. m - 1 \in Nat
      BY <1>1
    <3> QED
      BY <1>1, <1>3, <1>5, <2>0, <2>1, <3>1, QuotientBelow
  <2>3. t \in 0 .. m - 1 /\ t # m - 1
    BY <1>1, <2>1, <2>2
  <2>4. SliceStart(t) = t * q /\ SliceEnd(t) = (t + 1) * q
    BY <1>2, <2>3
  <2>5. PICK x \in Nat : x = t * q
    BY <1>1, <2>1, Products
  <2>6. (t + 1) * q = x + q
    BY <1>1, <2>1, <2>5
  <2>7. r \in SliceStart(t) .. SliceEnd(t) - 1
    BY <1>1, <1>3, <2>1, <2>4, <2>5, <2>6
  <2> QED
    BY <1>1, <2>3, <2>7
<1>6. (m - 1) * q \in Nat
  BY <1>1, m - 1 \in Nat, Products
<1> QED
  BY <1>3, <1>4, <1>5, <1>6

-----------------------------------------------------------------------------
(***************************************************************************)
(* The control of the decoder                                              *)
(***************************************************************************)

\* An MCU has a number of blocks.
LEMMA ConsumedType ==
    FrameInv /\ scan \in DOMAIN Scans(frame) => BlocksOfAll \in Nat
BY CompsFacts DEF FrameInv

\* Before the header there are no sizes to be wrong.
LEMMA InitControl == Init => ControlInv
<1> SUFFICES ASSUME Init PROVE ControlInv
  OBVIOUS
<1>1. FrameInv
  BY DEF Init, FrameInv
<1>2. 1 \in DOMAIN Scans(frame)
  BY <1>1, ScanFacts DEF FrameInv
<1>3. MCURows \in Nat /\ MCUColumns \in Nat
  BY <1>1, MCUFacts DEF FrameInv
<1>4. BlocksOfAll \in Nat
  BY <1>1, <1>2, ConsumedType DEF Init
<1>5. PositionInv
  <2>1. 0 * (MCUColumns * BlocksOfAll) = 0
    BY <1>3, <1>4
  <2> QED
    BY <1>2, <1>3, <2>1 DEF Init, PositionInv
<1> QED
  BY <1>1, <1>5 DEF Init, ControlInv, SizesInv, HasSizes, ImageInv, ConverterInv

\* Steps that only move on.
LEMMA ControlKept ==
    ASSUME ControlInv, [Next]_vars,
           pc' \in {"header", "rows", "process", "convert", "done", "exited", "astray"},
           HasSizes' => HasSizes,
           UNCHANGED <<scan, mcu_row, consumed>>, channel' \in 0 .. 3
    PROVE  FrameInv' /\ SizesInv' /\ PositionInv'
<1>1. FrameInv'
  BY Kept DEF ControlInv, FrameInv
<1>2. SizesInv'
  <2>1. SUFFICES ASSUME HasSizes' PROVE SizesInv'
    BY DEF SizesInv
  <2>2. HasSizes /\ pc # "header"
    BY <2>1 DEF HasSizes
  <2> QED
    BY <2>2, Kept DEF ControlInv, SizesInv
<1>3. BlocksOfAll' = BlocksOfAll
  <2>1. comps' = comps
    BY Kept DEF comps
  <2>2. \A c : BlocksPerMCU(c)' = BlocksPerMCU(c)
    BY Kept DEF BlocksPerMCU
  <2>3. Before' = Before
    BY <2>1, <2>2 DEF Before
  <2> QED
    BY <2>1, <2>3 DEF BlocksOfAll
<1>4. PositionInv'
  BY <1>3, Kept DEF ControlInv, PositionInv
<1> QED
  BY <1>1, <1>2, <1>4

\* The slices stay where they are.
LEMMA SlicesKept ==
    ASSUME [Next]_vars, pc # "header"
    PROVE  /\ \A t : SliceStart(t)' = SliceStart(t) /\ SliceEnd(t)' = SliceEnd(t)
           /\ pixels_in_scan' = pixels_in_scan
BY Kept DEF SliceStart, SliceEnd, num_scans_per_thread, pixels_in_scan

\* The sizes parse_sof computes are those of whole MCUs.
LEMMA ParseControl ==
    ASSUME ControlInv, ParseSOF
    PROVE  ControlInv'
<1>0. [Next]_vars /\ pc = "header" /\ pc' = "rows"
  BY DEF Next, ParseSOF
<1>1. FrameInv' /\ frame \in Frames
  BY <1>0, Kept DEF ControlInv, FrameInv
<1>2. SizesInv'
  <2>1. \A c \in Components : ImageComponent(c) =
            [vert_samples |-> MCURows * (BlockSize * vert_sample_factor(c)),
             horz_samples |-> MCUColumns * (BlockSize * horz_sample_factor(c)),
             num_scans |-> MCURows,
             num_blocks_in_scan |-> BlocksInRow(c)]
    BY <1>1, ComponentSizes
  <2>2. image_components' =
            [c \in Components |->
                [vert_samples |-> MCURows * (BlockSize * vert_sample_factor(c)),
                 horz_samples |-> MCUColumns * (BlockSize * horz_sample_factor(c)),
                 num_scans |-> MCURows,
                 num_blocks_in_scan |-> BlocksInRow(c)]]
    BY <2>1 DEF ParseSOF
  <2>3. /\ X' = MCUColumns * (BlockSize * max_horz_sample_factor)
        /\ Y' = MCURows * (BlockSize * max_vert_sample_factor)
    BY <1>1, Sizes DEF ParseSOF
  <2> QED
    BY <1>0, <2>2, <2>3, Kept DEF SizesInv
<1>3. PositionInv'
  <2>1. UNCHANGED <<scan, mcu_row, consumed, channel>>
    BY DEF ParseSOF, position
  <2>2. BlocksOfAll' = BlocksOfAll
    <3>1. comps' = comps
      BY <1>0, <2>1, Kept DEF comps
    <3>2. \A c : BlocksPerMCU(c)' = BlocksPerMCU(c)
      BY <1>0, Kept DEF BlocksPerMCU
    <3>3. Before' = Before
      BY <3>1, <3>2 DEF Before
    <3> QED
      BY <3>1, <3>3 DEF BlocksOfAll
  <2> QED
    BY <1>0, <2>1, <2>2, Kept DEF ControlInv, PositionInv
<1>4. ImageInv'
  <2>1. /\ Grown[0].X = RoundUp(frame.X, BlockSize) /\ Grown[0].Y = RoundUp(frame.Y, BlockSize)
        /\ Grown[0].X \in Nat /\ Grown[0].Y \in Nat
    BY <1>1, Sizes
  <2>2. image_data' = [data |-> [k \in 0 .. X' * Y' - 1 |-> None],
                       height |-> Grown[0].Y, width |-> Grown[0].X]
    BY DEF ParseSOF
  <2>3. frame' = frame
    BY <1>0, Kept
  <2> QED
    BY <2>1, <2>2, <2>3 DEF ImageInv, RoundUp
<1>5. ConverterInv'
  BY <1>0 DEF ControlInv, ConverterInv, ParseSOF
<1> QED
  BY <1>1, <1>2, <1>3, <1>4, <1>5 DEF ControlInv

\* A row reads as many blocks as its MCUs have.
LEMMA DecodeRowControl ==
    ASSUME ControlInv, DecodeRow
    PROVE  ControlInv'
<1>0. [Next]_vars /\ pc = "rows" /\ pc' = "rows" /\ UNCHANGED <<scan, channel, image_data, converter>>
  BY DEF Next, DecodeRow
<1>1. FrameInv' /\ frame \in Frames
  BY <1>0, Kept DEF ControlInv, FrameInv
<1>2. SizesInv'
  BY <1>0, Kept DEF ControlInv, SizesInv, HasSizes
<1>3. PositionInv'
  <2>1. mcu_rows = MCURows /\ mcu_cols = MCUColumns /\ MCURows \in Nat /\ MCUColumns \in Nat
    BY <1>0, <1>1, KnownSizes, MCUFacts DEF ControlInv, HasSizes
  <2>2. BlocksOfAll' = BlocksOfAll
    <3>1. comps' = comps
      BY <1>0, Kept DEF comps
    <3>2. \A c : BlocksPerMCU(c)' = BlocksPerMCU(c)
      BY <1>0, Kept DEF BlocksPerMCU
    <3>3. Before' = Before
      BY <3>1, <3>2 DEF Before
    <3> QED
      BY <3>1, <3>3 DEF BlocksOfAll
  <2>3. BlocksOfAll \in Nat
    BY ConsumedType DEF ControlInv, PositionInv
  <2>4. /\ mcu_row \in 0 .. MCURows /\ mcu_row < MCURows
        /\ consumed = mcu_row * (MCUColumns * BlocksOfAll)
    BY <2>1 DEF ControlInv, PositionInv, DecodeRow
  <2>5. mcu_row' = mcu_row + 1 /\ consumed' = consumed + MCUColumns * BlocksOfAll
    BY <2>1 DEF DecodeRow
  <2>6. PICK x \in Nat : x = MCUColumns * BlocksOfAll
    BY <2>1, <2>3, Products
  <2>7. (mcu_row + 1) * x = mcu_row * x + x
    BY <2>4
  <2>8. consumed' = mcu_row' * (MCUColumns * BlocksOfAll)
    BY <2>4, <2>5, <2>6, <2>7
  <2>9. mcu_row' \in 0 .. MCURows
    BY <2>1, <2>4, <2>5
  <2> QED
    BY <1>0, <2>2, <2>8, <2>9, Kept DEF ControlInv, PositionInv
<1>4. ImageInv'
  BY <1>0, Kept DEF ControlInv, ImageInv
<1>5. ConverterInv'
  BY <1>0 DEF ControlInv, ConverterInv
<1> QED
  BY <1>1, <1>2, <1>3, <1>4, <1>5 DEF ControlInv

\* The next scan starts with nothing read.
LEMMA EndScanControl ==
    ASSUME ControlInv, EndScan
    PROVE  ControlInv'
<1>0. /\ [Next]_vars /\ pc = "rows" /\ pc' \in {"rows", "process", "astray"}
      /\ UNCHANGED <<channel, image_data, converter>>
  BY DEF Next, EndScan
<1>1. FrameInv' /\ frame \in Frames
  BY <1>0, Kept DEF ControlInv, FrameInv
<1>2. SizesInv'
  BY <1>0, Kept DEF ControlInv, SizesInv, HasSizes
<1>3. PositionInv'
  <2>1. CASE pc' = "rows"
    <3>1. scan' = scan + 1 /\ mcu_row' = 0 /\ consumed' = 0 /\ scan < Len(Scans(frame))
      BY <2>1 DEF EndScan
    <3>2. scan' \in DOMAIN Scans(frame)
      BY <1>1, <3>1, ScanFacts DEF ControlInv, PositionInv
    <3>3. (scan \in DOMAIN Scans(frame))'
      BY <1>0, <3>2, Kept
    <3>4. BlocksOfAll' \in Nat
      <4>1. (FrameInv /\ scan \in DOMAIN Scans(frame) => BlocksOfAll \in Nat)'
        BY ConsumedType, PTL
      <4> QED
        BY <1>1, <3>3, <4>1
    <3>5. MCURows' \in Nat /\ MCUColumns' \in Nat
      BY <1>0, <1>1, MCUFacts, Kept
    <3>6. 0 * (MCUColumns' * BlocksOfAll') = 0
      <4>1. PICK x \in Nat : x = MCUColumns' * BlocksOfAll'
        BY <3>4, <3>5, Products
      <4> QED
        BY <4>1
    <3> QED
      BY <1>0, <2>1, <3>1, <3>3, <3>5, <3>6 DEF ControlInv, PositionInv
  <2>2. CASE pc' # "rows"
    <3>1. UNCHANGED <<scan, mcu_row, consumed>>
      BY <2>2 DEF EndScan, position
    <3> QED
      BY <1>0, <3>1, ControlKept DEF ControlInv, PositionInv, HasSizes
  <2> QED
    BY <2>1, <2>2
<1>4. ImageInv'
  BY <1>0, Kept DEF ControlInv, ImageInv
<1>5. ConverterInv'
  BY <1>0 DEF ControlInv, ConverterInv
<1> QED
  BY <1>1, <1>2, <1>3, <1>4, <1>5 DEF ControlInv

\* Each thread starts at its slice.
LEMMA StartConversionControl ==
    ASSUME ControlInv, StartConversion
    PROVE  ControlInv'
<1>0. /\ [Next]_vars /\ pc = "process" /\ pc' \in {"convert", "exited"} /\ channel = 3
      /\ UNCHANGED <<scan, mcu_row, consumed, channel, image_data>>
      /\ converter' = [t \in 0 .. build.threads - 1 |-> SliceStart(t)]
  BY DEF Next, StartConversion, position
<1>1. FrameInv' /\ SizesInv' /\ PositionInv'
  BY <1>0, ControlKept DEF ControlInv, PositionInv, HasSizes
<1>2. ImageInv'
  BY <1>0, Kept DEF ControlInv, ImageInv, RoundUp
<1>3. ConverterInv'
  <2>1. build' = build
    BY <1>0, Kept
  <2>2. /\ converter' = [t \in 0 .. build.threads - 1 |-> converter'[t]]
        /\ DOMAIN converter' = 0 .. build.threads - 1
    BY <1>0
  <2>3. ASSUME NEW t \in 0 .. build.threads - 1
        PROVE  converter'[t] \in SliceStart(t)' .. SliceEnd(t)'
    <3>1. converter'[t] = SliceStart(t)
      BY <1>0
    <3>2. SliceStart(t)' = SliceStart(t) /\ SliceEnd(t)' = SliceEnd(t)
      BY <1>0, SlicesKept
    <3>3. SliceStart(t) \in Nat /\ SliceEnd(t) \in Nat /\ SliceStart(t) <= SliceEnd(t)
      BY <1>0, SliceFacts DEF ControlInv, HasSizes
    <3> QED
      BY <3>1, <3>2, <3>3
  <2> QED
    BY <1>0, <2>1, <2>2, <2>3 DEF ConverterInv
<1> QED
  BY <1>1, <1>2, <1>3 DEF ControlInv

\* A thread stays in its slice, and the picture keeps its size.
LEMMA ConvertRowControl ==
    ASSUME ControlInv, NEW t \in DOMAIN converter, ConvertRow(t)
    PROVE  ControlInv'
<1>0. /\ [Next]_vars /\ pc = "convert" /\ pc' = "convert"
      /\ UNCHANGED <<scan, mcu_row, consumed, channel>>
      /\ converter[t] < SliceEnd(t)
      /\ converter' = [converter EXCEPT ![t] = @ + 1]
      /\ \E data : image_data' = [image_data EXCEPT !.data = data] /\ DOMAIN data = DOMAIN image_data.data
                    /\ data = [k \in DOMAIN image_data.data |-> data[k]]
  <2>1. [Next]_vars
    BY DEF Next
  <2>2. \E data : image_data' = [image_data EXCEPT !.data = data] /\ DOMAIN data = DOMAIN image_data.data
                    /\ data = [k \in DOMAIN image_data.data |-> data[k]]
    <3> DEFINE scan_offset == converter[t] * pixels_in_scan
               SampleOf(c, i) == Sample(c, scan_offset \div rescale_factor(c) + RowSample(c, i))
               PixelOf(i) == Pixel(SampleOf(0, i), SampleOf(1, i), SampleOf(2, i))
               d == [k \in DOMAIN image_data.data |->
                        IF k - scan_offset \in 0 .. PixelsWritten - 1
                        THEN PixelOf(k - scan_offset) ELSE image_data.data[k]]
    <3>1. image_data' = [image_data EXCEPT !.data = d]
      BY DEF ConvertRow
    <3>2. DOMAIN d = DOMAIN image_data.data /\ d = [k \in DOMAIN image_data.data |-> d[k]]
      OBVIOUS
    <3> HIDE DEF d
    <3> QED
      BY <3>1, <3>2
  <2> QED
    BY <2>1, <2>2 DEF ConvertRow, position
<1>1. FrameInv' /\ SizesInv' /\ PositionInv'
  BY <1>0, ControlKept DEF ControlInv, PositionInv, HasSizes
<1>2. ImageInv'
  <2>1. image_data = [data |-> [k \in 0 .. X * Y - 1 |-> image_data.data[k]],
                      height |-> RoundUp(frame.Y, BlockSize),
                      width |-> RoundUp(frame.X, BlockSize)]
    BY <1>0 DEF ControlInv, ImageInv
  <2>2. PICK data : /\ image_data' = [image_data EXCEPT !.data = data]
                    /\ data = [k \in DOMAIN image_data.data |-> data[k]]
    BY <1>0
  <2>3. DOMAIN image_data.data = 0 .. X * Y - 1
    <3> DEFINE e == [k \in 0 .. X * Y - 1 |-> image_data.data[k]]
    <3>1. DOMAIN e = 0 .. X * Y - 1
      OBVIOUS
    <3>2. image_data.data = e
      <4>1. image_data = [data |-> e, height |-> RoundUp(frame.Y, BlockSize),
                          width |-> RoundUp(frame.X, BlockSize)]
        BY <2>1
      <4> HIDE DEF e
      <4> QED
        BY <4>1
    <3> QED
      BY <3>1, <3>2
  <2>4. image_data' = [data |-> data, height |-> RoundUp(frame.Y, BlockSize),
                       width |-> RoundUp(frame.X, BlockSize)]
    <3>1. \A a, h, w, d : [[data |-> a, height |-> h, width |-> w] EXCEPT !.data = d]
                           = [data |-> d, height |-> h, width |-> w]
      OBVIOUS
    <3> DEFINE e == [k \in 0 .. X * Y - 1 |-> image_data.data[k]]
               h == RoundUp(frame.Y, BlockSize)
               w == RoundUp(frame.X, BlockSize)
    <3>2. image_data = [data |-> e, height |-> h, width |-> w]
      BY <2>1
    <3>3. image_data' = [image_data EXCEPT !.data = data]
      BY <2>2
    <3> HIDE DEF e, h, w
    <3>4. image_data' = [data |-> data, height |-> h, width |-> w]
      BY <3>1, <3>2, <3>3
    <3> QED
      BY <3>4 DEF h, w
  <2>5. image_data'.data = data /\ data = [k \in 0 .. X * Y - 1 |-> data[k]]
    BY <2>2, <2>3, <2>4
  <2>6. X' = X /\ Y' = Y /\ RoundUp(frame.X, BlockSize)' = RoundUp(frame.X, BlockSize)
        /\ RoundUp(frame.Y, BlockSize)' = RoundUp(frame.Y, BlockSize)
    BY <1>0, Kept
  <2>7. image_data.height = image_data'.height /\ image_data.width = image_data'.width
    BY <2>1, <2>4
  <2> QED
    BY <1>0, <2>4, <2>5, <2>6, <2>7 DEF ControlInv, ImageInv
<1>3. ConverterInv'
  <2>1. build' = build
    BY <1>0, Kept
  <2>2. converter = [u \in 0 .. build.threads - 1 |-> converter[u]] /\ channel = 3
    BY <1>0 DEF ControlInv, ConverterInv
  <2>3. \A u \in 0 .. build.threads - 1 :
            /\ converter[u] \in SliceStart(u) .. SliceEnd(u)
            /\ SliceStart(u) \in Nat /\ SliceEnd(u) \in Nat
    BY <1>0, SliceFacts DEF ControlInv, ConverterInv, HasSizes
  <2>4. t \in 0 .. build.threads - 1
    BY <2>2
  <2>5. /\ converter' = [u \in 0 .. build.threads - 1 |-> converter'[u]]
        /\ DOMAIN converter' = 0 .. build.threads - 1
    BY <1>0, <2>2
  <2>6. ASSUME NEW u \in 0 .. build.threads - 1
        PROVE  converter'[u] \in SliceStart(u)' .. SliceEnd(u)'
    <3>1. SliceStart(u)' = SliceStart(u) /\ SliceEnd(u)' = SliceEnd(u)
      BY <1>0, SlicesKept
    <3>2. converter'[u] = IF u = t THEN converter[t] + 1 ELSE converter[u]
      BY <1>0, <2>2, <2>4
    <3>3. converter'[u] \in SliceStart(u) .. SliceEnd(u)
      BY <1>0, <2>3, <2>4, <3>2
    <3> QED
      BY <3>1, <3>3
  <2> QED
    BY <1>0, <2>1, <2>2, <2>5, <2>6 DEF ConverterInv
<1> QED
  BY <1>1, <1>2, <1>3 DEF ControlInv

\* The picture gets the size of the file's.
LEMMA CorrectControl ==
    ASSUME ControlInv, CorrectImageSize
    PROVE  ControlInv'
<1>0. /\ [Next]_vars /\ pc = "convert" /\ pc' = "done"
      /\ UNCHANGED <<scan, mcu_row, consumed, channel, converter>>
  BY DEF Next, CorrectImageSize, position
<1>1. FrameInv' /\ SizesInv' /\ PositionInv'
  BY <1>0, ControlKept DEF ControlInv, PositionInv, HasSizes
<1>2. ImageInv'
  <2>1. frame.X \in Nat /\ frame.Y \in Nat
    BY FramesAssumption DEF ControlInv, FrameInv
  <2>2. image_data'.height \in Nat /\ image_data'.width \in Nat
    BY <2>1 DEF CorrectImageSize, ControlInv, ImageInv
  <2> QED
    BY <1>0, <2>2 DEF ImageInv
<1>3. ConverterInv'
  BY <1>0, SlicesKept, Kept DEF ControlInv, ConverterInv
<1> QED
  BY <1>1, <1>2, <1>3 DEF ControlInv

\* The sizes and the positions are right after each step.
LEMMA NextControl ==
    ASSUME ControlInv, [Next]_vars
    PROVE  ControlInv'
<1>1. CASE UNCHANGED vars
  <2>1. UNCHANGED <<pc, scan, mcu_row, consumed, channel, image_data, converter, X, Y,
                    frame, build, image_components>>
    BY <1>1 DEF vars, sizes, position
  <2>2. FrameInv' /\ SizesInv' /\ PositionInv'
    BY <2>1, ControlKept DEF ControlInv, PositionInv, HasSizes
  <2>3. ImageInv'
    BY <2>1 DEF ControlInv, ImageInv, RoundUp
  <2>4. ConverterInv'
    BY <2>1 DEF ControlInv, ConverterInv, SliceStart, SliceEnd, num_scans_per_thread
  <2> QED
    BY <2>2, <2>3, <2>4 DEF ControlInv
<1>2. CASE RefusePrecision
  <2>1. /\ pc = "header" /\ pc' = "exited"
        /\ UNCHANGED <<scan, mcu_row, consumed, channel, image_data, converter>>
    BY <1>2 DEF RefusePrecision, position
  <2>2. FrameInv' /\ SizesInv' /\ PositionInv'
    BY <2>1, ControlKept DEF ControlInv, PositionInv, HasSizes
  <2> QED
    BY <2>1, <2>2 DEF ControlInv, ImageInv, ConverterInv
<1>3. CASE ProcessChannel
  <2>1. /\ pc = "process" /\ pc' = "process" /\ channel' = channel + 1 /\ channel < 3
        /\ UNCHANGED <<scan, mcu_row, consumed, image_data, converter>>
    BY <1>3 DEF ProcessChannel, position
  <2>2. channel' \in 0 .. 3
    BY <2>1 DEF ControlInv, PositionInv
  <2>3. FrameInv' /\ SizesInv' /\ PositionInv'
    BY <2>1, <2>2, ControlKept DEF HasSizes
  <2>4. ImageInv'
    BY <2>1, Kept DEF ControlInv, ImageInv, RoundUp
  <2> QED
    BY <2>1, <2>3, <2>4 DEF ControlInv, ConverterInv
<1>4. CASE Ended
  BY <1>1, <1>4 DEF Ended
<1> QED
  BY <1>1, <1>2, <1>3, <1>4, ParseControl, DecodeRowControl, EndScanControl,
     StartConversionControl, ConvertRowControl, CorrectControl DEF Next

\* They have the types they should.
LEMMA TypesOfControl == ControlInv => TypeOK
<1> SUFFICES ASSUME ControlInv PROVE TypeOK
  OBVIOUS
<1>1. frame \in Frames /\ FrameInv
  BY DEF ControlInv, FrameInv
<1>2. MCUColumns \in Nat /\ MCURows \in Nat
  BY <1>1, MCUFacts
<1>3. consumed \in Nat
  <2>1. BlocksOfAll \in Nat
    BY <1>1, ConsumedType DEF ControlInv, PositionInv
  <2>2. mcu_row \in Nat
    BY <1>2 DEF ControlInv, PositionInv
  <2> QED
    BY <1>2, <2>1, <2>2, Products DEF ControlInv, PositionInv
<1>4. ASSUME HasSizes
      PROVE  /\ X \in Nat \ {0} /\ Y \in Nat \ {0}
             /\ image_components \in [Components ->
                    [vert_samples : Nat, horz_samples : Nat,
                     num_scans : Nat, num_blocks_in_scan : Nat]]
             /\ mcu_row \in 0 .. mcu_rows
             /\ \A t \in DOMAIN converter : converter[t] \in 0 .. image_components[0].num_scans
  <2>1. X \in Nat \ {0} /\ Y \in Nat \ {0} /\ mcu_rows = MCURows
    BY <1>1, <1>4, KnownSizes DEF ControlInv
  <2>2. ASSUME NEW c \in Components
        PROVE  /\ MCURows * (BlockSize * vert_sample_factor(c)) \in Nat
               /\ MCUColumns * (BlockSize * horz_sample_factor(c)) \in Nat
               /\ BlocksInRow(c) \in Nat
    <3>1. PICK h \in Nat, v \in Nat, b \in Nat :
              h = horz_sample_factor(c) /\ v = vert_sample_factor(c) /\ b = BlockSize
      BY <1>1, CodeFactorFacts, BlockSizeFacts
    <3> QED
      BY <1>1, <1>2, <3>1, Products, MCUFacts
  <2>3. image_components \in [Components ->
                    [vert_samples : Nat, horz_samples : Nat,
                     num_scans : Nat, num_blocks_in_scan : Nat]]
    BY <1>2, <1>4, <2>2 DEF ControlInv, SizesInv
  <2>4. ASSUME NEW t \in DOMAIN converter
        PROVE  converter[t] \in 0 .. image_components[0].num_scans
    <3>1. CASE pc \in {"convert", "done"}
      <4>1. t \in 0 .. build.threads - 1 /\ converter[t] \in SliceStart(t) .. SliceEnd(t)
        BY <3>1 DEF ControlInv, ConverterInv
      <4>2. /\ image_components[0].num_scans = MCURows
            /\ SliceStart(t) \in Nat /\ SliceEnd(t) \in Nat /\ SliceEnd(t) <= MCURows
        BY <1>4, <4>1, SliceFacts DEF ControlInv
      <4> QED
        BY <1>2, <4>1, <4>2
    <3>2. CASE pc \notin {"convert", "done"}
      <4>1. converter = <<>>
        BY <1>4, <3>2 DEF ControlInv, ConverterInv, HasSizes, PositionInv
      <4>2. DOMAIN converter = {}
        BY <4>1
      <4> QED
        BY <4>2
    <3> QED
      BY <3>1, <3>2
  <2> QED
    BY <2>1, <2>3, <2>4 DEF ControlInv, PositionInv
<1> QED
  BY <1>3, <1>4 DEF TypeOK, ControlInv, PositionInv, ImageInv, HasSizes

-----------------------------------------------------------------------------

\* A place in a table of rows of p is one of its n * p places.
LEMMA RowMajor ==
    ASSUME NEW n \in Nat, NEW a \in Nat, a < n, NEW p \in Nat, NEW r \in Nat, r < p
    PROVE  /\ a * p + r \in Nat /\ a * p + r < n * p
           /\ a * p \in Nat /\ n * p \in Nat /\ (a + 1) * p <= n * p
           /\ (a + 1) * p = a * p + p
<1>1. (a + 1) * p <= n * p /\ (a + 1) * p \in Nat /\ n * p \in Nat
  BY a + 1 <= n, ProductGrows
<1>2. (a + 1) * p = a * p + p /\ a * p \in Nat
  OBVIOUS
<1> QED
  BY <1>1, <1>2

\* Of the pixels of a row of MCUs the samples lie in the blocks of that row.
LEMMA IndexWithinRow ==
    ASSUME NEW b \in Nat \ {0}, NEW kx \in Nat \ {0},
           NEW hm \in Nat \ {0}, NEW vm \in Nat \ {0}, NEW h \in Nat \ {0}, NEW v \in Nat \ {0},
           NEW i \in Nat, i < (b * vm) * (kx * (b * hm))
    PROVE  LET y == ((i \div (kx * (b * hm))) * v) \div vm
               x == ((i % (kx * (b * hm))) * h) \div hm
           IN  /\ x \in Nat /\ y \in Nat /\ x < kx * (b * h) /\ y < b * v
               /\ (y \div b) * (kx * (b * h)) * b + (x \div b) * (b * b) + (y % b) * b + (x % b) \in Nat
               /\ (y \div b) * (kx * (b * h)) * b + (x \div b) * (b * b) + (y % b) * b + (x % b)
                      < (kx * (b * h)) * (b * v)
<1>1. PICK w \in Nat \ {0} : w = kx * (b * hm)
  <2>1. \A p, q \in Nat \ {0} : p * q \in Nat \ {0}
    OBVIOUS
  <2> QED
    BY <2>1
<1>2. PICK a \in Nat, z \in Nat : a = i \div w /\ z = i % w /\ z < w
  <2>1. w \in Nat /\ w > 0
    OBVIOUS
  <2> QED
    BY <2>1, Division
<1>3. PICK n \in Nat : n = b * vm
  BY Products
<1>4. a < n
  BY <1>1, <1>2, <1>3, QuotientBelow
<1>5. PICK y \in Nat : y = (a * v) \div vm /\ y < b * v
  <2>1. a * v < n * v
    <3>1. a * v + 0 < n * v
      BY <1>4, RowMajor
    <3> QED
      BY <3>1
  <2>2. n * v = (b * v) * vm
    BY <1>3
  <2>3. b * v \in Nat /\ a * v \in Nat
    OBVIOUS
  <2> QED
    BY <2>1, <2>2, <2>3, QuotientBelow
<1>6. PICK x \in Nat : x = (z * h) \div hm /\ x < kx * (b * h)
  <2>1. z * h < w * h
    <3>1. z * h + 0 < w * h
      BY <1>2, RowMajor
    <3> QED
      BY <3>1
  <2>2. w * h = (kx * (b * h)) * hm
    BY <1>1
  <2>3. kx * (b * h) \in Nat /\ z * h \in Nat
    OBVIOUS
  <2> QED
    BY <2>1, <2>2, <2>3, QuotientBelow
<1>7. PICK yq \in Nat, yr \in Nat : yq = y \div b /\ yr = y % b /\ yr < b /\ yq < v
  <2>1. b * v = v * b
    OBVIOUS
  <2> QED
    BY <1>5, <2>1, Division, QuotientBelow
<1>8. PICK xq \in Nat, xr \in Nat : xq = x \div b /\ xr = x % b /\ xr < b /\ xq < kx * h
  <2>1. kx * (b * h) = (kx * h) * b /\ kx * h \in Nat
    OBVIOUS
  <2> QED
    BY <1>6, <2>1, Division, QuotientBelow
<1>9. PICK p \in Nat, u \in Nat : p = kx * h /\ u = b * b
  BY Products
<1>10. PICK r \in Nat : r = yr * b + xr /\ r < u
  BY <1>7, <1>8, <1>9, RowMajor
<1>11. PICK s \in Nat : s = xq * u + r /\ s < p * u
  BY <1>8, <1>9, <1>10, RowMajor
<1>12. PICK m \in Nat : m = p * u
  BY Products
<1>13. yq * m + s \in Nat /\ yq * m + s < v * m
  BY <1>7, <1>11, <1>12, RowMajor
<1>14. m = (kx * (b * h)) * b
  BY <1>9, <1>12
<1>15. v * m = (kx * (b * h)) * (b * v)
  <2>1. PICK t \in Nat : t = kx * (b * h)
    OBVIOUS
  <2>2. v * (t * b) = t * (b * v)
    OBVIOUS
  <2> QED
    BY <1>14, <2>1, <2>2
<1>16. yq * (kx * (b * h)) * b = yq * m
  <2>1. PICK t \in Nat : t = kx * (b * h)
    OBVIOUS
  <2>2. yq * t * b = yq * (t * b)
    OBVIOUS
  <2> QED
    BY <1>14, <2>1, <2>2
<1>17. yq * (kx * (b * h)) * b + xq * (b * b) + yr * b + xr = yq * m + s
  <2>1. PICK e \in Nat, g \in Nat, l \in Nat : e = yq * m /\ g = xq * u /\ l = yr * b
    BY Products
  <2>2. (e + g) + l + xr = e + (g + (l + xr))
    OBVIOUS
  <2>3. yq * (kx * (b * h)) * b = e /\ xq * (b * b) = g
    BY <1>9, <1>16, <2>1
  <2> QED
    BY <1>10, <1>11, <2>1, <2>2, <2>3
<1> QED
  BY <1>1, <1>2, <1>5, <1>6, <1>7, <1>8, <1>13, <1>15, <1>17

-----------------------------------------------------------------------------
(***************************************************************************)
(* The memory of the conversion                                            *)
(***************************************************************************)

\* The numbers the conversion computes with.
LEMMA PixelFacts ==
    ASSUME FrameInv, SizesInv, HasSizes
    PROVE  /\ pixels_in_scan = (MCUColumns * (BlockSize * horz_sample_factor(0)))
                               * (BlockSize * vert_sample_factor(0))
           /\ pixels_in_scan \in Nat
           /\ BlockSize <= pixels_in_scan
           /\ pixels_in_scan <= (BlockSize * max_vert_sample_factor) * X
<1>1. PICK b \in Nat \ {0}, kx \in Nat \ {0} : b = BlockSize /\ kx = MCUColumns
  BY BlockSizeFacts, MCUFacts DEF FrameInv
<1>2. 0 \in Components /\ frame \in Frames
  BY DEF Components, FrameInv
<1>3. PICK h \in 1 .. 4, v \in 1 .. 4, hm \in 1 .. 4, vm \in 1 .. 4 :
          /\ h = horz_sample_factor(0) /\ v = vert_sample_factor(0)
          /\ hm = max_horz_sample_factor /\ vm = max_vert_sample_factor
          /\ h <= hm /\ v <= vm
  BY <1>2, CodeFactorFacts
<1>4. X = kx * (b * hm) /\ image_components[0].horz_samples = kx * (b * h)
  BY <1>1, <1>2, <1>3, KnownSizes
<1>5. PICK w \in Nat \ {0}, y \in Nat \ {0}, wm \in Nat, ym \in Nat :
          w = kx * (b * h) /\ y = b * v /\ wm = kx * (b * hm) /\ ym = b * vm
  <2>1. \A p, q \in Nat \ {0} : p * q \in Nat \ {0}
    OBVIOUS
  <2>2. b * h \in Nat \ {0} /\ b * v \in Nat \ {0} /\ b * hm \in Nat \ {0} /\ b * vm \in Nat \ {0}
    BY <2>1
  <2> QED
    BY <2>1, <2>2
<1>6. pixels_in_scan = w * y
  <2>1. w * b * v = w * (b * v)
    OBVIOUS
  <2> QED
    BY <1>1, <1>3, <1>4, <1>5, <2>1 DEF pixels_in_scan
<1>7. b <= y /\ y <= w * y
  <2>1. 1 * b <= v * b /\ 1 * y <= w * y
    BY ProductGrows
  <2>2. 1 * b = b /\ v * b = b * v /\ 1 * y = y
    OBVIOUS
  <2> QED
    BY <1>5, <2>1, <2>2
<1>8. w * y <= ym * wm
  <2>1. h * (kx * b) <= hm * (kx * b) /\ v * b <= vm * b
    BY <1>3, ProductGrows, Products
  <2>2. h * (kx * b) = w /\ hm * (kx * b) = wm /\ v * b = y /\ vm * b = ym
    BY <1>5
  <2>3. w <= wm /\ y <= ym
    BY <2>1, <2>2
  <2>4. w * y <= wm * y /\ y * wm <= ym * wm /\ wm * y = y * wm
    BY <2>3, ProductGrows
  <2>5. w * y \in Nat /\ wm * y \in Nat /\ ym * wm \in Nat
    BY Products
  <2> QED
    BY <2>4, <2>5
<1>9. w * y \in Nat
  BY Products
<1> QED
  BY <1>1, <1>3, <1>4, <1>5, <1>6, <1>7, <1>8, <1>9

\* A vector goes on by its length or by half of it.
LEMMA StepOfVectors ==
    ASSUME FrameInv
    PROVE  /\ VectorStep \in Nat \ {0}
           /\ Vector = BlockSize
           /\ VectorStep = Vector \/ 2 * VectorStep = Vector
BY BlockSizeFacts DEF FrameInv, Vector, VectorStep

\* The index of each sample that is read lies in the blocks of the row, or less than
\* a vector behind it.
LEMMA LastReadWithin ==
    ASSUME FrameInv, SizesInv, HasSizes, NEW c \in Components,
           NEW i \in 0 .. PixelsWritten - 1
    PROVE  /\ LastRead(c, i) \in Nat
           /\ LastRead(c, i) < (MCUColumns * (BlockSize * horz_sample_factor(c)))
                                   * (BlockSize * vert_sample_factor(c)) + Vector
<1>1. PICK b \in Nat \ {0}, kx \in Nat \ {0} : b = BlockSize /\ kx = MCUColumns
  BY BlockSizeFacts, MCUFacts DEF FrameInv
<1>2. frame \in Frames
  BY DEF FrameInv
<1>3. PICK h \in 1 .. 4, v \in 1 .. 4, hm \in 1 .. 4, vm \in 1 .. 4 :
          /\ h = horz_sample_factor(c) /\ v = vert_sample_factor(c)
          /\ hm = max_horz_sample_factor /\ vm = max_vert_sample_factor
  BY <1>2, CodeFactorFacts
<1>4. X = kx * (b * hm) /\ image_components[c].horz_samples = kx * (b * h)
  BY <1>1, <1>2, <1>3, KnownSizes
<1>5. PICK p \in Nat : p = pixels_in_scan /\ b <= p /\ p <= (b * vm) * X
  BY <1>1, <1>3, PixelFacts
<1>6. PICK d \in Nat : d = (kx * (b * h)) * (b * v)
  <2>1. kx * (b * h) \in Nat /\ b * v \in Nat
    BY Products
  <2> QED
    BY <2>1, Products
<1>7. ASSUME NEW j \in Nat, j < p
      PROVE  conversion_indices(c, j) \in Nat /\ conversion_indices(c, j) < d
  <2>1. j < (b * vm) * (kx * (b * hm))
    <3>1. PICK q \in Nat : q = (b * vm) * X
      <4>1. b * vm \in Nat /\ X \in Nat
        BY <1>2, KnownSizes, Products
      <4> QED
        BY <4>1, Products
    <3> QED
      BY <1>4, <1>5, <1>7, <3>1
  <2>2. conversion_indices(c, j) =
            LET y == ((j \div X) * v) \div vm
                x == ((j % X) * h) \div hm
            IN  (y \div b) * (kx * (b * h)) * b + (x \div b) * (b * b) + (y % b) * b + (x % b)
    BY <1>1, <1>3, <1>4 DEF conversion_indices, BlockArea
  <2>3. h \in Nat \ {0} /\ v \in Nat \ {0} /\ hm \in Nat \ {0} /\ vm \in Nat \ {0}
    OBVIOUS
  <2>4. LET y == ((j \div (kx * (b * hm))) * v) \div vm
            x == ((j % (kx * (b * hm))) * h) \div hm
        IN  /\ (y \div b) * (kx * (b * h)) * b + (x \div b) * (b * b) + (y % b) * b + (x % b) \in Nat
            /\ (y \div b) * (kx * (b * h)) * b + (x \div b) * (b * b) + (y % b) * b + (x % b)
                   < (kx * (b * h)) * (b * v)
    BY <2>1, <2>3, IndexWithinRow
  <2> QED
    BY <1>4, <1>6, <2>2, <2>4
<1>8. PICK s \in Nat \ {0} : s = VectorStep /\ s <= b /\ Vector = b
  BY <1>1, StepOfVectors
<1>9. CASE HasVectors
  <2>1. i \in 0 .. p + (b - s) - 1
    BY <1>5, <1>8, <1>9 DEF PixelsWritten
  <2>2. FirstOfVector(i) \in Nat /\ FirstOfVector(i) < p
    <3>1. CASE i < p
      <4>1. i % s \in Nat /\ i % s <= i
        <5>1. s \in Nat /\ s > 0 /\ i \in Nat
          BY <2>1
        <5>2. PICK q \in Nat, r \in Nat : q = i \div s /\ r = i % s /\ i = q * s + r
          BY <5>1, Division
        <5>3. q * s \in Nat
          BY Products
        <5> QED
          BY <5>2, <5>3
      <4>2. FirstOfVector(i) = i - (i % s)
        BY <1>5, <1>8, <3>1 DEF FirstOfVector
      <4> QED
        BY <2>1, <3>1, <4>1, <4>2
    <3>2. CASE ~(i < p)
      BY <1>5, <1>8, <3>2 DEF FirstOfVector
    <3> QED
      BY <3>1, <3>2
  <2>3. LastRead(c, i) = conversion_indices(c, FirstOfVector(i)) + b - 1
    BY <1>8, <1>9 DEF LastRead
  <2> QED
    BY <1>1, <1>3, <1>6, <1>7, <1>8, <2>2, <2>3
<1>10. CASE ~HasVectors
  <2>1. i \in Nat /\ i < p
    BY <1>5, <1>10 DEF PixelsWritten
  <2>2. LastRead(c, i) = conversion_indices(c, i)
    BY <1>10 DEF LastRead
  <2> QED
    BY <1>1, <1>3, <1>6, <1>7, <1>8, <2>1, <2>2
<1> QED
  BY <1>9, <1>10

\* Where the samples of a row begin.
LEMMA OffsetWithin ==
    ASSUME FrameInv, SizesInv, HasSizes, HasWholeScale(frame), NEW c \in Components,
           NEW r \in Nat
    PROVE  /\ (r * pixels_in_scan) \div rescale_factor(c) \in Nat
           /\ (r * pixels_in_scan) \div rescale_factor(c)
                  <= r * ((MCUColumns * (BlockSize * horz_sample_factor(c)))
                              * (BlockSize * vert_sample_factor(c)))
<1>1. PICK b \in Nat \ {0}, kx \in Nat \ {0} : b = BlockSize /\ kx = MCUColumns
  BY BlockSizeFacts, MCUFacts DEF FrameInv
<1>2. frame \in Frames /\ 0 \in Components
  BY DEF FrameInv, Components
<1>3. PICK h \in 1 .. 4, v \in 1 .. 4, hm \in 1 .. 4, vm \in 1 .. 4, g \in 1 .. 4, u \in 1 .. 4 :
          /\ h = horz_sample_factor(c) /\ v = vert_sample_factor(c)
          /\ hm = max_horz_sample_factor /\ vm = max_vert_sample_factor
          /\ g = horz_sample_factor(0) /\ u = vert_sample_factor(0)
          /\ g <= hm /\ u <= vm
  BY <1>2, CodeFactorFacts
<1>4. PICK d \in Nat \ {0}, m \in Nat \ {0}, n \in Nat : d = h * v /\ m = hm * vm /\ n = g * u /\ n <= m
  <2>1. \A p, q \in 1 .. 4 : p * q \in Nat \ {0}
    OBVIOUS
  <2>2. g * u <= hm * u /\ u * hm <= vm * hm /\ u * hm = hm * u /\ vm * hm = hm * vm
    BY <1>3, ProductGrows
  <2>3. g * u \in Nat /\ hm * u \in Nat /\ hm * vm \in Nat
    BY <2>1
  <2> QED
    BY <2>1, <2>2, <2>3
<1>5. PICK s \in Nat : s = rescale_factor(c) /\ m = s * d
  <2>1. rescale_factor(c) = m \div d
    BY <1>3, <1>4 DEF rescale_factor
  <2>2. m % d = 0
    <3>1. (HMax(frame) * VMax(frame)) % (H(frame, c) * V(frame, c)) = 0
      BY DEF HasWholeScale
    <3>2. HMax(frame) = vm /\ VMax(frame) = hm /\ H(frame, c) = v /\ V(frame, c) = h
      BY <1>3, CodeFactors
    <3>3. vm * hm = hm * vm /\ v * h = h * v
      OBVIOUS
    <3> QED
      BY <1>4, <3>1, <3>2, <3>3
  <2>3. m = (m \div d) * d + (m % d) /\ m \div d \in Nat
    <3>1. d \in Nat /\ d > 0
      OBVIOUS
    <3> QED
      BY <3>1, Division
  <2>4. PICK q \in Nat : q = m \div d
    BY <2>3
  <2>5. q * d + 0 = q * d
    OBVIOUS
  <2> QED
    BY <2>1, <2>2, <2>3, <2>4, <2>5
<1>6. s > 0
  <2>1. s = 0 => s * d = 0
    OBVIOUS
  <2> QED
    BY <1>5, <2>1
<1>7. PICK t \in Nat : t = kx * (b * b)
  BY Products
<1>8. pixels_in_scan = t * n
  <2>1. (kx * (b * g)) * (b * u) = (kx * (b * b)) * (g * u)
    OBVIOUS
  <2> QED
    BY <1>1, <1>3, <1>4, <1>7, <2>1, PixelFacts
<1>9. (kx * (b * h)) * (b * v) = t * d
  <2>1. (kx * (b * h)) * (b * v) = (kx * (b * b)) * (h * v)
    OBVIOUS
  <2> QED
    BY <1>4, <1>7, <2>1
<1>10. PICK rt \in Nat : rt = r * t
  BY Products
<1>11. r * (t * n) = rt * n /\ r * (t * d) = rt * d
  BY <1>10
<1>12. rt * n <= (rt * d) * s
  <2>1. n * rt <= m * rt /\ n * rt \in Nat
    BY <1>4, ProductGrows
  <2>2. n * rt = rt * n /\ m * rt = rt * m
    OBVIOUS
  <2>3. rt * m = (rt * d) * s
    BY <1>5
  <2> QED
    BY <2>1, <2>2, <2>3
<1>13. rt * n \in Nat /\ rt * d \in Nat
  BY Products
<1>14. (rt * n) \div s \in Nat /\ (rt * n) \div s <= rt * d
  BY <1>6, <1>12, <1>13, QuotientAtMost
<1> QED
  BY <1>1, <1>3, <1>5, <1>8, <1>9, <1>11, <1>14

\* The conversion stays within its buffers, which follows from the sizes alone.
LEMMA MemoryStays == ControlInv => StaysInMemory
<1> SUFFICES ASSUME ControlInv, pc = "convert", HasWholeScale(frame),
                    NEW t \in DOMAIN converter, converter[t] < SliceEnd(t)
             PROVE  /\ converter[t] * pixels_in_scan + PixelsWritten <= X * Y + Overallocated.pixels
                    /\ \A c \in Components, i \in 0 .. PixelsWritten - 1 :
                           (converter[t] * pixels_in_scan) \div rescale_factor(c) + LastRead(c, i)
                               < image_components[c].vert_samples * image_components[c].horz_samples
                                 + Overallocated.samples
  BY DEF StaysInMemory
<1>1. FrameInv /\ SizesInv /\ HasSizes /\ frame \in Frames
  BY DEF ControlInv, HasSizes, FrameInv
<1>2. PICK b \in Nat \ {0}, kx \in Nat \ {0}, ky \in Nat \ {0} :
          b = BlockSize /\ kx = MCUColumns /\ ky = MCURows
  BY <1>1, BlockSizeFacts, MCUFacts
<1>3. PICK r \in Nat : r = converter[t] /\ r < ky
  <2>1. t \in 0 .. build.threads - 1 /\ converter[t] \in SliceStart(t) .. SliceEnd(t)
    BY DEF ControlInv, ConverterInv
  <2>2. SliceStart(t) \in Nat /\ SliceEnd(t) \in Nat /\ SliceEnd(t) <= MCURows
    BY <1>1, <2>1, SliceFacts
  <2> QED
    BY <1>2, <2>1, <2>2
<1>4. PICK p \in Nat : p = pixels_in_scan
  BY <1>1, PixelFacts
<1>5. Overallocated.samples = 2 * b /\ Overallocated.pixels = 8 * b /\ Vector = b
  BY <1>2 DEF Overallocated, Vector
<1>6. PixelsWritten <= p + b /\ PixelsWritten \in Nat
  <2>1. PICK s \in Nat : s = VectorStep /\ s <= b
    BY <1>1, <1>2, StepOfVectors
  <2> QED
    BY <1>4, <1>5, <2>1 DEF PixelsWritten
<1>7. r * p + PixelsWritten <= X * Y + 8 * b
  <2>1. PICK m \in 1 .. 4, n \in 1 .. 4 : m = max_horz_sample_factor /\ n = max_vert_sample_factor
    BY <1>1, CodeFactorFacts
  <2>2. PICK x \in Nat, e \in Nat : x = X /\ Y = ky * (b * n) /\ e = b * n
    BY <1>1, <1>2, <2>1, KnownSizes, Products
  <2>3. p <= e * x
    BY <1>1, <1>2, <1>4, <2>1, <2>2, PixelFacts
  <2>4. x * (ky * e) = ky * (e * x)
    BY <1>2
  <2>5. PICK q \in Nat : q = e * x
    BY Products
  <2>6. (r + 1) * p = r * p + p /\ r * p \in Nat
    OBVIOUS
  <2>7. (r + 1) * p <= ky * p /\ p * ky <= q * ky /\ ky * p = p * ky /\ ky * q = q * ky
        /\ (r + 1) * p \in Nat /\ ky * p \in Nat /\ q * ky \in Nat
    BY <1>2, <1>3, <2>3, <2>5, ProductGrows
  <2>8. X * Y = ky * q
    BY <1>2, <2>2, <2>4, <2>5
  <2> QED
    BY <1>2, <1>4, <1>6, <2>6, <2>7, <2>8
<1>8. ASSUME NEW c \in Components, NEW i \in 0 .. PixelsWritten - 1
      PROVE  (r * p) \div rescale_factor(c) + LastRead(c, i)
                 < image_components[c].vert_samples * image_components[c].horz_samples + 2 * b
  <2>1. PICK h \in 1 .. 4, v \in 1 .. 4 : h = horz_sample_factor(c) /\ v = vert_sample_factor(c)
    BY <1>1, CodeFactorFacts
  <2>2. PICK w \in Nat, y \in Nat : w = kx * (b * h) /\ y = b * v
    BY Products
  <2>3. PICK d \in Nat : d = w * y
    BY Products
  <2>4. PICK o \in Nat : o = (r * p) \div rescale_factor(c) /\ o <= r * d
    BY <1>1, <1>2, <1>3, <1>4, <2>1, <2>2, <2>3, OffsetWithin
  <2>5. PICK l \in Nat : l = LastRead(c, i) /\ l < d + b
    BY <1>1, <1>2, <1>5, <2>1, <2>2, <2>3, LastReadWithin
  <2>6. image_components[c].vert_samples * image_components[c].horz_samples = ky * d
    <3>1. image_components[c].vert_samples = ky * y /\ image_components[c].horz_samples = w
      BY <1>1, <1>2, <2>1, <2>2, KnownSizes
    <3>2. (ky * y) * w = ky * (w * y)
      BY <1>2
    <3> QED
      BY <2>3, <3>1, <3>2
  <2>7. (r + 1) * d <= ky * d /\ (r + 1) * d \in Nat /\ ky * d \in Nat
    BY <1>2, <1>3, ProductGrows
  <2>8. (r + 1) * d = r * d + d /\ r * d \in Nat
    OBVIOUS
  <2> QED
    BY <1>2, <2>4, <2>5, <2>6, <2>7, <2>8
<1> QED
  BY <1>3, <1>4, <1>5, <1>7, <1>8

-----------------------------------------------------------------------------
(***************************************************************************)
(* Sequences that are flattened                                            *)
(***************************************************************************)

\* s and t, of m and of n elements, one behind the other.
IsJoint(u, s, t, m, n) ==
    /\ Len(u) = m + n
    /\ DOMAIN u = 1 .. m + n
    /\ \A i \in 1 .. m + n : u[i] = IF i <= m THEN s[i] ELSE t[i - m]

\* What Joined says, in a form that can be cited for any terms.
LEMMA Joint ==
    ASSUME NEW S, NEW s, NEW t, NEW m, NEW n,
           m \in Nat, n \in Nat, s \in Seq(S), t \in Seq(S), Len(s) = m, Len(t) = n
    PROVE  s \o t \in Seq(S) /\ IsJoint(s \o t, s, t, m, n)
BY Joined DEF IsJoint

\* Sequences of one length, flattened: element j of the one behind m of them.
IsFlatOfEqual(u, ss, n, l) ==
    /\ Len(u) = n * l
    /\ \A m \in 0 .. n - 1, j \in 1 .. l : u[m * l + j] = ss[m + 1][j]

\* n sequences of l elements each, flattened.
LEMMA FlattenEqual ==
    ASSUME NEW n \in Nat \ {0}, NEW S, NEW ss \in [1 .. n -> Seq(S)], NEW l \in Nat,
           \A i \in 1 .. n : Len(ss[i]) = l
    PROVE  FlattenSeq(ss) \in Seq(S) /\ IsFlatOfEqual(FlattenSeq(ss), ss, n, l)
<1>1. PICK F : /\ F \in [1 .. n -> Seq(S)]
               /\ F[1] = ss[1]
               /\ \A i \in 1 .. n : i # 1 => F[i] = F[i - 1] \o ss[i]
               /\ FlattenSeq(ss) = F[n]
  <2>1. \E F : IsFlattening(F, n, S, ss)
    BY FlattenDefinition
  <2> QED
    BY <2>1 DEF IsFlattening
<1> DEFINE Good(i) == /\ Len(F[i]) = i * l
                      /\ \A m \in 0 .. i - 1, j \in 1 .. l : F[i][m * l + j] = ss[m + 1][j]
           T == {k \in Nat : k + 1 \in 1 .. n => Good(k + 1)}
<1>2. 0 \in T
  <2>1. 1 \in 1 .. n /\ 1 * l = l
    OBVIOUS
  <2>2. Good(1)
    <3>1. ASSUME NEW m \in 0 .. 1 - 1, NEW j \in 1 .. l
          PROVE  F[1][m * l + j] = ss[m + 1][j]
      <4>1. m = 0 /\ m * l + j = j /\ m + 1 = 1
        OBVIOUS
      <4> QED
        BY <1>1, <4>1
    <3> QED
      BY <1>1, <2>1, <3>1
  <2> QED
    BY <2>2
<1>3. ASSUME NEW k \in T
      PROVE  k + 1 \in T
  <2>1. SUFFICES ASSUME (k + 1) + 1 \in 1 .. n
                 PROVE  Good((k + 1) + 1)
    OBVIOUS
  <2>2. PICK i \in 1 .. n : i = k + 1 /\ i + 1 \in 1 .. n /\ i + 1 # 1 /\ (i + 1) - 1 = i
    BY <2>1
  <2>3. Good(i)
    BY <2>2
  <2>4. PICK x \in Nat : x = i * l /\ (i + 1) * l = x + l
    BY Products, (i + 1) * l = i * l + l
  <2>5. F[i] \in Seq(S) /\ Len(F[i]) = x /\ ss[i + 1] \in Seq(S) /\ Len(ss[i + 1]) = l
    BY <1>1, <2>2, <2>3, <2>4
  <2>6. F[i + 1] = F[i] \o ss[i + 1]
    BY <1>1, <2>2
  <2>7. /\ Len(F[i + 1]) = x + l
        /\ \A j \in 1 .. x + l : F[i + 1][j] = IF j <= x THEN F[i][j] ELSE ss[i + 1][j - x]
    <3>1. IsJoint(F[i] \o ss[i + 1], F[i], ss[i + 1], x, l)
      BY <2>4, <2>5, Joint
    <3> QED
      BY <2>6, <3>1 DEF IsJoint
  <2>8. ASSUME NEW m \in 0 .. (i + 1) - 1, NEW j \in 1 .. l
        PROVE  F[i + 1][m * l + j] = ss[m + 1][j]
    <3>1. CASE m = i
      <4>1. m * l + j = x + j /\ x + j \in 1 .. x + l /\ ~(x + j <= x) /\ (x + j) - x = j
        BY <2>4, <3>1
      <4> QED
        BY <2>7, <3>1, <4>1
    <3>2. CASE m # i
      <4>1. m \in Nat /\ m < i /\ m \in 0 .. i - 1
        BY <2>2, <3>2
      <4>2. PICK y \in Nat : y = m * l /\ y + l <= x
        BY <2>2, <2>4, <4>1, (m + 1) * l <= i * l, (m + 1) * l = m * l + l, ProductGrows, Products
      <4>3. y + j \in 1 .. x + l /\ y + j <= x
        BY <4>2
      <4>4. F[i + 1][y + j] = F[i][y + j]
        BY <2>7, <4>3
      <4>5. F[i][m * l + j] = ss[m + 1][j]
        BY <2>3, <4>1
      <4> QED
        BY <4>2, <4>4, <4>5
    <3> QED
      BY <3>1, <3>2
  <2>9. Good(i + 1)
    BY <2>4, <2>7, <2>8
  <2> HIDE DEF Good
  <2> QED
    BY <2>2, <2>9
<1>4. T = Nat
  <2>1. T \in SUBSET Nat
    OBVIOUS
  <2> HIDE DEF T
  <2> QED
    BY <1>2, <1>3, <2>1, SetInduction
<1>5. Good(n)
  <2>1. n - 1 \in Nat /\ (n - 1) + 1 = n /\ n \in 1 .. n
    OBVIOUS
  <2>2. n - 1 \in T
    BY <1>4, <2>1
  <2> HIDE DEF Good
  <2> QED
    BY <2>1, <2>2
<1>6. F[n] \in Seq(S)
  BY <1>1, n \in 1 .. n
<1> QED
  BY <1>1, <1>5, <1>6 DEF IsFlatOfEqual

\* The elements of three sequences, flattened.
IsFlatOfThree(u, ss, a, b, c) ==
    /\ Len(u) = a + b + c
    /\ \A j \in 1 .. a : u[j] = ss[1][j]
    /\ \A j \in 1 .. b : u[a + j] = ss[2][j]
    /\ \A j \in 1 .. c : u[a + b + j] = ss[3][j]

\* Three sequences, flattened.
LEMMA FlattenThree ==
    ASSUME NEW S, NEW ss \in [1 .. 3 -> Seq(S)],
           NEW a \in Nat, NEW b \in Nat, NEW c \in Nat,
           Len(ss[1]) = a, Len(ss[2]) = b, Len(ss[3]) = c
    PROVE  FlattenSeq(ss) \in Seq(S) /\ IsFlatOfThree(FlattenSeq(ss), ss, a, b, c)
<1>1. PICK n \in Nat \ {0} : n = 3
  OBVIOUS
<1>2. ss \in [1 .. n -> Seq(S)]
  BY <1>1
<1>3. PICK F : /\ F \in [1 .. n -> Seq(S)]
               /\ F[1] = ss[1]
               /\ \A i \in 1 .. n : i # 1 => F[i] = F[i - 1] \o ss[i]
               /\ FlattenSeq(ss) = F[n]
  <2>1. \E F : IsFlattening(F, n, S, ss)
    BY <1>2, FlattenDefinition
  <2> QED
    BY <2>1 DEF IsFlattening
<1>4. 1 \in 1 .. n /\ 2 \in 1 .. n /\ 3 \in 1 .. n /\ 2 - 1 = 1 /\ 3 - 1 = 2
  BY <1>1
<1>5. F[2] = ss[1] \o ss[2] /\ F[3] = F[2] \o ss[3] /\ FlattenSeq(ss) = F[3]
  <2>1. 2 # 1 /\ 3 # 1
    OBVIOUS
  <2>2. F[2] = F[2 - 1] \o ss[2] /\ F[3] = F[3 - 1] \o ss[3]
    BY <1>3, <1>4, <2>1, Zenon
  <2>3. F[2] = F[1] \o ss[2] /\ F[3] = F[2] \o ss[3]
    BY <1>4, <2>2, Zenon
  <2> QED
    BY <1>1, <1>3, <2>3, Zenon
<1>6. ss[1] \in Seq(S) /\ ss[2] \in Seq(S) /\ ss[3] \in Seq(S)
  OBVIOUS
<1>7. /\ F[2] \in Seq(S) /\ Len(F[2]) = a + b
      /\ \A i \in 1 .. a + b : F[2][i] = IF i <= a THEN ss[1][i] ELSE ss[2][i - a]
  <2>1. ss[1] \o ss[2] \in Seq(S) /\ IsJoint(ss[1] \o ss[2], ss[1], ss[2], a, b)
    BY <1>6, Joint
  <2> QED
    BY <1>5, <2>1 DEF IsJoint
<1>8. PICK d \in Nat : d = a + b
  OBVIOUS
<1>9. /\ F[3] \in Seq(S) /\ Len(F[3]) = d + c
      /\ \A i \in 1 .. d + c : F[3][i] = IF i <= d THEN F[2][i] ELSE ss[3][i - d]
  <2>1. F[2] \o ss[3] \in Seq(S) /\ IsJoint(F[2] \o ss[3], F[2], ss[3], d, c)
    BY <1>6, <1>7, <1>8, Joint
  <2> QED
    BY <1>5, <2>1 DEF IsJoint
<1>10. ASSUME NEW j \in 1 .. a
       PROVE  F[3][j] = ss[1][j]
  <2>1. j \in 1 .. d + c /\ j <= d /\ j \in 1 .. a + b /\ j <= a
    BY <1>8
  <2> QED
    BY <1>7, <1>9, <2>1
<1>11. ASSUME NEW j \in 1 .. b
       PROVE  F[3][a + j] = ss[2][j]
  <2>1. a + j \in 1 .. d + c /\ a + j <= d /\ a + j \in 1 .. a + b /\ ~(a + j <= a) /\ (a + j) - a = j
    BY <1>8
  <2>2. F[3][a + j] = F[2][a + j]
    BY <1>9, <2>1
  <2>3. F[2][a + j] = ss[2][(a + j) - a]
    BY <1>7, <2>1
  <2> QED
    BY <2>1, <2>2, <2>3
<1>12. ASSUME NEW j \in 1 .. c
       PROVE  F[3][a + b + j] = ss[3][j]
  <2>1. a + b + j = d + j /\ d + j \in 1 .. d + c /\ ~(d + j <= d) /\ (d + j) - d = j
    BY <1>8
  <2>2. F[3][d + j] = ss[3][(d + j) - d]
    BY <1>9, <2>1
  <2> QED
    BY <2>1, <2>2
<1> QED
  BY <1>5, <1>8, <1>9, <1>10, <1>11, <1>12 DEF IsFlatOfThree

-----------------------------------------------------------------------------
(***************************************************************************)
(* The blocks of a scan, in the order of the file                          *)
(***************************************************************************)

\* Blocks along a side of an MCU.
Side(c) == H(frame, c)

\* What IsHandled says of the factors, in the code's names.
LEMMA HandledFacts ==
    ASSUME frame \in Frames, IsHandled(frame)
    PROVE  /\ \A c \in Components :
                  /\ Side(c) \in 1 .. 4
                  /\ vert_sample_factor(c) = Side(c) /\ horz_sample_factor(c) = Side(c)
                  /\ H(frame, c) = Side(c) /\ V(frame, c) = Side(c)
                  /\ \E s \in 1 .. 4 : Side(0) = s * Side(c)
                  /\ BlocksInRow(c) = MCUColumns * (Side(c) * Side(c))
           /\ max_vert_sample_factor = Side(0) /\ max_horz_sample_factor = Side(0)
           /\ HMax(frame) = Side(0) /\ VMax(frame) = Side(0)
           /\ MCUsAcross(frame) = MCUColumns /\ MCUsDown(frame) = MCURows
<1>1. \A c \in Components :
          /\ H(frame, c) \in 1 .. 4 /\ V(frame, c) = H(frame, c) /\ H(frame, c) <= H(frame, 0)
          /\ H(frame, 0) % H(frame, c) = 0
          /\ H(frame, c) <= HMax(frame) /\ V(frame, c) <= VMax(frame)
  BY FactorFacts DEF IsHandled
<1>2. 0 \in Components
  BY DEF Components
<1>3. HMax(frame) = H(frame, 0) /\ VMax(frame) = H(frame, 0)
  <2>1. PICK c \in Components : HMax(frame) = H(frame, c)
    BY FactorFacts
  <2>2. PICK d \in Components : VMax(frame) = V(frame, d)
    BY FactorFacts
  <2>3. PICK m \in Nat, n \in Nat, a \in Nat :
            m = HMax(frame) /\ n = VMax(frame) /\ a = H(frame, 0)
    BY <1>1, <1>2, FactorFacts
  <2>4. m <= a /\ a <= m /\ n <= a /\ a <= n
    BY <1>1, <1>2, <2>1, <2>2, <2>3
  <2> QED
    BY <2>3, <2>4
<1>4. ASSUME NEW c \in Components
      PROVE  \E s \in 1 .. 4 : Side(0) = s * Side(c)
  <2>1. PICK a \in 1 .. 4, b \in 1 .. 4 : a = H(frame, 0) /\ b = H(frame, c) /\ a % b = 0
    BY <1>1, <1>2
  <2>2. \E s \in 1 .. 4 : a = s * b
    <3>1. a = 1 \/ a = 2 \/ a = 3 \/ a = 4
      OBVIOUS
    <3>2. b = 1 \/ b = 2 \/ b = 3 \/ b = 4
      OBVIOUS
    <3>3. a = 1 * b \/ a = 2 * b \/ a = 3 * b \/ a = 4 * b
      BY <2>1, <3>1, <3>2
    <3> QED
      BY <3>3
  <2> QED
    BY <2>1, <2>2 DEF Side
<1>5. \A c : vert_sample_factor(c) = H(frame, c) /\ horz_sample_factor(c) = V(frame, c)
  BY CodeFactors
<1>6. max_vert_sample_factor = HMax(frame) /\ max_horz_sample_factor = VMax(frame)
  BY CodeFactors
<1>7. MCUsAcross(frame) = MCUColumns /\ MCUsDown(frame) = MCURows
  BY <1>3, <1>6 DEF MCUsAcross, MCUsDown, MCUColumns, MCURows
<1>8. \A c \in Components : BlocksInRow(c) = MCUColumns * (Side(c) * Side(c))
  BY <1>1, <1>5 DEF BlocksInRow, Side
<1> QED
  BY <1>1, <1>3, <1>4, <1>5, <1>6, <1>7, <1>8 DEF Side

\* The blocks of an MCU.
AllBlocks == [comp : Components, col : Nat, row : Nat]

\* An MCU of a handled frame has the blocks of a square of each component.
LEMMA BlocksOfHandledMCU ==
    ASSUME frame \in Frames, IsHandled(frame), NEW c \in Components,
           NEW col \in 0 .. MCUColumns - 1, NEW row \in 0 .. MCURows - 1
    PROVE  /\ row * MCUColumns + col \in 0 .. MCUColumns * MCURows - 1
           /\ BlocksOfMCU(frame, row * MCUColumns + col, c) \in Seq(AllBlocks)
           /\ Len(BlocksOfMCU(frame, row * MCUColumns + col, c)) = Side(c) * Side(c)
           /\ \A v \in 0 .. Side(c) - 1, h \in 0 .. Side(c) - 1 :
                  /\ v * Side(c) + h + 1 \in 1 .. Side(c) * Side(c)
                  /\ BlocksOfMCU(frame, row * MCUColumns + col, c)[v * Side(c) + h + 1]
                         = Block(c, col * Side(c) + h, row * Side(c) + v)
<1>1. PICK q \in 1 .. 4 : q = Side(c) /\ H(frame, c) = q /\ V(frame, c) = q
  BY HandledFacts
<1>2. PICK kx \in Nat \ {0}, ky \in Nat \ {0} : kx = MCUColumns /\ ky = MCURows
  BY MCUFacts
<1>3. PICK m \in Nat : m = row * kx + col /\ m < ky * kx /\ ky * kx = kx * ky /\ kx * ky \in Nat
  <2>1. col \in Nat /\ col < kx /\ row \in Nat /\ row < ky
    BY <1>2
  <2> QED
    BY <2>1, RowMajor
<1>4. m % kx = col /\ m \div kx = row
  <2>1. kx \in Nat /\ kx > 0 /\ row \in Nat /\ col \in Nat /\ col < kx
    BY <1>2
  <2> QED
    BY <1>3, <2>1, DivisionUnique
<1>5. PICK a \in Nat : a = q * q
  OBVIOUS
<1> DEFINE g == BlocksOfMCU(frame, m, c)
<1>6. g = [b \in 1 .. a |-> Block(c, col * q + ((b - 1) % q), row * q + ((b - 1) \div q))]
  BY <1>1, <1>2, <1>4, <1>5, HandledFacts DEF BlocksOfMCU
<1>7. ASSUME NEW b \in 1 .. a
      PROVE  Block(c, col * q + ((b - 1) % q), row * q + ((b - 1) \div q)) \in AllBlocks
  <2>1. PICK j \in Nat, i \in Nat : j = (b - 1) % q /\ i = (b - 1) \div q
    <3>1. b - 1 \in Nat /\ q \in Nat /\ q > 0
      OBVIOUS
    <3> QED
      BY <3>1, Division
  <2>2. col * q \in Nat /\ row * q \in Nat
    BY <1>2
  <2>3. col * q + j \in Nat /\ row * q + i \in Nat
    BY <2>2
  <2> QED
    BY <2>1, <2>3 DEF Block, AllBlocks
<1>8. g \in Seq(AllBlocks) /\ Len(g) = a
  <2>1. g \in [1 .. a -> AllBlocks]
    BY <1>6, <1>7
  <2> QED
    BY <2>1, FunctionAsSeq
<1>9. ASSUME NEW v \in 0 .. q - 1, NEW h \in 0 .. q - 1
      PROVE  /\ v * q + h + 1 \in 1 .. a
             /\ g[v * q + h + 1] = Block(c, col * q + h, row * q + v)
  <2>1. v \in Nat /\ v < q /\ h \in Nat /\ h < q /\ q > 0
    OBVIOUS
  <2>2. PICK w \in Nat : w = v * q + h /\ w < a
    BY <1>5, <2>1, RowMajor
  <2>3. w % q = h /\ w \div q = v
    BY <2>1, <2>2, DivisionUnique
  <2>4. w + 1 \in 1 .. a /\ (w + 1) - 1 = w
    BY <2>2
  <2>5. g[w + 1] = Block(c, col * q + h, row * q + v)
    BY <1>6, <2>3, <2>4
  <2> QED
    BY <2>2, <2>4, <2>5
<1> HIDE DEF g
<1>10. m \in 0 .. kx * ky - 1
  BY <1>3
<1> QED
  BY <1>1, <1>2, <1>3, <1>5, <1>8, <1>9, <1>10 DEF g

\* Blocks of component c in an MCU, and of all.
BlocksOfOne(c) == Side(c) * Side(c)
BlocksOfMCUs == BlocksOfOne(0) + BlocksOfOne(1) + BlocksOfOne(2)

\* One MCU of a scan of all components.
SentOfMCU(m) == FlattenSeq([k \in 1 .. 3 |-> BlocksOfMCU(frame, m, <<0, 1, 2>>[k])])

\* Its components come one behind the other.
LEMMA SentMCU ==
    ASSUME frame \in Frames, IsHandled(frame), NEW m \in 0 .. MCUColumns * MCURows - 1
    PROVE  /\ SentOfMCU(m) \in Seq(AllBlocks)
           /\ Len(SentOfMCU(m)) = BlocksOfMCUs
           /\ \A j \in 1 .. BlocksOfOne(0) : SentOfMCU(m)[j] = BlocksOfMCU(frame, m, 0)[j]
           /\ \A j \in 1 .. BlocksOfOne(1) :
                  SentOfMCU(m)[BlocksOfOne(0) + j] = BlocksOfMCU(frame, m, 1)[j]
           /\ \A j \in 1 .. BlocksOfOne(2) :
                  SentOfMCU(m)[BlocksOfOne(0) + BlocksOfOne(1) + j] = BlocksOfMCU(frame, m, 2)[j]
<1>1. PICK kx \in Nat \ {0}, ky \in Nat \ {0} : kx = MCUColumns /\ ky = MCURows
  BY MCUFacts
<1>2. PICK row \in 0 .. ky - 1, col \in 0 .. kx - 1 : m = row * kx + col
  <2>1. kx * ky = ky * kx /\ ky * kx \in Nat
    OBVIOUS
  <2>2. m \in Nat /\ m < ky * kx /\ kx \in Nat /\ kx > 0
    BY <1>1, <2>1
  <2>3. PICK q \in Nat, r \in Nat : q = m \div kx /\ m = q * kx + r /\ r < kx
    BY <2>2, Division
  <2>4. q < ky
    BY <2>2, <2>3, QuotientBelow
  <2>5. q \in 0 .. ky - 1 /\ r \in 0 .. kx - 1
    BY <2>3, <2>4
  <2> QED
    BY <2>3, <2>5
<1>3. ASSUME NEW c \in Components
      PROVE  BlocksOfMCU(frame, m, c) \in Seq(AllBlocks) /\ Len(BlocksOfMCU(frame, m, c)) = BlocksOfOne(c)
  BY <1>1, <1>2, BlocksOfHandledMCU DEF BlocksOfOne
<1>4. 0 \in Components /\ 1 \in Components /\ 2 \in Components
  BY DEF Components
<1>5. PICK a \in Nat, b \in Nat, d \in Nat :
          a = BlocksOfOne(0) /\ b = BlocksOfOne(1) /\ d = BlocksOfOne(2)
  <2>1. \A c \in Components : BlocksOfOne(c) \in Nat
    <3>1. \A x \in 1 .. 4 : x * x \in Nat
      OBVIOUS
    <3> QED
      BY <3>1, HandledFacts DEF BlocksOfOne
  <2> QED
    BY <1>4, <2>1
<1> DEFINE ss == [k \in 1 .. 3 |-> BlocksOfMCU(frame, m, <<0, 1, 2>>[k])]
<1>6. /\ ss[1] = BlocksOfMCU(frame, m, 0) /\ ss[2] = BlocksOfMCU(frame, m, 1)
      /\ ss[3] = BlocksOfMCU(frame, m, 2)
  <2>1. <<0, 1, 2>>[1] = 0 /\ <<0, 1, 2>>[2] = 1 /\ <<0, 1, 2>>[3] = 2
    OBVIOUS
  <2>2. 1 \in 1 .. 3 /\ 2 \in 1 .. 3 /\ 3 \in 1 .. 3
    OBVIOUS
  <2> QED
    BY <2>1, <2>2
<1>7. ss \in [1 .. 3 -> Seq(AllBlocks)]
  <2>1. ASSUME NEW k \in 1 .. 3
        PROVE  ss[k] \in Seq(AllBlocks)
    <3>1. k = 1 \/ k = 2 \/ k = 3
      OBVIOUS
    <3> HIDE DEF ss
    <3> QED
      BY <1>3, <1>4, <1>6, <3>1
  <2>2. ss = [k \in 1 .. 3 |-> ss[k]]
    OBVIOUS
  <2> HIDE DEF ss
  <2> QED
    BY <2>1, <2>2
<1>8. SentOfMCU(m) = FlattenSeq(ss)
  BY DEF SentOfMCU
<1> HIDE DEF ss
<1>9. Len(ss[1]) = a /\ Len(ss[2]) = b /\ Len(ss[3]) = d
  BY <1>3, <1>4, <1>5, <1>6
<1>10. /\ FlattenSeq(ss) \in Seq(AllBlocks)
       /\ Len(FlattenSeq(ss)) = a + b + d
       /\ \A j \in 1 .. a : FlattenSeq(ss)[j] = ss[1][j]
       /\ \A j \in 1 .. b : FlattenSeq(ss)[a + j] = ss[2][j]
       /\ \A j \in 1 .. d : FlattenSeq(ss)[a + b + j] = ss[3][j]
  <2>1. FlattenSeq(ss) \in Seq(AllBlocks) /\ IsFlatOfThree(FlattenSeq(ss), ss, a, b, d)
    BY <1>7, <1>9, FlattenThree
  <2> QED
    BY <2>1 DEF IsFlatOfThree
<1> QED
  BY <1>5, <1>6, <1>8, <1>10 DEF BlocksOfMCUs

\* A number of the stream and the block that has it.
Has(stream, number, block) ==
    number \in Nat /\ number \in DOMAIN stream /\ stream[number] = block

\* All of the stream of a scan of all components.
LEMMA InterleavedStream ==
    ASSUME frame \in Frames, IsHandled(frame), NEW sc, sc.comps = <<0, 1, 2>>
    PROVE  /\ Len(Stream(frame, sc)) = (MCUColumns * MCURows) * BlocksOfMCUs
           /\ \A m \in 0 .. MCUColumns * MCURows - 1, j \in 1 .. BlocksOfMCUs :
                  Has(Stream(frame, sc), m * BlocksOfMCUs + j, SentOfMCU(m)[j])
<1>1. PICK n \in Nat \ {0} : n = MCUColumns * MCURows
  <2>1. \A p, q \in Nat \ {0} : p * q \in Nat \ {0}
    OBVIOUS
  <2> QED
    BY <2>1, MCUFacts
<1>2. PICK l \in Nat : l = BlocksOfMCUs
  <2>1. \A c \in Components : BlocksOfOne(c) \in Nat
    <3>1. \A x \in 1 .. 4 : x * x \in Nat
      OBVIOUS
    <3> QED
      BY <3>1, HandledFacts DEF BlocksOfOne
  <2>2. 0 \in Components /\ 1 \in Components /\ 2 \in Components
    BY DEF Components
  <2> QED
    BY <2>1, <2>2 DEF BlocksOfMCUs
<1> DEFINE ss == [m \in 1 .. n |-> SentOfMCU(m - 1)]
<1>3. Stream(frame, sc) = FlattenSeq(ss)
  <2>1. Len(sc.comps) # 1 /\ DOMAIN sc.comps = 1 .. 3
    OBVIOUS
  <2>2. MCUsAcross(frame) * MCUsDown(frame) = n
    BY <1>1, HandledFacts
  <2>3. \A m : FlattenSeq([k \in DOMAIN sc.comps |-> BlocksOfMCU(frame, m - 1, sc.comps[k])])
               = SentOfMCU(m - 1)
    BY <2>1 DEF SentOfMCU
  <2>4. Stream(frame, sc) =
            FlattenSeq([m \in 1 .. MCUsAcross(frame) * MCUsDown(frame) |->
                FlattenSeq([k \in DOMAIN sc.comps |-> BlocksOfMCU(frame, m - 1, sc.comps[k])])])
    BY <2>1 DEF Stream
  <2> QED
    BY <2>2, <2>3, <2>4
<1>4. ASSUME NEW i \in 1 .. n
      PROVE  ss[i] = SentOfMCU(i - 1) /\ ss[i] \in Seq(AllBlocks) /\ Len(ss[i]) = l
  <2>1. i - 1 \in 0 .. MCUColumns * MCURows - 1
    BY <1>1
  <2>2. SentOfMCU(i - 1) \in Seq(AllBlocks) /\ Len(SentOfMCU(i - 1)) = l
    BY <1>2, <2>1, SentMCU
  <2> QED
    BY <2>2
<1>5. ss \in [1 .. n -> Seq(AllBlocks)]
  <2>1. ss = [i \in 1 .. n |-> ss[i]]
    OBVIOUS
  <2> HIDE DEF ss
  <2> QED
    BY <1>4, <2>1
<1> HIDE DEF ss
<1>6. /\ FlattenSeq(ss) \in Seq(AllBlocks)
      /\ Len(FlattenSeq(ss)) = n * l
      /\ \A m \in 0 .. n - 1, j \in 1 .. l : FlattenSeq(ss)[m * l + j] = ss[m + 1][j]
  <2>1. \A i \in 1 .. n : Len(ss[i]) = l
    BY <1>4
  <2>2. FlattenSeq(ss) \in Seq(AllBlocks) /\ IsFlatOfEqual(FlattenSeq(ss), ss, n, l)
    BY <1>5, <2>1, FlattenEqual
  <2> QED
    BY <2>2 DEF IsFlatOfEqual
<1>7. ASSUME NEW m \in 0 .. n - 1, NEW j \in 1 .. l
      PROVE  Has(FlattenSeq(ss), m * l + j, SentOfMCU(m)[j])
  <2>1. m + 1 \in 1 .. n /\ (m + 1) - 1 = m
    OBVIOUS
  <2>2. ss[m + 1] = SentOfMCU(m)
    BY <1>4, <2>1
  <2>3. m * l + j \in 1 .. n * l
    <3>1. m \in Nat /\ m < n /\ l \in Nat
      OBVIOUS
    <3>2. j - 1 \in Nat /\ j - 1 < l
      OBVIOUS
    <3>3. PICK x \in Nat, y \in Nat : x = m * l /\ y = n * l /\ x + (j - 1) < y
      BY <3>1, <3>2, RowMajor
    <3> QED
      BY <3>3
  <2>4. DOMAIN FlattenSeq(ss) = 1 .. n * l
    BY <1>6, LenProperties
  <2> QED
    BY <1>6, <2>2, <2>3, <2>4 DEF Has
<1> QED
  BY <1>1, <1>2, <1>3, <1>6, <1>7

\* All of the stream of a scan of one component that the file sends all of.
LEMMA StreamOfOne ==
    ASSUME frame \in Frames, IsHandled(frame), NeedsNoPadding(frame),
           NEW c \in Components, NEW sc, sc.comps = <<c>>
    PROVE  /\ Len(Stream(frame, sc)) = MCURows * (MCUColumns * BlocksOfOne(c))
           /\ \A r \in 0 .. MCURows - 1, k \in 0 .. MCUColumns * BlocksOfOne(c) - 1 :
                  Has(Stream(frame, sc), r * (MCUColumns * BlocksOfOne(c)) + k + 1, OwnBlock(c, r, k))
<1>1. PICK kx \in Nat \ {0}, ky \in Nat \ {0} : kx = MCUColumns /\ ky = MCURows
  BY MCUFacts
<1>2. PICK q \in 1 .. 4 : q = Side(c) /\ H(frame, c) = q /\ V(frame, c) = q
                          /\ vert_sample_factor(c) = q /\ horz_sample_factor(c) = q
  BY HandledFacts
<1>3. PICK w \in Nat \ {0}, d \in Nat \ {0} : w = kx * q /\ d = ky * q
  <2>1. \A i, j \in Nat \ {0} : i * j \in Nat \ {0}
    OBVIOUS
  <2> QED
    BY <2>1
<1>4. BlocksAcross(frame, c) = w /\ BlocksDown(frame, c) = d
  BY <1>1, <1>2, <1>3, HandledFacts DEF NeedsNoPadding
<1>5. PICK a \in Nat, n \in Nat : a = kx * (q * q) /\ n = w * d /\ n = ky * a /\ a = q * w
  <2>1. (kx * q) * (ky * q) = ky * (kx * (q * q)) /\ kx * (q * q) = q * (kx * q)
    OBVIOUS
  <2>2. w * d \in Nat /\ kx * (q * q) \in Nat
    BY Products
  <2> QED
    BY <1>3, <2>1, <2>2
<1> DEFINE stream == Stream(frame, sc)
<1>6. stream = [i \in 1 .. n |-> Block(c, (i - 1) % w, (i - 1) \div w)]
  <2>1. Len(sc.comps) = 1 /\ sc.comps[1] = c
    OBVIOUS
  <2> QED
    BY <1>4, <1>5, <2>1 DEF Stream
<1>7. Len(stream) = n /\ DOMAIN stream = 1 .. n
  <2>1. ASSUME NEW i \in 1 .. n
        PROVE  Block(c, (i - 1) % w, (i - 1) \div w) \in AllBlocks
    <3>1. i - 1 \in Nat /\ w \in Nat /\ w > 0
      OBVIOUS
    <3>2. (i - 1) % w \in Nat /\ (i - 1) \div w \in Nat
      BY <3>1, Division
    <3> QED
      BY <3>2 DEF Block, AllBlocks
  <2>2. stream \in [1 .. n -> AllBlocks]
    BY <1>6, <2>1
  <2> HIDE DEF stream
  <2> QED
    BY <2>2, FunctionAsSeq
<1>8. ASSUME NEW r \in 0 .. ky - 1, NEW k \in 0 .. a - 1
      PROVE  Has(stream, r * a + k + 1, Block(c, k % w, r * q + k \div w))
  <2>1. k \in Nat /\ w \in Nat /\ w > 0 /\ r \in Nat /\ r < ky /\ k < a
    OBVIOUS
  <2>2. PICK i \in Nat, j \in Nat : i = k \div w /\ j = k % w /\ k = i * w + j /\ j < w
    BY <2>1, Division
  <2>3. PICK z \in Nat : z = r * a + k /\ z < n
    BY <1>5, <2>1, RowMajor
  <2>4. PICK u \in Nat : u = r * q
    BY <2>1, Products
  <2>5. z = (u + i) * w + j
    <3>1. r * (q * w) = (r * q) * w /\ (u + i) * w = u * w + i * w /\ u * w \in Nat /\ i * w \in Nat
      BY <2>1
    <3> QED
      BY <1>5, <2>2, <2>3, <2>4, <3>1
  <2>6. z % w = j /\ z \div w = u + i
    <3>1. u + i \in Nat
      OBVIOUS
    <3> QED
      BY <2>1, <2>2, <2>5, <3>1, DivisionUnique
  <2>7. z + 1 \in 1 .. n /\ (z + 1) - 1 = z /\ z + 1 \in Nat
    BY <2>3
  <2>8. stream[z + 1] = Block(c, j, u + i)
    BY <1>6, <2>6, <2>7
  <2> HIDE DEF stream
  <2> QED
    BY <1>7, <2>2, <2>3, <2>4, <2>7, <2>8 DEF Has
<1> HIDE DEF stream
<1>9. \A r, k : OwnBlock(c, r, k) = Block(c, k % w, r * q + k \div w)
  BY <1>1, <1>2, <1>3 DEF OwnBlock
<1>10. BlocksOfOne(c) = q * q
  BY <1>2 DEF BlocksOfOne
<1>11. MCUColumns * BlocksOfOne(c) = a /\ MCURows * a = n /\ MCURows = ky
  BY <1>1, <1>5, <1>10
<1> QED
  BY <1>7, <1>8, <1>9, <1>11 DEF stream

-----------------------------------------------------------------------------
(***************************************************************************)
(* The places of a row, and the blocks that fill it                        *)
(***************************************************************************)

\* Is it a scan of all components?
IsOfAll == comps = <<0, 1, 2>>

\* What the numbers of a scan of all components are.
LEMMA BeforeAll ==
    ASSUME frame \in Frames, scan \in DOMAIN Scans(frame), IsHandled(frame), IsOfAll
    PROVE  /\ DOMAIN comps = 1 .. 3
           /\ comps[1] = 0 /\ comps[2] = 1 /\ comps[3] = 2
           /\ Before[1] = 0 /\ Before[2] = BlocksOfOne(0)
           /\ Before[3] = BlocksOfOne(0) + BlocksOfOne(1)
           /\ BlocksOfAll = BlocksOfMCUs
           /\ \A c \in Components : BlocksOfOne(c) \in Nat \ {0}
<1>1. DOMAIN comps = 1 .. 3 /\ Len(comps) = 3 /\ comps[1] = 0 /\ comps[2] = 1 /\ comps[3] = 2
  BY DEF IsOfAll
<1>2. ASSUME NEW c \in Components
      PROVE  BlocksPerMCU(c) = BlocksOfOne(c) /\ BlocksOfOne(c) \in Nat \ {0}
  <2>1. \A x \in 1 .. 4 : x * x \in Nat \ {0}
    OBVIOUS
  <2> QED
    BY <2>1, HandledFacts DEF BlocksPerMCU, BlocksOfOne
<1>3. 0 \in Components /\ 1 \in Components /\ 2 \in Components
  BY DEF Components
<1>4. /\ Before[1] = 0
      /\ \A n \in 1 .. 3 : Before[n + 1] = Before[n] + BlocksPerMCU(comps[n])
  BY <1>1, CompsFacts
<1>5. 1 \in 1 .. 3 /\ 2 \in 1 .. 3 /\ 3 \in 1 .. 3 /\ 1 + 1 = 2 /\ 2 + 1 = 3 /\ 3 + 1 = 4
  OBVIOUS
<1>6. /\ Before[2] = Before[1] + BlocksPerMCU(0)
      /\ Before[3] = Before[2] + BlocksPerMCU(1)
      /\ Before[4] = Before[3] + BlocksPerMCU(2)
  BY <1>1, <1>4, <1>5
<1>7. PICK a \in Nat, b \in Nat, d \in Nat :
          a = BlocksOfOne(0) /\ b = BlocksOfOne(1) /\ d = BlocksOfOne(2)
          /\ a = BlocksPerMCU(0) /\ b = BlocksPerMCU(1) /\ d = BlocksPerMCU(2)
  BY <1>2, <1>3
<1>8. Before[2] = a /\ Before[3] = a + b /\ Before[4] = a + b + d
  BY <1>4, <1>6, <1>7
<1>9. BlocksOfAll = Before[4]
  BY <1>1, <1>5 DEF BlocksOfAll
<1> QED
  BY <1>1, <1>2, <1>4, <1>7, <1>8, <1>9 DEF BlocksOfMCUs

\* The number and the place of a block in a scan of all components.
LEMMA SentInterleaved ==
    ASSUME ControlInv, IsHandled(frame), pc = "rows", mcu_row < MCURows, IsOfAll,
           NEW n \in DOMAIN comps, NEW c \in Components, c = comps[n],
           NEW col \in 0 .. MCUColumns - 1,
           NEW v \in 0 .. Side(c) - 1, NEW h \in 0 .. Side(c) - 1
    PROVE  /\ component_block_id(c, col, v, h) \in 0 .. BlocksInRow(c) - 1
           /\ Sent(consumed + col * BlocksOfAll + Before[n] + v * horz_sample_factor(c) + h + 1)
                  = OwnBlock(c, mcu_row, component_block_id(c, col, v, h))
<1>1. frame \in Frames /\ scan \in DOMAIN Scans(frame) /\ HasSizes /\ SizesInv
  BY DEF ControlInv, FrameInv, PositionInv, HasSizes
<1>2. PICK kx \in Nat \ {0}, ky \in Nat \ {0} : kx = MCUColumns /\ ky = MCURows
  BY <1>1, MCUFacts
<1>3. PICK r \in Nat : r = mcu_row /\ r < ky
  BY <1>2 DEF ControlInv, PositionInv
<1>4. PICK q \in 1 .. 4 : q = Side(c) /\ vert_sample_factor(c) = q /\ horz_sample_factor(c) = q
  BY <1>1, HandledFacts
<1>5. BlocksInRow(c) = kx * (q * q) /\ BlocksOfOne(c) = q * q
  BY <1>1, <1>2, <1>4, HandledFacts DEF BlocksOfOne
<1>6. PICK w \in Nat \ {0} : w = kx * q /\ q * w = BlocksInRow(c) /\ BlocksInRow(c) \in Nat
  <2>1. \A i, j \in Nat \ {0} : i * j \in Nat \ {0}
    OBVIOUS
  <2>2. kx * (q * q) = q * (kx * q)
    OBVIOUS
  <2>3. BlocksInRow(c) \in Nat
    BY <1>1, MCUFacts
  <2> QED
    BY <1>5, <2>1, <2>2, <2>3
<1>7. PICK x \in Nat : x = col * q + h /\ x < w
  <2>1. col \in Nat /\ col < kx /\ h \in Nat /\ h < q /\ q \in Nat
    BY <1>2, <1>4
  <2> QED
    BY <1>6, <2>1, RowMajor
<1>8. v \in Nat /\ v < q /\ h \in Nat /\ h < q
  BY <1>4
<1>9. PICK k \in Nat : k = v * w + x /\ k < q * w
  BY <1>7, <1>8, RowMajor
<1>10. component_block_id(c, col, v, h) = k
  <2>1. is_interleaved
    BY DEF is_interleaved, IsOfAll
  <2>2. num_horz_blocks(c) = w
    BY <1>1, <1>2, <1>4, <1>6, KnownSizes
  <2>3. v * w \in Nat
    BY <1>8, Products
  <2> QED
    BY <1>4, <1>7, <1>9, <2>1, <2>2, <2>3 DEF component_block_id
<1>11. OwnBlock(c, r, k) = Block(c, col * q + h, r * q + v)
  <2>1. k % w = x /\ k \div w = v
    <3>1. w \in Nat /\ w > 0
      OBVIOUS
    <3> QED
      BY <1>7, <1>8, <1>9, <3>1, DivisionUnique
  <2> QED
    BY <1>2, <1>4, <1>6, <1>7, <2>1 DEF OwnBlock
<1>12. PICK m \in Nat : m = r * kx + col /\ m \in 0 .. kx * ky - 1
  <2>1. r \in 0 .. MCURows - 1
    BY <1>2, <1>3
  <2>2. r * kx + col \in 0 .. kx * ky - 1
    BY <1>1, <1>2, <2>1, BlocksOfHandledMCU
  <2>3. col \in Nat /\ r * kx \in Nat
    BY <1>2, Products
  <2> QED
    BY <2>2, <2>3
<1>13. PICK l \in Nat, a \in Nat, b \in Nat, d \in Nat :
           /\ l = BlocksOfAll /\ l = BlocksOfMCUs /\ l = a + b + d
           /\ a = BlocksOfOne(0) /\ b = BlocksOfOne(1) /\ d = BlocksOfOne(2)
           /\ Before[1] = 0 /\ Before[2] = a /\ Before[3] = a + b
           /\ comps[1] = 0 /\ comps[2] = 1 /\ comps[3] = 2
  <2>1. \A i \in {0, 1, 2} : BlocksOfOne(i) \in Nat
    BY <1>1, BeforeAll DEF Components
  <2> QED
    BY <1>1, <2>1, BeforeAll DEF BlocksOfMCUs
<1>14. PICK j \in Nat : /\ j = v * q + h + 1 /\ j \in 1 .. q * q
                        /\ BlocksOfMCU(frame, m, c)[j] = Block(c, col * q + h, r * q + v)
  <2>1. r \in 0 .. MCURows - 1 /\ v \in 0 .. Side(c) - 1 /\ h \in 0 .. Side(c) - 1
    BY <1>2, <1>3, <1>4
  <2>2. /\ v * q + h + 1 \in 1 .. q * q
        /\ BlocksOfMCU(frame, m, c)[v * q + h + 1] = Block(c, col * q + h, r * q + v)
    <3>1. BlocksOfMCU(frame, r * MCUColumns + col, c)[v * Side(c) + h + 1]
              = Block(c, col * Side(c) + h, r * Side(c) + v)
          /\ v * Side(c) + h + 1 \in 1 .. Side(c) * Side(c)
      BY <1>1, <2>1, BlocksOfHandledMCU
    <3>2. m = r * MCUColumns + col
      BY <1>2, <1>12
    <3> QED
      BY <1>4, <3>1, <3>2
  <2>3. v * q \in Nat
    BY <1>8, Products
  <2>4. v * q + h + 1 \in Nat
    BY <1>8, <2>3
  <2> QED
    BY <2>2, <2>4
<1>15. j \in 1 .. BlocksOfOne(c)
  BY <1>5, <1>14
<1>16. PICK e \in Nat : /\ e = Before[n] + j /\ e \in 1 .. l
                        /\ SentOfMCU(m)[e] = BlocksOfMCU(frame, m, c)[j]
  <2>1. /\ \A i \in 1 .. a : SentOfMCU(m)[i] = BlocksOfMCU(frame, m, 0)[i]
        /\ \A i \in 1 .. b : SentOfMCU(m)[a + i] = BlocksOfMCU(frame, m, 1)[i]
        /\ \A i \in 1 .. d : SentOfMCU(m)[a + b + i] = BlocksOfMCU(frame, m, 2)[i]
    <3>1. m \in 0 .. MCUColumns * MCURows - 1
      BY <1>2, <1>12
    <3> QED
      BY <1>1, <1>13, <3>1, SentMCU
  <2>2. n = 1 \/ n = 2 \/ n = 3
    BY <1>1, BeforeAll
  <2>3. CASE n = 1
    <3>1. c = 0 /\ j \in 1 .. a /\ j \in 1 .. l /\ Before[n] + j = j
      BY <1>13, <1>14, <1>15, <2>3
    <3> QED
      BY <2>1, <3>1
  <2>4. CASE n = 2
    <3>1. c = 1 /\ j \in 1 .. b /\ a + j \in 1 .. l /\ Before[n] + j = a + j
      BY <1>13, <1>14, <1>15, <2>4
    <3> QED
      BY <2>1, <3>1
  <2>5. CASE n = 3
    <3>1. c = 2 /\ j \in 1 .. d /\ a + b + j \in 1 .. l /\ Before[n] + j = a + b + j
      BY <1>13, <1>14, <1>15, <2>5
    <3> QED
      BY <2>1, <3>1
  <2> QED
    BY <2>2, <2>3, <2>4, <2>5
<1>17. consumed + col * BlocksOfAll + Before[n] + v * horz_sample_factor(c) + h + 1 = m * l + e
  <2>1. consumed = r * (kx * l)
    BY <1>2, <1>3, <1>13 DEF ControlInv, PositionInv
  <2>2. r * (kx * l) + col * l = (r * kx + col) * l
    <3>1. r * (kx * l) = (r * kx) * l
      OBVIOUS
    <3>2. PICK z \in Nat : z = r * kx
      BY Products
    <3>3. (z + col) * l = z * l + col * l
      OBVIOUS
    <3> QED
      BY <3>1, <3>2, <3>3
  <2>3. PICK y \in Nat, z \in Nat, u \in Nat : y = r * (kx * l) /\ z = col * l /\ u = v * q
    <3>1. col \in Nat
      BY <1>2
    <3> QED
      BY <1>8, <3>1, Products
  <2>4. PICK s \in Nat : s = Before[n]
    BY <1>1, CompsFacts
  <2>5. m * l = y + z
    BY <1>12, <2>2, <2>3
  <2>6. consumed + z + s + u + h + 1 = (y + z) + (s + (u + h + 1))
    BY <1>8, <2>1, <2>3
  <2> QED
    BY <1>4, <1>13, <1>14, <1>16, <2>3, <2>4, <2>5, <2>6
<1>18. Has(Stream(frame, Scans(frame)[scan]), m * l + e, SentOfMCU(m)[e])
  <2>1. Scans(frame)[scan].comps = <<0, 1, 2>>
    BY DEF comps, IsOfAll
  <2> QED
    BY <1>1, <1>2, <1>12, <1>13, <1>16, <2>1, InterleavedStream
<1>19. Sent(m * l + e) = OwnBlock(c, r, k)
  BY <1>11, <1>14, <1>16, <1>18 DEF Sent, Has
<1>20. k \in 0 .. BlocksInRow(c) - 1
  BY <1>6, <1>9
<1> QED
  BY <1>3, <1>10, <1>17, <1>19, <1>20

\* The number and the place of a block in a scan of one component.
LEMMA SentAlone ==
    ASSUME ControlInv, IsHandled(frame), pc = "rows", mcu_row < MCURows, ~IsOfAll,
           NEW n \in DOMAIN comps, NEW c \in Components, c = comps[n],
           NEW col \in 0 .. MCUColumns - 1,
           NEW v \in 0 .. Side(c) - 1, NEW h \in 0 .. Side(c) - 1
    PROVE  /\ component_block_id(c, col, v, h) \in 0 .. BlocksInRow(c) - 1
           /\ Sent(consumed + col * BlocksOfAll + Before[n] + v * horz_sample_factor(c) + h + 1)
                  = OwnBlock(c, mcu_row, component_block_id(c, col, v, h))
<1>1. frame \in Frames /\ scan \in DOMAIN Scans(frame) /\ HasSizes /\ SizesInv
  BY DEF ControlInv, FrameInv, PositionInv, HasSizes
<1>2. PICK kx \in Nat \ {0}, ky \in Nat \ {0} : kx = MCUColumns /\ ky = MCURows
  BY <1>1, MCUFacts
<1>3. PICK r \in Nat : r = mcu_row /\ r < ky
  BY <1>2 DEF ControlInv, PositionInv
<1>4. PICK q \in 1 .. 4 : q = Side(c) /\ vert_sample_factor(c) = q /\ horz_sample_factor(c) = q
  BY <1>1, HandledFacts
<1>5. frame.progressive /\ comps = <<c>> /\ Len(comps) = 1 /\ n = 1
  <2>1. frame.progressive /\ comps = <<scan - 2>>
    BY <1>1, CompsFacts DEF IsOfAll
  <2> QED
    BY <2>1
<1>6. PICK s \in Nat \ {0} : s = q * q /\ BlocksOfOne(c) = s /\ BlocksPerMCU(c) = s
  <2>1. q * q \in Nat \ {0}
    OBVIOUS
  <2> QED
    BY <1>4, <2>1 DEF BlocksOfOne, BlocksPerMCU
<1>7. Before[n] = 0 /\ BlocksOfAll = s
  <2>1. Before[1] = 0 /\ Before[n + 1] = Before[n] + BlocksPerMCU(c)
    BY <1>1, CompsFacts
  <2>2. BlocksOfAll = Before[2]
    BY <1>5 DEF BlocksOfAll
  <2>3. n + 1 = 2
    BY <1>5
  <2> QED
    BY <1>5, <1>6, <2>1, <2>2, <2>3
<1>8. PICK a \in Nat : a = kx * s /\ a = BlocksInRow(c)
  <2>1. BlocksInRow(c) = kx * (q * q)
    BY <1>1, <1>2, <1>4, HandledFacts
  <2> QED
    BY <1>6, <2>1, Products
<1>9. v \in Nat /\ v < q /\ h \in Nat /\ h < q /\ col \in Nat /\ col < kx
  BY <1>2, <1>4
<1>10. PICK b \in Nat, u \in Nat : u = v * q /\ b = u + h /\ b < s
  <2>1. v * q \in Nat /\ v * q + h < q * q
    BY <1>9, RowMajor
  <2> QED
    BY <1>6, <1>9, <2>1
<1>11. PICK k \in Nat, z \in Nat : z = col * s /\ k = z + b /\ k < a
  <2>1. col * s \in Nat /\ col * s + b < kx * s
    BY <1>9, <1>10, RowMajor
  <2> QED
    BY <1>8, <1>10, <2>1
<1>12. component_block_id(c, col, v, h) = k
  <2>1. ~is_interleaved
    BY <1>5 DEF is_interleaved
  <2>2. col * q * q = z
    <3>1. col * q * q = col * (q * q)
      BY <1>9
    <3> QED
      BY <1>6, <1>11, <3>1
  <2>3. z + h + u = k
    BY <1>9, <1>10, <1>11
  <2> QED
    BY <1>4, <1>10, <2>1, <2>2, <2>3 DEF component_block_id
<1>13. consumed + col * BlocksOfAll + Before[n] + v * horz_sample_factor(c) + h + 1 = r * a + k + 1
  <2>1. consumed = r * a
    BY <1>2, <1>3, <1>7, <1>8 DEF ControlInv, PositionInv
  <2>2. PICK y \in Nat : y = r * a
    BY Products
  <2>3. y + z + 0 + u + h + 1 = y + k + 1
    BY <1>9, <1>10, <1>11
  <2> QED
    BY <1>4, <1>7, <1>10, <1>11, <2>1, <2>2, <2>3
<1>14. NeedsNoPadding(frame)
  BY <1>5 DEF IsHandled
<1>15. Has(Stream(frame, Scans(frame)[scan]), r * a + k + 1, OwnBlock(c, r, k))
  <2>1. Scans(frame)[scan].comps = <<c>>
    BY <1>5 DEF comps
  <2>2. r \in 0 .. MCURows - 1 /\ k \in 0 .. MCUColumns * BlocksOfOne(c) - 1
    BY <1>2, <1>3, <1>6, <1>8, <1>11
  <2>3. Has(Stream(frame, Scans(frame)[scan]), r * (MCUColumns * BlocksOfOne(c)) + k + 1, OwnBlock(c, r, k))
    BY <1>1, <1>14, <2>1, <2>2, StreamOfOne
  <2> QED
    BY <1>2, <1>6, <1>8, <2>3
<1>16. Sent(r * a + k + 1) = OwnBlock(c, r, k)
  BY <1>15 DEF Sent, Has
<1>17. k \in 0 .. BlocksInRow(c) - 1
  BY <1>8, <1>11
<1> QED
  BY <1>3, <1>12, <1>13, <1>16, <1>17

\* Each place of a row is that of a block.
LEMMA PlacesCovered ==
    ASSUME frame \in Frames, HasSizes, SizesInv, IsHandled(frame), NEW c \in Components,
           NEW k \in 0 .. BlocksInRow(c) - 1
    PROVE  \E col \in 0 .. MCUColumns - 1, v \in 0 .. Side(c) - 1, h \in 0 .. Side(c) - 1 :
               component_block_id(c, col, v, h) = k
<1>1. PICK kx \in Nat \ {0} : kx = MCUColumns
  BY MCUFacts
<1>2. PICK q \in 1 .. 4 : q = Side(c) /\ vert_sample_factor(c) = q /\ horz_sample_factor(c) = q
  BY HandledFacts
<1>3. PICK w \in Nat \ {0}, s \in Nat \ {0}, a \in Nat :
          /\ w = kx * q /\ s = q * q /\ a = BlocksInRow(c)
          /\ a = q * w /\ a = kx * s
  <2>1. \A i, j \in Nat \ {0} : i * j \in Nat \ {0}
    OBVIOUS
  <2>2. kx * (q * q) = q * (kx * q)
    OBVIOUS
  <2>3. BlocksInRow(c) = kx * (q * q)
    BY <1>1, <1>2, HandledFacts
  <2> QED
    BY <2>1, <2>2, <2>3
<1>4. k \in Nat /\ k < a /\ q \in Nat /\ q > 0 /\ w \in Nat /\ w > 0 /\ s \in Nat /\ s > 0
  BY <1>3
<1>5. CASE is_interleaved
  <2>1. PICK v \in Nat, x \in Nat : v = k \div w /\ k = v * w + x /\ x < w
    BY <1>4, Division
  <2>2. v < q
    BY <1>3, <1>4, <2>1, QuotientBelow
  <2>3. PICK col \in Nat, h \in Nat : col = x \div q /\ x = col * q + h /\ h < q
    BY <1>4, Division
  <2>4. col < kx
    BY <1>3, <1>4, <2>1, <2>3, QuotientBelow
  <2>5. num_horz_blocks(c) = w
    BY <1>1, <1>2, <1>3, KnownSizes
  <2>6. component_block_id(c, col, v, h) = k
    <3>1. v * w \in Nat /\ col * q \in Nat
      BY <1>4, Products
    <3> QED
      BY <1>2, <1>5, <2>1, <2>3, <2>5, <3>1 DEF component_block_id
  <2>7. col \in 0 .. MCUColumns - 1 /\ v \in 0 .. Side(c) - 1 /\ h \in 0 .. Side(c) - 1
    BY <1>1, <1>2, <2>2, <2>3, <2>4
  <2> QED
    BY <2>6, <2>7
<1>6. CASE ~is_interleaved
  <2>1. PICK col \in Nat, x \in Nat : col = k \div s /\ k = col * s + x /\ x < s
    BY <1>4, Division
  <2>2. col < kx
    BY <1>3, <1>4, <2>1, QuotientBelow
  <2>3. PICK v \in Nat, h \in Nat : v = x \div q /\ x = v * q + h /\ h < q
    BY <1>4, Division
  <2>4. v < q
    BY <1>3, <1>4, <2>1, <2>3, QuotientBelow
  <2>5. component_block_id(c, col, v, h) = k
    <3>1. v * q \in Nat /\ col * s \in Nat /\ col * q * q = col * (q * q)
      BY <1>4, Products
    <3>2. col * q * q = col * s
      BY <1>3, <3>1
    <3>3. col * s + h + v * q = k
      BY <2>1, <2>3, <3>1
    <3> QED
      BY <1>2, <1>6, <3>2, <3>3 DEF component_block_id
  <2>6. col \in 0 .. MCUColumns - 1 /\ v \in 0 .. Side(c) - 1 /\ h \in 0 .. Side(c) - 1
    <3>1. h < q
      BY <2>3
    <3> QED
      BY <1>1, <1>2, <2>2, <2>4, <3>1
  <2> QED
    BY <2>5, <2>6
<1> QED
  BY <1>5, <1>6

\* A row is filled with its own blocks.
LEMMA FilledRow ==
    ASSUME ControlInv, IsHandled(frame), pc = "rows", mcu_row < MCURows,
           NEW n \in DOMAIN comps, NEW c \in Components, c = comps[n],
           NEW row, DOMAIN row = 0 .. BlocksInRow(c) - 1
    PROVE  Filled(row, Fills(n)) = [k \in 0 .. BlocksInRow(c) - 1 |-> OwnBlock(c, mcu_row, k)]
<1>1. frame \in Frames /\ HasSizes /\ SizesInv
  BY DEF ControlInv, FrameInv, HasSizes
<1>2. mcu_cols = MCUColumns /\ vert_sample_factor(c) = Side(c) /\ horz_sample_factor(c) = Side(c)
  BY <1>1, KnownSizes, HandledFacts
<1> DEFINE Number(col, v, h) ==
               consumed + col * BlocksOfAll + Before[n] + v * horz_sample_factor(c) + h + 1
           Place(col, v, h) == component_block_id(c, col, v, h)
           Columns == 0 .. MCUColumns - 1
           Lines == 0 .. Side(c) - 1
<1>3. Fills(n) = {<<Place(col, v, h), Number(col, v, h)>> : col \in Columns, v \in Lines, h \in Lines}
  BY <1>2 DEF Fills
<1>4. ASSUME NEW col \in Columns, NEW v \in Lines, NEW h \in Lines
      PROVE  /\ Place(col, v, h) \in 0 .. BlocksInRow(c) - 1
             /\ Sent(Number(col, v, h)) = OwnBlock(c, mcu_row, Place(col, v, h))
  BY SentInterleaved, SentAlone
<1>5. \A k \in 0 .. BlocksInRow(c) - 1 : \E col \in Columns, v \in Lines, h \in Lines : Place(col, v, h) = k
  BY <1>1, PlacesCovered
<1> HIDE DEF Number, Place, Columns, Lines
<1>6. ASSUME NEW k \in 0 .. BlocksInRow(c) - 1
      PROVE  (LET own == {fill \in Fills(n) : fill[1] = k}
              IN  IF own = {} THEN row[k] ELSE Sent((CHOOSE fill \in own : TRUE)[2]))
                 = OwnBlock(c, mcu_row, k)
  <2> DEFINE own == {fill \in Fills(n) : fill[1] = k}
             fill == CHOOSE fill \in own : TRUE
  <2>1. own # {}
    <3>1. PICK col \in Columns, v \in Lines, h \in Lines : Place(col, v, h) = k
      BY <1>5
    <3>2. <<Place(col, v, h), Number(col, v, h)>> \in Fills(n)
      BY <1>3
    <3>3. <<Place(col, v, h), Number(col, v, h)>>[1] = k
      BY <3>1
    <3> QED
      BY <3>2, <3>3
  <2>2. fill \in own
    BY <2>1
  <2>3. fill \in Fills(n) /\ fill[1] = k
    BY <2>2
  <2> HIDE DEF fill
  <2>4. PICK col \in Columns, v \in Lines, h \in Lines : fill = <<Place(col, v, h), Number(col, v, h)>>
    BY <1>3, <2>3
  <2>5. fill[1] = Place(col, v, h) /\ fill[2] = Number(col, v, h)
    BY <2>4
  <2>6. Sent(fill[2]) = OwnBlock(c, mcu_row, k)
    BY <1>4, <2>3, <2>5
  <2> QED
    BY <2>1, <2>6 DEF fill
<1> QED
  BY <1>6 DEF Filled

-----------------------------------------------------------------------------
(***************************************************************************)
(* The decoded and the processed are right                                 *)
(***************************************************************************)

\* What a step does not change.
LEMMA OwnKept ==
    ASSUME [Next]_vars
    PROVE  /\ \A c, r, k : OwnBlock(c, r, k)' = OwnBlock(c, r, k)
           /\ \A s, c, p : InScan(s, c, p)' <=> InScan(s, c, p)
           /\ IsHandled(frame)' <=> IsHandled(frame)
BY Kept DEF OwnBlock, InScan

\* Every part of every component comes in a scan.
LEMMA EveryPartInScan ==
    ASSUME NEW f \in Frames, NEW c \in Components, NEW p \in Parts
    PROVE  \E s \in DOMAIN Scans(f) :
               /\ p \in Scans(f)[s].parts
               /\ \E n \in DOMAIN Scans(f)[s].comps : Scans(f)[s].comps[n] = c
<1> DEFINE all == <<0, 1, 2>>
<1>1. \E n \in DOMAIN all : all[n] = c
  <2>1. c + 1 \in DOMAIN all /\ all[c + 1] = c
    <3>1. c = 0 \/ c = 1 \/ c = 2
      BY DEF Components
    <3> QED
      BY <3>1
  <2> QED
    BY <2>1
<1> HIDE DEF all
<1>2. CASE ~f.progressive
  <2>1. 1 \in DOMAIN Scans(f) /\ Scans(f)[1].comps = all /\ Scans(f)[1].parts = Parts
    BY <1>2, ScanFacts DEF all
  <2> QED
    BY <1>1, <2>1
<1>3. CASE f.progressive /\ p = "DC"
  <2>1. 1 \in DOMAIN Scans(f) /\ Scans(f)[1].comps = all /\ Scans(f)[1].parts = {"DC"}
    BY <1>3, ScanFacts DEF all
  <2> QED
    BY <1>1, <1>3, <2>1
<1>4. CASE f.progressive /\ p = "AC"
  <2>1. c + 2 \in 2 .. 4 /\ (c + 2) - 2 = c
    BY DEF Components
  <2>2. c + 2 \in DOMAIN Scans(f) /\ Scans(f)[c + 2] = [comps |-> <<c>>, parts |-> {"AC"}]
    <3>1. c + 2 \in 1 .. 4
      BY <2>1
    <3>2. DOMAIN Scans(f) = 1 .. 4 /\ \A s \in 2 .. 4 : Scans(f)[s] = [comps |-> <<s - 2>>, parts |-> {"AC"}]
      BY <1>4, ScanFacts
    <3>3. Scans(f)[c + 2] = [comps |-> <<(c + 2) - 2>>, parts |-> {"AC"}]
      BY <2>1, <3>2
    <3> QED
      BY <2>1, <3>1, <3>2, <3>3
  <2>3. Scans(f)[c + 2].comps = <<c>> /\ Scans(f)[c + 2].parts = {"AC"}
    BY <2>2
  <2>4. 1 \in DOMAIN <<c>> /\ <<c>>[1] = c
    OBVIOUS
  <2> QED
    BY <1>4, <2>2, <2>3, <2>4
<1> QED
  BY <1>2, <1>3, <1>4, ScanFacts DEF Parts

\* A scan ends where its data does.
LEMMA ScanEnds ==
    ASSUME ControlInv, IsHandled(frame), pc = "rows", mcu_row = mcu_rows
    PROVE  consumed = Len(Stream(frame, Scans(frame)[scan]))
<1>1. frame \in Frames /\ scan \in DOMAIN Scans(frame) /\ HasSizes /\ SizesInv
  BY DEF ControlInv, FrameInv, PositionInv, HasSizes
<1>2. PICK kx \in Nat \ {0}, ky \in Nat \ {0} : kx = MCUColumns /\ ky = MCURows
  BY <1>1, MCUFacts
<1>3. consumed = ky * (kx * BlocksOfAll)
  BY <1>1, <1>2, KnownSizes DEF ControlInv, PositionInv
<1>4. CASE IsOfAll
  <2>1. Len(Stream(frame, Scans(frame)[scan])) = (kx * ky) * BlocksOfMCUs
    BY <1>1, <1>2, <1>4, InterleavedStream DEF IsOfAll, comps
  <2>2. PICK l \in Nat : l = BlocksOfAll /\ l = BlocksOfMCUs
    BY <1>1, <1>4, BeforeAll, CompsFacts
  <2>3. (kx * ky) * l = ky * (kx * l)
    OBVIOUS
  <2> QED
    BY <1>3, <2>1, <2>2, <2>3
<1>5. CASE ~IsOfAll
  <2>1. frame.progressive /\ comps = <<scan - 2>> /\ scan \in 2 .. 4
    BY <1>1, <1>5, CompsFacts DEF IsOfAll
  <2>2. PICK c \in Components : c = scan - 2 /\ comps = <<c>>
    BY <2>1 DEF Components
  <2>3. NeedsNoPadding(frame)
    BY <2>1 DEF IsHandled
  <2>4. Len(Stream(frame, Scans(frame)[scan])) = ky * (kx * BlocksOfOne(c))
    BY <1>1, <1>2, <2>2, <2>3, StreamOfOne DEF comps
  <2>5. BlocksOfAll = BlocksOfOne(c)
    <3>1. Len(comps) = 1 /\ 1 \in DOMAIN comps /\ comps[1] = c
      BY <2>2
    <3>2. Before[1] = 0 /\ BlocksPerMCU(c) \in Nat /\ Before[1 + 1] = Before[1] + BlocksPerMCU(c)
      BY <1>1, <3>1, CompsFacts
    <3>3. BlocksOfAll = Before[1 + 1]
      BY <3>1 DEF BlocksOfAll
    <3>4. BlocksPerMCU(c) = BlocksOfOne(c)
      BY <1>1, HandledFacts DEF BlocksPerMCU, BlocksOfOne
    <3> QED
      BY <3>2, <3>3, <3>4
  <2> QED
    BY <1>3, <2>4, <2>5
<1> QED
  BY <1>4, <1>5

\* A step that leaves the memory alone.
LEMMA MemoryKept ==
    ASSUME MemoryInv, [Next]_vars, pc \in {"rows", "process", "convert"}, UNCHANGED scan_memory,
           \A c \in Components, p \in Parts, r \in 0 .. MCURows - 1 :
               IsDecoded(c, p, r)' => IsDecoded(c, p, r)
    PROVE  MemoryInv'
<1>1. /\ MCURows' = MCURows /\ \A c : BlocksInRow(c)' = BlocksInRow(c)
      /\ \A c, r, k : OwnBlock(c, r, k)' = OwnBlock(c, r, k)
      /\ IsHandled(frame)' <=> IsHandled(frame)
  BY Kept, OwnKept
<1> QED
  BY <1>1 DEF MemoryInv

\* Nothing is decoded yet.
LEMMA ParseMemory ==
    ASSUME ControlInv, StartInv, ParseSOF
    PROVE  MemoryInv'
<1>0. [Next]_vars /\ pc = "header" /\ pc' = "rows" /\ UNCHANGED <<scan, mcu_row>>
  BY DEF Next, ParseSOF, position
<1>1. frame \in Frames
  BY DEF ControlInv, FrameInv
<1>2. scan = 1 /\ mcu_row = 0
  BY <1>0 DEF StartInv
<1>3. \A c \in Components : image_components'[c].num_scans = MCURows
                            /\ image_components'[c].num_blocks_in_scan = BlocksInRow(c)
  BY <1>1, ComponentSizes DEF ParseSOF
<1>4. ASSUME NEW c \in Components, NEW p \in Parts
      PROVE  scan_memory'[c][p] = [r \in 0 .. MCURows - 1 |-> [k \in 0 .. BlocksInRow(c) - 1 |-> None]]
  BY <1>3 DEF ParseSOF
<1>5. ASSUME NEW c \in Components, NEW p \in Parts, NEW r \in 0 .. MCURows - 1
      PROVE  ~IsDecoded(c, p, r)'
  <2>1. \A s \in DOMAIN Scans(frame) : s >= 1 /\ s \in Nat
    BY <1>1, ScanFacts
  <2>2. MCURows \in Nat
    BY <1>1, MCUFacts
  <2> QED
    BY <1>0, <1>2, <2>1, <2>2, Kept DEF IsDecoded
<1>6. MCURows' = MCURows /\ \A c : BlocksInRow(c)' = BlocksInRow(c)
  BY <1>0, Kept
<1>7. ASSUME NEW c \in Components, NEW p \in Parts
      PROVE  /\ scan_memory'[c][p] = [r \in 0 .. MCURows - 1 |-> scan_memory'[c][p][r]]
             /\ \A r \in 0 .. MCURows - 1 : DOMAIN scan_memory'[c][p][r] = 0 .. BlocksInRow(c) - 1
  <2>1. PICK rows : rows = [r \in 0 .. MCURows - 1 |-> [k \in 0 .. BlocksInRow(c) - 1 |-> None]]
    OBVIOUS
  <2>2. scan_memory'[c][p] = rows
    BY <1>4, <2>1
  <2>3. rows = [r \in 0 .. MCURows - 1 |-> rows[r]]
        /\ \A r \in 0 .. MCURows - 1 : DOMAIN rows[r] = 0 .. BlocksInRow(c) - 1
    BY <2>1
  <2> QED
    BY <2>2, <2>3
<1> QED
  BY <1>5, <1>6, <1>7 DEF MemoryInv

\* A row gets its own blocks.
LEMMA DecodeRowMemory ==
    ASSUME ControlInv, MemoryInv, DecodeRow
    PROVE  MemoryInv'
<1>0. [Next]_vars /\ pc = "rows" /\ pc' = "rows" /\ scan' = scan /\ mcu_row' = mcu_row + 1
  BY DEF Next, DecodeRow
<1>1. frame \in Frames /\ SizesInv /\ HasSizes
  BY <1>0 DEF ControlInv, FrameInv, HasSizes
<1>2. PICK r0 \in Nat : r0 = mcu_row /\ r0 < MCURows /\ r0 \in 0 .. MCURows - 1 /\ MCURows \in Nat
  BY <1>1, MCUFacts, KnownSizes DEF ControlInv, PositionInv, DecodeRow
<1>3. ASSUME NEW c \in Components, NEW p \in Parts
      PROVE  /\ scan_memory'[c][p] = [r \in 0 .. MCURows - 1 |-> scan_memory'[c][p][r]]
             /\ \A r \in 0 .. MCURows - 1 :
                    /\ DOMAIN scan_memory'[c][p][r] = 0 .. BlocksInRow(c) - 1
                    /\ IsHandled(frame) /\ IsDecoded(c, p, r)' =>
                           \A k \in 0 .. BlocksInRow(c) - 1 :
                               scan_memory'[c][p][r][k] = OwnBlock(c, r, k)
  <2>1. PICK rows : rows = scan_memory[c][p]
    OBVIOUS
  <2>2. rows = [r \in 0 .. MCURows - 1 |-> rows[r]]
    BY <1>0, <2>1 DEF MemoryInv
  <2>3. \A r \in 0 .. MCURows - 1 :
            /\ DOMAIN rows[r] = 0 .. BlocksInRow(c) - 1
            /\ IsHandled(frame) /\ IsDecoded(c, p, r) =>
                   \A k \in 0 .. BlocksInRow(c) - 1 : rows[r][k] = OwnBlock(c, r, k)
    BY <1>0, <2>1 DEF MemoryInv
  <2>4. CASE InScan(scan, c, p)
    <3>1. PICK n \in DOMAIN comps : comps[n] = c /\ n = CHOOSE m \in DOMAIN comps : comps[m] = c
      BY <2>4 DEF InScan, comps
    <3>2. p \in Scans(frame)[scan].parts /\ \E m \in DOMAIN comps : comps[m] = c
      BY <2>4 DEF InScan, comps
    <3>3. PICK filled : filled = Filled(rows[r0], Fills(n))
      OBVIOUS
    <3>4. scan_memory'[c][p] = [rows EXCEPT ![r0] = filled]
      <4>1. scan_memory'[c][p] =
                [scan_memory[c][p] EXCEPT ![mcu_row] =
                    Filled(@, Fills(CHOOSE m \in DOMAIN comps : comps[m] = c))]
        BY <3>2 DEF DecodeRow
      <4> QED
        BY <1>2, <2>1, <3>1, <3>3, <4>1
    <3>5. DOMAIN filled = 0 .. BlocksInRow(c) - 1
      BY <1>2, <2>3, <3>3 DEF Filled
    <3>6. IsHandled(frame) => \A k \in 0 .. BlocksInRow(c) - 1 : filled[k] = OwnBlock(c, r0, k)
      <4>1. SUFFICES ASSUME IsHandled(frame)
                     PROVE  \A k \in 0 .. BlocksInRow(c) - 1 : filled[k] = OwnBlock(c, r0, k)
        OBVIOUS
      <4>2. DOMAIN rows[r0] = 0 .. BlocksInRow(c) - 1
        BY <1>2, <2>3
      <4>3. Filled(rows[r0], Fills(n)) = [k \in 0 .. BlocksInRow(c) - 1 |-> OwnBlock(c, mcu_row, k)]
        BY <1>0, <1>2, <3>1, <4>1, <4>2, FilledRow
      <4> QED
        BY <1>2, <3>3, <4>3
    <3>7. \A r \in 0 .. MCURows - 1 : scan_memory'[c][p][r] = IF r = r0 THEN filled ELSE rows[r]
      BY <1>2, <2>2, <3>4
    <3>8. scan_memory'[c][p] = [r \in 0 .. MCURows - 1 |-> scan_memory'[c][p][r]]
      BY <2>2, <3>4
    <3>9. ASSUME NEW r \in 0 .. MCURows - 1, r # r0, IsDecoded(c, p, r)'
          PROVE  IsDecoded(c, p, r)
      BY <1>0, <1>2, <3>9, OwnKept, Kept DEF IsDecoded
    <3> QED
      BY <2>3, <3>5, <3>6, <3>7, <3>8, <3>9
  <2>5. CASE ~InScan(scan, c, p)
    <3>1. scan_memory'[c][p] = rows
      BY <2>1, <2>5 DEF InScan, comps, DecodeRow
    <3>2. ASSUME NEW r \in 0 .. MCURows - 1, IsDecoded(c, p, r)'
          PROVE  IsDecoded(c, p, r)
      BY <1>0, <2>5, <3>2, OwnKept, Kept DEF IsDecoded
    <3> QED
      BY <2>2, <2>3, <3>1, <3>2
  <2> QED
    BY <2>4, <2>5
<1>4. /\ MCURows' = MCURows /\ \A c : BlocksInRow(c)' = BlocksInRow(c)
      /\ \A c, r, k : OwnBlock(c, r, k)' = OwnBlock(c, r, k)
      /\ IsHandled(frame)' <=> IsHandled(frame)
  BY <1>0, Kept, OwnKept
<1> QED
  BY <1>3, <1>4 DEF MemoryInv

\* With the last scan every row is decoded.
LEMMA EndScanMemory ==
    ASSUME ControlInv, MemoryInv, EndScan
    PROVE  MemoryInv'
<1>0. /\ [Next]_vars /\ pc = "rows" /\ mcu_row = mcu_rows /\ UNCHANGED scan_memory
      /\ pc' \in {"rows", "process", "astray"}
  BY DEF Next, EndScan
<1>1. frame \in Frames /\ SizesInv /\ HasSizes /\ scan \in DOMAIN Scans(frame)
  BY <1>0 DEF ControlInv, FrameInv, PositionInv, HasSizes
<1>2. mcu_row = MCURows /\ MCURows \in Nat
  BY <1>0, <1>1, KnownSizes, MCUFacts
<1>3. \A s \in DOMAIN Scans(frame) : s \in Nat /\ s <= Len(Scans(frame))
  BY <1>1, ScanFacts
<1>4. ASSUME NEW c \in Components, NEW p \in Parts, NEW r \in 0 .. MCURows - 1, IsDecoded(c, p, r)'
      PROVE  IsDecoded(c, p, r)
  <2>1. r < MCURows
    BY <1>2
  <2>2. CASE pc' = "rows"
    <3>1. scan' = scan + 1 /\ mcu_row' = 0
      BY <2>2 DEF EndScan
    <3>2. PICK s \in DOMAIN Scans(frame) :
              InScan(s, c, p) /\ (s < scan' \/ (s = scan' /\ r < mcu_row'))
      BY <1>0, <1>4, <2>2, OwnKept, Kept DEF IsDecoded
    <3>3. s < scan \/ s = scan
      BY <1>1, <1>2, <1>3, <3>1, <3>2
    <3> QED
      BY <1>2, <2>1, <3>2, <3>3 DEF IsDecoded
  <2>3. CASE pc' = "process"
    <3>1. scan = Len(Scans(frame))
      BY <1>1, <2>3, ScanFacts DEF EndScan
    <3>2. PICK s \in DOMAIN Scans(frame) : InScan(s, c, p)
      BY <1>1, EveryPartInScan DEF InScan
    <3>3. s < scan \/ s = scan
      BY <1>1, <1>3, <3>1
    <3> QED
      BY <1>2, <2>1, <3>2, <3>3 DEF IsDecoded
  <2>4. CASE pc' = "astray"
    <3>1. UNCHANGED <<scan, mcu_row>>
      BY <2>4 DEF EndScan, position
    <3> QED
      BY <1>0, <1>4, <2>4, <3>1, OwnKept, Kept DEF IsDecoded
  <2> QED
    BY <1>0, <2>2, <2>3, <2>4
<1> QED
  BY <1>0, <1>4, MemoryKept

\* A step that leaves the samples alone.
LEMMA SamplesKept ==
    ASSUME SamplesInv, [Next]_vars, pc \in {"rows", "process", "convert"},
           UNCHANGED <<out_block_downsampled, channel>>
    PROVE  SamplesInv'
<1>1. /\ MCURows' = MCURows /\ \A c : BlocksInRow(c)' = BlocksInRow(c)
      /\ \A c, r, k : OwnBlock(c, r, k)' = OwnBlock(c, r, k)
      /\ IsHandled(frame)' <=> IsHandled(frame)
  BY Kept, OwnKept
<1> QED
  BY <1>1 DEF SamplesInv

\* The samples of block k of a component.
OwnBlocks(c) ==
    [k \in 0 .. MCURows * BlocksInRow(c) - 1 |->
        [p \in Parts |-> OwnBlock(c, k \div BlocksInRow(c), k % BlocksInRow(c))]]

\* A channel's samples are made of its blocks, row by row.
LEMMA ProcessSamples ==
    ASSUME ControlInv, MemoryInv, SamplesInv, ProcessChannel
    PROVE  SamplesInv'
<1>0. [Next]_vars /\ pc = "process" /\ pc' = "process" /\ channel' = channel + 1 /\ channel < 3
  BY DEF Next, ProcessChannel
<1>1. frame \in Frames /\ SizesInv /\ HasSizes
  BY <1>0 DEF ControlInv, FrameInv, HasSizes
<1>2. PICK c0 \in Components : c0 = channel
  BY <1>0 DEF ControlInv, PositionInv, Components
<1>3. PICK ky \in Nat \ {0}, a \in Nat \ {0} : ky = MCURows /\ a = BlocksInRow(c0)
  BY <1>1, MCUFacts
<1>4. PICK n \in Nat : n = ky * a
  BY Products
<1>5. image_components[channel].num_scans * image_components[channel].num_blocks_in_scan = n
      /\ image_components[channel].num_blocks_in_scan = a
  BY <1>1, <1>2, <1>3, <1>4, KnownSizes
<1>6. PICK new : new = [k \in 0 .. n - 1 |-> [p \in Parts |-> scan_memory[channel][p][k \div a][k % a]]]
  OBVIOUS
<1>7. out_block_downsampled' = [out_block_downsampled EXCEPT ![channel] = new]
  BY <1>5, <1>6 DEF ProcessChannel
<1>8. ASSUME IsHandled(frame)
      PROVE  new = OwnBlocks(c0)
  <2>1. ASSUME NEW k \in 0 .. n - 1
        PROVE  [p \in Parts |-> scan_memory[channel][p][k \div a][k % a]]
                   = [p \in Parts |-> OwnBlock(c0, k \div a, k % a)]
    <3>1. PICK q \in Nat, r \in Nat : q = k \div a /\ r = k % a /\ r < a
      <4>1. k \in Nat /\ a \in Nat /\ a > 0
        OBVIOUS
      <4> QED
        BY <4>1, Division
    <3>2. q < ky
      <4>1. k \in Nat /\ k < ky * a /\ a \in Nat /\ a > 0
        BY <1>4
      <4> QED
        BY <3>1, <4>1, QuotientBelow
    <3>3. q \in 0 .. MCURows - 1 /\ r \in 0 .. BlocksInRow(c0) - 1
      BY <1>3, <3>1, <3>2
    <3>4. ASSUME NEW p \in Parts
          PROVE  scan_memory[c0][p][q][r] = OwnBlock(c0, q, r)
      <4>1. IsDecoded(c0, p, q)
        BY <1>0 DEF IsDecoded
      <4> QED
        BY <1>0, <1>8, <3>3, <4>1 DEF MemoryInv
    <3> QED
      BY <1>2, <3>1, <3>4
  <2>2. OwnBlocks(c0) = [k \in 0 .. n - 1 |-> [p \in Parts |-> OwnBlock(c0, k \div a, k % a)]]
    BY <1>3, <1>4 DEF OwnBlocks
  <2> QED
    BY <1>6, <2>1, <2>2
<1>9. PICK old : old = out_block_downsampled /\ old = [c \in Components |-> old[c]]
  BY <1>0 DEF SamplesInv
<1>10. /\ out_block_downsampled' = [c \in Components |-> out_block_downsampled'[c]]
       /\ \A c \in Components : out_block_downsampled'[c] = IF c = c0 THEN new ELSE old[c]
  BY <1>2, <1>7, <1>9
<1>11. ASSUME IsHandled(frame), NEW c \in Components, c < channel'
       PROVE  out_block_downsampled'[c] = OwnBlocks(c)
  <2>1. CASE c = c0
    BY <1>8, <1>10, <1>11, <2>1
  <2>2. CASE c # c0
    <3>1. c < channel
      BY <1>0, <1>2, <1>11, <2>2 DEF Components
    <3>2. out_block_downsampled[c] = OwnBlocks(c)
      BY <1>0, <1>11, <3>1 DEF SamplesInv, OwnBlocks
    <3> QED
      BY <1>9, <1>10, <2>2, <3>2
  <2> QED
    BY <2>1, <2>2
<1>12. /\ MCURows' = MCURows /\ \A c : BlocksInRow(c)' = BlocksInRow(c)
       /\ \A c, r, k : OwnBlock(c, r, k)' = OwnBlock(c, r, k)
       /\ IsHandled(frame)' <=> IsHandled(frame)
  BY <1>0, Kept, OwnKept
<1> QED
  BY <1>10, <1>11, <1>12 DEF SamplesInv, OwnBlocks

\* What is decoded and processed is right after each step.
LEMMA NextMemory ==
    ASSUME ControlInv, StartInv, MemoryInv, SamplesInv, NotAstray, [Next]_vars
    PROVE  StartInv' /\ MemoryInv' /\ SamplesInv' /\ NotAstray'
<1>0. IsHandled(frame)' <=> IsHandled(frame)
  BY OwnKept
<1>1. CASE UNCHANGED vars
  <2>1. UNCHANGED <<pc, scan, mcu_row, channel, scan_memory, out_block_downsampled>>
    BY <1>1 DEF vars, position
  <2>2. StartInv' /\ NotAstray'
    BY <1>0, <2>1 DEF StartInv, NotAstray
  <2>3. \A c, p, r : IsDecoded(c, p, r)' => IsDecoded(c, p, r)
    BY <2>1, OwnKept, Kept DEF IsDecoded
  <2>4. CASE pc \in {"rows", "process", "convert"}
    BY <2>1, <2>2, <2>3, <2>4, MemoryKept, SamplesKept
  <2>5. CASE pc \notin {"rows", "process", "convert"}
    BY <2>1, <2>2, <2>5 DEF MemoryInv, SamplesInv
  <2> QED
    BY <2>4, <2>5
<1>2. CASE RefusePrecision
  BY <1>2 DEF RefusePrecision, StartInv, NotAstray, MemoryInv, SamplesInv
<1>3. CASE ParseSOF
  <2>1. pc = "header" /\ pc' = "rows" /\ channel' = channel
        /\ out_block_downsampled' = [c \in Components |-> <<>>]
    BY <1>3 DEF ParseSOF
  <2>2. MemoryInv'
    BY <1>3, ParseMemory
  <2>3. channel' = 0
    BY <2>1 DEF StartInv
  <2>4. SamplesInv'
    <3>1. \A c \in Components : ~(c < channel')
      BY <2>3 DEF Components
    <3>2. out_block_downsampled' = [c \in Components |-> out_block_downsampled'[c]]
      BY <2>1
    <3> QED
      BY <3>1, <3>2 DEF SamplesInv
  <2> QED
    BY <2>1, <2>2, <2>4 DEF StartInv, NotAstray
<1>4. CASE DecodeRow
  <2>1. pc = "rows" /\ pc' = "rows" /\ UNCHANGED <<channel, out_block_downsampled>>
    BY <1>4 DEF DecodeRow
  <2> QED
    BY <1>4, <2>1, DecodeRowMemory, SamplesKept DEF StartInv, NotAstray
<1>5. CASE EndScan
  <2>1. /\ pc = "rows" /\ pc' \in {"rows", "process", "astray"} /\ mcu_row = mcu_rows
        /\ UNCHANGED <<channel, out_block_downsampled>>
    BY <1>5 DEF EndScan
  <2>2. NotAstray'
    BY <1>0, <1>5, <2>1, ScanEnds DEF NotAstray, EndScan
  <2>3. MemoryInv' /\ SamplesInv'
    BY <1>5, <2>1, EndScanMemory, SamplesKept
  <2> QED
    BY <2>1, <2>2, <2>3 DEF StartInv
<1>6. CASE ProcessChannel
  <2>1. pc = "process" /\ pc' = "process" /\ UNCHANGED <<scan_memory, scan, mcu_row>>
    BY <1>6 DEF ProcessChannel, position
  <2>2. \A c, p, r : IsDecoded(c, p, r)' => IsDecoded(c, p, r)
    BY <2>1 DEF IsDecoded
  <2> QED
    BY <1>6, <2>1, <2>2, ProcessSamples, MemoryKept DEF StartInv, NotAstray
<1>7. CASE StartConversion
  <2>1. /\ pc = "process" /\ pc' \in {"convert", "exited"}
        /\ UNCHANGED <<scan_memory, scan, mcu_row, channel, out_block_downsampled>>
    BY <1>7 DEF StartConversion, position
  <2>2. \A c, p, r : IsDecoded(c, p, r)' => IsDecoded(c, p, r)
    BY <2>1 DEF IsDecoded
  <2> QED
    BY <2>1, <2>2, MemoryKept, SamplesKept DEF StartInv, NotAstray
<1>8. CASE \E t \in DOMAIN converter : ConvertRow(t)
  <2>1. /\ pc = "convert" /\ pc' = "convert"
        /\ UNCHANGED <<scan_memory, scan, mcu_row, channel, out_block_downsampled>>
    BY <1>8 DEF ConvertRow, position
  <2>2. \A c, p, r : IsDecoded(c, p, r)' => IsDecoded(c, p, r)
    BY <2>1 DEF IsDecoded
  <2> QED
    BY <2>1, <2>2, MemoryKept, SamplesKept DEF StartInv, NotAstray
<1>9. CASE CorrectImageSize
  BY <1>9 DEF CorrectImageSize, StartInv, NotAstray, MemoryInv, SamplesInv
<1>10. CASE Ended
  BY <1>1, <1>10 DEF Ended
<1> QED
  BY <1>1, <1>2, <1>3, <1>4, <1>5, <1>6, <1>7, <1>8, <1>9, <1>10 DEF Next

-----------------------------------------------------------------------------
(***************************************************************************)
(* Where the samples of a handled frame are                                *)
(***************************************************************************)

\* A common factor may be left out of a division.
LEMMA Scaling ==
    ASSUME NEW n \in Nat, NEW s \in Nat, s > 0, NEW q \in Nat, q > 0
    PROVE  (n * q) \div (s * q) = n \div s
<1>1. PICK d \in Nat, e \in Nat : d = n \div s /\ n = d * s + e /\ e < s
  BY Division
<1>2. PICK p \in Nat, f \in Nat : p = s * q /\ f = e * q
  BY Products
<1>3. p > 0 /\ f < p
  <2>1. (e + 1) * q <= s * q /\ (e + 1) * q = e * q + q
    BY <1>1, ProductGrows
  <2> QED
    BY <1>2, <2>1
<1>4. n * q = d * p + f
  <2>1. (d * s + e) * q = d * (s * q) + e * q
    OBVIOUS
  <2> QED
    BY <1>1, <1>2, <2>1
<1>5. (d * p + f) \div p = d
  BY <1>3, DivisionUnique
<1> QED
  BY <1>1, <1>2, <1>4, <1>5

\* Block and place of a sample, from its index.
IsAtPlace(b, n, y, x) ==
    /\ n * (b * b) + y * b + x \in Nat
    /\ (n * (b * b) + y * b + x) \div (b * b) = n
    /\ (n * (b * b) + y * b + x) % b = x
    /\ ((n * (b * b) + y * b + x) % (b * b)) \div b = y

\* An index has one block and one place.
LEMMA BlockAndPlace ==
    ASSUME NEW b \in Nat, b > 0, NEW n \in Nat, NEW y \in Nat, y < b, NEW x \in Nat, x < b
    PROVE  IsAtPlace(b, n, y, x)
<1>1. PICK u \in Nat, p \in Nat : u = y * b + x /\ p = b * b /\ u < p /\ p > 0 /\ u \div b = y
  <2>1. y * b + x \in Nat /\ y * b + x < b * b /\ (y * b + x) \div b = y
    BY RowMajor, DivisionUnique
  <2>2. b * b > 0 /\ b * b \in Nat
    OBVIOUS
  <2> QED
    BY <2>1, <2>2
<1>2. PICK k \in Nat : k = n * p + u
  <2>1. n * p \in Nat
    BY Products
  <2> QED
    BY <2>1
<1>3. n * (b * b) + y * b + x = k
  <2>1. y * b \in Nat /\ n * p \in Nat
    BY Products
  <2> QED
    BY <1>1, <1>2, <2>1
<1>4. k \div p = n /\ k % p = u
  BY <1>1, <1>2, DivisionUnique
<1>5. k % b = x
  <2>1. PICK z \in Nat : z = n * b + y
    <3>1. n * b \in Nat
      BY Products
    <3> QED
      BY <3>1
  <2>2. k = z * b + x
    <3>1. (n * b + y) * b = n * (b * b) + y * b
      OBVIOUS
    <3>2. PICK e \in Nat, f \in Nat : e = n * (b * b) /\ f = y * b
      BY Products
    <3> QED
      BY <1>3, <2>1, <3>1, <3>2
  <2>3. (z * b + x) % b = x
    BY DivisionUnique
  <2> QED
    BY <2>2, <2>3
<1> QED
  BY <1>1, <1>3, <1>4, <1>5 DEF IsAtPlace

\* What the sizes of a handled frame and those of a component have to do with each
\* other: q blocks along a side of its MCU, samples s pixels wide, w blocks in a line.
IsLayout(c, b, kx, ky, q, s, w) ==
    /\ b = BlockSize /\ b > 0
    /\ kx = MCUColumns /\ kx > 0 /\ ky = MCURows /\ ky > 0
    /\ q = Side(c) /\ q > 0
    /\ s > 0 /\ s <= 4 /\ s * q = Side(0)
    /\ w = kx * q /\ w > 0

\* A handled frame has such sizes.
LEMMA LayoutExists ==
    ASSUME frame \in Frames, IsHandled(frame), NEW c \in Components
    PROVE  \E b, kx, ky, q, s, w \in Nat : IsLayout(c, b, kx, ky, q, s, w)
<1>1. PICK b \in Nat : b = BlockSize /\ b > 0
  BY BlockSizeFacts
<1>2. PICK kx \in Nat, ky \in Nat : kx = MCUColumns /\ kx > 0 /\ ky = MCURows /\ ky > 0
  BY MCUFacts
<1>3. PICK q \in Nat, s \in Nat : q = Side(c) /\ q > 0 /\ s > 0 /\ s <= 4 /\ s * q = Side(0)
  <2>1. Side(c) \in 1 .. 4 /\ \E s \in 1 .. 4 : Side(0) = s * Side(c)
    BY HandledFacts
  <2>2. PICK s \in 1 .. 4 : Side(0) = s * Side(c)
    BY <2>1
  <2>3. \A n \in 1 .. 4 : n \in Nat /\ n > 0 /\ n <= 4
    OBVIOUS
  <2> QED
    BY <2>1, <2>2, <2>3
<1>4. PICK w \in Nat : w = kx * q /\ w > 0
  <2>1. kx * q \in Nat /\ kx * q > 0
    BY <1>2, <1>3
  <2> QED
    BY <2>1
<1> QED
  BY <1>1, <1>2, <1>3, <1>4 DEF IsLayout

\* What the code computes from them,
SizesOfLayout(c, b, ky, q, s, w) ==
    /\ X = s * (b * w) /\ Y = ky * (b * (s * q))
    /\ pixels_in_scan = (s * (b * w)) * (b * (s * q))
    /\ rescale_factor(c) = s * s
    /\ BlocksInRow(c) = q * w
    /\ image_components[c].horz_samples = b * w

\* and the sampling factors they stand for.
FactorsOfLayout(c, q, s) ==
    /\ vert_sample_factor(c) = q /\ horz_sample_factor(c) = q
    /\ max_vert_sample_factor = s * q /\ max_horz_sample_factor = s * q
    /\ HMax(frame) = s * q /\ VMax(frame) = s * q
    /\ H(frame, c) = q /\ V(frame, c) = q

\* They are those of the code and of the file.
LEMMA LayoutFacts ==
    ASSUME FrameInv, SizesInv, HasSizes, IsHandled(frame), NEW c \in Components,
           NEW b \in Nat, NEW kx \in Nat, NEW ky \in Nat, NEW q \in Nat, NEW s \in Nat, NEW w \in Nat,
           IsLayout(c, b, kx, ky, q, s, w)
    PROVE  SizesOfLayout(c, b, ky, q, s, w) /\ FactorsOfLayout(c, q, s)
<1>1. frame \in Frames /\ 0 \in Components
  BY DEF FrameInv, Components
<1>2. /\ b = BlockSize /\ kx = MCUColumns /\ ky = MCURows /\ q = Side(c)
      /\ s * q = Side(0) /\ w = kx * q /\ s > 0 /\ q > 0
  BY DEF IsLayout
<1>3. /\ vert_sample_factor(c) = q /\ horz_sample_factor(c) = q
      /\ max_vert_sample_factor = s * q /\ max_horz_sample_factor = s * q
      /\ HMax(frame) = s * q /\ VMax(frame) = s * q
      /\ H(frame, c) = q /\ V(frame, c) = q
      /\ horz_sample_factor(0) = s * q /\ vert_sample_factor(0) = s * q
      /\ BlocksInRow(c) = kx * (q * q)
  BY <1>1, <1>2, HandledFacts
<1>4. kx * (q * q) = q * (kx * q) /\ kx * (b * q) = b * (kx * q) /\ kx * (b * (s * q)) = s * (b * (kx * q))
  OBVIOUS
<1>5. X = kx * (b * (s * q)) /\ Y = ky * (b * (s * q)) /\ image_components[c].horz_samples = kx * (b * q)
  BY <1>1, <1>2, <1>3, KnownSizes
<1>6. pixels_in_scan = (kx * (b * (s * q))) * (b * (s * q))
  BY <1>1, <1>2, <1>3, PixelFacts
<1>7. rescale_factor(c) = s * s
  <2>1. rescale_factor(c) = ((s * q) * (s * q)) \div (q * q)
    BY <1>3 DEF rescale_factor
  <2>2. PICK p \in Nat, z \in Nat : p = q * q /\ p > 0 /\ z = s * s
    <3>1. q * q \in Nat /\ q * q > 0 /\ s * s \in Nat
      BY <1>2
    <3> QED
      BY <3>1
  <2>3. (s * q) * (s * q) = (s * s) * (q * q)
    OBVIOUS
  <2>4. (z * p) \div p = z
    BY <2>2, Multiple
  <2> QED
    BY <2>1, <2>2, <2>3, <2>4
<1> QED
  BY <1>2, <1>3, <1>4, <1>5, <1>6, <1>7 DEF SizesOfLayout, FactorsOfLayout

\* Where the samples of row r begin.
IsRowBegin(c, b, q, w, r) ==
    (r * pixels_in_scan) \div rescale_factor(c) = (r * (q * w)) * (b * b)

\* The rows of a component follow each other.
LEMMA RowBegins ==
    ASSUME FrameInv, SizesInv, HasSizes, IsHandled(frame), NEW c \in Components,
           NEW b \in Nat, NEW kx \in Nat, NEW ky \in Nat, NEW q \in Nat, NEW s \in Nat, NEW w \in Nat,
           IsLayout(c, b, kx, ky, q, s, w), NEW r \in Nat
    PROVE  IsRowBegin(c, b, q, w, r)
<1>1. pixels_in_scan = (s * (b * w)) * (b * (s * q)) /\ rescale_factor(c) = s * s
  <2>1. SizesOfLayout(c, b, ky, q, s, w)
    BY LayoutFacts
  <2> QED
    BY <2>1 DEF SizesOfLayout
<1>2. PICK p \in Nat : p = s * s /\ p > 0
  <2>1. s * s \in Nat /\ s * s > 0
    BY DEF IsLayout
  <2> QED
    BY <2>1
<1>3. PICK z \in Nat : z = (r * (q * w)) * (b * b)
  <2>1. r * (q * w) \in Nat /\ b * b \in Nat
    BY Products
  <2> QED
    BY <2>1, Products
<1>4. r * ((s * (b * w)) * (b * (s * q))) = ((r * (q * w)) * (b * b)) * (s * s)
  OBVIOUS
<1>5. (z * p) \div p = z
  BY <1>2, Multiple
<1> QED
  BY <1>1, <1>2, <1>3, <1>4, <1>5 DEF IsRowBegin

\* The line and the column of a sample, of those of the row.
IsRowIndex(c, b, s, w, i) ==
    LET y == (i \div X) \div s
        x == (i % X) \div s
    IN  conversion_indices(c, i)
            = (y \div b) * (b * w) * b + (x \div b) * (b * b) + (y % b) * b + (x % b)

\* The index of a sample, from its line and its column.
LEMMA RowIndex ==
    ASSUME FrameInv, SizesInv, HasSizes, IsHandled(frame), NEW c \in Components,
           NEW b \in Nat, NEW kx \in Nat, NEW ky \in Nat, NEW q \in Nat, NEW s \in Nat, NEW w \in Nat,
           IsLayout(c, b, kx, ky, q, s, w), NEW i \in Nat
    PROVE  IsRowIndex(c, b, s, w, i)
<1>1. /\ image_components[c].horz_samples = b * w
      /\ vert_sample_factor(c) = q /\ horz_sample_factor(c) = q
      /\ max_vert_sample_factor = s * q /\ max_horz_sample_factor = s * q
      /\ X \in Nat \ {0}
  <2>1. SizesOfLayout(c, b, ky, q, s, w) /\ FactorsOfLayout(c, q, s)
    BY LayoutFacts
  <2>2. X \in Nat \ {0}
    BY KnownSizes DEF FrameInv
  <2> QED
    BY <2>1, <2>2 DEF SizesOfLayout, FactorsOfLayout
<1>2. i \div X \in Nat /\ i % X \in Nat
  <2>1. X \in Nat /\ X > 0
    BY <1>1
  <2> QED
    BY <2>1, Division
<1>3. q > 0 /\ s > 0 /\ b = BlockSize
  BY DEF IsLayout
<1>4. ((i \div X) * q) \div (s * q) = (i \div X) \div s /\ ((i % X) * q) \div (s * q) = (i % X) \div s
  <2>1. PICK m \in Nat, n \in Nat : m = i \div X /\ n = i % X
    BY <1>2
  <2>2. (m * q) \div (s * q) = m \div s /\ (n * q) \div (s * q) = n \div s
    BY <1>3, Scaling
  <2> QED
    BY <2>1, <2>2
<1> QED
  BY <1>1, <1>3, <1>4 DEF conversion_indices, BlockArea, IsRowIndex

-----------------------------------------------------------------------------
(***************************************************************************)
(* The samples of a pixel                                                  *)
(***************************************************************************)

\* The sample the file has for column x0 of line l of row r.
IsSampleAt(c, b, q, s, r, l, x0) ==
    LET y == l \div s
        x == x0 \div s
    IN  SampleAt(frame, c, x0, r * (b * (s * q)) + l) =
            [block |-> [p \in Parts |-> Block(c, x \div b, r * q + y \div b)],
             at |-> <<x % b, y % b>>]

\* The file has each sample in its own block.
LEMMA SampleAtPixel ==
    ASSUME FrameInv, SizesInv, HasSizes, IsHandled(frame), NEW c \in Components,
           NEW b \in Nat, NEW kx \in Nat, NEW ky \in Nat, NEW q \in Nat, NEW s \in Nat, NEW w \in Nat,
           IsLayout(c, b, kx, ky, q, s, w),
           NEW r \in Nat, NEW l \in Nat, NEW x0 \in Nat
    PROVE  IsSampleAt(c, b, q, s, r, l, x0)
<1>1. /\ HMax(frame) = s * q /\ VMax(frame) = s * q
      /\ H(frame, c) = q /\ V(frame, c) = q
  <2>1. FactorsOfLayout(c, q, s)
    BY LayoutFacts
  <2> QED
    BY <2>1 DEF FactorsOfLayout
<1>2. q > 0 /\ s > 0 /\ b = BlockSize /\ b > 0
  BY DEF IsLayout
<1>3. (x0 * q) \div (s * q) = x0 \div s
  BY <1>2, Scaling
<1>4. PICK y \in Nat, e \in Nat : y = l \div s /\ l = y * s + e /\ e < s
  BY <1>2, Division
<1>5. PICK yd \in Nat, ym \in Nat : yd = y \div b /\ ym = y % b /\ y = yd * b + ym /\ ym < b
  BY <1>2, Division
<1>6. PICK z \in Nat : z = r * (b * (s * q)) + l
  <2>1. PICK n \in Nat : n = b * (s * q)
    BY Products
  <2>2. r * n \in Nat
    BY Products
  <2> QED
    BY <2>1, <2>2
<1>7. PICK d \in Nat : d = r * (b * q) + y
  <2>1. PICK n \in Nat : n = b * q
    BY Products
  <2>2. r * n \in Nat
    BY Products
  <2> QED
    BY <2>1, <2>2
<1>8. z \div s = d
  <2>1. z = d * s + e
    <3>1. r * (b * (s * q)) = (r * (b * q)) * s
      OBVIOUS
    <3>2. PICK u \in Nat : u = r * (b * q)
      <4>1. b * q \in Nat
        BY Products
      <4> QED
        BY <4>1, Products
    <3>3. (u + y) * s = u * s + y * s /\ u * s \in Nat /\ y * s \in Nat
      OBVIOUS
    <3> QED
      BY <1>4, <1>6, <1>7, <3>1, <3>2, <3>3
  <2> QED
    BY <1>2, <1>4, <2>1, DivisionUnique
<1>9. (z * q) \div (s * q) = d
  BY <1>2, <1>8, Scaling
<1>10. d \div b = r * q + yd /\ d % b = ym
  <2>1. PICK u \in Nat : u = r * q
    BY Products
  <2>2. d = (u + yd) * b + ym
    <3>1. r * (b * q) = (r * q) * b /\ (u + yd) * b = u * b + yd * b /\ u * b \in Nat /\ yd * b \in Nat
      OBVIOUS
    <3> QED
      BY <1>5, <1>7, <2>1, <3>1
  <2>3. ((u + yd) * b + ym) \div b = u + yd /\ ((u + yd) * b + ym) % b = ym
    <3>1. u + yd \in Nat
      OBVIOUS
    <3> QED
      BY <1>2, <1>5, <3>1, DivisionUnique
  <2> QED
    BY <2>1, <2>2, <2>3
<1>11. SampleAt(frame, c, x0, z) =
           [block |-> [p \in Parts |-> Block(c, (x0 \div s) \div b, r * q + yd)],
            at |-> <<(x0 \div s) % b, ym>>]
  BY <1>1, <1>2, <1>3, <1>9, <1>10 DEF SampleAt
<1> QED
  BY <1>4, <1>5, <1>6, <1>11 DEF IsSampleAt

\* Line and column of a row's pixel i are those of the picture's.
IsPixelOfRow(b, q, s, r, i) ==
    /\ i \div X \in Nat /\ i \div X < b * (s * q)
    /\ i % X \in Nat /\ i % X < X
    /\ (r * pixels_in_scan + i) \div X = r * (b * (s * q)) + i \div X
    /\ (r * pixels_in_scan + i) % X = i % X

\* The rows of MCUs are rows of whole lines of pixels.
LEMMA PixelOfRow ==
    ASSUME FrameInv, SizesInv, HasSizes, IsHandled(frame), NEW c \in Components,
           NEW b \in Nat, NEW kx \in Nat, NEW ky \in Nat, NEW q \in Nat, NEW s \in Nat, NEW w \in Nat,
           IsLayout(c, b, kx, ky, q, s, w),
           NEW r \in Nat, NEW i \in Nat, i < pixels_in_scan
    PROVE  IsPixelOfRow(b, q, s, r, i)
<1>1. PICK t \in Nat : t = b * (s * q)
  BY Products
<1>2. X \in Nat /\ X > 0
  BY KnownSizes DEF FrameInv
<1>3. pixels_in_scan = X * t
  <2>1. X = s * (b * w) /\ pixels_in_scan = (s * (b * w)) * (b * (s * q))
    <3>1. SizesOfLayout(c, b, ky, q, s, w)
      BY LayoutFacts
    <3> QED
      BY <3>1 DEF SizesOfLayout
  <2> QED
    BY <1>1, <2>1
<1>4. PICK l \in Nat, x0 \in Nat : l = i \div X /\ x0 = i % X /\ i = l * X + x0 /\ x0 < X
  BY <1>2, Division
<1>5. l < t
  <2>1. X * t = t * X /\ t * X \in Nat
    BY <1>2
  <2> QED
    BY <1>2, <1>3, <1>4, <2>1, QuotientBelow
<1>6. PICK u \in Nat : u = r * t
  BY Products
<1>7. r * pixels_in_scan + i = (u + l) * X + x0
  <2>1. r * (X * t) = (r * t) * X /\ (u + l) * X = u * X + l * X /\ u * X \in Nat /\ l * X \in Nat
    BY <1>2
  <2> QED
    BY <1>3, <1>4, <1>6, <2>1
<1>8. ((u + l) * X + x0) \div X = u + l /\ ((u + l) * X + x0) % X = x0
  <2>1. u + l \in Nat
    OBVIOUS
  <2> QED
    BY <1>2, <1>4, <2>1, DivisionUnique
<1> QED
  BY <1>1, <1>4, <1>5, <1>6, <1>7, <1>8 DEF IsPixelOfRow

\* The conversion finds the sample of pixel i of row r where it looks for it.
IsSampleRight(c, r, i) ==
    Sample(c, (r * pixels_in_scan) \div rescale_factor(c) + conversion_indices(c, i))
        = SampleAt(frame, c, (r * pixels_in_scan + i) % X, (r * pixels_in_scan + i) \div X)

\* It finds it there.
LEMMA SampleRight ==
    ASSUME FrameInv, SizesInv, HasSizes, SamplesInv, pc = "convert", channel = 3,
           IsHandled(frame), NEW c \in Components,
           NEW r \in Nat, r < MCURows, NEW i \in Nat, i < pixels_in_scan
    PROVE  IsSampleRight(c, r, i)
<1>1. PICK b \in Nat, kx \in Nat, ky \in Nat, q \in Nat, s \in Nat, w \in Nat :
          IsLayout(c, b, kx, ky, q, s, w)
  BY LayoutExists DEF FrameInv
<1>2. /\ b = BlockSize /\ b > 0 /\ kx = MCUColumns /\ ky = MCURows /\ q > 0 /\ s > 0 /\ w > 0
      /\ w = kx * q
  BY <1>1 DEF IsLayout
<1>3. PICK l \in Nat, x0 \in Nat :
          /\ l = i \div X /\ x0 = i % X /\ l < b * (s * q) /\ x0 < X
          /\ (r * pixels_in_scan + i) \div X = r * (b * (s * q)) + l
          /\ (r * pixels_in_scan + i) % X = x0
  <2>1. IsPixelOfRow(b, q, s, r, i)
    BY <1>1, PixelOfRow
  <2> QED
    BY <2>1 DEF IsPixelOfRow
<1>4. PICK y \in Nat, x \in Nat : y = l \div s /\ x = x0 \div s /\ y < b * q /\ x < b * w
  <2>1. b * (s * q) = (b * q) * s /\ X = (b * w) * s
    <3>1. X = s * (b * w)
      <4>1. SizesOfLayout(c, b, ky, q, s, w)
        BY <1>1, LayoutFacts
      <4> QED
        BY <4>1 DEF SizesOfLayout
    <3>2. b * (s * q) = (b * q) * s /\ s * (b * w) = (b * w) * s
      OBVIOUS
    <3> QED
      BY <3>1, <3>2
  <2>2. PICK m \in Nat, n \in Nat : m = b * q /\ n = b * w
    BY Products
  <2>3. l < m * s /\ x0 < n * s
    BY <1>3, <2>1, <2>2
  <2> QED
    BY <1>2, <2>2, <2>3, QuotientBelow
<1>5. PICK yd \in Nat, ym \in Nat, xd \in Nat, xm \in Nat :
          /\ yd = y \div b /\ ym = y % b /\ xd = x \div b /\ xm = x % b
          /\ ym < b /\ xm < b /\ yd < q /\ xd < w
  <2>1. b * q = q * b /\ b * w = w * b
    OBVIOUS
  <2>2. y \div b \in Nat /\ y % b \in Nat /\ x \div b \in Nat /\ x % b \in Nat /\ y % b < b /\ x % b < b
    BY <1>2, Division
  <2>3. y \div b < q /\ x \div b < w
    BY <1>2, <1>4, <2>1, QuotientBelow
  <2> QED
    BY <2>2, <2>3
<1>6. PICK m \in Nat, a \in Nat : /\ m = yd * w + xd /\ a = q * w /\ m < a
                                  /\ m % w = xd /\ m \div w = yd
  <2>1. yd * w + xd \in Nat /\ yd * w + xd < q * w /\ q * w \in Nat
    BY <1>5, RowMajor
  <2>2. (yd * w + xd) % w = xd /\ (yd * w + xd) \div w = yd
    BY <1>2, <1>5, DivisionUnique
  <2> QED
    BY <2>1, <2>2
<1>7. PICK n \in Nat : n = r * a + m /\ n < ky * a /\ n \div a = r /\ n % a = m
  <2>1. r * a + m \in Nat /\ r * a + m < ky * a
    BY <1>2, <1>6, RowMajor
  <2>2. (r * a + m) \div a = r /\ (r * a + m) % a = m
    BY <1>6, DivisionUnique
  <2> QED
    BY <2>1, <2>2
<1>8. (r * pixels_in_scan) \div rescale_factor(c) + conversion_indices(c, i) = n * (b * b) + ym * b + xm
  <2>1. (r * pixels_in_scan) \div rescale_factor(c) = (r * a) * (b * b)
    <3>1. IsRowBegin(c, b, q, w, r)
      BY <1>1, RowBegins
    <3> QED
      BY <1>6, <3>1 DEF IsRowBegin
  <2>2. conversion_indices(c, i) = yd * (b * w) * b + xd * (b * b) + ym * b + xm
    <3>1. IsRowIndex(c, b, s, w, i)
      BY <1>1, RowIndex
    <3> QED
      BY <1>3, <1>4, <1>5, <3>1 DEF IsRowIndex
  <2>3. yd * (b * w) * b = (yd * w) * (b * b)
    OBVIOUS
  <2>4. PICK p \in Nat, u \in Nat, v \in Nat, z \in Nat :
            p = b * b /\ u = r * a /\ v = yd * w /\ z = ym * b
    BY Products
  <2>5. n = u + v + xd
    BY <1>6, <1>7, <2>4
  <2>6. (u + v + xd) * p = u * p + v * p + xd * p /\ u * p \in Nat /\ v * p \in Nat /\ xd * p \in Nat
    OBVIOUS
  <2>7. u * p + (v * p + xd * p + z + xm) = (u * p + v * p + xd * p) + z + xm
    BY <2>6
  <2>8. (r * a) * (b * b) = u * p /\ yd * (b * w) * b = v * p /\ xd * (b * b) = xd * p
    BY <2>3, <2>4
  <2>9. conversion_indices(c, i) = v * p + xd * p + z + xm
    BY <2>2, <2>4, <2>8
  <2>10. n * p = u * p + v * p + xd * p
    BY <2>5, <2>6
  <2> QED
    BY <2>1, <2>4, <2>7, <2>8, <2>9, <2>10
<1>9. PICK k \in Nat : /\ k = n * (b * b) + ym * b + xm
                       /\ k \div (b * b) = n /\ k % b = xm /\ (k % (b * b)) \div b = ym
  <2>1. IsAtPlace(b, n, ym, xm)
    BY <1>2, <1>5, BlockAndPlace
  <2> QED
    BY <2>1 DEF IsAtPlace
<1>10. n \in DOMAIN out_block_downsampled[c]
       /\ out_block_downsampled[c][n] = [p \in Parts |-> Block(c, xd, r * q + yd)]
  <2>1. c < channel
    BY DEF Components
  <2>2. BlocksInRow(c) = a
    <3>1. SizesOfLayout(c, b, ky, q, s, w)
      BY <1>1, LayoutFacts
    <3> QED
      BY <1>6, <3>1 DEF SizesOfLayout
  <2>3. out_block_downsampled[c] =
            [j \in 0 .. ky * a - 1 |-> [p \in Parts |-> OwnBlock(c, j \div a, j % a)]]
    BY <1>2, <2>1, <2>2 DEF SamplesInv
  <2>4. PICK z \in Nat : z = ky * a
    BY Products
  <2>5. n \in 0 .. z - 1
    BY <1>7, <2>4
  <2>6. OwnBlock(c, r, m) = Block(c, xd, r * q + yd)
    <3>1. horz_sample_factor(c) = q /\ vert_sample_factor(c) = q
      <4>1. FactorsOfLayout(c, q, s)
        BY <1>1, LayoutFacts
      <4> QED
        BY <4>1 DEF FactorsOfLayout
    <3> QED
      BY <1>2, <1>6, <3>1 DEF OwnBlock
  <2> QED
    BY <1>7, <2>3, <2>4, <2>5, <2>6
<1>11. Sample(c, k) = [block |-> [p \in Parts |-> Block(c, xd, r * q + yd)], at |-> <<xm, ym>>]
  BY <1>2, <1>9, <1>10 DEF Sample, BlockArea
<1>12. SampleAt(frame, c, x0, r * (b * (s * q)) + l) =
           [block |-> [p \in Parts |-> Block(c, xd, r * q + yd)], at |-> <<xm, ym>>]
  <2>1. IsSampleAt(c, b, q, s, r, l, x0)
    BY <1>1, SampleAtPixel
  <2> QED
    BY <1>4, <1>5, <2>1 DEF IsSampleAt
<1> QED
  BY <1>3, <1>8, <1>9, <1>11, <1>12 DEF IsSampleRight

-----------------------------------------------------------------------------
(***************************************************************************)
(* The samples of a vector                                                 *)
(***************************************************************************)

\* A vector goes on by h samples, s pixels each, and that e times in a block.
IsStep(b, s, h, e) ==
    /\ VectorStep = s * h /\ b = h * e
    /\ h > 0 /\ e > 0 /\ h <= b
    /\ s * h = b \/ 2 * (s * h) = b

\* The vectors of component c, each with a sample for one or for two lanes.
IsVector(c, b, s, h, e) ==
    /\ IsStep(b, s, h, e) /\ Vector = b
    /\ s = 1 \/ s = 2
    /\ \A lane : LaneSample(c, lane) = IF s = 1 THEN lane ELSE lane \div 2

\* A frame with the usual factors has such vectors.
LEMMA VectorExists ==
    ASSUME FrameInv, HasVectors, IsHandled(frame), NEW c \in Components,
           NEW b \in Nat, NEW kx \in Nat, NEW ky \in Nat, NEW q \in Nat, NEW s \in Nat, NEW w \in Nat,
           IsLayout(c, b, kx, ky, q, s, w)
    PROVE  \E h, e \in Nat : IsVector(c, b, s, h, e)
<1>1. b = BlockSize /\ Vector = b /\ (b = 4 \/ b = 8)
  BY BlockSizeFacts DEF IsLayout, Vector
<1>2. s * q = Side(0) /\ q = Side(c)
  BY DEF IsLayout
<1>3. Side(0) = 2 /\ Side(c) = IF c = 0 THEN 2 ELSE 1
  <2>1. frame.factors[0] = <<2, 2>> /\ frame.factors[c] = IF c = 0 THEN <<2, 2>> ELSE <<1, 1>>
    BY DEF HasVectors, Components
  <2>2. <<2, 2>>[1] = 2 /\ <<1, 1>>[1] = 1
    OBVIOUS
  <2> QED
    BY <2>1, <2>2 DEF Side, H
<1>4. s = IF c = 0 THEN 1 ELSE 2
  <2>1. CASE c = 0
    <3>1. q = 2 /\ s * 2 = 2
      BY <1>2, <1>3, <2>1
    <3> QED
      BY <2>1, <3>1
  <2>2. CASE c # 0
    <3>1. q = 1 /\ s * 1 = 2
      BY <1>2, <1>3, <2>2
    <3> QED
      BY <2>2, <3>1
  <2> QED
    BY <2>1, <2>2
<1>5. \A lane : LaneSample(c, lane) = IF s = 1 THEN lane ELSE lane \div 2
  BY <1>4 DEF LaneSample
<1>6. VectorStep = b \/ (VectorStep \in Nat /\ 2 * VectorStep = b)
  BY <1>1, StepOfVectors DEF FrameInv
<1>7. \E h, e \in Nat : IsStep(b, s, h, e)
  <2>1. s = 1 \/ s = 2
    BY <1>4
  <2>2. CASE b = 4
    <3>1. VectorStep = 4 \/ VectorStep = 2
      BY <1>6, <2>2
    <3>2. \E h \in {1, 2, 4}, e \in {1, 2, 4} : IsStep(b, s, h, e)
      BY <2>1, <2>2, <3>1 DEF IsStep
    <3>3. 1 \in Nat /\ 2 \in Nat /\ 4 \in Nat
      OBVIOUS
    <3> QED
      BY <3>2, <3>3, Zenon
  <2>3. CASE b = 8
    <3>1. VectorStep = 8 \/ VectorStep = 4
      BY <1>6, <2>3
    <3>2. \E h \in {2, 4, 8}, e \in {1, 2, 4} : IsStep(b, s, h, e)
      BY <2>1, <2>3, <3>1 DEF IsStep
    <3>3. 1 \in Nat /\ 2 \in Nat /\ 4 \in Nat /\ 8 \in Nat
      OBVIOUS
    <3> QED
      BY <3>2, <3>3, Zenon
  <2> QED
    BY <1>1, <2>2, <2>3
<1>8. s = 1 \/ s = 2
  BY <1>4
<1> QED
  BY <1>1, <1>5, <1>7, <1>8 DEF IsVector

\* The sample of lane j, and of one a whole vector further.
IsLane(c, s, h, j) ==
    /\ LaneSample(c, j) = j \div s /\ j \div s \in Nat /\ j \div s < h
    /\ LaneSample(c, s * h + j) = h + j \div s

\* Lanes share samples as pixels do.
LEMMA LaneFacts ==
    ASSUME NEW c, NEW b \in Nat, NEW s \in Nat, NEW h \in Nat, NEW e \in Nat, IsVector(c, b, s, h, e),
           NEW j \in Nat, j < s * h
    PROVE  IsLane(c, s, h, j)
<1>1. /\ \A lane : LaneSample(c, lane) = IF s = 1 THEN lane ELSE lane \div 2
      /\ s = 1 \/ s = 2
  BY DEF IsVector
<1>2. CASE s = 1
  <2>1. j \div 1 = j /\ s * h = h
    BY <1>2
  <2> QED
    BY <1>1, <1>2, <2>1 DEF IsLane
<1>3. CASE s = 2
  <2>1. s * h = 2 * h
    BY <1>3
  <2>2. j \div 2 \in Nat /\ j \div 2 < h /\ (2 * h + j) \div 2 = h + j \div 2
    BY <2>1
  <2> QED
    BY <1>1, <1>3, <2>1, <2>2 DEF IsLane
<1> QED
  BY <1>1, <1>2, <1>3 DEF IsLane

\* Column u * h + j of a line is in block u \div e, j behind column u * h.
LEMMA ColumnInVector ==
    ASSUME NEW h \in Nat, NEW e \in Nat, h > 0, e > 0, NEW b \in Nat, b = h * e,
           NEW u \in Nat, NEW j \in Nat, j < h
    PROVE  /\ (u * h + j) \div b = u \div e
           /\ (u * h + j) % b = (u % e) * h + j
           /\ u * h + j \in Nat
<1>1. PICK d \in Nat, m \in Nat : d = u \div e /\ m = u % e /\ u = d * e + m /\ m < e
  BY Division
<1>2. PICK y \in Nat : y = m * h + j /\ y < e * h
  BY <1>1, RowMajor
<1>3. e * h = b /\ b > 0
  <2>1. h * e = e * h /\ h * e > 0
    OBVIOUS
  <2> QED
    BY <2>1
<1>4. u * h + j = d * b + y
  <2>1. (d * e + m) * h = d * (e * h) + m * h
    OBVIOUS
  <2>2. PICK z \in Nat, v \in Nat : z = d * (e * h) /\ v = m * h
    BY Products
  <2> QED
    BY <1>1, <1>2, <1>3, <2>1, <2>2
<1>5. (d * b + y) \div b = d /\ (d * b + y) % b = y
  BY <1>2, <1>3, DivisionUnique
<1>6. u * h + j \in Nat
  <2>1. u * h \in Nat
    BY Products
  <2> QED
    BY <2>1
<1> QED
  BY <1>1, <1>2, <1>4, <1>5, <1>6

\* A row's pixel i has the sample that its lane of the vector gives it.
LEMMA WithinVector ==
    ASSUME FrameInv, SizesInv, HasSizes, HasVectors, IsHandled(frame), NEW c \in Components,
           NEW i \in Nat, i < pixels_in_scan
    PROVE  RowSample(c, i) = conversion_indices(c, i)
<1>1. PICK b \in Nat, kx \in Nat, ky \in Nat, q \in Nat, s \in Nat, w \in Nat :
          IsLayout(c, b, kx, ky, q, s, w)
  BY LayoutExists DEF FrameInv
<1>2. PICK h \in Nat, e \in Nat : IsVector(c, b, s, h, e)
  BY <1>1, VectorExists
<1>3. b > 0 /\ h > 0 /\ e > 0 /\ s > 0 /\ b = h * e
  BY <1>1, <1>2 DEF IsLayout, IsVector, IsStep
<1>4. PICK v \in Nat : v = VectorStep /\ v = s * h /\ v > 0
  <2>1. s * h \in Nat /\ s * h > 0
    BY <1>3
  <2> QED
    BY <1>2, <2>1 DEF IsVector, IsStep
<1>5. PICK n \in Nat : X = n * v /\ X > 0
  <2>1. X = s * (b * w)
    <3>1. SizesOfLayout(c, b, ky, q, s, w)
      BY <1>1, LayoutFacts
    <3> QED
      BY <3>1 DEF SizesOfLayout
  <2>2. s * ((h * e) * w) = (e * w) * (s * h)
    OBVIOUS
  <2>3. PICK m \in Nat : m = e * w
    BY Products
  <2>4. X \in Nat /\ X > 0
    BY KnownSizes DEF FrameInv
  <2> QED
    BY <1>3, <1>4, <2>1, <2>2, <2>3, <2>4
<1>6. X \in Nat
  BY <1>5
<1>7. PICK l \in Nat, x0 \in Nat : l = i \div X /\ x0 = i % X /\ i = l * X + x0 /\ x0 < X
  BY <1>5, <1>6, Division
<1>8. PICK u \in Nat, j \in Nat : u = x0 \div v /\ x0 = u * v + j /\ j < v
  BY <1>4, Division
<1>9. PICK f \in Nat, g \in Nat : g = u * v /\ f = l * X + g /\ i = f + j /\ g < X
  <2>1. PICK g \in Nat : g = u * v
    BY Products
  <2>2. l * X \in Nat
    BY <1>6, Products
  <2>3. x0 = g + j /\ g < X
    BY <1>6, <1>7, <1>8, <2>1
  <2>4. i = (l * X + g) + j
    BY <1>7, <2>2, <2>3
  <2> QED
    BY <2>1, <2>2, <2>3, <2>4
<1>10. i % v = j
  <2>1. PICK z \in Nat : z = l * n + u
    <3>1. l * n \in Nat
      BY Products
    <3> QED
      BY <3>1
  <2>2. l * (n * v) + u * v = (l * n + u) * v
    OBVIOUS
  <2>3. i = z * v + j
    BY <1>5, <1>9, <2>1, <2>2
  <2>4. (z * v + j) % v = j
    BY <1>4, <1>8, DivisionUnique
  <2> QED
    BY <2>3, <2>4
<1>11. FirstOfVector(i) = f /\ i - FirstOfVector(i) = j
  <2>1. FirstOfVector(i) = i - (i % v)
    BY <1>4 DEF FirstOfVector
  <2> QED
    BY <1>9, <1>10, <2>1
<1>12. f \div X = l /\ f % X = g
  BY <1>5, <1>6, <1>9, DivisionUnique
<1>13. PICK k \in Nat : k = j \div s /\ k < h /\ LaneSample(c, j) = k
  <2>1. j < s * h
    BY <1>4, <1>8
  <2>2. IsLane(c, s, h, j)
    BY <1>2, <2>1, LaneFacts
  <2> QED
    BY <2>2 DEF IsLane
<1>14. g \div s = u * h + 0 /\ x0 \div s = u * h + k
  <2>1. PICK z \in Nat : z = u * h
    BY Products
  <2>2. g = z * s + 0
    <3>1. u * (s * h) = (u * h) * s
      OBVIOUS
    <3>2. z * s \in Nat
      BY Products
    <3> QED
      BY <1>4, <1>9, <2>1, <3>1, <3>2
  <2>3. PICK m \in Nat : j = k * s + m /\ m < s
    BY <1>3, <1>13, Division
  <2>4. x0 = (z + k) * s + m
    <3>1. (z + k) * s = z * s + k * s /\ z * s \in Nat /\ k * s \in Nat
      OBVIOUS
    <3> QED
      BY <1>8, <1>9, <2>2, <2>3, <3>1
  <2>5. (z * s + 0) \div s = z
    BY <1>3, DivisionUnique
  <2>6. ((z + k) * s + m) \div s = z + k
    <3>1. z + k \in Nat
      OBVIOUS
    <3> QED
      BY <1>3, <2>3, <3>1, DivisionUnique
  <2> QED
    BY <2>1, <2>2, <2>4, <2>5, <2>6
<1>15. PICK ud \in Nat, o \in Nat :
           /\ (g \div s) \div b = ud /\ (g \div s) % b = o
           /\ (x0 \div s) \div b = ud /\ (x0 \div s) % b = o + k
  <2>1. /\ (u * h + 0) \div b = u \div e /\ (u * h + 0) % b = (u % e) * h + 0
        /\ (u * h + k) \div b = u \div e /\ (u * h + k) % b = (u % e) * h + k
    <3>1. 0 < h /\ 0 \in Nat
      BY <1>3
    <3> QED
      BY <1>3, <1>13, <3>1, ColumnInVector
  <2>2. PICK ud \in Nat, m \in Nat : ud = u \div e /\ m = u % e
    BY <1>3, Division
  <2>3. PICK o \in Nat : o = m * h
    BY Products
  <2>4. o + 0 = o
    OBVIOUS
  <2> QED
    BY <1>14, <2>1, <2>2, <2>3, <2>4
<1>16. PICK y \in Nat : y = l \div s
  BY <1>3, Division
<1>17. PICK rest \in Nat : rest = (y \div b) * (b * w) * b + ud * (b * b) + (y % b) * b
  <2>1. PICK yd \in Nat, ym \in Nat : yd = y \div b /\ ym = y % b
    BY <1>3, Division
  <2>2. PICK p \in Nat : p = b * w
    BY Products
  <2>3. PICK z \in Nat : z = yd * p
    BY Products
  <2>4. z * b \in Nat /\ ud * (b * b) \in Nat /\ ym * b \in Nat
    BY Products
  <2>5. z * b + ud * (b * b) + ym * b \in Nat
    BY <2>4
  <2> QED
    BY <2>1, <2>2, <2>3, <2>5
<1>18. conversion_indices(c, f) = rest + o
  <2>1. IsRowIndex(c, b, s, w, f)
    BY <1>1, RowIndex
  <2> QED
    BY <1>12, <1>15, <1>16, <1>17, <2>1 DEF IsRowIndex
<1>19. conversion_indices(c, i) = rest + (o + k)
  <2>1. IsRowIndex(c, b, s, w, i)
    BY <1>1, RowIndex
  <2> QED
    BY <1>7, <1>15, <1>16, <1>17, <2>1 DEF IsRowIndex
<1> QED
  BY <1>11, <1>13, <1>18, <1>19 DEF RowSample

\* The first pixels of a row lie in its first block.
IsFirstPixel(c, s, j) == conversion_indices(c, j) = j \div s

\* The first pixels have the first samples.
LEMMA FirstPixels ==
    ASSUME FrameInv, SizesInv, HasSizes, HasVectors, IsHandled(frame), NEW c \in Components,
           NEW b \in Nat, NEW kx \in Nat, NEW ky \in Nat, NEW q \in Nat, NEW s \in Nat, NEW w \in Nat,
           IsLayout(c, b, kx, ky, q, s, w),
           NEW h \in Nat, NEW e \in Nat, IsVector(c, b, s, h, e),
           NEW j \in Nat, j < s * h, s * h <= X
    PROVE  IsFirstPixel(c, s, j)
<1>1. b > 0 /\ w > 0 /\ s > 0 /\ h <= b
  BY DEF IsLayout, IsVector, IsStep
<1>2. X \in Nat /\ X > 0 /\ j < X
  <2>1. X \in Nat /\ X > 0
    BY KnownSizes DEF FrameInv
  <2>2. PICK v \in Nat : v = s * h
    BY Products
  <2> QED
    BY <2>1, <2>2
<1>3. j \div X = 0 /\ j % X = j
  <2>1. (0 * X + j) \div X = 0 /\ (0 * X + j) % X = j
    BY <1>2, DivisionUnique
  <2>2. 0 * X + j = j
    BY <1>2
  <2> QED
    BY <2>1, <2>2
<1>4. PICK k \in Nat : k = j \div s /\ k < b
  <2>1. IsLane(c, s, h, j)
    BY LaneFacts
  <2> QED
    BY <1>1, <2>1 DEF IsLane
<1>5. k \div b = 0 /\ k % b = k /\ 0 \div s = 0 /\ 0 \div b = 0 /\ 0 % b = 0
  <2>1. \A m \in Nat, n \in Nat : m < n => (0 * n + m) \div n = 0 /\ (0 * n + m) % n = m
    BY DivisionUnique
  <2>2. \A m \in Nat, n \in Nat : 0 * n + m = m
    OBVIOUS
  <2>3. \A m \in Nat, n \in Nat : m < n => m \div n = 0 /\ m % n = m
    BY <2>1, <2>2
  <2>4. 0 < s /\ 0 < b /\ 0 \in Nat
    BY <1>1
  <2> HIDE <2>1, <2>2
  <2> QED
    BY <1>4, <2>3, <2>4
<1>6. conversion_indices(c, j) = 0 * (b * w) * b + 0 * (b * b) + 0 * b + k
  <2>1. IsRowIndex(c, b, s, w, j)
    BY RowIndex
  <2> QED
    BY <1>3, <1>4, <1>5, <2>1 DEF IsRowIndex
<1>7. 0 * (b * w) * b + 0 * (b * b) + 0 * b + k = k
  <2>1. PICK p \in Nat, z \in Nat : p = b * w /\ z = b * b
    BY Products
  <2>2. 0 * p = 0 /\ 0 * b = 0 /\ 0 * z = 0
    OBVIOUS
  <2> QED
    BY <2>1, <2>2
<1> QED
  BY <1>4, <1>6, <1>7 DEF IsFirstPixel

\* The last vector of a row ends with its last sample.
IsEndOfRow(c, b, q, s, w, h) ==
    /\ s * h \in Nat /\ s * h > 0 /\ s * h <= X /\ s * h <= pixels_in_scan
    /\ conversion_indices(c, pixels_in_scan - s * h) = (q * w) * (b * b) - h

\* No vector reaches into the next row before the last.
LEMMA LastVector ==
    ASSUME FrameInv, SizesInv, HasSizes, HasVectors, IsHandled(frame), NEW c \in Components,
           NEW b \in Nat, NEW kx \in Nat, NEW ky \in Nat, NEW q \in Nat, NEW s \in Nat, NEW w \in Nat,
           IsLayout(c, b, kx, ky, q, s, w),
           NEW h \in Nat, NEW e \in Nat, IsVector(c, b, s, h, e)
    PROVE  IsEndOfRow(c, b, q, s, w, h)
<1>1. b > 0 /\ w > 0 /\ q > 0 /\ s > 0 /\ h > 0 /\ e > 0 /\ h <= b /\ b = h * e
  BY DEF IsLayout, IsVector, IsStep
<1>2. X = s * (b * w) /\ pixels_in_scan = (s * (b * w)) * (b * (s * q))
  <2>1. SizesOfLayout(c, b, ky, q, s, w)
    BY LayoutFacts
  <2> QED
    BY <2>1 DEF SizesOfLayout
<1>3. PICK v \in Nat, y \in Nat, m \in Nat, t \in Nat :
          /\ v = s * h /\ v > 0
          /\ y = b * q /\ y > 0
          /\ m = b * w /\ m > 0 /\ h <= m
          /\ t = y * s /\ t > 0
  <2>1. \A i, j \in Nat : i > 0 /\ j > 0 => i * j \in Nat /\ i * j > 0
    OBVIOUS
  <2>2. s * h \in Nat /\ s * h > 0 /\ b * q \in Nat /\ b * q > 0 /\ b * w \in Nat /\ b * w > 0
    BY <1>1, <2>1
  <2>3. 1 * b <= w * b /\ w * b = b * w /\ 1 * b = b
    BY <1>1, ProductGrows
  <2>4. (b * q) * s \in Nat /\ (b * q) * s > 0
    BY <1>1, <2>1, <2>2
  <2> QED
    BY <1>1, <2>2, <2>3, <2>4
<1>4. PICK x1 \in Nat : x1 = m - h /\ X = m * s /\ v = h * s /\ x1 * s = X - v /\ X \in Nat /\ v <= X
  <2>1. m - h \in Nat /\ (m - h) + h = m
    BY <1>3
  <2>2. PICK x1 \in Nat : x1 = m - h /\ m = x1 + h
    BY <2>1
  <2>3. (x1 + h) * s = x1 * s + h * s /\ x1 * s \in Nat /\ h * s \in Nat /\ s * m = m * s /\ s * h = h * s
    OBVIOUS
  <2> QED
    BY <1>2, <1>3, <2>2, <2>3
<1>5. PICK p \in Nat : p = pixels_in_scan /\ p = t * X /\ p = (t - 1) * X + X /\ X > 0
  <2>1. (s * (b * w)) * (b * (s * q)) = ((b * q) * s) * (s * (b * w))
    OBVIOUS
  <2>2. PICK t1 \in Nat : t1 = t - 1 /\ t = t1 + 1
    BY <1>3
  <2>3. (t1 + 1) * X = t1 * X + X /\ (t1 + 1) * X \in Nat
    BY <1>4
  <2>4. X > 0
    BY <1>3, <1>4
  <2> QED
    BY <1>2, <1>3, <2>1, <2>2, <2>3, <2>4
<1>6. PICK t1 \in Nat, x0 \in Nat, f \in Nat :
          t1 = t - 1 /\ x0 = X - v /\ x0 < X /\ f = p - v /\ f = t1 * X + x0 /\ v <= p
  <2>1. PICK t1 \in Nat : t1 = t - 1
    BY <1>3
  <2>2. t1 * X \in Nat /\ p = t1 * X + X
    BY <1>4, <1>5, <2>1
  <2>3. X - v \in Nat /\ X - v < X /\ p - v \in Nat /\ v <= p
    BY <1>3, <1>4, <2>2
  <2>4. p - v = t1 * X + (X - v)
    BY <1>3, <1>4, <2>2
  <2> QED
    BY <2>1, <2>3, <2>4
<1>7. f \div X = t1 /\ f % X = x0
  BY <1>4, <1>5, <1>6, DivisionUnique
<1>8. PICK y1 \in Nat : y1 = y - 1 /\ t1 \div s = y1
  <2>1. PICK y1 \in Nat : y1 = y - 1 /\ y = y1 + 1
    BY <1>3
  <2>2. (y1 + 1) * s = y1 * s + s /\ y1 * s \in Nat
    OBVIOUS
  <2>3. PICK s1 \in Nat : s1 = s - 1 /\ s1 < s
    BY <1>1
  <2>4. t1 = y1 * s + s1
    BY <1>3, <1>6, <2>1, <2>2, <2>3
  <2>5. (y1 * s + s1) \div s = y1
    BY <1>1, <2>3, DivisionUnique
  <2> QED
    BY <2>1, <2>4, <2>5
<1>9. x0 \div s = x1
  <2>1. x1 * s + 0 = x0
    BY <1>4, <1>6
  <2>2. (x1 * s + 0) \div s = x1
    BY <1>1, DivisionUnique
  <2> QED
    BY <2>1, <2>2
<1>10. PICK q1 \in Nat, b1 \in Nat : q1 = q - 1 /\ b1 = b - 1 /\ y1 \div b = q1 /\ y1 % b = b1
  <2>1. PICK q1 \in Nat, b1 \in Nat : q1 = q - 1 /\ q = q1 + 1 /\ b1 = b - 1 /\ b1 < b
    BY <1>1
  <2>2. b * (q1 + 1) = q1 * b + b /\ q1 * b \in Nat
    OBVIOUS
  <2>3. y1 = q1 * b + b1
    BY <1>3, <1>8, <2>1, <2>2
  <2>4. (q1 * b + b1) \div b = q1 /\ (q1 * b + b1) % b = b1
    BY <1>1, <2>1, DivisionUnique
  <2> QED
    BY <2>1, <2>3, <2>4
<1>11. PICK w1 \in Nat, o \in Nat : w1 = w - 1 /\ o = b - h /\ x1 \div b = w1 /\ x1 % b = o
  <2>1. PICK w1 \in Nat, o \in Nat : w1 = w - 1 /\ w = w1 + 1 /\ o = b - h /\ o < b
    BY <1>1
  <2>2. b * (w1 + 1) = w1 * b + b /\ w1 * b \in Nat
    OBVIOUS
  <2>3. x1 = w1 * b + o
    BY <1>1, <1>3, <1>4, <2>1, <2>2
  <2>4. (w1 * b + o) \div b = w1 /\ (w1 * b + o) % b = o
    BY <1>1, <2>1, DivisionUnique
  <2> QED
    BY <2>1, <2>3, <2>4
<1>12. conversion_indices(c, f) = q1 * (b * w) * b + w1 * (b * b) + b1 * b + o
  <2>1. IsRowIndex(c, b, s, w, f)
    BY RowIndex
  <2> QED
    BY <1>7, <1>8, <1>9, <1>10, <1>11, <2>1 DEF IsRowIndex
<1>13. q1 * (b * w) * b + w1 * (b * b) + b1 * b + o = (q * w) * (b * b) - h
  <2>1. PICK z \in Nat, a \in Nat : z = b * b /\ a = q1 * w
    BY Products
  <2>2. q1 * (b * w) * b = a * z
    <3>1. q1 * (b * w) * b = (q1 * w) * (b * b)
      OBVIOUS
    <3> QED
      BY <2>1, <3>1
  <2>3. q * w = a + w1 + 1
    <3>1. (q1 + 1) * w = q1 * w + w /\ q1 * w \in Nat
      OBVIOUS
    <3>2. q = q1 + 1 /\ w = w1 + 1
      BY <1>1, <1>10, <1>11
    <3> QED
      BY <2>1, <3>1, <3>2
  <2>4. (a + w1 + 1) * z = a * z + w1 * z + z /\ a * z \in Nat /\ w1 * z \in Nat
    OBVIOUS
  <2>5. b1 * b + b = z /\ b1 * b \in Nat
    <3>1. (b1 + 1) * b = b1 * b + b /\ b1 * b \in Nat
      OBVIOUS
    <3>2. b1 + 1 = b
      BY <1>1, <1>10
    <3> QED
      BY <2>1, <3>1, <3>2
  <2>6. PICK az \in Nat, wz \in Nat, bb \in Nat : az = a * z /\ wz = w1 * z /\ bb = b1 * b
    BY <2>4, <2>5
  <2>7. (q * w) * (b * b) = az + wz + z
    BY <2>1, <2>3, <2>4, <2>6
  <2>8. az + wz + bb + o = (az + wz + z) - h
    BY <1>1, <1>11, <2>5, <2>6
  <2> QED
    BY <2>1, <2>2, <2>6, <2>7, <2>8
<1> QED
  BY <1>3, <1>4, <1>5, <1>6, <1>12, <1>13 DEF IsEndOfRow

-----------------------------------------------------------------------------
(***************************************************************************)
(* The pixels of a row                                                     *)
(***************************************************************************)

\* The rows of pixels are the picture.
LEMMA RowsOfPixels ==
    ASSUME FrameInv, SizesInv, HasSizes, IsHandled(frame)
    PROVE  X * Y = MCURows * pixels_in_scan /\ pixels_in_scan \in Nat /\ pixels_in_scan > 0
<1>1. 0 \in Components
  BY DEF Components
<1>2. PICK b \in Nat, kx \in Nat, ky \in Nat, q \in Nat, s \in Nat, w \in Nat :
          IsLayout(0, b, kx, ky, q, s, w)
  BY <1>1, LayoutExists DEF FrameInv
<1>3. /\ X = s * (b * w) /\ Y = ky * (b * (s * q))
      /\ pixels_in_scan = (s * (b * w)) * (b * (s * q))
  <2>1. SizesOfLayout(0, b, ky, q, s, w)
    BY <1>1, <1>2, LayoutFacts
  <2> QED
    BY <2>1 DEF SizesOfLayout
<1>4. (s * (b * w)) * (ky * (b * (s * q))) = ky * ((s * (b * w)) * (b * (s * q)))
  OBVIOUS
<1>5. ky = MCURows
  BY <1>2 DEF IsLayout
<1>6. pixels_in_scan \in Nat /\ pixels_in_scan > 0
  <2>1. PICK p \in Nat, b0 \in Nat : p = pixels_in_scan /\ b0 = BlockSize /\ b0 > 0 /\ b0 <= p
    BY PixelFacts, BlockSizeFacts
  <2> QED
    BY <2>1
<1> QED
  BY <1>3, <1>4, <1>5, <1>6

\* Behind the pixels of a row, the vector gives those of the next row their samples.
LEMMA NextRowSample ==
    ASSUME FrameInv, SizesInv, HasSizes, IsHandled(frame), NEW c \in Components,
           NEW r \in Nat, NEW j \in Nat, pixels_in_scan + j < PixelsWritten
    PROVE  /\ j < pixels_in_scan
           /\ (r * pixels_in_scan) \div rescale_factor(c) + RowSample(c, pixels_in_scan + j)
                  = ((r + 1) * pixels_in_scan) \div rescale_factor(c) + conversion_indices(c, j)
<1>1. PICK b \in Nat, kx \in Nat, ky \in Nat, q \in Nat, s \in Nat, w \in Nat :
          IsLayout(c, b, kx, ky, q, s, w)
  BY LayoutExists DEF FrameInv
<1>2. PICK p \in Nat : p = pixels_in_scan
  BY PixelFacts
<1>3. HasVectors
  BY <1>2 DEF PixelsWritten
<1>4. PICK h \in Nat, e \in Nat : IsVector(c, b, s, h, e)
  BY <1>1, <1>3, VectorExists
<1>5. IsEndOfRow(c, b, q, s, w, h)
  BY <1>1, <1>3, <1>4, LastVector
<1>6. PICK v \in Nat : v = s * h /\ v > 0 /\ v <= X /\ v <= p /\ VectorStep = v /\ Vector = b
                       /\ (v = b \/ 2 * v = b)
  BY <1>2, <1>4, <1>5 DEF IsEndOfRow, IsVector, IsStep
<1>7. j < v /\ j < p
  <2>1. p + j < p + (b - v)
    BY <1>2, <1>3, <1>6 DEF PixelsWritten
  <2> QED
    BY <1>6, <2>1
<1>8. FirstOfVector(p + j) = p - v /\ (p + j) - (p - v) = v + j
  BY <1>2, <1>6 DEF FirstOfVector
<1>9. PICK k \in Nat : k = j \div s /\ LaneSample(c, v + j) = h + k
  <2>1. j < s * h
    BY <1>6, <1>7
  <2>2. IsLane(c, s, h, j)
    BY <1>4, <2>1, LaneFacts
  <2> QED
    BY <1>6, <2>2 DEF IsLane
<1>10. PICK a \in Nat, z \in Nat : a = q * w /\ z = b * b
  BY Products
<1>11. conversion_indices(c, p - v) = a * z - h
  BY <1>2, <1>5, <1>6, <1>10 DEF IsEndOfRow
<1>12. RowSample(c, p + j) = (a * z - h) + (h + k)
  BY <1>3, <1>8, <1>9, <1>11 DEF RowSample
<1>13. conversion_indices(c, j) = k
  <2>1. j < s * h /\ s * h <= X
    BY <1>6, <1>7
  <2>2. IsFirstPixel(c, s, j)
    BY <1>1, <1>3, <1>4, <2>1, FirstPixels
  <2> QED
    BY <1>9, <2>2 DEF IsFirstPixel
<1>14. /\ (r * p) \div rescale_factor(c) = (r * a) * z
       /\ ((r + 1) * p) \div rescale_factor(c) = ((r + 1) * a) * z
  <2>1. r + 1 \in Nat
    OBVIOUS
  <2>2. IsRowBegin(c, b, q, w, r) /\ IsRowBegin(c, b, q, w, r + 1)
    BY <1>1, <2>1, RowBegins
  <2> QED
    BY <1>2, <1>10, <2>2 DEF IsRowBegin
<1>15. (r * a) * z + ((a * z - h) + (h + k)) = ((r + 1) * a) * z + k
  <2>1. (r + 1) * a = r * a + a /\ r * a \in Nat
    OBVIOUS
  <2>2. PICK u \in Nat : u = r * a
    BY <2>1
  <2>3. (u + a) * z = u * z + a * z /\ u * z \in Nat /\ a * z \in Nat
    OBVIOUS
  <2>4. PICK m \in Nat, n \in Nat : m = u * z /\ n = a * z
    BY <2>3
  <2>5. m + ((n - h) + (h + k)) = m + n + k
    OBVIOUS
  <2> QED
    BY <2>1, <2>2, <2>3, <2>4, <2>5
<1> QED
  BY <1>2, <1>7, <1>12, <1>13, <1>14, <1>15

\* The vectors write whole pixels.
LEMMA WrittenType ==
    ASSUME FrameInv, SizesInv, HasSizes
    PROVE  PixelsWritten \in Nat /\ pixels_in_scan \in Nat /\ pixels_in_scan <= PixelsWritten
<1>1. PICK p \in Nat : p = pixels_in_scan
  BY PixelFacts
<1>2. VectorStep \in Nat /\ VectorStep <= Vector /\ Vector \in Nat
  <2>1. PICK v \in Nat, b \in Nat : v = VectorStep /\ b = Vector /\ (v = b \/ 2 * v = b)
    BY StepOfVectors, BlockSizeFacts
  <2> QED
    BY <2>1
<1> QED
  BY <1>1, <1>2 DEF PixelsWritten

\* Each pixel a row of MCUs writes gets its own sample, also of the next row.
IsSampleOfPixel(c, r, i) ==
    Sample(c, (r * pixels_in_scan) \div rescale_factor(c) + RowSample(c, i))
        = SampleAt(frame, c, (r * pixels_in_scan + i) % X, (r * pixels_in_scan + i) \div X)

\* The pixels of the row have theirs from SampleRight, those behind it from the next row.
LEMMA SampleOfPixel ==
    ASSUME FrameInv, SizesInv, HasSizes, SamplesInv, pc = "convert", channel = 3,
           IsHandled(frame), NEW c \in Components,
           NEW r \in Nat, r < MCURows, NEW i \in 0 .. PixelsWritten - 1,
           r * pixels_in_scan + i < X * Y
    PROVE  IsSampleOfPixel(c, r, i)
<1>1. PICK p \in Nat, ky \in Nat : p = pixels_in_scan /\ p > 0 /\ ky = MCURows
  BY RowsOfPixels, MCUFacts DEF FrameInv
<1>2. PixelsWritten \in Nat
  BY WrittenType
<1>3. i \in Nat /\ i < PixelsWritten
  BY <1>2
<1>4. ASSUME i < p PROVE IsSampleOfPixel(c, r, i)
  <2>1. RowSample(c, i) = conversion_indices(c, i)
    <3>1. CASE HasVectors
      BY <1>1, <1>3, <1>4, <3>1, WithinVector
    <3>2. CASE ~HasVectors
      BY <3>2 DEF RowSample
    <3> QED
      BY <3>1, <3>2
  <2> QED
    <3>1. IsSampleRight(c, r, i)
      BY <1>1, <1>3, <1>4, SampleRight
    <3> QED
      BY <1>1, <2>1, <3>1 DEF IsSampleRight, IsSampleOfPixel
<1>5. ASSUME ~(i < p) PROVE IsSampleOfPixel(c, r, i)
  <2>1. PICK j \in Nat : i = p + j
    <3>1. i - p \in Nat /\ i = p + (i - p)
      BY <1>3, <1>5
    <3> QED
      BY <3>1
  <2>2. /\ j < p
        /\ (r * p) \div rescale_factor(c) + RowSample(c, i)
               = ((r + 1) * p) \div rescale_factor(c) + conversion_indices(c, j)
    BY <1>1, <1>3, <2>1, NextRowSample
  <2>3. (r + 1) * p + j = r * p + i /\ (r + 1) * p \in Nat
    <3>1. (r + 1) * p = r * p + p /\ r * p \in Nat
      OBVIOUS
    <3> QED
      BY <2>1, <3>1
  <2>4. r + 1 < ky
    <3>1. (r + 1) * p < ky * p
      <4>1. X * Y = ky * p
        BY <1>1, RowsOfPixels
      <4>2. PICK m \in Nat, n \in Nat : m = (r + 1) * p /\ n = ky * p
        BY <2>3, Products
      <4>3. m + j < n
        BY <1>1, <2>3, <4>1, <4>2
      <4> QED
        BY <4>2, <4>3
    <3>2. r + 1 >= ky => ky * p <= (r + 1) * p /\ ky * p \in Nat
      BY ProductGrows
    <3> QED
      BY <2>3, <3>1, <3>2
  <2>5. Sample(c, ((r + 1) * p) \div rescale_factor(c) + conversion_indices(c, j))
            = SampleAt(frame, c, ((r + 1) * p + j) % X, ((r + 1) * p + j) \div X)
    <3>1. r + 1 \in Nat /\ j \in Nat /\ j < pixels_in_scan /\ r + 1 < MCURows
      BY <1>1, <2>2, <2>4
    <3>2. IsSampleRight(c, r + 1, j)
      BY <3>1, SampleRight
    <3> QED
      BY <1>1, <3>2 DEF IsSampleRight
  <2> QED
    BY <1>1, <2>2, <2>3, <2>5 DEF IsSampleOfPixel
<1> QED
  BY <1>4, <1>5

\* What ConvertRow gives pixel i of row r.
RowPixel(r, i) ==
    Pixel(Sample(0, (r * pixels_in_scan) \div rescale_factor(0) + RowSample(0, i)),
          Sample(1, (r * pixels_in_scan) \div rescale_factor(1) + RowSample(1, i)),
          Sample(2, (r * pixels_in_scan) \div rescale_factor(2) + RowSample(2, i)))

\* It is what the pixel is to be made of.
LEMMA RowPixelRight ==
    ASSUME FrameInv, SizesInv, HasSizes, SamplesInv, pc = "convert", channel = 3,
           IsHandled(frame),
           NEW r \in Nat, r < MCURows, NEW i \in 0 .. PixelsWritten - 1,
           r * pixels_in_scan + i < X * Y
    PROVE  RowPixel(r, i) = Own(r * pixels_in_scan + i)
<1>1. 0 \in Components /\ 1 \in Components /\ 2 \in Components
  BY DEF Components
<1>2. \A c \in Components : IsSampleOfPixel(c, r, i)
  BY SampleOfPixel
<1> QED
  BY <1>1, <1>2 DEF IsSampleOfPixel, RowPixel, Own

\* The pixels before and after a row is converted.
LEMMA ConvertedRow ==
    ASSUME ControlInv, NEW t \in DOMAIN converter, ConvertRow(t)
    PROVE  /\ DOMAIN image_data.data = 0 .. X * Y - 1
           /\ \A k \in 0 .. X * Y - 1 :
                  image_data'.data[k] =
                      IF k - converter[t] * pixels_in_scan \in 0 .. PixelsWritten - 1
                      THEN RowPixel(converter[t], k - converter[t] * pixels_in_scan)
                      ELSE image_data.data[k]
<1> DEFINE r == converter[t]
           d == [k \in DOMAIN image_data.data |->
                    IF k - r * pixels_in_scan \in 0 .. PixelsWritten - 1
                    THEN RowPixel(r, k - r * pixels_in_scan) ELSE image_data.data[k]]
           e == [k \in 0 .. X * Y - 1 |-> image_data.data[k]]
           h == RoundUp(frame.Y, BlockSize)
           w == RoundUp(frame.X, BlockSize)
<1>1. image_data' = [image_data EXCEPT !.data = d]
  BY DEF ConvertRow, RowPixel
<1>2. image_data = [data |-> e, height |-> h, width |-> w]
  BY DEF ControlInv, ImageInv, ConvertRow
<1>3. DOMAIN e = 0 .. X * Y - 1
  OBVIOUS
<1>4. \A k \in DOMAIN image_data.data :
          d[k] = IF k - r * pixels_in_scan \in 0 .. PixelsWritten - 1
                 THEN RowPixel(r, k - r * pixels_in_scan) ELSE image_data.data[k]
  OBVIOUS
<1> HIDE DEF d, e, h, w
<1>5. \A a, m, n, b : [[data |-> a, height |-> m, width |-> n] EXCEPT !.data = b].data = b
  OBVIOUS
<1>6. image_data.data = e /\ image_data'.data = d
  BY <1>1, <1>2, <1>5
<1> QED
  BY <1>3, <1>4, <1>6

\* In a handled frame these are the row's own pixels.
LEMMA ConvertedRight ==
    ASSUME ControlInv, SamplesInv, IsHandled(frame), NEW t \in DOMAIN converter, ConvertRow(t)
    PROVE  /\ DOMAIN image_data.data = 0 .. X * Y - 1
           /\ \A k \in 0 .. X * Y - 1 :
                  image_data'.data[k] =
                      IF k - converter[t] * pixels_in_scan \in 0 .. PixelsWritten - 1
                      THEN Own(k) ELSE image_data.data[k]
<1>1. pc = "convert" /\ HasSizes /\ FrameInv /\ SizesInv /\ channel = 3
  BY DEF ConvertRow, HasSizes, ControlInv, ConverterInv
<1>2. PICK r \in Nat : r = converter[t] /\ r < MCURows
  <2>1. t \in 0 .. build.threads - 1 /\ converter[t] \in SliceStart(t) .. SliceEnd(t)
        /\ converter[t] < SliceEnd(t)
    BY <1>1 DEF ControlInv, ConverterInv, ConvertRow
  <2>2. SliceStart(t) \in Nat /\ SliceEnd(t) \in Nat /\ SliceEnd(t) <= MCURows
    BY <1>1, <2>1, SliceFacts
  <2>3. MCURows \in Nat
    BY <1>1, MCUFacts DEF FrameInv
  <2> QED
    BY <2>1, <2>2, <2>3
<1>3. X * Y \in Nat /\ pixels_in_scan \in Nat
  BY <1>1, KnownSizes, PixelFacts DEF FrameInv
<1>4. ASSUME NEW k \in 0 .. X * Y - 1, k - r * pixels_in_scan \in 0 .. PixelsWritten - 1
      PROVE  RowPixel(r, k - r * pixels_in_scan) = Own(k)
  <2>1. PICK m \in Nat, n \in Nat : m = r * pixels_in_scan /\ n = X * Y
    BY <1>3, Products
  <2>2. PICK i \in 0 .. PixelsWritten - 1 : i = k - m
    BY <1>4, <2>1
  <2>3. i \in Int /\ k \in Int
    <3>1. PixelsWritten \in Nat
      BY <1>1, WrittenType
    <3> QED
      BY <2>1, <2>2, <3>1
  <2>4. m + i = k /\ m + i < n
    BY <2>1, <2>2, <2>3
  <2>5. RowPixel(r, i) = Own(r * pixels_in_scan + i)
    BY <1>1, <1>2, <2>1, <2>4, RowPixelRight
  <2> QED
    BY <2>1, <2>2, <2>4, <2>5
<1> QED
  BY <1>2, <1>4, ConvertedRow

\* What a pixel is to be made of does not change.
LEMMA OwnStays ==
    ASSUME [Next]_vars, pc # "header"
    PROVE  \A k : Own(k)' = Own(k)
<1>1. frame' = frame /\ X' = X
  BY Kept
<1> QED
  BY <1>1 DEF Own

-----------------------------------------------------------------------------
(***************************************************************************)
(* The conversion                                                          *)
(***************************************************************************)

\* A row of pixels is written from its first to its last.
LEMMA WithinRow ==
    ASSUME FrameInv, SizesInv, HasSizes, NEW k \in Nat, NEW r \in Nat, k \div pixels_in_scan = r
    PROVE  k - r * pixels_in_scan \in 0 .. PixelsWritten - 1
<1>1. PICK p \in Nat, n \in Nat : p = pixels_in_scan /\ n = PixelsWritten /\ p <= n /\ p > 0
  <2>1. PICK b \in Nat : b = BlockSize /\ b > 0
    BY BlockSizeFacts
  <2> QED
    BY <2>1, WrittenType, PixelFacts
<1>2. PICK e \in Nat : k = r * p + e /\ e < p
  BY <1>1, Division
<1>3. PICK m \in Nat : m = r * p
  BY Products
<1> QED
  BY <1>1, <1>2, <1>3

\* Each row that is behind has its own pixels, whichever thread converted it.
LEMMA ConvertRowPixels ==
    ASSUME ControlInv, SamplesInv, PixelsInv, NEW t \in DOMAIN converter, ConvertRow(t)
    PROVE  PixelsInv'
<1>0. /\ [Next]_vars /\ pc = "convert" /\ HasSizes /\ FrameInv /\ SizesInv
      /\ converter' = [converter EXCEPT ![t] = @ + 1]
  BY DEF Next, ConvertRow, HasSizes, ControlInv
<1>1. /\ frame' = frame /\ build' = build /\ X' = X /\ Y' = Y
      /\ pixels_in_scan' = pixels_in_scan
      /\ \A u : SliceStart(u)' = SliceStart(u)
  BY <1>0, Kept, SlicesKept
<1>2. SUFFICES ASSUME IsHandled(frame), NEW u \in 0 .. build.threads - 1,
                      NEW k \in 0 .. X * Y - 1,
                      k \div pixels_in_scan \in SliceStart(u) .. converter'[u] - 1
               PROVE  image_data'.data[k] = Own(k)'
  <2>1. IsHandled(frame)' = IsHandled(frame)
    BY <1>1
  <2> QED
    BY <1>1, <2>1 DEF PixelsInv
<1>3. Own(k)' = Own(k)
  BY <1>0, OwnStays
<1>4. image_data'.data[k] =
          IF k - converter[t] * pixels_in_scan \in 0 .. PixelsWritten - 1
          THEN Own(k) ELSE image_data.data[k]
  BY <1>2, ConvertedRight
<1>5. CASE k - converter[t] * pixels_in_scan \in 0 .. PixelsWritten - 1
  BY <1>3, <1>4, <1>5
<1>6. CASE ~(k - converter[t] * pixels_in_scan \in 0 .. PixelsWritten - 1)
  <2>1. /\ converter = [v \in 0 .. build.threads - 1 |-> converter[v]]
        /\ converter[u] \in SliceStart(u) .. SliceEnd(u)
    BY <1>0 DEF ControlInv, ConverterInv
  <2>2. SliceStart(u) \in Nat /\ SliceEnd(u) \in Nat
    BY <1>0, SliceFacts
  <2>3. k \in Nat /\ k \div pixels_in_scan \in Nat
    <3>1. X * Y \in Nat
      BY <1>0, KnownSizes DEF FrameInv
    <3>2. k \in Nat
      BY <3>1
    <3>3. PICK p \in Nat : p = pixels_in_scan /\ p > 0
      <4>1. PICK b \in Nat : b = BlockSize /\ b > 0
        BY BlockSizeFacts
      <4> QED
        BY <1>0, <4>1, PixelFacts
    <3> QED
      BY <3>2, <3>3, Division
  <2>4. k \div pixels_in_scan # converter[t]
    BY <1>0, <1>6, <2>3, WithinRow
  <2>5. k \div pixels_in_scan \in SliceStart(u) .. converter[u] - 1
    <3>1. converter'[u] = IF u = t THEN converter[t] + 1 ELSE converter[u]
      BY <1>0, <2>1
    <3> QED
      BY <1>2, <2>1, <2>2, <2>3, <2>4, <3>1
  <2>6. image_data.data[k] = Own(k)
    BY <1>0, <1>2, <2>5 DEF PixelsInv
  <2> QED
    BY <1>3, <1>4, <1>6, <2>6
<1> QED
  BY <1>5, <1>6

\* Of the other steps only StartConversion leads to the conversion.
LEMMA NextPixels ==
    ASSUME ControlInv, SamplesInv, PixelsInv, [Next]_vars
    PROVE  PixelsInv'
<1>1. CASE UNCHANGED vars
  BY <1>1 DEF vars, sizes, PixelsInv, SliceStart, num_scans_per_thread, pixels_in_scan,
     vert_sample_factor, Own
<1>2. CASE StartConversion
  <2>1. SUFFICES ASSUME NEW u \in 0 .. build'.threads - 1, pc' = "convert",
                        NEW r, r \in SliceStart(u)' .. converter'[u] - 1
                 PROVE  FALSE
    BY DEF PixelsInv
  <2>2. pc = "process" /\ converter' = [t \in 0 .. build.threads - 1 |-> SliceStart(t)]
        /\ [Next]_vars
    BY <1>2 DEF StartConversion
  <2>3. build' = build /\ SliceStart(u)' = SliceStart(u)
    BY <2>2, Kept, SlicesKept
  <2>4. SliceStart(u) \in Nat
    BY <2>2, <2>3, SliceFacts DEF ControlInv, HasSizes
  <2> QED
    BY <2>1, <2>2, <2>3, <2>4
<1>3. CASE RefusePrecision \/ ParseSOF \/ DecodeRow \/ EndScan \/ ProcessChannel \/ CorrectImageSize
  <2>1. pc' # "convert"
    BY <1>3 DEF RefusePrecision, ParseSOF, DecodeRow, EndScan, ProcessChannel, CorrectImageSize
  <2> QED
    BY <2>1 DEF PixelsInv
<1>4. CASE Ended
  BY <1>1, <1>4 DEF Ended
<1> QED
  BY <1>1, <1>2, <1>3, <1>4, ConvertRowPixels DEF Next

\* Behind the conversion every pixel is its own.
LEMMA AllPixels ==
    ASSUME ControlInv, PixelsInv, IsHandled(frame), pc = "convert",
           \A t \in DOMAIN converter : converter[t] >= SliceEnd(t),
           NEW k \in 0 .. X * Y - 1
    PROVE  image_data.data[k] = Own(k)
<1>0. FrameInv /\ SizesInv /\ HasSizes
  BY DEF ControlInv, HasSizes
<1>1. PICK p \in Nat, n \in Nat : p = pixels_in_scan /\ p > 0 /\ n = MCURows /\ X * Y = n * p
  BY <1>0, RowsOfPixels, MCUFacts DEF FrameInv
<1>2. k \in Nat /\ k < n * p
  <2>1. n * p \in Nat
    BY Products
  <2> QED
    BY <1>1, <2>1
<1>3. PICK r \in 0 .. n - 1 : r = k \div p
  <2>1. k \div p \in Nat /\ k \div p < n
    BY <1>1, <1>2, QuotientBelow
  <2> QED
    BY <2>1
<1>4. PICK t \in 0 .. build.threads - 1 : r \in SliceStart(t) .. SliceEnd(t) - 1
  BY <1>0, <1>1, SlicesCover
<1>5. r \in SliceStart(t) .. converter[t] - 1
  <2>1. t \in DOMAIN converter /\ converter[t] \in SliceStart(t) .. SliceEnd(t)
    BY DEF ControlInv, ConverterInv
  <2>2. SliceStart(t) \in Nat /\ SliceEnd(t) \in Nat
    BY <1>0, SliceFacts
  <2> QED
    BY <1>4, <2>1, <2>2
<1> QED
  BY <1>1, <1>3, <1>5 DEF PixelsInv

-----------------------------------------------------------------------------
(***************************************************************************)
(* The picture                                                             *)
(***************************************************************************)

\* The place of a pixel among those of the picture.
LEMMA Place ==
    ASSUME NEW w \in Nat, NEW h \in Nat, NEW x \in Nat, NEW y \in Nat, x < w, y < h
    PROVE  /\ y * w + x \in 0 .. w * h - 1
           /\ (y * w + x) \div w = y /\ (y * w + x) % w = x
<1>1. (y * w + x) \div w = y /\ (y * w + x) % w = x
  BY DivisionUnique
<1>2. (y + 1) * w <= h * w /\ h * w \in Nat
  BY ProductGrows
<1>3. (y + 1) * w = y * w + w /\ h * w = w * h /\ y * w \in Nat
  OBVIOUS
<1>4. PICK m \in Nat, n \in Nat : m = y * w /\ n = w * h
  BY <1>3, Products
<1>5. m + w <= n
  BY <1>2, <1>3, <1>4
<1> QED
  BY <1>1, <1>4, <1>5

\* The picture is not larger than its whole MCUs.
LEMMA PictureWithin ==
    ASSUME FrameInv, SizesInv, HasSizes
    PROVE  /\ frame.X \in Nat /\ frame.Y \in Nat /\ X \in Nat /\ Y \in Nat
           /\ frame.X > 0 /\ frame.X <= X /\ frame.Y <= Y
BY KnownSizes, MCUFacts, FramesAssumption DEF FrameInv

\* Whole MCUs are whole blocks.
LEMMA WholeBlocks ==
    ASSUME FrameInv, SizesInv, HasSizes
    PROVE  RoundUp(X, BlockSize) = X /\ RoundUp(Y, BlockSize) = Y
<1>1. PICK b \in Nat : b = BlockSize /\ b > 0
  BY BlockSizeFacts
<1>2. \A m \in Nat : RoundUp(m * b, b) = m * b
  <2>1. SUFFICES ASSUME NEW m \in Nat PROVE Ceil(m * b, b) = m
    BY DEF RoundUp
  <2>2. b - 1 \in Nat /\ b - 1 < b
    BY <1>1
  <2>3. (m * b + (b - 1)) \div b = m
    BY <1>1, <2>2, DivisionUnique
  <2>4. m * b + (b - 1) = m * b + b - 1
    OBVIOUS
  <2> QED
    BY <2>3, <2>4 DEF Ceil
<1>3. PICK kx \in Nat, ky \in Nat, h \in Nat, v \in Nat :
          /\ kx = MCUColumns /\ ky = MCURows
          /\ h = max_horz_sample_factor /\ v = max_vert_sample_factor
          /\ X = kx * (b * h) /\ Y = ky * (b * v)
  <2>1. max_horz_sample_factor \in Nat /\ max_vert_sample_factor \in Nat
    BY FactorFacts, CodeFactors DEF FrameInv
  <2> QED
    BY <1>1, <2>1, KnownSizes, MCUFacts DEF FrameInv
<1>4. kx * (b * h) = (kx * h) * b /\ ky * (b * v) = (ky * v) * b /\ kx * h \in Nat /\ ky * v \in Nat
  OBVIOUS
<1>5. PICK m \in Nat, n \in Nat : X = m * b /\ Y = n * b
  BY <1>3, <1>4
<1> QED
  BY <1>1, <1>2, <1>5

\* When the conversion has ended, the padded picture is right.
LEMMA PaddedPicture ==
    ASSUME ControlInv, PixelsInv, IsHandled(frame), pc = "convert",
           \A t \in DOMAIN converter : converter[t] >= SliceEnd(t),
           NEW x \in Nat, x < X, NEW y \in Nat, y < Y
    PROVE  image_data.data[y * X + x].G
               = <<SampleAt(frame, 0, x, y), SampleAt(frame, 2, x, y), SampleAt(frame, 1, x, y)>>
<1>1. X \in Nat /\ Y \in Nat
  BY PictureWithin DEF ControlInv, HasSizes
<1>2. PICK k \in 0 .. X * Y - 1 : k = y * X + x /\ k % X = x /\ k \div X = y
  BY <1>1, Place
<1>3. image_data.data[k] = Own(k)
  BY AllPixels
<1> QED
  BY <1>2, <1>3 DEF Own, Pixel

\* And so is the one it is cut down to.
LEMMA CorrectPicture ==
    ASSUME ControlInv, PixelsInv, CorrectImageSize
    PROVE  PictureRight'
<1>1. /\ pc = "convert" /\ FrameInv /\ SizesInv /\ HasSizes /\ frame' = frame
      /\ \A t \in DOMAIN converter : converter[t] >= SliceEnd(t)
  BY DEF CorrectImageSize, ControlInv, HasSizes
<1>2. SUFFICES ASSUME IsHandled(frame)
               PROVE  /\ image_data'.height = frame.Y /\ image_data'.width = frame.X
                      /\ \A x \in 0 .. frame.X - 1, y \in 0 .. frame.Y - 1 :
                             image_data'.data[y * frame.X + x].G
                                 = <<SampleAt(frame, 0, x, y), SampleAt(frame, 2, x, y),
                                     SampleAt(frame, 1, x, y)>>
  BY <1>1 DEF PictureRight
<1>3. /\ frame.X \in Nat /\ frame.Y \in Nat /\ X \in Nat /\ Y \in Nat
      /\ frame.X > 0 /\ frame.X <= X /\ frame.Y <= Y
  BY <1>1, PictureWithin
<1>4. ASSUME NEW x \in 0 .. frame.X - 1, NEW y \in 0 .. frame.Y - 1
      PROVE  image_data.data[y * X + x].G
                 = <<SampleAt(frame, 0, x, y), SampleAt(frame, 2, x, y), SampleAt(frame, 1, x, y)>>
  <2>1. x \in Nat /\ y \in Nat /\ x < X /\ y < Y
    BY <1>3
  <2> QED
    BY <1>1, <1>2, <2>1, PaddedPicture
<1>5. CASE X = frame.X /\ Y = frame.Y
  <2>1. image_data' = image_data
    BY <1>5 DEF CorrectImageSize
  <2>2. image_data.height = frame.Y /\ image_data.width = frame.X
    BY <1>1, <1>5, WholeBlocks DEF ControlInv, ImageInv
  <2> QED
    BY <1>4, <1>5, <2>1, <2>2
<1>6. CASE ~(X = frame.X /\ Y = frame.Y)
  <2>1. image_data' =
            [data |-> [k \in 0 .. frame.X * frame.Y - 1 |->
                          image_data.data[(k \div frame.X) * X + (k % frame.X)]],
             height |-> frame.Y, width |-> frame.X]
    BY <1>6 DEF CorrectImageSize
  <2>2. ASSUME NEW x \in 0 .. frame.X - 1, NEW y \in 0 .. frame.Y - 1
        PROVE  image_data'.data[y * frame.X + x] = image_data.data[y * X + x]
    <3>1. x \in Nat /\ y \in Nat /\ x < frame.X /\ y < frame.Y
      BY <1>3
    <3>2. PICK w \in Nat, h \in Nat : w = frame.X /\ h = frame.Y
      BY <1>3
    <3>3. y * w + x \in 0 .. w * h - 1 /\ (y * w + x) \div w = y /\ (y * w + x) % w = x
      <4>1. x < w /\ y < h
        BY <3>1, <3>2
      <4> QED
        BY <3>1, <4>1, Place
    <3>4. \E k \in 0 .. w * h - 1 : k = y * w + x /\ k \div w = y /\ k % w = x
      BY <3>3, Zenon
    <3>5. PICK k \in 0 .. w * h - 1 : k = y * w + x /\ k \div w = y /\ k % w = x
      BY <3>4
    <3> QED
      BY <2>1, <3>2, <3>5
  <2> QED
    BY <1>4, <2>1, <2>2
<1> QED
  BY <1>5, <1>6

\* No other step ends with a picture.
LEMMA NextPicture ==
    ASSUME ControlInv, PixelsInv, PictureRight, [Next]_vars
    PROVE  PictureRight'
<1>1. CASE UNCHANGED vars
  BY <1>1 DEF vars, PictureRight
<1>2. CASE RefusePrecision \/ ParseSOF \/ DecodeRow \/ EndScan \/ ProcessChannel
           \/ StartConversion \/ \E t \in DOMAIN converter : ConvertRow(t)
  <2>1. pc' # "done"
    BY <1>2 DEF RefusePrecision, ParseSOF, DecodeRow, EndScan, ProcessChannel,
       StartConversion, ConvertRow
  <2> QED
    BY <2>1 DEF PictureRight
<1>3. CASE Ended
  BY <1>1, <1>3 DEF Ended
<1> QED
  BY <1>1, <1>2, <1>3, CorrectPicture DEF Next

-----------------------------------------------------------------------------
(***************************************************************************)
(* Theorems                                                                *)
(***************************************************************************)

\* A picture starts with nothing read, and every step keeps the invariant.
LEMMA InitInv == Init => IInv
<1> SUFFICES ASSUME Init PROVE IInv
  OBVIOUS
<1>1. ControlInv
  BY InitControl
<1> QED
  BY <1>1 DEF Init, IInv, StartInv, MemoryInv, SamplesInv, PixelsInv, NotAstray, PictureRight

\* Every step keeps it.
LEMMA NextInv == IInv /\ [Next]_vars => IInv'
BY NextControl, NextMemory, NextPixels, NextPicture DEF IInv

\* The inductive invariant holds in every reachable state.
THEOREM Invariance == Spec => []IInv
BY InitInv, NextInv, PTL DEF Spec

\* Every variable that changes has its type, after whatever frame header and scans.
THEOREM TypeCorrect == Spec => []TypeOK
<1>1. IInv => TypeOK
  BY TypesOfControl DEF IInv
<1> QED
  BY <1>1, Invariance, PTL

\* The conversion reads and writes within its buffers and what these are larger by
\* (jpeg.cpp, JpegParser_convert_colorspace and the vector code it calls).
THEOREM StaysWithin == Spec => []StaysInMemory
<1>1. IInv => StaysInMemory
  BY MemoryStays DEF IInv
<1> QED
  BY <1>1, Invariance, PTL

\* Every pixel of a handled frame's picture is made of the samples the file has for
\* it, and the picture has the file's size.
THEOREM PictureCorrect == Spec => []PictureRight
<1>1. IInv => PictureRight
  BY DEF IInv
<1> QED
  BY <1>1, Invariance, PTL

\* The scans of a handled frame end where their data does.
THEOREM ScansEnd == Spec => []NotAstray
<1>1. IInv => NotAstray
  BY DEF IInv
<1> QED
  BY <1>1, Invariance, PTL

\* A step of the conversion leaves every pixel that is already its own.
LEMMA StepKeepsPixels ==
    ASSUME IInv, Next, pc = "convert", pc' = "convert", IsHandled(frame),
           NEW k \in DOMAIN image_data.data, image_data.data[k] = Own(k)
    PROVE  image_data'.data[k] = Own(k)
<1>1. PICK t \in DOMAIN converter : ConvertRow(t)
  BY DEF Next, RefusePrecision, ParseSOF, DecodeRow, EndScan, ProcessChannel,
     StartConversion, CorrectImageSize, Ended
<1>2. ControlInv /\ SamplesInv
  BY DEF IInv
<1>3. /\ DOMAIN image_data.data = 0 .. X * Y - 1
      /\ image_data'.data[k] =
             IF k - converter[t] * pixels_in_scan \in 0 .. PixelsWritten - 1
             THEN Own(k) ELSE image_data.data[k]
  BY <1>1, <1>2, ConvertedRight
<1> QED
  BY <1>3

\* A pixel that has its own samples keeps them, whichever thread's vectors reach into
\* its row.
THEOREM PixelsKept == Spec => PixelsStay
<1>1. IInv /\ [Next]_vars =>
          [pc = "convert" /\ pc' = "convert" /\ IsHandled(frame) =>
              \A k \in DOMAIN image_data.data :
                  LET own == Pixel(SampleAt(frame, 0, k % X, k \div X),
                                   SampleAt(frame, 1, k % X, k \div X),
                                   SampleAt(frame, 2, k % X, k \div X))
                  IN  image_data.data[k] = own => image_data'.data[k] = own]_vars
  BY StepKeepsPixels DEF Own
<1> QED
  BY <1>1, Invariance, PTL DEF Spec, PixelsStay
=============================================================================
