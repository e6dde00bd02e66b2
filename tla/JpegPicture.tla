---------------------------- MODULE JpegPicture ----------------------------
(***************************************************************************)
(* From the blocks of a JPEG file to pixels: the sizes parse_sof computes, *)
(* where the scans put the blocks, where process_channel puts the samples, *)
(* how the colour conversion finds those of a pixel, and the final crop    *)
(* (src/image/jpeg.cpp, src/image/jpeg/).  Samples keep only where they    *)
(* come from.  A frame that is not of 8 bits or not YCbCr is refused; what *)
(* runs at the same time as what is in JpegParallel.                       *)
(***************************************************************************)
EXTENDS JpegFrame

CONSTANTS
    NumThreads,     \* JPEG_DECODE_NUM_THREADS of the parallel build
    None            \* memory that was not written to

ASSUME NumThreadsAssumption == NumThreads \in Nat \ {0}

VARIABLES
    build,              \* which vector code and how many threads it has
    frame,              \* the file
    pc,
    X, Y,               \* the padded size
    image_components,   \* the sizes of each
    scan,               \* number of the scan, and
    mcu_row,            \* the row of it, that is decoded next
    consumed,           \* blocks of the scan read already
    scan_memory,        \* the block in each place of a component's rows
    channel,
    out_block_downsampled,
    converter,          \* next row of each colour conversion thread
    image_data          \* data, height and width

sizes == <<X, Y, image_components>>
position == <<scan, mcu_row, consumed>>
vars == <<build, frame, pc, sizes, position, scan_memory, channel,
          out_block_downsampled, converter, image_data>>

RoundUp(n, d) == Ceil(n, d) * d

-----------------------------------------------------------------------------
(***************************************************************************)
(* The frame header                                                        *)
(***************************************************************************)

vert_sample_factor(c) == frame.factors[c][1]
horz_sample_factor(c) == frame.factors[c][2]
max_vert_sample_factor == Largest({vert_sample_factor(c) : c \in Components})
max_horz_sample_factor == Largest({horz_sample_factor(c) : c \in Components})

\* Mutant: the height is not rounded up to whole MCUs.
vert_samples_of_blocks(c, height) ==
    (RoundUp(height, BlockSize) * vert_sample_factor(c)) \div max_vert_sample_factor

\* Samples of component c along the height or the width, of the size so far.
vert_samples(c, height) ==
    (RoundUp(height, BlockSize * max_vert_sample_factor) * vert_sample_factor(c))
        \div max_vert_sample_factor
horz_samples(c, width) ==
    (RoundUp(width, BlockSize * max_horz_sample_factor) * horz_sample_factor(c))
        \div max_horz_sample_factor

\* The size when components 0 to c - 1 have their samples.
Grown[c \in 0 .. 3] ==
    IF c = 0 THEN [X |-> RoundUp(frame.X, BlockSize), Y |-> RoundUp(frame.Y, BlockSize)]
    ELSE [X |-> Largest({Grown[c - 1].X, horz_samples(c - 1, Grown[c - 1].X)}),
          Y |-> Largest({Grown[c - 1].Y, vert_samples(c - 1, Grown[c - 1].Y)})]

ImageComponent(c) ==
    LET vert == vert_samples(c, Grown[c].Y)
        horz == horz_samples(c, Grown[c].X)
    IN  [vert_samples |-> vert, horz_samples |-> horz,
         num_scans |-> (vert \div vert_sample_factor(c)) \div BlockSize,
         num_blocks_in_scan |-> (horz * vert_sample_factor(c) * BlockSize)
                                \div (BlockSize * BlockSize)]

Init ==
    /\ build \in [vectors : {"x64", "arm64"}, threads : {1, NumThreads}]
    /\ frame \in Frames
    /\ pc = "header"
    /\ X = 0 /\ Y = 0
    /\ image_components = <<>>
    /\ scan = 1 /\ mcu_row = 0 /\ consumed = 0
    /\ scan_memory = <<>>
    /\ channel = 0
    /\ out_block_downsampled = <<>>
    /\ converter = <<>>
    /\ image_data = [data |-> <<>>, height |-> 0, width |-> 0]

RefusePrecision ==
    /\ pc = "header" /\ frame.precision # 8
    /\ pc' = "exited"
    /\ UNCHANGED <<build, frame, sizes, position, scan_memory, channel,
                   out_block_downsampled, converter, image_data>>

ParseSOF ==
    /\ pc = "header" /\ frame.precision = 8
    /\ X' = Grown[3].X /\ Y' = Grown[3].Y
    /\ image_components' = [c \in Components |-> ImageComponent(c)]
    /\ scan_memory' =
           [c \in Components |-> [p \in Parts |->
               [r \in 0 .. image_components'[c].num_scans - 1 |->
                   [k \in 0 .. image_components'[c].num_blocks_in_scan - 1 |-> None]]]]
    /\ out_block_downsampled' = [c \in Components |-> <<>>]
    /\ image_data' = [data |-> [k \in 0 .. X' * Y' - 1 |-> None],
                      height |-> Grown[0].Y, width |-> Grown[0].X]
    /\ pc' = "rows"
    /\ UNCHANGED <<build, frame, position, channel, converter>>

-----------------------------------------------------------------------------
(***************************************************************************)
(* Scans                                                                   *)
(***************************************************************************)

mcu_cols == (image_components[0].horz_samples \div horz_sample_factor(0)) \div BlockSize
mcu_rows == (image_components[0].vert_samples \div vert_sample_factor(0)) \div BlockSize
num_horz_blocks(c) == image_components[c].horz_samples \div BlockSize

comps == Scans(frame)[scan].comps
is_interleaved == Len(comps) # 1

\* Mutant: in a scan of one component the lines of an MCU are as far apart as
\* in a scan of all.
component_block_id_interleaved(c, mcu_col, vert_sid, horz_sid) ==
    mcu_col * horz_sample_factor(c) + horz_sid + vert_sid * num_horz_blocks(c)

\* Where a block goes in its row of scan_memory.
component_block_id(c, mcu_col, vert_sid, horz_sid) ==
    IF is_interleaved
    THEN mcu_col * horz_sample_factor(c) + horz_sid + vert_sid * num_horz_blocks(c)
    ELSE mcu_col * horz_sample_factor(c) * vert_sample_factor(c)
         + horz_sid + vert_sid * horz_sample_factor(c)

BlocksPerMCU(c) == vert_sample_factor(c) * horz_sample_factor(c)

\* Blocks of an MCU that come before those of the n-th component of the scan.
Before[n \in 1 .. 4] == IF n = 1 THEN 0 ELSE Before[n - 1] + BlocksPerMCU(comps[n - 1])
BlocksOfAll == Before[Len(comps) + 1]

\* Of a row the places filled with blocks of the n-th component, each with the
\* number of that block in the scan.
Fills(n) ==
    LET c == comps[n]
    IN  {<<component_block_id(c, mcu_col, vert_sid, horz_sid),
           consumed + mcu_col * BlocksOfAll + Before[n]
               + vert_sid * horz_sample_factor(c) + horz_sid + 1>> :
            mcu_col \in 0 .. mcu_cols - 1,
            vert_sid \in 0 .. vert_sample_factor(c) - 1,
            horz_sid \in 0 .. horz_sample_factor(c) - 1}

\* Behind the last block nothing is left to decode.
Sent(number) ==
    LET stream == Stream(frame, Scans(frame)[scan])
    IN  IF number \in DOMAIN stream THEN stream[number] ELSE None

Filled(row, fills) ==
    [k \in DOMAIN row |->
        LET own == {fill \in fills : fill[1] = k}
        IN  IF own = {} THEN row[k] ELSE Sent((CHOOSE fill \in own : TRUE)[2])]

\* A row of MCUs.
DecodeRow ==
    /\ pc = "rows" /\ mcu_row < mcu_rows
    /\ scan_memory' =
           [c \in Components |-> [p \in Parts |->
               IF p \in Scans(frame)[scan].parts /\ \E n \in DOMAIN comps : comps[n] = c
               THEN [scan_memory[c][p] EXCEPT ![mcu_row] =
                        Filled(@, Fills(CHOOSE n \in DOMAIN comps : comps[n] = c))]
               ELSE scan_memory[c][p]]]
    /\ consumed' = consumed + mcu_cols * BlocksOfAll
    /\ mcu_row' = mcu_row + 1
    /\ UNCHANGED <<build, frame, pc, sizes, scan, channel, out_block_downsampled,
                   converter, image_data>>

\* If the scan does not end where its data does, the next segment is not found.
EndScan ==
    /\ pc = "rows" /\ mcu_row = mcu_rows
    /\ pc' = IF consumed # Len(Stream(frame, Scans(frame)[scan])) THEN "astray"
             ELSE IF scan < Len(Scans(frame)) THEN "rows" ELSE "process"
    /\ IF pc' = "rows"
       THEN scan' = scan + 1 /\ mcu_row' = 0 /\ consumed' = 0
       ELSE UNCHANGED position
    /\ UNCHANGED <<build, frame, sizes, scan_memory, channel, out_block_downsampled,
                   converter, image_data>>

-----------------------------------------------------------------------------
(***************************************************************************)
(* Samples                                                                 *)
(***************************************************************************)

BlockArea == BlockSize * BlockSize

\* The samples of the blocks of a row follow those of the row before.  What they
\* are made of is kept once for each block.
ProcessChannel ==
    /\ pc = "process" /\ channel < 3
    /\ LET blocks == image_components[channel].num_blocks_in_scan
       IN  out_block_downsampled' =
               [out_block_downsampled EXCEPT ![channel] =
                   [k \in 0 .. image_components[channel].num_scans * blocks - 1 |->
                       [p \in Parts |-> scan_memory[channel][p][k \div blocks][k % blocks]]]]
    /\ channel' = channel + 1
    /\ UNCHANGED <<build, frame, pc, sizes, position, scan_memory, converter, image_data>>

num_scans_per_thread == image_components[0].num_scans \div build.threads

\* Mutant: every slice is rounded up.
SliceEndRoundedUp(t) == (t + 1) * Ceil(image_components[0].num_scans, build.threads)

SliceStart(t) == t * num_scans_per_thread
SliceEnd(t) ==
    IF t = build.threads - 1 THEN image_components[0].num_scans
    ELSE (t + 1) * num_scans_per_thread

StartConversion ==
    /\ pc = "process" /\ channel = 3
    /\ pc' = IF frame.ids = IDsOfYCbCr THEN "convert" ELSE "exited"
    /\ converter' = [t \in 0 .. build.threads - 1 |-> SliceStart(t)]
    /\ UNCHANGED <<build, frame, sizes, position, scan_memory, channel,
                   out_block_downsampled, image_data>>

-----------------------------------------------------------------------------
(***************************************************************************)
(* Pixels                                                                  *)
(***************************************************************************)

\* Where the sample of pixel i of a row of MCUs is among those of component c.
conversion_indices(c, i) ==
    LET y == ((i \div X) * vert_sample_factor(c)) \div max_vert_sample_factor
        x == ((i % X) * horz_sample_factor(c)) \div max_horz_sample_factor
    IN  (y \div BlockSize) * image_components[c].horz_samples * BlockSize
        + (x \div BlockSize) * BlockArea
        + (y % BlockSize) * BlockSize
        + (x % BlockSize)

Sample(c, k) ==
    IF k \div BlockArea \in DOMAIN out_block_downsampled[c]
    THEN [block |-> out_block_downsampled[c][k \div BlockArea],
          at |-> <<k % BlockSize, (k % BlockArea) \div BlockSize>>]
    ELSE None

pixels_in_scan == image_components[0].horz_samples * BlockSize * vert_sample_factor(0)

\* Mutant: the factors along the height are left out.
rescale_factor_across(c) == max_horz_sample_factor \div horz_sample_factor(c)

rescale_factor(c) ==
    (max_horz_sample_factor * max_vert_sample_factor)
        \div (horz_sample_factor(c) * vert_sample_factor(c))

\* The usual factors have code of their own, for a vector of pixels at a time.
\* The one of ARM goes on by half a vector.
HasVectors == \A c \in Components : frame.factors[c] = IF c = 0 THEN <<2, 2>> ELSE <<1, 1>>
Vector == BlockSize
VectorStep == IF build.vectors = "x64" THEN Vector ELSE Vector \div 2

\* Mutant: lanes beyond the block take its last sample again.
LaneSampleClamped(c, lane) ==
    LET sample == IF c = 0 THEN lane ELSE lane \div 2
        room == IF c = 0 THEN VectorStep ELSE VectorStep \div 2
    IN  IF sample < room THEN sample ELSE room - 1

\* Which sample, from the first one of a vector, is that of a lane.
LaneSample(c, lane) == IF c = 0 THEN lane ELSE lane \div 2

\* The pixels a row of MCUs writes, the vector beyond its end included, and
\* the samples it gives pixel i: those written last stay.
PixelsWritten == pixels_in_scan + IF HasVectors THEN Vector - VectorStep ELSE 0
FirstOfVector(i) ==
    IF i < pixels_in_scan THEN i - (i % VectorStep) ELSE pixels_in_scan - VectorStep
RowSample(c, i) ==
    IF HasVectors
    THEN conversion_indices(c, FirstOfVector(i)) + LaneSample(c, i - FirstOfVector(i))
    ELSE conversion_indices(c, i)

\* The last sample of component c that is read for pixel i, and the room behind
\* the samples and the pixels.
LastRead(c, i) ==
    IF HasVectors THEN conversion_indices(c, FirstOfVector(i)) + Vector - 1
    ELSE conversion_indices(c, i)
Overallocated == [samples |-> 2 * Vector, pixels |-> 8 * Vector]

\* What each channel is computed from.
Pixel(y, cr, cb) == [R |-> <<y, cr>>, G |-> <<y, cb, cr>>, B |-> <<y, cb>>]

ConvertRow(t) ==
    /\ pc = "convert" /\ converter[t] < SliceEnd(t)
    /\ LET scan_offset == converter[t] * pixels_in_scan
           SampleOf(c, i) == Sample(c, scan_offset \div rescale_factor(c) + RowSample(c, i))
           PixelOf(i) == Pixel(SampleOf(0, i), SampleOf(1, i), SampleOf(2, i))
       IN  image_data' = [image_data EXCEPT !.data =
               [k \in DOMAIN @ |-> IF k - scan_offset \in 0 .. PixelsWritten - 1
                                   THEN PixelOf(k - scan_offset) ELSE @[k]]]
    /\ converter' = [converter EXCEPT ![t] = @ + 1]
    /\ UNCHANGED <<build, frame, pc, sizes, position, scan_memory, channel,
                   out_block_downsampled>>

\* correct_image_size, when the conversion has ended.
CorrectImageSize ==
    /\ pc = "convert"
    /\ \A t \in DOMAIN converter : converter[t] >= SliceEnd(t)
    /\ image_data' =
           IF X = frame.X /\ Y = frame.Y THEN image_data
           ELSE [data |-> [k \in 0 .. frame.X * frame.Y - 1 |->
                              image_data.data[(k \div frame.X) * X + (k % frame.X)]],
                 height |-> frame.Y, width |-> frame.X]
    /\ pc' = "done"
    /\ UNCHANGED <<build, frame, sizes, position, scan_memory, channel,
                   out_block_downsampled, converter>>

Ended == pc \in {"done", "exited", "astray"} /\ UNCHANGED vars

Next ==
    \/ RefusePrecision \/ ParseSOF
    \/ DecodeRow \/ EndScan
    \/ ProcessChannel \/ StartConversion
    \/ \E t \in DOMAIN converter : ConvertRow(t)
    \/ CorrectImageSize
    \/ Ended

Spec == Init /\ [][Next]_vars

\* Every thread goes on, and has only so many rows to do.
FairSpec == Spec /\ WF_vars(Next)

-----------------------------------------------------------------------------
(***************************************************************************)
(* Properties                                                              *)
(***************************************************************************)

\* Frames the decoder gets right: it takes the factors across for those down,
\* takes the first component to be the largest, divides by how much smaller the
\* others are, and decodes the padding a scan of one component does not hold.
IsHandled(f) ==
    /\ \A c \in Components :
           /\ H(f, c) = V(f, c)
           /\ H(f, c) <= H(f, 0)
           /\ H(f, 0) % H(f, c) = 0
    /\ f.progressive => NeedsNoPadding(f)

\* Every variable that changes has its type.
TypeOK ==
    /\ pc \in {"header", "rows", "process", "convert", "done", "exited", "astray"}
    /\ scan \in DOMAIN Scans(frame) /\ consumed \in Nat
    /\ channel \in 0 .. 3
    /\ image_data.height \in Nat /\ image_data.width \in Nat
    /\ pc \notin {"header", "exited"} =>
           /\ X \in Nat \ {0} /\ Y \in Nat \ {0}
           /\ image_components \in [Components ->
                  [vert_samples : Nat, horz_samples : Nat,
                   num_scans : Nat, num_blocks_in_scan : Nat]]
           /\ mcu_row \in 0 .. mcu_rows
           /\ \A t \in DOMAIN converter : converter[t] \in 0 .. image_components[0].num_scans

\* Every pixel of a handled frame's picture is made of the samples the file has
\* for it, from whatever places in whichever scans they came, and the picture
\* has the size of the file's.
PictureRight ==
    pc = "done" /\ IsHandled(frame) =>
        /\ image_data.height = frame.Y /\ image_data.width = frame.X
        /\ \A x \in 0 .. frame.X - 1, y \in 0 .. frame.Y - 1 :
               image_data.data[y * frame.X + x].G
                   = <<SampleAt(frame, 0, x, y), SampleAt(frame, 2, x, y), SampleAt(frame, 1, x, y)>>

\* A pixel that has its own samples keeps them, although the vectors of ARM reach
\* into the pixels of the next row, which another thread may have finished.
PixelsStay ==
    [][pc = "convert" /\ pc' = "convert" /\ IsHandled(frame) =>
        \A k \in DOMAIN image_data.data :
            LET own == Pixel(SampleAt(frame, 0, k % X, k \div X),
                             SampleAt(frame, 1, k % X, k \div X),
                             SampleAt(frame, 2, k % X, k \div X))
            IN  image_data.data[k] = own => image_data'.data[k] = own]_vars

\* Can the division of rescale_factor be made without a rest?
HasWholeScale(f) ==
    \A c \in Components : (HMax(f) * VMax(f)) % (H(f, c) * V(f, c)) = 0

\* The conversion reads and writes within its buffers and the vector they are
\* larger by, also for frames it does not get right.
StaysInMemory ==
    pc = "convert" /\ HasWholeScale(frame) =>
        \A t \in DOMAIN converter : converter[t] < SliceEnd(t) =>
            LET scan_offset == converter[t] * pixels_in_scan
            IN  /\ scan_offset + PixelsWritten <= X * Y + Overallocated.pixels
                /\ \A c \in Components, i \in 0 .. PixelsWritten - 1 :
                       scan_offset \div rescale_factor(c) + LastRead(c, i)
                           < image_components[c].vert_samples * image_components[c].horz_samples
                             + Overallocated.samples

\* A handled frame's picture is shown in the end: its scans end where their data
\* does.
PictureShown ==
    IsHandled(frame) /\ frame.precision = 8 /\ frame.ids = IDsOfYCbCr ~> pc = "done"

\* The data is RGB, as its format says: of the components 1, 2 and 3, which are
\* Y, Cb and Cr, the third makes the red.
ColoursAsLabelled ==
    pc = "done" /\ IsHandled(frame) =>
        \A x \in 0 .. frame.X - 1, y \in 0 .. frame.Y - 1 :
            image_data.data[y * frame.X + x].R
                = <<SampleAt(frame, 0, x, y), SampleAt(frame, 2, x, y)>>

=============================================================================
