# Verification of c-rt

TLA+ models of c-rt, an image viewer with its own JPEG and PNG decoders, with
TLC runs on small instances and TLAPS proofs. `PROJECT.json` lists the runs,
the mutants (plausible bugs each property is known to catch), which lines of
the source each definition models, the hazards, the disagreements found, and
the theorems.

    tlc -config jpeg_threads.cfg MCJpegParallel.tla
    tlapm JpegParallelProofs.tla

Paths below are relative to `src/`.

## The system

| Component | State | Operations |
|---|---|---|
| Segment parser (`src/image/jpeg.cpp`, `JpegParser`) | position in the file, tables | one parser per segment: SOF0/SOF2, DHT, DQT, SOS, COM, EOI; others skipped |
| Frame geometry (`parse_sof`, `parse_sos`, `process_channel`, `correct_image_size`) | padded size, samples and blocks of each component | compute the sizes, find a block's place in a row, put samples in order, crop |
| Scans and threads (`parse_sos`, `ProcessIncomingScans_pthread`, `parse_file`, `convert_colorspace`) | `scan_memory`, `channel_completeness`, atomic `num_scans_parsed`, worker handles, `out_block_downsampled` | decode a row of MCUs, publish it; worker: poll, dequantise and transform rows; join; convert slices of rows |
| Block decoder (`namespace ProcessBlock`, `ScanComponent`) | 64 coefficients a block, `eob_run`, DC predictor | first and refining scans of DC and AC coefficients |
| Entropy decoding (`include/app/bitstream.hpp`, `huffman.hpp`) | 64-bit look-ahead buffer, lookup table | fill (dropping stuffed zeros), read, look up a code |
| Colour conversion (`src/image/jpeg/*.cpp`) | pixels | find the samples of a pixel, one MCU row at a time, a pixel or a vector of them at once |
| PNG decoder (`src/image/png.cpp`) | the collected IDAT data, code lengths and alphabets, output buffer, line and byte | chunks, inflate blocks with copies, undo the filters, exchange red and blue |
| Viewer (`src/app.cpp`, `src/app_mesh.cpp`) | swapchain, view data and its GPU copy, textures, staging buffer | main loop: events, resize, draw, present |
| Front ends (`src/main/*`) | window, event queue | translate events of XCB or AppKit |

They meet in a few places. `App_run` calls the decoders for each file argument
and uploads the pixels with the first frame. `JpegParser` shares `scan_memory`,
the quantisation tables and the counters with its worker threads without locks;
only `num_scans_parsed` is atomic. The window system changes the window and
queues events while the main loop runs.

### What is hard here, and what makes it correct

* **Pipelining.** In the parallel build a worker reconstructs rows while the
  main thread still decodes the scan. The worker is started when a sum over
  coefficient indices reaches 2080. Correct means: no row is read while it is
  written (`NoRowRace`), none is reconstructed before its last change
  (`NoStaleRow`), or with a table replaced before its channel's last scan
  (`NoStaleTable`), slices of the conversion threads are disjoint and cover the
  picture (`NoPixelRace`, `PictureComplete`), every join returns (`DecodeEnds`), and both builds are the
  same decoder (`StepsAsDecode` for the steps, `ImplementsDecode` with fairness).
  Files that split their first scan or end early may crash the decoder, but only
  these (`CrashExplained`).
* **Progressive decoding.** End-of-band runs cross blocks, and refinement scans
  mix symbols, sign bits and correction bits. One bit too many and the rest of
  the scan is noise. Correct means: decoder and encoder agree on what comes next
  (`InSync`), every coefficient has the precision sent so far
  (`Approximation`), and, even for damaged data, no scan touches other bands
  (`KeepsOtherBands`) or memory outside the block (`TypeOK`).
* **Finding a sample.** A sample passes through four layouts: MCUs of a scan,
  rows of `scan_memory`, the samples of a component block after block, pixels.
  Scans of one component and of all have different orders, components different
  sizes, and vectors of pixels reach past what they are for. Correct means: each
  pixel is made of the samples the file has for it (`PictureRight`), nothing is
  read or written outside the buffers (`StaysInMemory`), a finished pixel stays
  although a neighbouring thread's vector covers it (`PixelsStay`), and a scan
  ends where its data does, so that the picture is shown at all (`PictureShown`).
* **Inflating.** Copies may overlap themselves, runs of code lengths cross from
  one alphabet into the other, each block has new tables, data is cut into chunks
  anywhere. Correct means: the tables are the encoder's (`OwnAlphabets`), the
  bytes are those that were deflated (`InflatesWhatWasDeflated`), buffers suffice
  (`StaysInBuffers`), filters are inverted, ties between predictors and sums
  beyond a byte included (`PictureRecovered`), and what is supported is loaded
  (`Loads`).
* **Looking ahead.** The bit stream reads up to eight bytes ahead, across the
  end of the data, and drops stuffed zeros as it goes. Correct means: what is
  read is what was written (`ReadsWhatWasWritten`), the stream does not run out
  of bits it needs (`NeverOutOfData`), and parsing goes on where the data ended
  (`ResumesAtMarker`).
* **A window that changes any time.** Correct means: a frame is made from one
  consistent size and the view data the events asked for (`FrameUpToDate`),
  uploads do not overlap (`StagedApart`), the swapchain follows the window (`SwapchainCatchesUp`), closing is honoured
  (`CloseIsHonoured`), and the program ends only then, and cleanly
  (`RunsUntilClosed`, `ClosesCleanly`: both violated), and framebuffers belong to
  the swapchain (`FramebuffersRecreated`: violated).

All hazards, with their lines and the properties for them, are in
`PROJECT.json`.

## Modules

| Module | Models | Extends |
|---|---|---|
| `JpegDecode` | abstract: rows are reconstructed once, from final data, then converted | |
| `JpegParallel` | the main thread, workers and conversion threads; both builds | |
| `MCJpegParallel` | kinds of files for TLC | `JpegParallel` |
| `JpegParallelProofs` | theorems: no races, no stale rows, crashes explained, tables in force, picture complete; steps of `JpegParallel` are steps of `JpegDecode` | `JpegParallel` |
| `JpegProgressive` | the block decoder | |
| `JpegScanEncoder` | which scans and tokens a file may have, from the JPEG standard (external) | `JpegProgressive` |
| `MCJpegProgressive` | small blocks, scan scripts, arbitrary tokens | `JpegScanEncoder` |
| `JpegProgressiveProofs` | theorems: bands kept; decoder in step with an encoder, coefficients right | `JpegScanEncoder`, `BasicProofs` |
| `JpegFrame` | frame headers, the order of blocks and the samples of a pixel, from the JPEG standard (external) | |
| `JpegPicture` | sizes, places of blocks and samples, conversion to pixels, crop | `JpegFrame` |
| `MCJpegPicture` | small frames with all kinds of sampling factors | `JpegPicture` |
| `JpegPictureProofs` | theorems: buffers, pixels, threads | `JpegPicture`, `BasicProofs` |
| `EntropyFile` | what the standards say of coded data, as conditions (external) | |
| `Entropy` | Huffman tables and the bit stream, as JPEG and as PNG use them | `EntropyFile` |
| `EntropyEncoder` | an encoder's bytes, from the standards (external) | `Entropy` |
| `MCEntropy` | tables, messages and what follows them, for TLC | `EntropyEncoder` |
| `HuffmanProofs` | theorems: code words, and the table built from them | `Entropy`, `BasicProofs` |
| `EntropyProofs` | theorems: the reader | `HuffmanProofs` |
| `PngFile` | files, filtering and what a compressor may send, from the standards (external) | |
| `PngDecode` | chunks, inflating, filters, exchange of channels | `PngFile` |
| `MCPngDecode` | small pictures, alphabets and chunk layouts for TLC | `PngDecode` |
| `PngDecodeProofs` | theorems | `PngDecode` |
| `Viewer` | `App_run`, the events of the Linux front end, window system and user | |
| `ViewerProofs` | theorems | `Viewer`, `BasicProofs` |
| `BasicProofs` | lemmas the others share: induction, recursion, division, powers of two, flattened sequences | |

`JpegParallel` composes the threads with the segments of a file;
`JpegProgressive`, `Entropy` and `JpegPicture` each look into a step of it: what a scan
does to the coefficients of a block, how its symbols come from the bytes, and
where blocks, samples and pixels lie. `PngDecode` stands on `Entropy` in the same
way.

### JpegParallel

The main thread's `pc` is where `parse_file` is: between segments, in the row
loop of a scan (`DecodeRow`, then one `PublishRow` per channel it counts up),
joining, converting. `worker[c]` is where channel `c`'s call of
`process_channel` is: polling, copying its table, or at a row. In the
sequential build the main thread makes the same calls. Reading a row is one
step, `ProcessRow`, and decoding a row is one step; that they cannot overlap is
`NoRowRace`, which looks at the rows both are *at*.

Coefficients are abstracted to how many low bits they lack. That a scan leaves
a coefficient with the precision its header says is what `Approximation` of
`JpegProgressive` checks. The files are all sequences of scans and table
definitions a legal file may have, under three liberties a cfg may grant: a
first scan without all components, an end before all bits are sent, a table
redefined after a channel's last scan (but before the last scan of the file: tables
stand before a scan). The state of a file in the model stops
at what the decoder tells apart, so `DHT`, `COM` and skipped segments do not
appear.

The last of these liberties is a race of its own: the main thread writes the table in
place while a worker may be copying it. `CopyTable` is the beginning of the copy, and the
version it takes is that of the copy's oldest entries; entries copied after the write are
newer. With that reading nothing is lost by making it one step: `NoStaleTable`
bounds the oldest entry from below, and no entry can be newer than the last table.
`sent_with[c]` remembers the version the file had defined when it last sent a scan of
channel `c`; `InForce(c)` are the versions since. More cannot be promised of such
files: whether the worker sees the late table is a matter of time.

`channel_completeness` really is a sum over indices and `CHANNEL_COMPLETE` its
magic value; the model has both, counted as a set of pairs, and does not assume
that the sum tells what it should.

### JpegProgressive

One action per iteration of a loop of the decoder. The entropy-coded data is a
sequence of tokens: a symbol (run of zeros, size), or a group of bits. A read
of the wrong kind or width is not enabled, so a decoder that is out of step
deadlocks, and `InSync` says what is about to be read where, and how many bits. The baseline
functions `decode_block_ac` and `process_mcu_baseline` are the loop of the
generic ones with a band of 1..63 and share its actions.

`JpegScanEncoder` is written from the standard, not from the decoder. It is not a
procedure: it says for every coefficient which symbol begins there, if any, and which correction bit
belongs to it, and puts these behind each other. The encoder is free in how it gathers
ended blocks into runs (`Runs`). `Approximation` is then about any script of scans that may
follow each other (`LegalScan`).

### JpegPicture

Control and places are the code's, contents are origins. A block in
`scan_memory` is named by its component and its place in the picture, a sample
by the block each of its two parts (DC and AC) came from and its position in
there, a pixel by its samples. `PictureRight` then compares with where
`JpegFrame` says the samples of a pixel come from, so a block put into the wrong
place, a wrong stride or a sample of the neighbouring block all show.

`ParseSOF` computes the sizes component by component as the code does, the
padded size growing on the way. `DecodeRow` fills a row of MCUs from the stream
of blocks the file holds; `EndScan` compares how many were consumed with how
many there are, and a decoder that has lost its place is `astray`. `ConvertRow`
is one call of `scan_ycbcr_to_rgb` by one of the conversion threads. For the
usual factors it writes vectors of pixels, four or eight at a step. With ARM's, a step is half
a vector, so the last vector of a row covers pixels of the next row; what these get
is modelled, and `PixelsStay` shows that they get what they have.

Two conditions name what the code handles. `IsHandled`: factors equal across and
down (the code takes one nibble for the other), no component larger than the
first, sizes that divide, and no padding blocks in progressive files, since a
scan of one component does not hold them and the decoder reads them all the same.
`HasWholeScale`: `rescale_factor` has no rest. Outside of these TLC finds wrong
pictures and reads behind the samples; nothing in the repository promises
otherwise, so they are hazards and not findings.

### PngDecode

The compressor of `PngFile` is nondeterministic: at each point it may send any
symbol that is true of the rest of the filtered picture (a literal, any copy that
fits, the end of a block where the next one can go on) and cut code lengths into
any runs. It tells nothing by construction: the symbol is sent as the code word
of the encoder's table and looked up in the decoder's, so wrong tables give wrong
symbols or none. The decoder stores the code lengths as they come, splits them
into alphabets, and copies byte by byte. Sizes are `uint32_t` and wrap at `Word`.

Each byte of a line, each byte of a copy and each pixel of the exchange is a step,
as it is an iteration in the code. Data that is not all there or in another order
is `garbage`, of which nothing more is said; writing behind a buffer is
`overrun`. `StaysInBuffers` names the condition under which that does not happen:
the output buffer has an extra line's worth of pixels for the filter bytes, too
few when a picture is more than four times as high as it is wide. TLC does reach
the overrun without it.

Bits are the business of `Entropy`; the alphabet of the code lengths, which is
itself sent in a permuted order, is left out.

### Entropy

The width of a byte, the bytes of the register and the longest code are
constants. The register is the sequence of its bits in the order they are read,
so both shift directions are taking from the front. A step is one call of
`lookup`, of `get_bits_advance`, or of `decode_dc`'s `get_bits(12)` with the advance
behind it (`PeekBits` looked at, as many taken as the value has), with the
`fill_buffer` it may cause: all the bytes it takes, the zeros it drops among them and the bytes it looks at behind
the data. `CodingTable_new` builds the table index by index from the code
lengths, which `DHT` gives as numbers per length and DEFLATE per value; indices
it does not write hold anything. Where the code's unsigned counters wrap, the
stream reads zeros for ever or runs through memory: that is `OutOfData`, and
nothing is said of what follows. `BitStream::skip` is reached by no path that
runs. Over-full codes are left out; the masks of the code keep their indices in
the table.

What a file is stands in `EntropyFile`, as conditions and not as an encoder: the
code's words are the canonical ones of their lengths (`CanonicalCode`), the
bits of the data are those of the words sent, as far as the file goes
(`HoldsItems`), a whole JPEG file has a marker behind its data (`HasEnd`). Every
`Entropy` file is assumed to be like that (`StandardAssumption`); the proofs use
no more, and TLC evaluates it on each of the files of the run. These come from
`EntropyEncoder`, which finds a code as the share of the code space that the codes
before it take up, not by counting on as the decoder does, so that the
assumption is also a check of the conditions against an encoder.

`ResumesAtMarker` has a condition: the bytes looked at behind the data hold no
pair `FF 00`. The code cannot tell such a pair, which a segment's length may
begin, from a stuffed zero, and then goes on a byte too far. Without the
condition TLC finds such a file.

### Viewer

`pc` walks one turn of the loop of `App_run`. The actions of `User` change the
window and append events. The front end makes a resize event of every
`ConfigureNotify`, so a window that is moved or mapped sends one too, with the height
it has. The `Handle...` actions are the cases of the event
switch. `CreateSwapchain` takes the size the window has *at that moment*, which
may be newer than the event. View data and its GPU copy are two variables, and
each handler updates what the code updates. `Acquire` and `Present` may be
refused when the swapchain no longer fits, as Vulkan allows.
Only the y axis is modelled, zoom is an exponent, and drag distances are pixels
instead of fractions of the window.

## Runs

| Run | Question | Instance |
|---|---|---|
| `jpeg_threads` | Are the threads safe, is the picture complete, and does every step follow `JpegDecode`, on usual and on odd files? | 3 rows, 2 coefficients, 1 approximation bit, 2 conversion threads; first scans split, files unfinished |
| `jpeg_refines` | Do both builds implement `JpegDecode` and end, with tables in force? | 2 rows, 2 coefficients, one table redefined between scans, also after its channel's last, fair |
| `jpeg_unfinished` | May a legal file crash the parallel build? | 1 row: **yes** |
| `jpeg_blocks` | Is encoded data decoded again, and what can wrong tokens write? | up to 3 blocks of 5 coefficients, 7 kinds of block, 5 scan scripts; a last scan of arbitrary tokens |
| `jpeg_picture` | Is every pixel made of its samples, within memory? | blocks of 4 x 4, pictures of up to four blocks a side, all equal and mixed factors, both vector units, 1 or 2 threads, fair |
| `jpeg_colours` | Are the channels what their label says? | as above: **no** |
| `entropy` | Are symbols and bits read back, and is the end found? | bytes of 2 bits, 4 in the buffer, codes up to 4 bits, 3 bits looked at for a DC value, 3 symbols |
| `png` | Is the picture recovered, and loaded in the end? | bytes of 8 values, sizes modulo 64, up to 2 blocks and 3 codes, all filters, fair |
| `viewer` | Are frames consistent, is closing honoured? | 2 images, any 3 inputs at any moment, fair |
| `viewer_resize` | Does the loop run until the window is closed? | as above: **no** |
| `viewer_close` | Does closing end cleanly? | as above: **no** |
| `viewer_framebuffers` | Are framebuffers recreated with the swapchain? | two image counts: **no** |

The largest, `jpeg_threads`, has about 770,000 distinct states and takes a bit more than a
minute with two workers, as `jpeg_picture` does, whose states are few and large.
`jpeg_refines` has about 690,000 and takes less than three, for its liveness.
`jpeg_blocks` leaves deadlock unchecked: damaged tokens may end anywhere, and the
model stops there.

Why the bounds are enough. The pipeline's counters meet at a row, the row
before it and the row after it: three rows have a first, a middle and a last
one, and three rows over two threads leave a remainder. Two coefficients are a
DC and an AC coefficient, whose weights differ, and one approximation bit makes
first and refining scans of each. For blocks, five coefficients and symbols
with at most two zeros give runs that fit a symbol, runs that do not, bands that
end in the middle of a block and end-of-band runs over two and three blocks.
For pictures, blocks of four samples make vectors of four pixels, with a step of
two on ARM; widths and heights are below, at and above the size of a block and of
an MCU; there are two MCUs across or two rows of them, where padding, remainders
and the border between two threads lie.
For the bit stream, codes are as long as two bytes, as in the code; a byte of
ones, and so a stuffed zero, is one byte in four, and three symbols with up to
three raw bits are longer than the buffer, so it is refilled at every fill level
that three symbols can reach. All code lengths with two or three codes are tried
for JPEG, all complete codes of up to four values for PNG, and files that end or
break off behind the data or in it. Every byte behind a file has the same value.
For PNG, two lengths of copies are longer than a pixel or its distance, so that they
overlap; distances reach back a pixel; a run of zero lengths crosses the border
of the alphabets; two blocks suffice for a second table. Filters are all five
alone, all pairs, and the ties of Paeth's predictor; a picture of
five lines is too high for its buffer and one of 4 x 4 wraps the sizes.
For the viewer, the shortest histories that matter take two inputs (resize and
close, two resizes, press and move); three leave one to come in between.
Two images and an atom size of two show overlap and overflow in the staging buffer.

### Fairness

`jpeg_refines`: the main thread, each worker and each conversion thread is
weakly fair: they are POSIX threads, and the worker that sleeps has a time-out.
The file is not required to be long or short; it is finite because every scan
sends bits not sent before. `jpeg_picture` and `png`: weak fairness of the whole
next-state relation, for threads that never wait for anything but each other's end.
`viewer`: the application's actions are weakly fair
as a whole, since it is one thread that always has something to do; the user and
the window system are not fair at all. `CloseIsHonoured` needs that the user
stops (bounded by `MaxInputs`): events arriving for ever faster than they
are read would keep a turn from ending.

### Disagreements with the documentation

* `jpeg_unfinished`: the parallel build joins workers it never started when a
  progressive file ends early. The sequential build decodes the same file.
* `viewer_resize`: a resize between the last event read and acquire or present
  ends the program, since only `VK_SUCCESS` and `VK_SUBOPTIMAL_KHR` are handled.
* `viewer_close`: closing before the first frame, together with a resize,
  dereferences a null mesh.
* `viewer_framebuffers`: the old framebuffers are destroyed by the count of the
  new swapchain.
* `jpeg_colours`: component 2 is used as Cr and component 3 as Cb, while the
  comment and the label of the pixel format say the opposite; what is called red
  is blue.

Met, but no run's: `MAX_CHUNK_SIZE` is `0x8FFFFFFF` where the message next to it
speaks of 2^31 (`src/image/png.cpp:24` and `606`). And when a file redefines a
table after the last scan of a channel, the parallel build dequantises that channel with
the old or the new one as its threads happen to run (`src/image/jpeg.cpp:825` copies what
`1278` writes), the sequential build always with the last (`1492`), although
`readme.md:17` presents the flag as a matter of speed.

## Proofs

Every theorem is about all values of the constants that satisfy the named
assumptions, and about safety. None of the invariants is inductive as it stands;
each proof module begins with the strengthening that is, `IInv`, which TLC checked
on the small instances before it was proved.

**`JpegParallelProofs`**, for any number of rows, coefficients, approximation bits,
threads and tables (`SizeAssumption`) and every subset of the liberties:
`TypeCorrect`, `NoRace` (`NoRowRace`), `RowsStayFresh` (`NoStaleRow`). During a scan
every row of a channel is either still as in row 0 before the scan or already as
after it (`RowsInv`); the completeness sum equals the weight of the set of
coefficients that will be final after the scan (`CompletenessInv`), so by strict
monotonicity of the weight it reaches `CHANNEL_COMPLETE` exactly when all are final
(`WeightFacts`, `CompleteIsFinal`); from then on no legal scan may send the channel,
the published count is the number of decoded rows (`PublishedInv`), and a worker
stays below it (`CallInv`).

Its second part goes on to the end of the threads, with an invariant beside the
first: a complete channel has its worker (`StartedInv`), the joins passed are of
calls that have ended (`JoinedInv`), a call has done every row behind it
(`RowsDoneInv`), and a conversion thread is in its slice and has converted the rows
behind it (`SlicesInv`). From it: `CrashIsExplained`, `PixelsKeptApart`
(`NoPixelRace`; slices of integer division are disjoint and cover the rows for any
number of threads), `TablesInForce` (`NoStaleTable`) and `PictureIsComplete`
(`PictureComplete`). The tables need no assumption on where files define them: while
bits of a channel are missing nothing of it is reconstructed by a worker, so one that
is in use has all its scans (`InUseIsFinal`) and its `sent_with` stays; tables only
get newer; and in the sequential build what is reconstructed has the last ones
(`TableStep`). Of a crashed decode `IInv` says less, so the step that crashes is treated
apart: it changes neither tables nor rows.

The third part is the refinement: `DecodeImplemented`, that `JpegParallel`
implements the safety part of `JpegDecode`, also for unfinished files, whose decode just stops. Reconstructed pairs and converted rows are what
`Reconstructed` and `Converted` compute from the buffers; the step that needs work
is `ConvertRow`, which must not count before every row is reconstructed: a row that
is final is so because its coefficients are, these are alike in all rows
(`RowsAreAlike`), and all calls have ended. Which of the tables in force a row has does
not matter to it (`TablesAside`).

**`JpegProgressiveProofs`**, for blocks of any size and any number of them. First,
for any files and **any** tokens: `TypeCorrect` and `OtherBandsKept`
(`KeepsOtherBands`). The loops start inside the band and only move forward
(`InBand`), every store is behind a comparison with its end.

Then, for files whose undamaged scans are legal and hold what an encoder may send
(`EncoderAssumption`), with any scan script and ended blocks gathered into runs in
any way: `DecoderInStep` (`InSync`) and `CoefficientsRight` (`Approximation`).
Neither is inductive: that the next token is a symbol says nothing of the tokens
behind it. `JpegScanEncoder` therefore lays out the tokens of a scan by the
coefficients they belong to, and the invariant (`SyncInv`, which TLC checked on all
states of `jpeg_blocks`) says that

* the scans decoded and those to come are the file's, in their order (`InOrder`), so
  that the current one may follow those before it (`Legal`);
* the unread tokens are those of the coefficients and blocks from the decoder's
  place on (`InStream`); between a symbol and the value it announces, they are those
  behind the symbol, the zeros left to pass are those the encoder counted from here
  to the coefficient it coded, and the value to store is that coefficient's
  (`Refining`);
* `eob_run` is what is left of the run that began at an earlier block (`Left`), and
  `diff_dc` is the DC value sent last (`Difference`);
* the memory is what the scans up to the current one say before the decoder's place,
  and what those before it say behind (`MemoryIs`).

The arithmetic below it: the bits of a value are read as that value (`ValueRead`),
the length of a run as that length (`EndRead`), and one bit more refines what is
left of a coefficient, towards zero for AC coefficients and downwards for DC values
(`RefinedAC`, `RefinedDC`). The zeros that wait for a symbol are a number of
coefficients modulo the longest run, one more at each that stays zero (`ZerosStep`),
which is how the decoder, counting down over coefficients it finds zero in its
memory, meets the encoder.

**`JpegPictureProofs`**, for any set of frames, any number of conversion threads and
both builds: `TypeCorrect`, `StaysWithin` (`StaysInMemory`), `PictureCorrect`
(`PictureRight`), `PixelsKept` (`PixelsStay`), and `ScansEnd`, that the scans of a
handled frame are through with their blocks when the decoder is. Blocks are 4 or 8
samples wide (`BlockSizeFacts`), as the vector loads count on. The sizes `parse_sof`
computes are those of whole MCUs (`SizesInv`), from which it follows that nothing
leaves its buffer, also for frames the decoder does not handle. For those it does,
the number of blocks consumed tells how far a scan is, and every row decoded so far
holds the blocks of the component that belong there: in an interleaved scan by the
order within an MCU and of MCUs (`SentInterleaved`, with `FlattenThree` and
`FlattenEqual`), in a scan of one component by rows of blocks (`SentAlone`); places
and blocks correspond (`PlacesCovered`, `MemoryInv`). Each sample of a channel is
then the file's (`SamplesInv`), the pixel of a lane finds its samples for every pair
of sampling factors (`SampleRight`), a vector that reaches past its row takes
samples of the next one for pixels of the next one (`NextRowSample`), a thread's
rows are right as far as it has come (`PixelsInv`), the slices cover the rows
(`SlicesCover`), and the crop keeps the places.

**`PngDecodeProofs`**, for pictures, alphabets and files of any size: `TypeCorrect`,
`TablesTransmitted` (`OwnAlphabets`), `InflateCorrect` (`InflatesWhatWasDeflated`),
`BuffersSuffice` (`StaysInBuffers`) and `PictureCorrect` (`PictureRecovered`). The
size in the header is the file's (`HeaderInv`); the code lengths told so far are the
code's (`TablesInv`); a code word belongs to one symbol, so looking it up in an
equal table finds the symbol that was sent; a copy in progress repeats bytes that
are in the buffer already, those it has written itself among them (`CopyInv`,
`BufferInv`); with sizes of at most half the range nothing wraps; a line is undone
byte by byte, each prediction made of bytes undone before, and the two forms of
Paeth's choice agree (`LinesInv`); the exchange touches each pixel once.

**`HuffmanProofs`**, for any code lengths, width of a byte and longest code.
`CodeIsWord`: the number the decoder gives a code by counting up, with zeros put
behind at each longer length, is the word of the standard. `TableBuilt`: every index
that `CodingTable_new` writes for a code is one of the bit strings that begin with
its word, so that in the finished table each such string finds its value and length,
in either order of bits. `LeavesApart`: no index is written for two codes, so the order
of the writes does not matter; under it lies that no word of a canonical code
begins another (`PrefixFree`), since words of equal length differ and the smallest
continuation of a word is at least the next word. `Covered`: bits that as a number lie below the end of the
last code begin with the word of some code.

**`EntropyProofs`**: `TypeCorrect`, `ReadingCorrect` (`ReadsWhatWasWritten`),
`DataSuffices` (`NeverOutOfData`), `MarkerFound` (`ResumesAtMarker`), for any files,
whole or broken off, on a register of any number of bytes. The invariant (`IInv`)
says that the register holds the data's bits from where the items read so far end up
to the end of some byte, and that the index is at the byte behind that one, stuffed
zeros counted (`Holds`). While the file lasts, a table lookup is then of the item's
word (`TableFinds`). Behind the end of a file that breaks off the register is filled
with made-up zeros; the work is to show that no item is read that the file does not
hold in full. If the bits at hand are the beginning of the word that was sent, a
symbol that is found with the help of zeros would be that word or begin with it or
be begun by it; the first is excluded by its length, the others by `PrefixFree`. In
a whole JPEG file the marker's two bytes are at least as long as any code
(`SizeAssumption`: 16 bits and bytes of 8) and as what is looked at for a DC value
(`PeekAssumption`: 12 bits), so the reader, which needs at most that much more than it
uses, does not go past it; and the two forms of the place behind
the last byte, counted by the reader and by the standard, are the same
(`PlaceExact`).

**`ViewerProofs`**, for any heights, image counts, number and sizes of images and
any inputs: `TypeCorrect`, `FramesUpToDate` (`FrameUpToDate`), `StagingApart`
(`StagedApart`). The swapchain differs from the window, and the render area from the
swapchain, only while a resize waits in the queue, and a turn that goes on to a
frame has emptied it (`ResizeInv`, `TurnInv`); every handler leaves equal copies
(`ViewInv`). The offsets in the staging buffer are sums over the images before, and
that they grow is proved by induction over the images.

**`BasicProofs`** holds what these share. The theorems of the library about
induction and about functions defined by recursion take an operator as a parameter,
so the module has its own: `SetInduction`, induction for sets, from the
well-foundedness of `<`; and `Recursion`, that a function which unfolds as its
definition says exists if it does for every initial part. With them,
`FlattenDefinition`: how `FlattenSeq` unfolds, and `RestNext`, what is left of a
flattened sequence when one of its parts has been taken off.

Assumed: the files are those of `LegalScans`, respectively of `PngFile`'s and
`EntropyFile`'s assumptions, the undamaged scans those of `LegalScan` and
`Encodings`, a code, or what is looked at for a DC value, is at most two bytes long, and a code fits
in the register beside a byte (16, 12, 8 and 64 bits in the code), and decoding or reading a row is one step of its
thread (the atomic counter orders them, as sequentially consistent `std::atomic`
operations do).

Only model-checked: everything under fairness (`DecodeEnds`, the liveness half of
`ImplementsDecode`, `PictureShown`, `Loads`, `CloseIsHonoured`,
`SwapchainCatchesUp`), as liveness is outside the prover's reach; and the absence of
deadlocks, which is about what is enabled.

## Not modelled

* The inverse DCT, the colour matrices' arithmetic and the shaders: straight-line
  arithmetic without control of its own. (The scalar conversion subtracts 128
  before the fixed-point shift, the vector paths do not; how far their results
  differ is not examined.)
* Creation of Vulkan and XCB objects, whose failures exit; what the GPU does; the
  macOS front end, whose events arrive through AppKit; file reading and image
  records, which are plain data; the libjpeg comparison program and build files.
* Damaged PNG streams, interlaced pictures, which the decoder does not tell from
  others, an unknown filter, whose line it leaves unwritten (the switch at
  `src/image/png.cpp:553` has no default), and the checksums it reads over.
* JPEG: APPn and COM segments, the framing of DHT, restart intervals and other
  numbers of components than three.
* A `pthread_create` that fails (`src/image/jpeg.cpp:1129`): its result is
  ignored. Drag distances across a resize (`src/app.cpp:1615`), which jump: nothing
  says what they should do. The reach of the texture copy behind an image's allocation
  (`src/app.cpp:370`), which needs the heap.

## Plan

Done so far: the JPEG threads, blocks, picture and bit stream, PNG, the viewer, and the
safety proofs of all of them. Next:

1. What is between the parts: that the conditions one module states of its input (`EntropyFile`,
   `Streams`) are what the module before it delivers.
2. The fixed-point colour arithmetic, scalar against vectors, over all bytes.
3. Failing thread creation in `JpegParallel`, with a picture that says what was done.
