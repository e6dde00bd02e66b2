---------------------------- MODULE JpegParallel ----------------------------
(***************************************************************************)
(* The threads of the JPEG decoder (src/image/jpeg.cpp).                   *)
(*                                                                         *)
(* The main thread walks over the segments of the file.  A scan (SOS)      *)
(* decodes coefficients row by row into scan_memory.  In the parallel      *)
(* build the scan that completes a channel also starts that channel's      *)
(* worker, and each row it finishes is published through the atomic        *)
(* counter num_scans_parsed; the worker polls the counter and runs         *)
(* process_channel (dequantise, inverse DCT) on the published rows.  After *)
(* EOI the main thread joins the workers, and a second set of threads      *)
(* converts disjoint slices of rows to pixels.  In the sequential build    *)
(* the main thread makes the same calls of process_channel after EOI.      *)
(*                                                                         *)
(* Coefficient values are abstracted to their precision: 0 when every bit  *)
(* has been decoded, al when the low al bits are missing, NotSent when no  *)
(* scan has sent the coefficient.  The file is any sequence of scans and   *)
(* quantisation tables a legal file may hold, restricted by Liberties.     *)
(***************************************************************************)
EXTENDS Naturals, FiniteSets

CONSTANTS
    McuRows,     \* number of MCU rows: num_scans of every component
    LastCoeff,   \* last zig-zag index of a block (63 in the code)
    MaxAl,       \* bound on the successive approximation low bit
    NumThreads,  \* JPEG_DECODE_NUM_THREADS of the parallel build
    MaxDqt,      \* bound on the tables redefined between scans
    Liberties    \* the unusual things files may do, see LegalScans and MayEnd

ASSUME SizeAssumption ==
    /\ McuRows \in Nat \ {0}
    /\ LastCoeff \in Nat \ {0}
    /\ MaxAl \in Nat
    /\ NumThreads \in Nat \ {0}
    /\ MaxDqt \in Nat

ASSUME LibertiesAssumption ==
    Liberties \subseteq {"split first scan", "unfinished", "late table"}

Channels == 0 .. 2
Rows == 0 .. McuRows - 1
Coeffs == 0 .. LastCoeff
NotSent == MaxAl + 1
Precisions == 0 .. NotSent
FullPrecision == [k \in Coeffs |-> 0]
Nothing == [coeff |-> FullPrecision, table |-> MaxDqt + 1]

VARIABLES
    parallel,               \* JpegParser::parallel
    encoding_method,        \* the SOF segment seen
    pc,                     \* what the main thread does next
    scan,                   \* header of the scan being decoded
    mcu_row,                \* the scan's row loop
    pending,                \* components the row loop has yet to publish
    channel,                \* index of the join and the process loops
    scan_components,        \* number of scan_components ever filled in
    coeff,                  \* scan_memory, as precisions
    quant_tables,           \* version of the table each channel refers to
    sent_with,              \* ... when the file last sent a scan of the channel
    channel_completeness,
    num_scans_parsed,       \* the atomic counters of async_scan_info
    worker,                 \* what channel c's call of process_channel does next
    scan_id_start, scan_id_end, scan_id,
    table,                  \* component_quant_table of that call
    out_block_downsampled,
    converter,              \* next row of each colour conversion thread
    image                   \* image_data: what the pixels of a row come from

file == <<encoding_method, scan, scan_components, coeff, quant_tables, sent_with>>
main == <<pc, mcu_row, pending, channel>>
shared == <<channel_completeness, num_scans_parsed>>
workers == <<worker, scan_id_start, scan_id_end, scan_id, table,
             out_block_downsampled>>
conversion == <<converter, image>>
vars == <<parallel, file, main, shared, workers, conversion>>

-----------------------------------------------------------------------------
(***************************************************************************)
(* Scans                                                                   *)
(***************************************************************************)

Scans == [comps : (SUBSET Channels) \ {{}},
          ss : Coeffs, se : Coeffs, ah : Precisions, al : 0 .. MaxAl]

Band(s) == s.ss .. s.se

\* Mutant: i instead of i+1, which leaves the DC coefficient uncounted.
WeightWithoutOne(S) == Cardinality({p \in S \X Coeffs : p[2] < p[1]})

\* +i+1 for every coefficient i of S, counted as the pairs <<i, 0..i>>.
Weight(S) == Cardinality({p \in S \X Coeffs : p[2] <= p[1]})

\* Mutant: the sum of the indices, without the +64.
SumOfIndices == WeightWithoutOne(Coeffs)

CHANNEL_COMPLETE == Weight(Coeffs)

\* Between two scans all rows of a channel have the precision of row 0.
Sent(c) == coeff[c][0]

IsFinal(c) == \A k \in Coeffs : Sent(c)[k] = 0

\* A first scan of coefficients not sent yet, or one more bit of coefficients
\* that lack s.ah bits.
Refines(s) ==
    \A c \in s.comps, k \in Band(s) :
        IF s.ah = 0 THEN Sent(c)[k] = NotSent
                    ELSE Sent(c)[k] = s.ah /\ s.al + 1 = s.ah

\* Baseline: a component in one scan.  Progressive: DC and AC apart, AC scans
\* hold one component and come after its first DC scan.
LegalScans ==
    {s \in Scans :
        /\ Refines(s)
        /\ \/ /\ encoding_method = "Baseline"
              /\ s.ss = 0 /\ s.se = LastCoeff /\ s.ah = 0 /\ s.al = 0
           \/ /\ encoding_method = "Progressive"
              /\ s.ss = 0 /\ s.se = 0
           \/ /\ encoding_method = "Progressive"
              /\ 0 < s.ss /\ s.ss <= s.se
              /\ \E c \in Channels : s.comps = {c} /\ Sent(c)[0] # NotSent
        /\ \/ "split first scan" \in Liberties
           \/ scan_components = 3
           \/ s.comps = Channels}

\* A file may end once each component's first scan has been sent; most files
\* send every bit.
MayEnd ==
    \A c \in Channels :
        /\ Sent(c)[0] # NotSent
        /\ IsFinal(c) \/ "unfinished" \in Liberties

-----------------------------------------------------------------------------
(***************************************************************************)
(* The main thread: segments                                               *)
(***************************************************************************)

Init ==
    /\ parallel \in BOOLEAN
    /\ encoding_method \in {"Baseline", "Progressive"}
    /\ pc = "segments"
    /\ scan = [comps |-> {}, ss |-> 0, se |-> 0, ah |-> 0, al |-> 0]
    /\ mcu_row = 0
    /\ pending = {}
    /\ channel = 0
    /\ scan_components = 0
    /\ coeff = [c \in Channels |-> [r \in Rows |-> [k \in Coeffs |-> NotSent]]]
    /\ quant_tables = [c \in Channels |-> 0]
    /\ sent_with = [c \in Channels |-> 0]
    /\ channel_completeness = [c \in Channels |-> 0]
    /\ num_scans_parsed = [c \in Channels |-> 0]
    /\ worker = [c \in Channels |-> "none"]
    /\ scan_id_start = [c \in Channels |-> 0]
    /\ scan_id_end = [c \in Channels |-> 0]
    /\ scan_id = [c \in Channels |-> 0]
    /\ table = [c \in Channels |-> 0]
    /\ out_block_downsampled = [c \in Channels |-> [r \in Rows |-> Nothing]]
    /\ converter = [i \in 0 .. NumThreads - 1 |-> 0]
    /\ image = [r \in Rows |-> [c \in Channels |-> Nothing]]

\* Mutant: every scan counts, also one that leaves bits to later scans.
CompletesAnyBit(s) == parallel

\* The scans that count towards completeness: last bits of a parallel decode.
Completes(s) == parallel /\ s.al = 0

\* SOS up to the row loop: fill scan_components, count what the scan
\* completes, start the workers of the channels that are complete with it.
ParseSOS(s) ==
    /\ pc = "segments"
    /\ scan' = s
    /\ sent_with' = [c \in Channels |->
                        IF c \in s.comps THEN quant_tables[c] ELSE sent_with[c]]
    /\ scan_components' = IF Cardinality(s.comps) > scan_components
                          THEN Cardinality(s.comps) ELSE scan_components
    /\ channel_completeness' =
           [c \in Channels |-> channel_completeness[c] +
               IF Completes(s) /\ c \in s.comps THEN Weight(Band(s)) ELSE 0]
    /\ worker' =
           [c \in Channels |->
               IF /\ Completes(s)
                  /\ c \in s.comps
                  /\ channel_completeness'[c] = CHANNEL_COMPLETE
               THEN "poll" ELSE worker[c]]
    /\ pc' = "rows"
    /\ mcu_row' = 0
    /\ UNCHANGED <<parallel, encoding_method, coeff, quant_tables, pending,
                   channel, num_scans_parsed, scan_id_start, scan_id_end,
                   scan_id, table, out_block_downsampled, conversion>>

\* The row loop goes on, or the scan is over.
NextRow ==
    IF mcu_row + 1 < McuRows
    THEN pc' = "rows" /\ mcu_row' = mcu_row + 1
    ELSE pc' = "segments" /\ mcu_row' = 0

\* Mutant: publish rows of channels other scans have yet to complete.
AwaitedEarly(c) == Completes(scan)

\* The worker of channel c waits for the rows of the scan in progress.
Awaited(c) == Completes(scan) /\ channel_completeness[c] = CHANNEL_COMPLETE

\* Every row takes the pointers of three scan_components, used or not.
DecodeRow ==
    /\ pc = "rows"
    /\ scan_components = 3
    /\ coeff' = [c \in Channels |-> [r \in Rows |-> [k \in Coeffs |->
                    IF c \in scan.comps /\ r = mcu_row /\ k \in Band(scan)
                    THEN scan.al ELSE coeff[c][r][k]]]]
    /\ pending' = {c \in scan.comps : Awaited(c)}
    /\ IF pending' = {} THEN NextRow ELSE pc' = "publish" /\ UNCHANGED mcu_row
    /\ UNCHANGED <<parallel, encoding_method, scan, scan_components,
                   quant_tables, sent_with, channel, shared, workers, conversion>>

\* scan_components[2].scan_memory is still NULL.
NullScanMemory ==
    /\ pc = "rows"
    /\ scan_components < 3
    /\ pc' = "crashed"
    /\ UNCHANGED <<parallel, file, mcu_row, pending, channel, shared, workers,
                   conversion>>

PublishRow(c) ==
    /\ pc = "publish"
    /\ c \in pending
    /\ \A d \in pending : c <= d
    /\ num_scans_parsed' = [num_scans_parsed EXCEPT ![c] = @ + 1]
    /\ pending' = pending \ {c}
    /\ IF pending' = {} THEN NextRow ELSE UNCHANGED <<pc, mcu_row>>
    /\ UNCHANGED <<parallel, file, channel, channel_completeness, workers,
                   conversion>>

\* A table the components in users refer to is defined anew.  Tables come
\* before a scan, so there is something left to send.
ParseDQT(users) ==
    /\ pc = "segments"
    /\ \E c \in Channels : ~IsFinal(c)
    /\ \A c \in users :
          /\ quant_tables[c] < MaxDqt
          /\ IsFinal(c) => "late table" \in Liberties
    /\ quant_tables' = [c \in Channels |->
                           quant_tables[c] + IF c \in users THEN 1 ELSE 0]
    /\ UNCHANGED <<parallel, encoding_method, scan, scan_components, coeff,
                   sent_with, main, shared, workers, conversion>>

ParseEOI ==
    /\ pc = "segments"
    /\ MayEnd
    /\ pc' = IF parallel THEN "join" ELSE "process"
    /\ channel' = 0
    /\ UNCHANGED <<parallel, file, mcu_row, pending, shared, workers,
                   conversion>>

-----------------------------------------------------------------------------
(***************************************************************************)
(* process_channel, called by a worker or by the main thread               *)
(***************************************************************************)

\* Mutant: the worker waits for a row more than there are.
TotalScansPlusOne == McuRows + 1

\* The rows a worker processes before it ends: num_scans of component 1, which
\* is the same for all components.
TotalScans == McuRows

\* Mutant: one row too many, as if a row were published before it is decoded.
PublishedTooEarly(c) ==
    IF num_scans_parsed[c] < McuRows THEN num_scans_parsed[c] + 1 ELSE McuRows

\* What the load of the atomic counter returns.
Published(c) == num_scans_parsed[c]

\* The worker reads the counter; with nothing new it sleeps and reads again.
Poll(c) ==
    /\ worker[c] = "poll"
    /\ Published(c) # scan_id_start[c]
    /\ scan_id_end' = [scan_id_end EXCEPT ![c] = Published(c)]
    /\ worker' = [worker EXCEPT ![c] = "table"]
    /\ UNCHANGED <<parallel, file, main, shared, scan_id_start, scan_id, table,
                   out_block_downsampled, conversion>>

Sleep(c) ==
    /\ worker[c] = "poll"
    /\ Published(c) = scan_id_start[c]
    /\ UNCHANGED vars

\* Sequential decoding: one call per channel, for all rows.
ProcessChannel ==
    /\ pc = "process"
    /\ worker[channel] = "none"
    /\ worker' = [worker EXCEPT ![channel] = "table"]
    /\ scan_id_end' = [scan_id_end EXCEPT ![channel] = McuRows]
    /\ UNCHANGED <<parallel, file, main, shared, scan_id_start, scan_id, table,
                   out_block_downsampled, conversion>>

\* Mutant: the table of the frame header is kept.
CopyFirstTable(c) ==
    /\ worker[c] = "table"
    /\ table' = [table EXCEPT ![c] = 0]
    /\ scan_id' = [scan_id EXCEPT ![c] = scan_id_start[c]]
    /\ worker' = [worker EXCEPT ![c] = "rows"]
    /\ UNCHANGED <<parallel, file, main, shared, scan_id_start, scan_id_end,
                   out_block_downsampled, conversion>>

\* process_channel begins: component_quant_table is a copy made now.  Copying
\* takes until the first row, and a DQT may rewrite the table meanwhile; table
\* stands for the copy's oldest entries, which are of now.
CopyTable(c) ==
    /\ worker[c] = "table"
    /\ table' = [table EXCEPT ![c] = quant_tables[c]]
    /\ scan_id' = [scan_id EXCEPT ![c] = scan_id_start[c]]
    /\ worker' = [worker EXCEPT ![c] = "rows"]
    /\ UNCHANGED <<parallel, file, main, shared, scan_id_start, scan_id_end,
                   out_block_downsampled, conversion>>

\* One row; after the last one of the range the call returns.
ProcessRow(c) ==
    LET r == scan_id[c] IN
    /\ worker[c] = "rows"
    /\ out_block_downsampled' =
           [out_block_downsampled EXCEPT ![c][r] =
               [coeff |-> coeff[c][r], table |-> table[c]]]
    /\ scan_id' = [scan_id EXCEPT ![c] = r + 1]
    /\ IF r + 1 < scan_id_end[c]
       THEN UNCHANGED <<worker, scan_id_start>>
       ELSE /\ scan_id_start' = [scan_id_start EXCEPT ![c] = scan_id_end[c]]
            /\ worker' = [worker EXCEPT ![c] =
                             IF scan_id_end[c] < TotalScans
                             THEN "poll" ELSE "finished"]
    /\ UNCHANGED <<parallel, file, main, shared, scan_id_end, table,
                   conversion>>

-----------------------------------------------------------------------------
(***************************************************************************)
(* The main thread: the end of parse_file, and the colour conversion       *)
(***************************************************************************)

NextChannel ==
    IF channel < 2
    THEN channel' = channel + 1 /\ UNCHANGED pc
    ELSE channel' = 0 /\ pc' = "convert"

\* Mutant: a worker that was started is not waited for.
JoinRunning ==
    /\ pc \in {"join", "process"}
    /\ worker[channel] # "none"
    /\ NextChannel
    /\ UNCHANGED <<parallel, file, mcu_row, pending, shared, workers,
                   conversion>>

\* pthread_join, or the return of the main thread's own call.
JoinWorker ==
    /\ pc \in {"join", "process"}
    /\ worker[channel] = "finished"
    /\ NextChannel
    /\ UNCHANGED <<parallel, file, mcu_row, pending, shared, workers,
                   conversion>>

\* pthread_join of a handle that pthread_create never wrote: undefined.  It
\* crashes, or returns an error that nobody looks at.
JoinNoWorker ==
    /\ pc = "join"
    /\ worker[channel] = "none"
    /\ \/ pc' = "crashed" /\ UNCHANGED channel
       \/ NextChannel
    /\ UNCHANGED <<parallel, file, mcu_row, pending, shared, workers,
                   conversion>>

\* Thread i of n converts slice i of the rows, the last one takes the rest.
Converters == IF parallel THEN 0 .. NumThreads - 1 ELSE {0}
ThreadCount == IF parallel THEN NumThreads ELSE 1
SliceStart(i) == i * (McuRows \div ThreadCount)

\* Mutants: every slice is rounded up; the remainder is left out.
SliceEndRoundedUp(i) ==
    IF i = ThreadCount - 1 THEN McuRows
    ELSE (i + 1) * ((McuRows + ThreadCount - 1) \div ThreadCount)
SliceEndNoRest(i) == (i + 1) * (McuRows \div ThreadCount)

SliceEnd(i) == IF i = ThreadCount - 1 THEN McuRows
               ELSE (i + 1) * (McuRows \div ThreadCount)

StartConversion ==
    /\ pc = "convert"
    /\ pc' = "converting"
    /\ converter' = [i \in 0 .. NumThreads - 1 |->
                        IF i \in Converters THEN SliceStart(i) ELSE 0]
    /\ UNCHANGED <<parallel, file, mcu_row, pending, channel, shared, workers,
                   image>>

ConvertRow(i) ==
    /\ pc = "converting"
    /\ i \in Converters
    /\ converter[i] < SliceEnd(i)
    /\ image' = [image EXCEPT ![converter[i]] =
                    [c \in Channels |-> out_block_downsampled[c][converter[i]]]]
    /\ converter' = [converter EXCEPT ![i] = @ + 1]
    /\ UNCHANGED <<parallel, file, main, shared, workers>>

JoinConverters ==
    /\ pc = "converting"
    /\ \A i \in Converters : converter[i] >= SliceEnd(i)
    /\ pc' = "done"
    /\ UNCHANGED <<parallel, file, mcu_row, pending, channel, shared, workers,
                   conversion>>

Stopped ==
    /\ pc \in {"done", "crashed"}
    /\ UNCHANGED vars

-----------------------------------------------------------------------------

Main ==
    \/ pc = "segments" /\ \E s \in LegalScans : ParseSOS(s)
    \/ DecodeRow
    \/ NullScanMemory
    \/ \E c \in Channels : PublishRow(c)
    \/ \E users \in (SUBSET Channels) \ {{}} : ParseDQT(users)
    \/ ParseEOI
    \/ ProcessChannel
    \/ JoinWorker
    \/ JoinNoWorker
    \/ StartConversion
    \/ JoinConverters

\* A crash takes the workers with it.
Worker(c) ==
    /\ pc # "crashed"
    /\ Poll(c) \/ Sleep(c) \/ CopyTable(c) \/ ProcessRow(c)

Next ==
    \/ Main
    \/ \E c \in Channels : Worker(c)
    \/ \E i \in 0 .. NumThreads - 1 : ConvertRow(i)
    \/ Stopped

Spec == Init /\ [][Next]_vars

\* Every thread that can take a step is scheduled eventually.  A file has
\* finitely many segments: every scan sends bits not sent before and MaxDqt
\* bounds the tables.
Fairness ==
    /\ WF_vars(Main)
    /\ \A c \in Channels : WF_vars(Worker(c))
    /\ \A i \in 0 .. NumThreads - 1 : WF_vars(ConvertRow(i))

FairSpec == Spec /\ Fairness

-----------------------------------------------------------------------------
(***************************************************************************)
(* Properties                                                              *)
(***************************************************************************)

RowContents == [coeff : [Coeffs -> Precisions], table : 0 .. MaxDqt + 1]

\* Every variable has its type.
TypeOK ==
    /\ parallel \in BOOLEAN
    /\ encoding_method \in {"Baseline", "Progressive"}
    /\ pc \in {"segments", "rows", "publish", "join", "process", "convert",
               "converting", "done", "crashed"}
    /\ scan \in [comps : SUBSET Channels, ss : Coeffs, se : Coeffs,
                 ah : Precisions, al : 0 .. MaxAl]
    /\ mcu_row \in Rows
    /\ pending \subseteq Channels
    /\ channel \in Channels
    /\ scan_components \in 0 .. 3
    /\ coeff \in [Channels -> [Rows -> [Coeffs -> Precisions]]]
    /\ quant_tables \in [Channels -> 0 .. MaxDqt]
    /\ sent_with \in [Channels -> 0 .. MaxDqt]
    /\ channel_completeness \in [Channels -> Nat]
    /\ num_scans_parsed \in [Channels -> 0 .. McuRows]
    /\ worker \in [Channels -> {"none", "poll", "table", "rows", "finished"}]
    /\ scan_id_start \in [Channels -> 0 .. McuRows]
    /\ scan_id_end \in [Channels -> 0 .. McuRows]
    /\ scan_id \in [Channels -> 0 .. McuRows]
    /\ table \in [Channels -> 0 .. MaxDqt]
    /\ out_block_downsampled \in [Channels -> [Rows -> RowContents]]
    /\ converter \in [0 .. NumThreads - 1 -> 0 .. McuRows]
    /\ image \in [Rows -> [Channels -> RowContents]]

\* No worker reads a row of scan_memory that the main thread is writing: the
\* rows the two are at are never the same row of the same channel.
NoRowRace ==
    \A c \in Channels :
        (pc = "rows" /\ c \in scan.comps /\ worker[c] = "rows")
            => scan_id[c] # mcu_row

\* A row that was reconstructed is up to date: no later scan of the file, and
\* no later row of the scan a worker was started in, changes its coefficients.
NoStaleRow ==
    \A c \in Channels, r \in Rows :
        LET row == out_block_downsampled[c][r] IN
        row # Nothing => row.coeff = coeff[c][r]

\* The tables in force since the last scan of channel c: the one it was sent
\* with, and later ones if there is a late table.
InForce(c) == sent_with[c] .. quant_tables[c]

\* ... and it was not dequantised with a table replaced before the last scan of
\* its channel, wherever the file defines tables and however late or early the
\* worker copies one.
NoStaleTable ==
    \A c \in Channels, r \in Rows :
        LET row == out_block_downsampled[c][r] IN
        row # Nothing => row.table \in InForce(c)

\* Has every bit of every coefficient been sent?
FileComplete == \A c \in Channels : IsFinal(c)

\* Two colour conversion threads never work on the same row, and none reads a
\* channel whose worker still writes it.
NoPixelRace ==
    pc = "converting" =>
        \A i \in Converters : converter[i] < SliceEnd(i) =>
            /\ \A j \in Converters \ {i} :
                  converter[j] < SliceEnd(j) => converter[i] # converter[j]
            /\ \A c \in Channels : worker[c] \in {"none", "finished"}

\* The decoder does not crash.
NoCrash == pc # "crashed"

\* It does so only on a file whose first scan lacks a component or, in the
\* parallel build, that ends before all bits are sent.
CrashExplained ==
    pc = "crashed" => scan_components < 3 \/ (parallel /\ ~FileComplete)

\* A finished decode shows a picture all of whose rows come from all the
\* coefficients the file sent, and from a table that was in force by then; in the
\* parallel build this is true of complete files.
PictureComplete ==
    pc = "done" /\ (parallel => FileComplete) =>
        \A r \in Rows, c \in Channels :
            /\ image[r][c].coeff = coeff[c][r]
            /\ image[r][c].table \in InForce(c)

\* Decoding ends: no join waits for ever, no worker polls for ever.
DecodeEnds == <>(pc = "done")

\* Whatever the build, this is the decoder that JpegDecode describes.  A row
\* counts as reconstructed when it holds all the bits and a table in force.
Good(c, row) == row.coeff = FullPrecision /\ row.table \in InForce(c)

Decode == INSTANCE JpegDecode WITH
    reconstructed <-
        {p \in Channels \X Rows : Good(p[1], out_block_downsampled[p[1]][p[2]])},
    converted <-
        {r \in Rows : \A c \in Channels : Good(c, image[r][c])}

\* Nothing is converted before all of it is reconstructed, nothing is
\* reconstructed or converted twice or taken back, on files of any kind.
StepsAsDecode == Decode!Safety

\* ... and on complete files it gets to the end.
ImplementsDecode == Decode!Spec

=============================================================================
