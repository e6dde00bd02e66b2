------------------------- MODULE JpegParallelProofs -------------------------
(***************************************************************************)
(* Proofs about JpegParallel, for any number of rows, coefficients, bits   *)
(* and threads, and for all the files the model knows: no two threads are  *)
(* in one row, no worker sees a row that is not final, the threads of the  *)
(* conversion keep apart, and every step is one of JpegDecode's or none.   *)
(***************************************************************************)
EXTENDS JpegParallel, FiniteSetTheorems, TLAPS

-----------------------------------------------------------------------------
(***************************************************************************)
(* The inductive invariant                                                 *)
(***************************************************************************)

InScan(c) == pc \in {"rows", "publish"} /\ c \in scan.comps

\* The scan in progress has yet to decode row r of channel c.
Ahead(c, r) ==
    InScan(c) /\ (mcu_row < r \/ (pc = "rows" /\ mcu_row = r))

\* The precision of a coefficient once the scan in progress is over.
After(c, r, k) ==
    IF Ahead(c, r) /\ k \in Band(scan) THEN scan.al ELSE coeff[c][r][k]

FinalSet(c) == {k \in Coeffs : After(c, 0, k) = 0}

Complete(c) == channel_completeness[c] = CHANNEL_COMPLETE

\* A scan leaves every row of a channel with the same precisions, and improves
\* the precision of every coefficient it sends.
RowsInv ==
    pc # "crashed" =>
        \A c \in Channels, r \in Rows, k \in Coeffs :
            /\ After(c, r, k) = After(c, 0, k)
            /\ (Ahead(c, r) /\ k \in Band(scan)) => scan.al < coeff[c][r][k]

\* The sum kept for a channel is the weight of its fully decoded coefficients.
CompletenessInv ==
    (parallel /\ pc # "crashed") =>
        \A c \in Channels :
            channel_completeness[c] = Weight(FinalSet(c))

\* The rows published: none before the channel is complete, then those that its
\* last scan has decoded.
PublishedInv ==
    (parallel /\ pc # "crashed") =>
        \A c \in Channels :
            num_scans_parsed[c] =
                IF ~Complete(c) THEN 0
                ELSE IF ~InScan(c) THEN McuRows
                ELSE IF pc = "publish" /\ c \notin pending THEN mcu_row + 1
                ELSE mcu_row

LoopInv ==
    /\ pc \in {"rows", "publish"} => scan.ss <= scan.se
    /\ pc = "publish" =>
          /\ parallel
          /\ pending \subseteq {c \in scan.comps : Complete(c)}

\* What a call of process_channel may read.
Available(c) == IF parallel THEN num_scans_parsed[c] ELSE McuRows

CallInv ==
    \A c \in Channels :
        /\ scan_id_start[c] <= Available(c)
        /\ worker[c] = "none" => scan_id_start[c] = 0
        /\ worker[c] \in {"table", "rows"} =>
              /\ scan_id_start[c] < scan_id_end[c]
              /\ scan_id_end[c] <= Available(c)
              /\ ~parallel => scan_id_end[c] = McuRows
        /\ worker[c] = "rows" => scan_id[c] < scan_id_end[c]
        /\ \A r \in Rows :
              out_block_downsampled[c][r] # Nothing =>
                  r < Available(c) /\ worker[c] # "none"

SequentialInv ==
    /\ pc = "join" => parallel
    /\ pc = "process" => ~parallel
    /\ ~parallel =>
          \A c \in Channels :
              /\ worker[c] # "poll"
              /\ worker[c] # "none" =>
                    pc \in {"process", "convert", "converting", "done"}

IInv ==
    /\ TypeOK
    /\ RowsInv
    /\ CompletenessInv
    /\ PublishedInv
    /\ LoopInv
    /\ CallInv
    /\ SequentialInv
    /\ NoStaleRow

-----------------------------------------------------------------------------
(***************************************************************************)
(* Weights                                                                 *)
(***************************************************************************)

\* Weights are numbers, add up over disjoint sets, and tell the set of all the
\* coefficients from every other: "+1 for each component to allow component
\* with index 0 to be actively counted".
LEMMA WeightFacts ==
    ASSUME NEW S \in SUBSET Coeffs, NEW T \in SUBSET Coeffs
    PROVE  /\ Weight(S) \in Nat
           /\ S \cap T = {} => Weight(S \cup T) = Weight(S) + Weight(T)
           /\ Weight(S) = CHANNEL_COMPLETE => S = Coeffs
<1> DEFINE Pairs(U) == {p \in U \X Coeffs : p[2] <= p[1]}
<1>1. IsFiniteSet(Coeffs)
  BY SizeAssumption, FS_Interval DEF Coeffs
<1>2. IsFiniteSet(Coeffs \X Coeffs)
  BY <1>1, FS_Product
<1>3. ASSUME NEW U \in SUBSET Coeffs
      PROVE  /\ IsFiniteSet(Pairs(U))
             /\ Cardinality(Pairs(U)) \in Nat
  <2>1. Pairs(U) \subseteq Coeffs \X Coeffs
    BY DEF Pairs
  <2> QED
    BY <1>2, <2>1, FS_Subset, FS_CardinalityType
<1>4. \A U \in SUBSET Coeffs : Weight(U) = Cardinality(Pairs(U))
  BY DEF Weight
<1> HIDE DEF Pairs
<1>5. ASSUME S \cap T = {}
      PROVE  Weight(S \cup T) = Weight(S) + Weight(T)
  <2>1. Pairs(S \cup T) = Pairs(S) \cup Pairs(T)
    BY DEF Pairs
  <2>2. Pairs(S) \cap Pairs(T) = {}
    BY <1>5 DEF Pairs
  <2>3. Cardinality(Pairs(S) \cap Pairs(T)) = 0
    BY <2>2, FS_EmptySet
  <2>4. IsFiniteSet(Pairs(S)) /\ IsFiniteSet(Pairs(T))
    BY <1>3
  <2>5. Cardinality(Pairs(S) \cup Pairs(T)) =
            Cardinality(Pairs(S)) + Cardinality(Pairs(T))
                - Cardinality(Pairs(S) \cap Pairs(T))
    BY <2>4, FS_Union
  <2>6. /\ Weight(S) = Cardinality(Pairs(S))
        /\ Weight(T) = Cardinality(Pairs(T))
        /\ Weight(S \cup T) = Cardinality(Pairs(S \cup T))
    BY <1>4, S \cup T \in SUBSET Coeffs
  <2>7. Cardinality(Pairs(S)) \in Nat /\ Cardinality(Pairs(T)) \in Nat
    BY <1>3
  <2>8. Cardinality(Pairs(S) \cup Pairs(T)) =
            Cardinality(Pairs(S)) + Cardinality(Pairs(T))
    BY <2>3, <2>5, <2>7
  <2>9. Cardinality(Pairs(S \cup T)) =
            Cardinality(Pairs(S)) + Cardinality(Pairs(T))
    BY <2>1, <2>8, Zenon
  <2> QED
    BY <2>6, <2>9, Zenon
<1>6. ASSUME Weight(S) = CHANNEL_COMPLETE
      PROVE  S = Coeffs
  <2>1. Pairs(S) \subseteq Pairs(Coeffs)
    BY DEF Pairs
  <2>2. Pairs(S) = Pairs(Coeffs)
    BY <1>3, <1>4, <1>6, <2>1, FS_Subset DEF CHANNEL_COMPLETE
  <2>3. ASSUME NEW k \in Coeffs
        PROVE  k \in S
    <3>1. <<k, 0>> \in Pairs(Coeffs)
      BY SizeAssumption DEF Coeffs, Pairs
    <3> QED
      BY <2>2, <3>1 DEF Pairs
  <2> QED
    BY <2>3
<1> QED
  BY <1>3, <1>4, <1>5, <1>6

LEMMA WeightOfNothing == Weight({}) = 0
<1>1. {} \in SUBSET Coeffs /\ {} \cup {} = {} /\ {} \cap {} = {}
  OBVIOUS
<1>2. Weight({}) \in Nat /\ Weight({}) = Weight({}) + Weight({})
  BY <1>1, WeightFacts
<1> QED
  BY <1>2

LEMMA CompleteIsPositive == CHANNEL_COMPLETE \in Nat /\ CHANNEL_COMPLETE # 0
<1>1. {} \in SUBSET Coeffs /\ Coeffs \in SUBSET Coeffs /\ {} # Coeffs
  BY SizeAssumption DEF Coeffs
<1>2. CHANNEL_COMPLETE \in Nat
  BY <1>1, WeightFacts DEF CHANNEL_COMPLETE
<1> QED
  BY <1>1, <1>2, WeightFacts, WeightOfNothing

-----------------------------------------------------------------------------
(***************************************************************************)
(* The initial states                                                      *)
(***************************************************************************)

LEMMA Initial == Init => IInv
<1> SUFFICES ASSUME Init PROVE IInv
  OBVIOUS
<1> USE SizeAssumption
<1>1. /\ 0 \in Rows /\ 0 \in Coeffs /\ 0 \in Channels
      /\ 0 \in Precisions /\ NotSent \in Precisions /\ NotSent # 0
      /\ Nothing \in RowContents
  BY DEF Rows, Coeffs, Channels, Precisions, NotSent, Nothing, RowContents,
         FullPrecision
<1>2. TypeOK
  <2>1. scan \in [comps : SUBSET Channels, ss : Coeffs, se : Coeffs,
                  ah : Precisions, al : 0 .. MaxAl]
    BY <1>1 DEF Init
  <2> QED
    BY <1>1, <2>1 DEF Init, TypeOK
<1>3. \A c \in Channels, r \in Rows, k \in Coeffs : After(c, r, k) = NotSent
  BY DEF Init, After, Ahead, InScan
<1>4. RowsInv
  BY <1>1, <1>3 DEF Init, RowsInv, Ahead, InScan
<1>5. CompletenessInv
  <2>1. \A c \in Channels : FinalSet(c) = {}
    BY <1>1, <1>3 DEF FinalSet
  <2> QED
    BY <2>1, WeightOfNothing DEF Init, CompletenessInv
<1>6. PublishedInv
  BY CompleteIsPositive DEF Init, PublishedInv, Complete
<1>7. LoopInv /\ SequentialInv
  BY DEF Init, LoopInv, SequentialInv
<1>8. CallInv
  BY DEF Init, CallInv, Available
<1>9. NoStaleRow
  BY DEF Init, NoStaleRow
<1> QED
  BY <1>2, <1>4, <1>5, <1>6, <1>7, <1>8, <1>9 DEF IInv

-----------------------------------------------------------------------------
(***************************************************************************)
(* Frames: what a step that leaves the scan or the calls alone preserves   *)
(***************************************************************************)

ScanUnchanged ==
    /\ UNCHANGED <<parallel, scan, coeff, mcu_row, pending,
                   channel_completeness, num_scans_parsed>>
    /\ \/ pc' = pc
       \/ pc' = "crashed"
       \/ /\ pc \notin {"rows", "publish", "crashed"}
          /\ pc' \notin {"rows", "publish"}

LEMMA ScanFrame ==
    ASSUME IInv, ScanUnchanged
    PROVE  RowsInv' /\ CompletenessInv' /\ PublishedInv' /\ LoopInv'
<1>1. CASE pc' = "crashed"
  BY <1>1 DEF RowsInv, CompletenessInv, PublishedInv, LoopInv
<1>2. CASE pc' # "crashed"
  <2>1. pc # "crashed"
    BY <1>2 DEF ScanUnchanged
  <2>2. /\ \A c : InScan(c)' = InScan(c)
        /\ \A c, r : Ahead(c, r)' = Ahead(c, r)
        /\ Band(scan)' = Band(scan)
    BY <1>2 DEF ScanUnchanged, InScan, Ahead, Band
  <2>3. \A c, r, k : After(c, r, k)' = After(c, r, k)
    BY <2>2 DEF After, ScanUnchanged
  <2>4. \A c : FinalSet(c)' = FinalSet(c) /\ Complete(c)' = Complete(c)
    BY <2>3 DEF FinalSet, Complete, ScanUnchanged
  <2>5. RowsInv'
    BY <2>1, <2>2, <2>3 DEF IInv, RowsInv, ScanUnchanged
  <2>6. CompletenessInv'
    BY <2>1, <2>4 DEF IInv, CompletenessInv, ScanUnchanged
  <2>7. PublishedInv'
    BY <2>1, <2>2, <2>4 DEF IInv, PublishedInv, ScanUnchanged
  <2>8. LoopInv'
    BY <2>4, <1>2 DEF IInv, LoopInv, ScanUnchanged
  <2> QED
    BY <2>5, <2>6, <2>7, <2>8
<1> QED
  BY <1>1, <1>2

LEMMA CallFrame ==
    ASSUME IInv, UNCHANGED <<parallel, workers, num_scans_parsed>>
    PROVE  CallInv'
BY DEF IInv, CallInv, Available, workers

LEMMA StaleFrame ==
    ASSUME IInv, UNCHANGED <<coeff, out_block_downsampled>>
    PROVE  NoStaleRow'
BY DEF IInv, NoStaleRow

-----------------------------------------------------------------------------
(***************************************************************************)
(* Scans                                                                   *)
(***************************************************************************)

\* Between two scans the rows of a channel are alike.
LEMMA BetweenScans ==
    ASSUME IInv, pc = "segments",
           NEW c \in Channels, NEW r \in Rows, NEW k \in Coeffs
    PROVE  coeff[c][r][k] = Sent(c)[k]
BY DEF IInv, RowsInv, After, Ahead, InScan, Sent

\* A scan sends only coefficients of which it leaves fewer bits missing.
LEMMA ScansImprove ==
    ASSUME IInv, NEW s \in LegalScans,
           NEW c \in s.comps, NEW k \in Band(s)
    PROVE  s.al < Sent(c)[k]
<1> USE SizeAssumption
<1>1. /\ s \in Scans /\ Refines(s)
  BY DEF LegalScans
<1>2. /\ c \in Channels /\ k \in Coeffs /\ s.al \in 0 .. MaxAl
      /\ s.ah \in Precisions
  BY <1>1 DEF Scans, Band, Coeffs
<1> QED
  BY <1>1, <1>2 DEF Refines, NotSent, Precisions

\* A complete channel has every bit once the scan in progress is over.
LEMMA CompleteIsFinal ==
    ASSUME IInv, parallel, pc # "crashed", NEW c \in Channels, Complete(c),
           NEW r \in Rows, NEW k \in Coeffs
    PROVE  After(c, r, k) = 0
<1>1. FinalSet(c) \in SUBSET Coeffs
  BY DEF FinalSet
<1>2. Weight(FinalSet(c)) = CHANNEL_COMPLETE
  BY DEF IInv, CompletenessInv, Complete
<1>3. FinalSet(c) = Coeffs
  BY <1>1, <1>2, WeightFacts
<1> QED
  BY <1>3 DEF FinalSet, IInv, RowsInv

\* The scan in progress never rewrites a published row.
LEMMA PublishedIsDecoded ==
    ASSUME IInv, parallel, pc # "crashed", NEW c \in Channels,
           NEW r \in Rows, r < num_scans_parsed[c]
    PROVE  ~Ahead(c, r)
<1>1. r \in Nat /\ mcu_row \in Nat
  BY SizeAssumption DEF IInv, TypeOK, Rows
<1>2. num_scans_parsed[c] =
          IF ~Complete(c) THEN 0
          ELSE IF ~InScan(c) THEN McuRows
          ELSE IF pc = "publish" /\ c \notin pending THEN mcu_row + 1
          ELSE mcu_row
  BY DEF IInv, PublishedInv
<1>3. num_scans_parsed[c] # 0
  BY <1>1
<1>4. CASE ~InScan(c)
  BY <1>4 DEF Ahead
<1>5. CASE InScan(c) /\ pc = "publish" /\ c \notin pending
  BY <1>1, <1>2, <1>3, <1>5 DEF Ahead
<1>6. CASE InScan(c) /\ ~(pc = "publish" /\ c \notin pending)
  BY <1>1, <1>2, <1>3, <1>6 DEF Ahead
<1> QED
  BY <1>4, <1>5, <1>6

\* A complete channel is in the scan in progress only if that scan sends last
\* bits: it is the one the worker was started for.
LEMMA CompletingScan ==
    ASSUME IInv, parallel, pc = "rows", NEW c \in Channels, Complete(c),
           c \in scan.comps
    PROVE  Completes(scan)
<1>1. PICK k \in Band(scan) : TRUE
  BY DEF IInv, TypeOK, LoopInv, Band, Coeffs
<1>2. /\ k \in Coeffs /\ mcu_row \in Rows /\ mcu_row \in Nat
  <2>1. /\ scan.ss \in Coeffs /\ scan.se \in Coeffs /\ mcu_row \in Rows
    BY DEF IInv, TypeOK
  <2> QED
    BY <1>1, <2>1, SizeAssumption DEF Band, Coeffs, Rows
<1>3. Ahead(c, mcu_row)
  BY DEF Ahead, InScan
<1>4. After(c, mcu_row, k) = 0
  BY <1>2, CompleteIsFinal
<1> QED
  BY <1>1, <1>3, <1>4 DEF After, Completes

-----------------------------------------------------------------------------
(***************************************************************************)
(* SOS                                                                     *)
(***************************************************************************)

LEMMA StepParseSOS ==
    ASSUME IInv, NEW s \in LegalScans, ParseSOS(s)
    PROVE  IInv'
<1> USE SizeAssumption
<1>1. /\ s \in Scans /\ Refines(s)
      /\ s.comps \in SUBSET Channels /\ s.comps # {}
      /\ s.ss \in Coeffs /\ s.se \in Coeffs /\ s.ss <= s.se
      /\ s.al \in 0 .. MaxAl /\ s.ah \in Precisions
      /\ Band(s) \subseteq Coeffs
  <2>1. /\ s \in Scans /\ Refines(s)
        /\ s.ss = 0 \/ s.ss <= s.se
    BY DEF LegalScans
  <2>2. s.comps \in (SUBSET Channels) \ {{}}
    BY <2>1, SMT DEF Scans
  <2>3. /\ s.ss \in Coeffs /\ s.se \in Coeffs
        /\ s.al \in 0 .. MaxAl /\ s.ah \in Precisions
    BY <2>1, SMT DEF Scans
  <2>4. Band(s) \subseteq Coeffs /\ s.ss <= s.se
    BY <2>1, <2>3 DEF Band, Coeffs
  <2> QED
    BY <2>1, <2>2, <2>3, <2>4
<1>2. /\ pc = "segments" /\ pc' = "rows" /\ scan' = s /\ mcu_row' = 0
      /\ UNCHANGED <<parallel, coeff, pending, num_scans_parsed>>
  BY DEF ParseSOS
<1>3. \A c \in Channels, r \in Rows :
          Ahead(c, r)' <=> c \in s.comps
  BY <1>2 DEF Ahead, InScan, Rows
<1>4. \A c \in Channels, r \in Rows, k \in Coeffs :
          /\ After(c, r, k) = Sent(c)[k]
          /\ After(c, r, k)' =
                IF c \in s.comps /\ k \in Band(s) THEN s.al ELSE Sent(c)[k]
  BY <1>2, <1>3, BetweenScans DEF After, Ahead, InScan, Band
<1>5. 0 \in Rows /\ 0 \in Coeffs
  BY DEF Rows, Coeffs
<1>6. RowsInv'
  BY <1>2, <1>3, <1>4, <1>5, BetweenScans, ScansImprove DEF RowsInv, Band
<1>7. ASSUME parallel, NEW c \in Channels
      PROVE  /\ channel_completeness[c] = Weight(FinalSet(c))
             /\ channel_completeness'[c] = Weight(FinalSet(c)')
             /\ Complete(c) => c \notin s.comps
  <2>1. channel_completeness[c] = Weight(FinalSet(c))
    BY <1>2, <1>7 DEF IInv, CompletenessInv
  <2>2. FinalSet(c) = {k \in Coeffs : Sent(c)[k] = 0}
    BY <1>4, <1>5 DEF FinalSet
  <2>3. FinalSet(c)' =
            IF c \in s.comps /\ s.al = 0 THEN FinalSet(c) \cup Band(s)
            ELSE FinalSet(c)
    <3>1. \A k \in Band(s) : c \in s.comps => Sent(c)[k] # 0
      BY <1>1, ScansImprove
    <3> QED
      BY <1>1, <1>4, <1>5, <2>2, <3>1 DEF FinalSet
  <2>4. c \in s.comps => FinalSet(c) \cap Band(s) = {}
    BY <1>1, <2>2, ScansImprove
  <2>5. channel_completeness'[c] =
            channel_completeness[c] +
                IF s.al = 0 /\ c \in s.comps THEN Weight(Band(s)) ELSE 0
    BY <1>7 DEF ParseSOS, Completes
  <2>6. FinalSet(c) \in SUBSET Coeffs /\ Weight(FinalSet(c)) \in Nat
    BY WeightFacts DEF FinalSet
  <2>7. channel_completeness'[c] = Weight(FinalSet(c)')
    BY <1>1, <2>1, <2>3, <2>4, <2>5, <2>6, WeightFacts
  <2>8. Complete(c) => c \notin s.comps
    <3>1. SUFFICES ASSUME Complete(c), c \in s.comps PROVE FALSE
      OBVIOUS
    <3>2. FinalSet(c) = Coeffs
      BY <2>1, <2>6, <3>1, WeightFacts DEF Complete
    <3>3. s.ss \in Band(s)
      BY <1>1 DEF Band, Coeffs
    <3> QED
      BY <1>1, <2>4, <3>1, <3>2, <3>3
  <2> QED
    BY <2>1, <2>7, <2>8
<1>8. CompletenessInv'
  BY <1>2, <1>7 DEF CompletenessInv
<1>9. PublishedInv'
  <2>1. SUFFICES ASSUME parallel, NEW c \in Channels
                 PROVE  num_scans_parsed[c] =
                            IF ~Complete(c)' \/ InScan(c)' THEN 0 ELSE McuRows
    BY <1>2 DEF PublishedInv
  <2>2. num_scans_parsed[c] = IF Complete(c) THEN McuRows ELSE 0
    BY <1>2, <2>1 DEF IInv, PublishedInv, InScan
  <2>3. InScan(c)' <=> c \in s.comps
    BY <1>2 DEF InScan
  <2>4. c \notin s.comps => (Complete(c)' <=> Complete(c))
    <3>1. channel_completeness[c] \in Nat
      BY DEF IInv, TypeOK
    <3> QED
      BY <3>1 DEF ParseSOS, Complete
  <2> QED
    BY <1>7, <2>1, <2>2, <2>3, <2>4
<1>10. LoopInv'
  BY <1>1, <1>2 DEF LoopInv
<1>11. CallInv'
  BY <1>2 DEF ParseSOS, IInv, CallInv, Available
<1>12. SequentialInv'
  BY <1>2 DEF ParseSOS, Completes, IInv, SequentialInv
<1>13. NoStaleRow'
  BY <1>2, StaleFrame DEF ParseSOS
<1>14. TypeOK'
  <2>1. channel_completeness' \in [Channels -> Nat]
    <3>1. \A c \in Channels : channel_completeness[c] \in Nat
      BY DEF IInv, TypeOK
    <3>2. Weight(Band(s)) \in Nat
      BY <1>1, WeightFacts
    <3> QED
      BY <3>1, <3>2 DEF ParseSOS
  <2>2. worker' \in [Channels -> {"none", "poll", "table", "rows", "finished"}]
    BY DEF ParseSOS, IInv, TypeOK
  <2>3. scan_components' \in 0 .. 3
    <3>1. Cardinality(s.comps) \in 0 .. 3
      <4>1. /\ IsFiniteSet(0 .. 2)
            /\ Cardinality(0 .. 2) = IF 0 > 2 THEN 0 ELSE 2 - 0 + 1
        BY FS_Interval, 0 \in Int, 2 \in Int
      <4> QED
        BY <1>1, <4>1, FS_Subset, FS_CardinalityType DEF Channels
    <3> QED
      BY <3>1 DEF ParseSOS, IInv, TypeOK
  <2>4. mcu_row' \in Rows /\ scan' \in Scans
    BY <1>1, <1>2 DEF Rows
  <2> QED
    BY <2>1, <2>2, <2>3, <2>4
    DEF ParseSOS, IInv, TypeOK, Scans, conversion
<1> QED
  BY <1>6, <1>8, <1>9, <1>10, <1>11, <1>12, <1>13, <1>14 DEF IInv

-----------------------------------------------------------------------------
(***************************************************************************)
(* The row loop                                                            *)
(***************************************************************************)

\* Where the row loop leaves the scan when it goes on after mcu_row.
LEMMA RowAdvance ==
    ASSUME IInv, pc \in {"rows", "publish"}, NextRow, scan' = scan
    PROVE  /\ mcu_row' \in Rows
           /\ pc' \in {"rows", "segments"}
           /\ \A c \in Channels, r \in Rows :
                  Ahead(c, r)' <=> (c \in scan.comps /\ mcu_row < r)
<1>1. mcu_row \in Nat /\ mcu_row < McuRows /\ McuRows \in Nat
  BY SizeAssumption DEF IInv, TypeOK, Rows
<1>2. CASE mcu_row + 1 < McuRows
  BY <1>1, <1>2 DEF NextRow, Rows, Ahead, InScan
<1>3. CASE ~(mcu_row + 1 < McuRows)
  BY <1>1, <1>3 DEF NextRow, Rows, Ahead, InScan
<1> QED
  BY <1>2, <1>3

LEMMA StepDecodeRow ==
    ASSUME IInv, DecodeRow
    PROVE  IInv'
<1> USE SizeAssumption
<1>1. /\ pc = "rows"
      /\ UNCHANGED <<parallel, encoding_method, scan, scan_components,
                     quant_tables, sent_with, channel, channel_completeness,
                     num_scans_parsed, workers, conversion>>
  BY DEF DecodeRow, shared
<1>2. /\ mcu_row \in Nat /\ mcu_row \in Rows
      /\ scan.comps \in SUBSET Channels /\ scan.al \in 0 .. MaxAl
      /\ scan.ss <= scan.se /\ Band(scan) \subseteq Coeffs
  <2>1. /\ scan.ss \in Coeffs /\ scan.se \in Coeffs /\ mcu_row \in Rows
        /\ scan.comps \in SUBSET Channels /\ scan.al \in 0 .. MaxAl
    BY DEF IInv, TypeOK
  <2> QED
    BY <1>1, <2>1 DEF Band, Coeffs, Rows, IInv, LoopInv
<1>3. /\ mcu_row' \in Rows
      /\ pc' \in {"rows", "publish", "segments"}
      /\ \A c \in Channels, r \in Rows :
             Ahead(c, r)' <=> (c \in scan.comps /\ mcu_row < r)
  <2>1. CASE pending' = {}
    BY <1>1, <2>1, RowAdvance DEF DecodeRow
  <2>2. CASE pending' # {}
    BY <1>1, <1>2, <2>2 DEF DecodeRow, Ahead, InScan
  <2> QED
    BY <2>1, <2>2
<1>4. \A c \in Channels, r \in Rows :
          Ahead(c, r) <=> (c \in scan.comps /\ mcu_row <= r)
  BY <1>1, <1>2 DEF Ahead, InScan, Rows
<1>5. \A c \in Channels, r \in Rows, k \in Coeffs :
          coeff'[c][r][k] =
              IF c \in scan.comps /\ r = mcu_row /\ k \in Band(scan)
              THEN scan.al ELSE coeff[c][r][k]
  BY DEF DecodeRow
<1>6. \A c \in Channels, r \in Rows, k \in Coeffs :
          /\ After(c, r, k)' = After(c, r, k)
          /\ Ahead(c, r)' => Ahead(c, r) /\ coeff'[c][r][k] = coeff[c][r][k]
  <2> SUFFICES ASSUME NEW c \in Channels, NEW r \in Rows, NEW k \in Coeffs
               PROVE  /\ After(c, r, k)' = After(c, r, k)
                      /\ Ahead(c, r)' => /\ Ahead(c, r)
                                         /\ coeff'[c][r][k] = coeff[c][r][k]
    OBVIOUS
  <2>1. r \in Nat
    BY DEF Rows
  <2> QED
    BY <1>1, <1>2, <1>3, <1>4, <1>5, <2>1 DEF After, Band
<1>7. 0 \in Rows
  BY DEF Rows
<1>8. \A c \in Channels : Complete(c)' = Complete(c)
  BY <1>1 DEF Complete
<1>9. RowsInv'
  BY <1>1, <1>6, <1>7 DEF IInv, RowsInv, Band
<1>10. CompletenessInv'
  <2>1. \A c \in Channels : FinalSet(c)' = FinalSet(c)
    BY <1>6, <1>7 DEF FinalSet
  <2> QED
    BY <1>1, <2>1 DEF IInv, CompletenessInv
<1>11. PublishedInv'
  <2>1. SUFFICES ASSUME parallel, NEW c \in Channels
                 PROVE  (num_scans_parsed[c] =
                            IF ~Complete(c) THEN 0
                            ELSE IF ~InScan(c) THEN McuRows
                            ELSE IF pc = "publish" /\ c \notin pending
                                 THEN mcu_row + 1
                            ELSE mcu_row)'
    BY <1>1 DEF PublishedInv
  <2>2. num_scans_parsed[c] =
            IF ~Complete(c) THEN 0
            ELSE IF c \notin scan.comps THEN McuRows
            ELSE mcu_row
    BY <1>1, <2>1 DEF IInv, PublishedInv, InScan
  <2>3. CASE Complete(c) /\ c \in scan.comps
    <3>1. c \in pending'
      BY <1>1, <2>1, <2>3, CompletingScan DEF DecodeRow, Awaited, Complete
    <3>2. pc' = "publish" /\ mcu_row' = mcu_row
      BY <3>1 DEF DecodeRow
    <3> QED
      BY <1>1, <1>8, <2>2, <2>3, <3>1, <3>2 DEF InScan
  <2>4. CASE ~(Complete(c) /\ c \in scan.comps)
    BY <1>1, <1>8, <2>2, <2>4 DEF InScan
  <2> QED
    BY <2>3, <2>4
<1>12. LoopInv'
  <2>1. pc' = "publish" => pending' # {}
    BY <1>1, RowAdvance DEF DecodeRow
  <2> QED
    BY <1>1, <1>2, <2>1 DEF DecodeRow, Awaited, LoopInv, Completes, Complete
<1>13. CallInv'
  BY <1>1, CallFrame
<1>14. SequentialInv'
  BY <1>1, <1>3 DEF IInv, SequentialInv, workers
<1>15. NoStaleRow'
  <2>1. SUFFICES ASSUME NEW c \in Channels, NEW r \in Rows,
                        out_block_downsampled[c][r] # Nothing
                 PROVE  out_block_downsampled[c][r].coeff = coeff'[c][r]
    BY <1>1 DEF NoStaleRow, workers
  <2>2. parallel /\ r < num_scans_parsed[c]
    BY <1>1, <2>1 DEF IInv, CallInv, SequentialInv, Available
  <2>3. ~Ahead(c, r)
    BY <1>1, <2>2, PublishedIsDecoded
  <2>4. coeff'[c][r] = coeff[c][r]
    <3>1. ~(c \in scan.comps /\ r = mcu_row)
      BY <1>1, <2>3 DEF Ahead, InScan
    <3>2. coeff[c][r] \in [Coeffs -> Precisions]
      BY DEF IInv, TypeOK
    <3>3. coeff'[c][r] = [k \in Coeffs |-> coeff[c][r][k]]
      BY <3>1 DEF DecodeRow
    <3> QED
      BY <3>2, <3>3
  <2> QED
    BY <2>1, <2>4 DEF IInv, NoStaleRow
<1>16. TypeOK'
  <2>1. coeff' \in [Channels -> [Rows -> [Coeffs -> Precisions]]]
    <3>1. scan.al \in Precisions
      BY <1>2 DEF Precisions, NotSent
    <3>2. \A c \in Channels, r \in Rows, k \in Coeffs :
              coeff[c][r][k] \in Precisions
      BY DEF IInv, TypeOK
    <3> QED
      BY <3>1, <3>2 DEF DecodeRow
  <2>2. pending' \subseteq Channels
    BY <1>2 DEF DecodeRow
  <2> QED
    BY <1>1, <1>3, <2>1, <2>2 DEF IInv, TypeOK, workers, conversion
<1> QED
  BY <1>9, <1>10, <1>11, <1>12, <1>13, <1>14, <1>15, <1>16 DEF IInv

LEMMA StepPublishRow ==
    ASSUME IInv, NEW c \in Channels, PublishRow(c)
    PROVE  IInv'
<1> USE SizeAssumption
<1>1. /\ pc = "publish" /\ c \in pending /\ pending' = pending \ {c}
      /\ num_scans_parsed' = [num_scans_parsed EXCEPT ![c] = @ + 1]
      /\ UNCHANGED <<parallel, encoding_method, scan, scan_components, coeff,
                     quant_tables, sent_with, channel, channel_completeness,
                     workers, conversion>>
  BY DEF PublishRow, file
<1>2. /\ mcu_row \in Nat /\ mcu_row \in Rows /\ mcu_row < McuRows
      /\ parallel /\ c \in scan.comps /\ Complete(c)
      /\ scan.ss <= scan.se
  BY <1>1 DEF IInv, TypeOK, Rows, LoopInv
<1>3. /\ mcu_row' \in Rows
      /\ pc' \in {"rows", "publish", "segments"}
      /\ \A d \in Channels, r \in Rows : Ahead(d, r)' <=> Ahead(d, r)
  <2>1. \A d \in Channels, r \in Rows :
            Ahead(d, r) <=> (d \in scan.comps /\ mcu_row < r)
    BY <1>1 DEF Ahead, InScan
  <2>2. CASE pending' = {}
    BY <1>1, <2>1, <2>2, RowAdvance DEF PublishRow
  <2>3. CASE pending' # {}
    BY <1>1, <1>2, <2>1, <2>3 DEF PublishRow, Ahead, InScan
  <2> QED
    BY <2>2, <2>3
<1>4. \A d \in Channels, r \in Rows, k \in Coeffs :
          After(d, r, k)' = After(d, r, k)
  BY <1>1, <1>3 DEF After, Band
<1>5. 0 \in Rows /\ \A d \in Channels : Complete(d)' = Complete(d)
  BY <1>1 DEF Rows, Complete
<1>6. RowsInv'
  BY <1>1, <1>3, <1>4, <1>5 DEF IInv, RowsInv, Band
<1>7. CompletenessInv'
  <2>1. \A d \in Channels : FinalSet(d)' = FinalSet(d)
    BY <1>4, <1>5 DEF FinalSet
  <2> QED
    BY <1>1, <2>1 DEF IInv, CompletenessInv
<1>8. \A d \in Channels :
          num_scans_parsed[d] =
              IF ~Complete(d) THEN 0
              ELSE IF d \notin scan.comps THEN McuRows
              ELSE IF d \notin pending THEN mcu_row + 1
              ELSE mcu_row
  BY <1>1, <1>2 DEF IInv, PublishedInv, InScan
<1>9. \A d \in Channels :
          num_scans_parsed'[d] =
              IF ~Complete(d) THEN 0
              ELSE IF d \notin scan.comps THEN McuRows
              ELSE IF d \notin pending' THEN mcu_row + 1
              ELSE mcu_row
  <2>1. \A d \in Channels : num_scans_parsed'[d] =
            IF d = c THEN num_scans_parsed[d] + 1 ELSE num_scans_parsed[d]
    BY <1>1 DEF IInv, TypeOK
  <2> QED
    BY <1>1, <1>2, <1>8, <2>1
<1>10. PublishedInv'
  <2>1. CASE pending' # {}
    BY <1>1, <1>5, <1>9, <2>1 DEF PublishRow, PublishedInv, InScan
  <2>2. CASE pending' = {} /\ mcu_row + 1 < McuRows
    BY <1>1, <1>5, <1>9, <2>2 DEF PublishRow, NextRow, PublishedInv, InScan
  <2>3. CASE pending' = {} /\ ~(mcu_row + 1 < McuRows)
    <3>1. mcu_row + 1 = McuRows
      BY <1>2, <2>3
    <3> QED
      BY <1>1, <1>5, <1>9, <2>3, <3>1
      DEF PublishRow, NextRow, PublishedInv, InScan
  <2> QED
    BY <2>1, <2>2, <2>3
<1>11. LoopInv'
  <2>1. pending \subseteq {d \in scan.comps : Complete(d)}
    BY <1>1 DEF IInv, LoopInv
  <2>2. scan.comps \subseteq Channels
    BY DEF IInv, TypeOK
  <2> QED
    BY <1>1, <1>2, <1>5, <2>1, <2>2 DEF LoopInv
<1>12. \A d \in Channels : Available(d) <= Available(d)'
  <2>1. num_scans_parsed \in [Channels -> 0 .. McuRows]
    BY DEF IInv, TypeOK
  <2>2. \A d \in Channels :
            /\ num_scans_parsed[d] \in Nat /\ num_scans_parsed'[d] \in Nat
            /\ num_scans_parsed[d] <= num_scans_parsed'[d]
    BY <1>1, <2>1
  <2> QED
    BY <1>1, <1>2, <2>2 DEF Available
<1>13. CallInv'
  <2>1. \A d \in Channels :
            /\ Available(d) \in Nat /\ Available(d)' \in Nat
            /\ scan_id_start[d] \in Nat /\ scan_id_end[d] \in Nat
    <3>1. num_scans_parsed \in [Channels -> 0 .. McuRows]
      BY DEF IInv, TypeOK
    <3>2. \A d \in Channels :
              num_scans_parsed[d] \in Nat /\ num_scans_parsed'[d] \in Nat
      BY <1>1, <3>1
    <3>3. \A d \in Channels : scan_id_start[d] \in Nat /\ scan_id_end[d] \in Nat
      BY DEF IInv, TypeOK
    <3> QED
      BY <1>1, <1>2, <3>2, <3>3 DEF Available
  <2>2. \A r \in Rows : r \in Nat
    BY DEF Rows
  <2> QED
    BY <1>1, <1>2, <1>12, <2>1, <2>2 DEF IInv, CallInv, workers
<1>14. SequentialInv'
  BY <1>1, <1>2, <1>3 DEF SequentialInv
<1>15. NoStaleRow'
  BY <1>1, StaleFrame DEF workers
<1>16. TypeOK'
  <2>1. num_scans_parsed' \in [Channels -> 0 .. McuRows]
    <3>1. \A d \in Channels : num_scans_parsed'[d] \in 0 .. McuRows
      BY <1>2, <1>9
    <3> QED
      BY <1>1, <3>1 DEF IInv, TypeOK
  <2>2. pending' \subseteq Channels
    BY <1>1 DEF IInv, TypeOK
  <2> QED
    BY <1>1, <1>3, <2>1, <2>2 DEF IInv, TypeOK, workers, conversion
<1> QED
  BY <1>6, <1>7, <1>10, <1>11, <1>13, <1>14, <1>15, <1>16 DEF IInv

-----------------------------------------------------------------------------
(***************************************************************************)
(* The other segments, the joins and the conversion                        *)
(***************************************************************************)

\* Steps of the main thread that touch neither the scan nor the calls.
LEMMA MainFrame ==
    ASSUME IInv, ScanUnchanged, TypeOK',
           UNCHANGED workers,
           pc' = "join" => parallel, pc' = "process" => ~parallel,
           ~parallel => \/ \A c \in Channels : worker[c] = "none"
                        \/ pc' \in {"process", "convert", "converting", "done"}
    PROVE  IInv'
<1>1. CallInv'
  BY CallFrame DEF ScanUnchanged
<1>2. NoStaleRow'
  BY StaleFrame DEF ScanUnchanged, workers
<1>3. SequentialInv'
  BY DEF IInv, SequentialInv, ScanUnchanged, workers
<1> QED
  BY <1>1, <1>2, <1>3, ScanFrame DEF IInv

LEMMA SequentialIdle ==
    ASSUME IInv, ~parallel, pc \notin {"process", "convert", "converting", "done"}
    PROVE  \A c \in Channels : worker[c] = "none"
BY DEF IInv, SequentialInv

LEMMA StepNullScanMemory ==
    ASSUME IInv, NullScanMemory
    PROVE  IInv'
<1>1. ScanUnchanged /\ UNCHANGED workers
  BY DEF NullScanMemory, ScanUnchanged, file, shared
<1>2. TypeOK'
  BY DEF NullScanMemory, IInv, TypeOK, file, shared, workers, conversion
<1>3. ~parallel => \A c \in Channels : worker[c] = "none"
  BY SequentialIdle DEF NullScanMemory
<1> QED
  BY <1>1, <1>2, <1>3, MainFrame DEF NullScanMemory

LEMMA StepParseDQT ==
    ASSUME IInv, NEW users \in (SUBSET Channels) \ {{}}, ParseDQT(users)
    PROVE  IInv'
<1>1. ScanUnchanged /\ UNCHANGED workers
  BY DEF ParseDQT, ScanUnchanged, main, shared
<1>2. quant_tables' \in [Channels -> 0 .. MaxDqt]
  <2>1. /\ quant_tables \in [Channels -> 0 .. MaxDqt]
        /\ \A c \in users : quant_tables[c] < MaxDqt
    BY DEF IInv, TypeOK, ParseDQT
  <2>2. \A c \in Channels :
            quant_tables[c] + (IF c \in users THEN 1 ELSE 0) \in 0 .. MaxDqt
    BY <2>1, SizeAssumption
  <2> QED
    BY <2>2 DEF ParseDQT
<1>3. TypeOK'
  BY <1>2 DEF ParseDQT, IInv, TypeOK, main, shared, workers, conversion
<1>4. ~parallel => \A c \in Channels : worker[c] = "none"
  BY SequentialIdle DEF ParseDQT
<1> QED
  BY <1>1, <1>3, <1>4, MainFrame DEF ParseDQT, main, IInv, SequentialInv

LEMMA StepParseEOI ==
    ASSUME IInv, ParseEOI
    PROVE  IInv'
<1>1. ScanUnchanged /\ UNCHANGED workers
  BY DEF ParseEOI, ScanUnchanged, file, shared
<1>2. pc' \in {"join", "process"} /\ channel' \in Channels
  BY DEF ParseEOI, Channels
<1>3. TypeOK'
  BY <1>2 DEF ParseEOI, IInv, TypeOK, file, shared, workers, conversion
<1> QED
  BY <1>1, <1>3, MainFrame DEF ParseEOI

LEMMA ChannelAdvance ==
    ASSUME IInv, NextChannel
    PROVE  pc' \in {pc, "convert"} /\ channel' \in Channels
<1>1. channel \in 0 .. 2
  BY DEF IInv, TypeOK, Channels
<1> QED
  BY <1>1 DEF NextChannel, Channels

LEMMA StepJoinWorker ==
    ASSUME IInv, JoinWorker
    PROVE  IInv'
<1>1. /\ ScanUnchanged /\ UNCHANGED workers
      /\ pc' \in {pc, "convert"} /\ channel' \in Channels
  BY ChannelAdvance DEF JoinWorker, ScanUnchanged, file, shared
<1>2. TypeOK'
  BY <1>1 DEF JoinWorker, IInv, TypeOK, file, shared, workers, conversion
<1> QED
  BY <1>1, <1>2, MainFrame DEF JoinWorker, IInv, SequentialInv

LEMMA StepJoinNoWorker ==
    ASSUME IInv, JoinNoWorker
    PROVE  IInv'
<1>1. parallel
  BY DEF JoinNoWorker, IInv, SequentialInv
<1>2. /\ ScanUnchanged /\ UNCHANGED workers
      /\ pc' \in {pc, "convert", "crashed"} /\ channel' \in Channels
  <2>1. CASE pc' = "crashed" /\ UNCHANGED channel
    BY <2>1 DEF JoinNoWorker, ScanUnchanged, file, shared, IInv, TypeOK
  <2>2. CASE NextChannel
    BY <2>2, ChannelAdvance DEF JoinNoWorker, ScanUnchanged, file, shared
  <2> QED
    BY <2>1, <2>2 DEF JoinNoWorker
<1>3. TypeOK'
  BY <1>2 DEF JoinNoWorker, IInv, TypeOK, file, shared, workers, conversion
<1> QED
  BY <1>1, <1>2, <1>3, MainFrame DEF JoinNoWorker

\* The slices stay inside the image.
LEMMA SliceBounds ==
    \A i \in Converters :
        SliceStart(i) \in 0 .. McuRows /\ SliceEnd(i) \in 0 .. McuRows
<1> SUFFICES ASSUME NEW i \in Converters
             PROVE  SliceStart(i) \in 0 .. McuRows /\ SliceEnd(i) \in 0 .. McuRows
  OBVIOUS
<1> DEFINE n == ThreadCount
           q == McuRows \div n
<1>1. n \in Nat \ {0} /\ McuRows \in Nat /\ i \in 0 .. n - 1
  BY SizeAssumption DEF Converters, ThreadCount
<1>2. SliceStart(i) = i * q /\ SliceEnd(i) \in {McuRows, (i + 1) * q}
  BY DEF SliceStart, SliceEnd
<1> HIDE DEF n
<1>3. q \in Nat /\ n * q <= McuRows
  BY <1>1
<1> HIDE DEF q
<1>4. \A j \in 0 .. n : j * q \in Nat /\ j * q <= n * q
  BY <1>1, <1>3
<1> QED
  BY <1>1, <1>2, <1>3, <1>4

LEMMA StepStartConversion ==
    ASSUME IInv, StartConversion
    PROVE  IInv'
<1>1. ScanUnchanged /\ UNCHANGED workers
  BY DEF StartConversion, ScanUnchanged, file, shared
<1>2. converter' \in [0 .. NumThreads - 1 -> 0 .. McuRows]
  BY SliceBounds, SizeAssumption DEF StartConversion
<1>3. TypeOK'
  BY <1>2 DEF StartConversion, IInv, TypeOK, file, shared, workers
<1> QED
  BY <1>1, <1>3, MainFrame DEF StartConversion

LEMMA StepConvertRow ==
    ASSUME IInv, NEW i \in 0 .. NumThreads - 1, ConvertRow(i)
    PROVE  IInv'
<1>1. ScanUnchanged /\ UNCHANGED workers /\ pc' = pc
  BY DEF ConvertRow, ScanUnchanged, file, shared, main
<1>2. converter[i] \in Rows /\ converter[i] + 1 \in 0 .. McuRows
  <2>1. SliceEnd(i) \in 0 .. McuRows /\ converter[i] < SliceEnd(i)
    BY SliceBounds DEF ConvertRow
  <2>2. converter[i] \in 0 .. McuRows
    BY DEF IInv, TypeOK
  <2> QED
    BY <2>1, <2>2, SizeAssumption DEF Rows
<1>3. converter' \in [0 .. NumThreads - 1 -> 0 .. McuRows]
  BY <1>2 DEF ConvertRow, IInv, TypeOK
<1>4. image' \in [Rows -> [Channels -> RowContents]]
  <2>1. [c \in Channels |-> out_block_downsampled[c][converter[i]]]
            \in [Channels -> RowContents]
    BY <1>2 DEF IInv, TypeOK
  <2> QED
    BY <1>2, <2>1 DEF ConvertRow, IInv, TypeOK
<1>5. TypeOK'
  BY <1>3, <1>4 DEF ConvertRow, IInv, TypeOK, file, shared, workers, main
<1> QED
  BY <1>1, <1>5, MainFrame DEF ConvertRow

LEMMA StepJoinConverters ==
    ASSUME IInv, JoinConverters
    PROVE  IInv'
<1>1. ScanUnchanged /\ UNCHANGED workers
  BY DEF JoinConverters, ScanUnchanged, file, shared
<1>2. TypeOK'
  BY DEF JoinConverters, IInv, TypeOK, file, shared, workers, conversion
<1> QED
  BY <1>1, <1>2, MainFrame DEF JoinConverters

-----------------------------------------------------------------------------
(***************************************************************************)
(* process_channel                                                         *)
(***************************************************************************)

\* Steps of the calls: the scan stays, and so does the main thread.
LEMMA WorkerFrame ==
    ASSUME IInv,
           UNCHANGED <<parallel, file, main, shared>>
    PROVE  RowsInv' /\ CompletenessInv' /\ PublishedInv' /\ LoopInv'
<1>1. ScanUnchanged
  BY DEF ScanUnchanged, file, main, shared
<1> QED
  BY <1>1, ScanFrame

\* The numbers a call works with.
LEMMA CallNumbers ==
    ASSUME IInv, NEW c \in Channels
    PROVE  /\ Available(c) \in 0 .. McuRows
           /\ scan_id_start[c] \in 0 .. McuRows
           /\ scan_id_end[c] \in 0 .. McuRows
           /\ scan_id[c] \in 0 .. McuRows
           /\ McuRows \in Nat \ {0}
BY SizeAssumption DEF IInv, TypeOK, Available

LEMMA StepPoll ==
    ASSUME IInv, NEW c \in Channels, Poll(c)
    PROVE  IInv'
<1> USE SizeAssumption
<1>1. parallel /\ Available(c) = num_scans_parsed[c]
  BY DEF Poll, IInv, SequentialInv, Available
<1>2. /\ scan_id_end' = [scan_id_end EXCEPT ![c] = num_scans_parsed[c]]
      /\ worker' = [worker EXCEPT ![c] = "table"]
      /\ UNCHANGED <<parallel, file, main, shared, scan_id_start, scan_id,
                     table, out_block_downsampled, conversion>>
      /\ num_scans_parsed[c] # scan_id_start[c]
  BY DEF Poll, Published
<1>3. TypeOK'
  BY <1>2 DEF IInv, TypeOK, file, main, shared, conversion
<1>4. CallInv'
  <2>1. scan_id_start[c] < num_scans_parsed[c]
    BY <1>1, <1>2, CallNumbers DEF IInv, CallInv
  <2>2. \A d \in Channels : Available(d)' = Available(d)
    BY <1>2 DEF Available, shared
  <2>3. /\ worker \in [Channels -> {"none", "poll", "table", "rows", "finished"}]
        /\ scan_id_end \in [Channels -> 0 .. McuRows]
    BY DEF IInv, TypeOK
  <2>4. Available(c) <= Available(c)
    BY CallNumbers
  <2> QED
    BY <1>1, <1>2, <2>1, <2>2, <2>3, <2>4 DEF IInv, CallInv
<1>5. SequentialInv'
  BY <1>1, <1>2 DEF IInv, SequentialInv, main
<1>6. NoStaleRow'
  BY <1>2, StaleFrame DEF file
<1> QED
  BY <1>2, <1>3, <1>4, <1>5, <1>6, WorkerFrame DEF IInv

LEMMA StepProcessChannel ==
    ASSUME IInv, ProcessChannel
    PROVE  IInv'
<1> USE SizeAssumption
<1>1. /\ scan_id_end' = [scan_id_end EXCEPT ![channel] = McuRows]
      /\ worker' = [worker EXCEPT ![channel] = "table"]
      /\ UNCHANGED <<parallel, file, main, shared, scan_id_start, scan_id,
                     table, out_block_downsampled, conversion>>
      /\ pc = "process" /\ worker[channel] = "none"
  BY DEF ProcessChannel
<1>2. channel \in Channels
  BY DEF IInv, TypeOK
<1>3. TypeOK'
  BY <1>1, <1>2 DEF IInv, TypeOK, file, main, shared, conversion
<1>4. CASE ~parallel
  <2>1. CallInv'
    <3>1. scan_id_start[channel] = 0
      BY <1>1, <1>2 DEF IInv, CallInv
    <3>2. \A d \in Channels : Available(d)' = Available(d)
      BY <1>1 DEF Available, shared
    <3>3. /\ worker \in [Channels -> {"none", "poll", "table", "rows", "finished"}]
          /\ scan_id_end \in [Channels -> 0 .. McuRows]
      BY DEF IInv, TypeOK
    <3>4. Available(channel) = McuRows
      BY <1>4 DEF Available
    <3> QED
      BY <1>1, <1>2, <3>1, <3>2, <3>3, <3>4 DEF IInv, CallInv
  <2>2. SequentialInv'
    BY <1>1, <1>2 DEF IInv, SequentialInv, main
  <2>3. NoStaleRow'
    BY <1>1, StaleFrame DEF file
  <2> QED
    BY <1>1, <1>3, <2>1, <2>2, <2>3, WorkerFrame DEF IInv
<1> QED
  BY <1>1, <1>4 DEF IInv, SequentialInv

LEMMA StepCopyTable ==
    ASSUME IInv, NEW c \in Channels, CopyTable(c)
    PROVE  IInv'
<1> USE SizeAssumption
<1>1. /\ table' = [table EXCEPT ![c] = quant_tables[c]]
      /\ scan_id' = [scan_id EXCEPT ![c] = scan_id_start[c]]
      /\ worker' = [worker EXCEPT ![c] = "rows"]
      /\ UNCHANGED <<parallel, file, main, shared, scan_id_start, scan_id_end,
                     out_block_downsampled, conversion>>
      /\ worker[c] = "table"
  BY DEF CopyTable
<1>2. TypeOK'
  BY <1>1 DEF IInv, TypeOK, file, main, shared, conversion
<1>3. CallInv'
  <2>1. scan_id_start[c] < scan_id_end[c]
    BY <1>1 DEF IInv, CallInv
  <2>2. \A d \in Channels : Available(d)' = Available(d)
    BY <1>1 DEF Available, shared
  <2>3. /\ worker \in [Channels -> {"none", "poll", "table", "rows", "finished"}]
        /\ scan_id \in [Channels -> 0 .. McuRows]
    BY DEF IInv, TypeOK
  <2> QED
    BY <1>1, <2>1, <2>2, <2>3 DEF IInv, CallInv
<1>4. SequentialInv'
  BY <1>1 DEF IInv, TypeOK, SequentialInv, main
<1>5. NoStaleRow'
  BY <1>1, StaleFrame DEF file
<1> QED
  BY <1>1, <1>2, <1>3, <1>4, <1>5, WorkerFrame DEF IInv

LEMMA StepProcessRow ==
    ASSUME IInv, NEW c \in Channels, ProcessRow(c)
    PROVE  IInv'
<1> USE SizeAssumption
<1> DEFINE r == scan_id[c]
           row == [coeff |-> coeff[c][r], table |-> table[c]]
<1>1. /\ worker[c] = "rows"
      /\ out_block_downsampled' = [out_block_downsampled EXCEPT ![c][r] = row]
      /\ scan_id' = [scan_id EXCEPT ![c] = r + 1]
      /\ UNCHANGED <<parallel, file, main, shared, scan_id_end, table,
                     conversion>>
  BY DEF ProcessRow
<1>2. /\ scan_id_start[c] < scan_id_end[c]
      /\ scan_id_end[c] <= Available(c) /\ r < scan_id_end[c]
      /\ ~parallel => scan_id_end[c] = McuRows
  BY <1>1 DEF IInv, CallInv
<1>3. r \in Rows /\ r + 1 \in 0 .. McuRows /\ r < Available(c)
  BY <1>2, CallNumbers DEF Rows
<1>4. \/ /\ r + 1 < scan_id_end[c]
         /\ UNCHANGED <<worker, scan_id_start>>
      \/ /\ scan_id_start' = [scan_id_start EXCEPT ![c] = scan_id_end[c]]
         /\ \/ /\ worker' = [worker EXCEPT ![c] = "poll"]
               /\ parallel
            \/ worker' = [worker EXCEPT ![c] = "finished"]
  BY <1>2, CallNumbers DEF ProcessRow, TotalScans
<1>5. row \in RowContents
  <2>1. coeff \in [Channels -> [Rows -> [Coeffs -> Precisions]]]
    BY DEF IInv, TypeOK
  <2>2. coeff[c][r] \in [Coeffs -> Precisions]
    BY <1>3, <2>1
  <2>3. table[c] \in 0 .. MaxDqt + 1
    <3>1. table[c] \in 0 .. MaxDqt
      BY DEF IInv, TypeOK
    <3>2. MaxDqt \in Nat
      BY SizeAssumption
    <3> QED
      BY <3>1, <3>2
  <2>4. \A a \in [Coeffs -> Precisions], d \in 0 .. MaxDqt + 1 :
            [coeff |-> a, table |-> d] \in RowContents
    BY DEF RowContents
  <2> QED
    BY <2>2, <2>3, <2>4
<1> HIDE DEF r, row
<1>6. TypeOK'
  <2>1. out_block_downsampled' \in [Channels -> [Rows -> RowContents]]
    BY <1>1, <1>3, <1>5 DEF IInv, TypeOK
  <2>2. scan_id' \in [Channels -> 0 .. McuRows]
    BY <1>1, <1>3 DEF IInv, TypeOK
  <2>3. /\ worker' \in [Channels -> {"none", "poll", "table", "rows", "finished"}]
        /\ scan_id_start' \in [Channels -> 0 .. McuRows]
    BY <1>4, CallNumbers DEF IInv, TypeOK
  <2> QED
    BY <1>1, <2>1, <2>2, <2>3 DEF IInv, TypeOK, file, main, shared, conversion
<1>7. \A d \in Channels, x \in Rows :
          out_block_downsampled'[d][x] =
              IF d = c /\ x = r THEN row ELSE out_block_downsampled[d][x]
  BY <1>1, <1>3 DEF IInv, TypeOK
<1>8. CallInv'
  <2>1. \A d \in Channels : Available(d)' = Available(d)
    BY <1>1 DEF Available, shared
  <2>2. /\ worker \in [Channels -> {"none", "poll", "table", "rows", "finished"}]
        /\ scan_id \in [Channels -> 0 .. McuRows]
        /\ scan_id_start \in [Channels -> 0 .. McuRows]
    BY DEF IInv, TypeOK
  <2>3. \A d \in Channels \ {c} :
            /\ worker'[d] = worker[d] /\ scan_id_start'[d] = scan_id_start[d]
            /\ scan_id'[d] = scan_id[d] /\ scan_id_end'[d] = scan_id_end[d]
    BY <1>1, <1>4, <2>2
  <2>4. \A d \in Channels, x \in Rows :
            out_block_downsampled'[d][x] # Nothing =>
                x < Available(d)' /\ worker'[d] # "none"
    <3>1. worker'[c] # "none"
      BY <1>1, <1>4, <2>2
    <3> QED
      BY <1>1, <1>3, <1>7, <2>1, <2>3, <3>1 DEF IInv, CallInv
  <2>5. ASSUME NEW d \in Channels
        PROVE  /\ scan_id_start'[d] <= Available(d)'
               /\ worker'[d] = "none" => scan_id_start'[d] = 0
               /\ worker'[d] \in {"table", "rows"} =>
                     /\ scan_id_start'[d] < scan_id_end'[d]
                     /\ scan_id_end'[d] <= Available(d)'
                     /\ ~parallel' => scan_id_end'[d] = McuRows
               /\ worker'[d] = "rows" => scan_id'[d] < scan_id_end'[d]
    <3>1. CASE d # c
      BY <1>1, <2>1, <2>3, <3>1 DEF IInv, CallInv
    <3>2. CASE d = c /\ r + 1 < scan_id_end[c] /\ UNCHANGED <<worker, scan_id_start>>
      <4>1. scan_id_start[c] <= Available(c)
        BY DEF IInv, CallInv
      <4> QED
        BY <1>1, <1>2, <2>1, <2>2, <3>2, <4>1
    <3>3. CASE /\ d = c
               /\ scan_id_start' = [scan_id_start EXCEPT ![c] = scan_id_end[c]]
               /\ worker'[c] \in {"poll", "finished"}
      BY <1>1, <1>2, <2>1, <2>2, <3>3
    <3> QED
      BY <1>4, <2>2, <3>1, <3>2, <3>3
  <2> QED
    BY <2>4, <2>5 DEF CallInv
<1>9. SequentialInv'
  BY <1>1, <1>4 DEF IInv, TypeOK, SequentialInv, main
<1>10. NoStaleRow'
  <2>1. row.coeff = coeff[c][r]
    BY DEF row
  <2> QED
    BY <1>1, <1>7, <2>1 DEF IInv, NoStaleRow, file
<1> QED
  BY <1>1, <1>6, <1>8, <1>9, <1>10, WorkerFrame DEF IInv

-----------------------------------------------------------------------------
(***************************************************************************)
(* The theorems                                                            *)
(***************************************************************************)

LEMMA Stutter ==
    ASSUME IInv, UNCHANGED vars
    PROVE  IInv'
<1>1. UNCHANGED <<parallel, file, main, shared, workers, conversion>>
  BY DEF vars
<1>2. TypeOK'
  BY <1>1 DEF IInv, TypeOK, file, main, shared, workers, conversion
<1>3. ScanUnchanged
  BY <1>1 DEF ScanUnchanged, file, main, shared
<1>4. SequentialInv'
  BY <1>1 DEF IInv, SequentialInv, main, workers
<1>5. CallInv' /\ NoStaleRow'
  BY <1>1, CallFrame, StaleFrame DEF file, shared, workers
<1> QED
  BY <1>2, <1>3, <1>4, <1>5, ScanFrame DEF IInv

LEMMA Inductive == IInv /\ [Next]_vars => IInv'
<1> SUFFICES ASSUME IInv, [Next]_vars PROVE IInv'
  OBVIOUS
<1>1. CASE UNCHANGED vars
  BY <1>1, Stutter
<1>2. CASE \E s \in LegalScans : ParseSOS(s)
  BY <1>2, StepParseSOS
<1>3. CASE DecodeRow
  BY <1>3, StepDecodeRow
<1>4. CASE NullScanMemory
  BY <1>4, StepNullScanMemory
<1>5. CASE \E c \in Channels : PublishRow(c)
  BY <1>5, StepPublishRow
<1>6. CASE \E users \in (SUBSET Channels) \ {{}} : ParseDQT(users)
  BY <1>6, StepParseDQT
<1>7. CASE ParseEOI
  BY <1>7, StepParseEOI
<1>8. CASE ProcessChannel
  BY <1>8, StepProcessChannel
<1>9. CASE JoinWorker
  BY <1>9, StepJoinWorker
<1>10. CASE JoinNoWorker
  BY <1>10, StepJoinNoWorker
<1>11. CASE StartConversion
  BY <1>11, StepStartConversion
<1>12. CASE JoinConverters
  BY <1>12, StepJoinConverters
<1>13. CASE \E c \in Channels : Worker(c)
  BY <1>13, StepPoll, StepCopyTable, StepProcessRow, Stutter DEF Worker, Sleep
<1>14. CASE \E i \in 0 .. NumThreads - 1 : ConvertRow(i)
  BY <1>14, StepConvertRow
<1>15. CASE Stopped
  BY <1>15, Stutter DEF Stopped
<1> QED
  BY <1>1, <1>2, <1>3, <1>4, <1>5, <1>6, <1>7, <1>8, <1>9, <1>10, <1>11, <1>12,
     <1>13, <1>14, <1>15 DEF Next, Main

\* The strengthening that the theorems below rest on holds in every state.
THEOREM Invariance == Spec => []IInv
BY Initial, Inductive, PTL DEF Spec

\* Every variable keeps its type; in particular no counter of published rows
\* and no index of a call or of a conversion thread leaves the image.
THEOREM TypeCorrect == Spec => []TypeOK
<1>1. IInv => TypeOK
  BY DEF IInv
<1> QED
  BY <1>1, Invariance, PTL

\* The pipeline has no race on scan_memory: whatever the file's scans, the row
\* a worker reads is not the row the main thread writes.
THEOREM NoRace == Spec => []NoRowRace
<1>1. IInv => NoRowRace
  <2> SUFFICES ASSUME IInv, NEW c \in Channels,
                      pc = "rows", c \in scan.comps, worker[c] = "rows"
               PROVE  scan_id[c] # mcu_row
    BY DEF NoRowRace
  <2>1. parallel
    BY DEF IInv, SequentialInv
  <2>2. scan_id[c] < num_scans_parsed[c] /\ scan_id[c] \in Rows
    <3>1. /\ scan_id[c] < scan_id_end[c]
          /\ scan_id_end[c] <= Available(c)
      BY DEF IInv, CallInv
    <3> QED
      BY <2>1, <3>1, CallNumbers DEF Available, Rows
  <2>3. ~Ahead(c, scan_id[c])
    BY <2>1, <2>2, PublishedIsDecoded
  <2> QED
    BY <2>3 DEF Ahead, InScan
<1> QED
  BY <1>1, Invariance, PTL

\* What a worker has reconstructed is never decoded further: starting it when
\* the completeness sum is reached, and not earlier, is right for every file.
THEOREM RowsStayFresh == Spec => []NoStaleRow
<1>1. IInv => NoStaleRow
  BY DEF IInv
<1> QED
  BY <1>1, Invariance, PTL

-----------------------------------------------------------------------------
(***************************************************************************)
(* How the threads end, that those of the conversion keep apart, and that  *)
(* the picture is complete.  This rests on IInv, and adds to it CInv and   *)
(* TableInv.                                                               *)
(***************************************************************************)

\* A channel that is complete has its worker.
StartedInv ==
    (parallel /\ pc # "crashed") =>
        \A c \in Channels : Complete(c) => worker[c] # "none"

\* A call that has returned, or one that was never made.
HasEnded(c) == worker[c] = "finished" \/ (parallel /\ worker[c] = "none")

JoinedInv ==
    /\ pc \in {"join", "process"} => \A c \in Channels : c < channel => HasEnded(c)
    /\ pc \in {"convert", "converting", "done"} => \A c \in Channels : HasEnded(c)

\* The rows a channel's calls have been through so far.
IsDone(c, r) == r < scan_id_start[c] \/ (worker[c] = "rows" /\ r < scan_id[c])

RowsDoneInv ==
    \A c \in Channels :
        /\ worker[c] = "finished" => scan_id_start[c] = McuRows
        /\ \A r \in Rows : IsDone(c, r) => out_block_downsampled[c][r] # Nothing

\* A conversion thread is in its slice, and the rows behind it are converted.
SlicesInv ==
    pc \in {"converting", "done"} =>
        \A i \in Converters :
            /\ SliceStart(i) <= converter[i] /\ converter[i] <= SliceEnd(i)
            /\ pc = "done" => converter[i] = SliceEnd(i)
            /\ \A r \in Rows, c \in Channels :
                   SliceStart(i) <= r /\ r < converter[i] =>
                       image[r][c] = out_block_downsampled[c][r]

\* Calls use tables in force since their channel was last sent, and so have the
\* rows.
TableInv ==
    \A c \in Channels :
        /\ sent_with[c] <= quant_tables[c]
        /\ worker[c] = "rows" => table[c] \in InForce(c)
        /\ \A r \in Rows :
               out_block_downsampled[c][r] # Nothing =>
                   out_block_downsampled[c][r].table \in InForce(c)

CInv == StartedInv /\ JoinedInv /\ RowsDoneInv /\ CrashExplained /\ SlicesInv

-----------------------------------------------------------------------------
(***************************************************************************)
(* Slices                                                                  *)
(***************************************************************************)

LEMMA Bounds == \A r \in Rows : r < McuRows
BY SizeAssumption DEF Rows

\* The slices lie one behind the other and cover the rows.
LEMMA SliceFacts ==
    /\ \A i \in Converters :
           /\ SliceStart(i) \in Nat /\ SliceEnd(i) \in Nat
           /\ SliceStart(i) <= SliceEnd(i) /\ SliceEnd(i) <= McuRows
           /\ \A j \in Converters : i < j => SliceEnd(i) <= SliceStart(j)
    /\ \A r \in Rows : \E i \in Converters : SliceStart(i) <= r /\ r < SliceEnd(i)
<1>1. PICK n \in Nat \ {0} : n = ThreadCount /\ Converters = 0 .. n - 1
  <2>1. CASE parallel
    <3>1. ThreadCount = NumThreads /\ Converters = 0 .. NumThreads - 1
      BY <2>1 DEF Converters, ThreadCount
    <3> QED
      BY <3>1, SizeAssumption
  <2>2. CASE ~parallel
    <3>1. ThreadCount = 1 /\ Converters = {0} /\ {0} = 0 .. 1 - 1
      BY <2>2 DEF Converters, ThreadCount
    <3> QED
      BY <3>1
  <2> QED
    BY <2>1, <2>2
<1>2. PICK q \in Nat : q = McuRows \div n /\ n * q <= McuRows
  BY SizeAssumption
<1>3. \A i \in 0 .. n - 1 : /\ SliceStart(i) = i * q
                            /\ SliceEnd(i) = IF i = n - 1 THEN McuRows ELSE (i + 1) * q
  BY <1>1, <1>2 DEF SliceStart, SliceEnd
<1>4. \A i \in 0 .. n : \A j \in 0 .. n : i <= j => i * q <= j * q
  OBVIOUS
<1>5. McuRows \in Nat /\ \A i \in 0 .. n : i * q \in Nat /\ i * q <= McuRows
  BY <1>2, <1>4, SizeAssumption
<1>6. ASSUME NEW i \in Converters
      PROVE  /\ SliceStart(i) \in Nat /\ SliceEnd(i) \in Nat
             /\ SliceStart(i) <= SliceEnd(i) /\ SliceEnd(i) <= McuRows
             /\ \A j \in Converters : i < j => SliceEnd(i) <= SliceStart(j)
  <2>1. i \in 0 .. n - 1 /\ i \in 0 .. n /\ i + 1 \in 0 .. n
    BY <1>1
  <2>2. \A j \in 0 .. n - 1 : i < j => i # n - 1 /\ i + 1 <= j /\ j \in 0 .. n
    BY <2>1
  <2>3. i * q <= (i + 1) * q
    BY <1>4, <2>1
  <2>4. \A j \in 0 .. n - 1 : i < j => (i + 1) * q <= j * q
    BY <1>4, <2>1, <2>2
  <2>5. SliceStart(i) = i * q /\ SliceEnd(i) = IF i = n - 1 THEN McuRows ELSE (i + 1) * q
    BY <1>3, <2>1
  <2>6. /\ SliceStart(i) \in Nat /\ SliceEnd(i) \in Nat
        /\ SliceStart(i) <= SliceEnd(i) /\ SliceEnd(i) <= McuRows
    <3>1. i * q \in Nat /\ i * q <= McuRows /\ (i + 1) * q \in Nat /\ (i + 1) * q <= McuRows
      BY <1>5, <2>1
    <3> QED
      BY <1>5, <2>3, <2>5, <3>1
  <2>7. \A j \in Converters : i < j => SliceEnd(i) <= SliceStart(j)
    BY <1>1, <1>3, <2>2, <2>4, <2>5
  <2> QED
    BY <2>6, <2>7
<1>7. ASSUME NEW r \in Rows
      PROVE  \E i \in Converters : SliceStart(i) <= r /\ r < SliceEnd(i)
  <2>1. r \in Nat /\ r < McuRows
    BY <1>5 DEF Rows
  <2>2. CASE (n - 1) * q <= r
    <3>1. n - 1 \in 0 .. n - 1
      OBVIOUS
    <3> QED
      BY <1>1, <1>3, <2>1, <2>2, <3>1
  <2>3. CASE r < (n - 1) * q
    <3>1. q # 0
      BY <2>1, <2>3
    <3>2. PICK i \in Int : i = r \div q /\ i * q <= r /\ r < i * q + q
      BY <2>1, <3>1
    <3>3. 0 <= i
      BY <2>1, <3>1, <3>2
    <3>4. i < n - 1
      <4>1. SUFFICES ASSUME n - 1 <= i PROVE FALSE
        BY <3>2
      <4>2. (n - 1) * q <= i * q
        BY <4>1
      <4> QED
        BY <2>1, <2>3, <3>2, <4>2
    <3>5. i \in 0 .. n - 1 /\ i # n - 1 /\ (i + 1) * q = i * q + q
      BY <3>3, <3>4
    <3> QED
      BY <1>1, <1>3, <3>2, <3>5
  <2> QED
    BY <2>1, <2>2, <2>3
<1> QED
  BY <1>6, <1>7

-----------------------------------------------------------------------------
(***************************************************************************)
(* Steps                                                                   *)
(***************************************************************************)

LEMMA InitialC == Init => CInv /\ TableInv
<1> SUFFICES ASSUME Init PROVE CInv /\ TableInv
  OBVIOUS
<1>1. \A c \in Channels : ~Complete(c)
  BY CompleteIsPositive DEF Init, Complete
<1>2. StartedInv /\ JoinedInv /\ CrashExplained /\ SlicesInv
  BY <1>1 DEF Init, StartedInv, JoinedInv, CrashExplained, SlicesInv
<1>3. RowsDoneInv
  <2>1. \A c \in Channels : worker[c] = "none" /\ scan_id_start[c] = 0
    BY DEF Init
  <2>2. \A r \in Rows : ~(r < 0)
    BY DEF Rows
  <2> QED
    BY <2>1, <2>2 DEF RowsDoneInv, IsDone
<1>4. TableInv
  BY DEF Init, TableInv
<1> QED
  BY <1>2, <1>3, <1>4 DEF CInv

\* The steps that neither start a call nor take part in one.
SegmentStep ==
    \/ DecodeRow \/ NullScanMemory
    \/ \E c \in Channels : PublishRow(c)
    \/ \E users \in (SUBSET Channels) \ {{}} : ParseDQT(users)
    \/ ParseEOI

EndStep == JoinWorker \/ JoinNoWorker

ConversionStep ==
    StartConversion \/ JoinConverters \/ \E i \in 0 .. NumThreads - 1 : ConvertRow(i)

CallStep ==
    \/ ProcessChannel
    \/ \E c \in Channels : pc # "crashed" /\ (Poll(c) \/ CopyTable(c) \/ ProcessRow(c))

LEMMA StepKinds ==
    ASSUME [Next]_vars
    PROVE  \/ \E s \in LegalScans : ParseSOS(s)
           \/ SegmentStep \/ EndStep \/ ConversionStep \/ CallStep
           \/ UNCHANGED vars
BY DEF Next, Main, Worker, Sleep, Stopped, SegmentStep, EndStep, ConversionStep, CallStep

LEMMA SegmentFrame ==
    ASSUME IInv, SegmentStep
    PROVE  /\ UNCHANGED <<parallel, workers, conversion, scan_components, channel_completeness>>
           /\ pc \in {"segments", "rows", "publish"}
           /\ pc' \in {"segments", "rows", "publish", "join", "process", "crashed"}
           /\ pc' \in {"join", "process"} => channel' = 0
           /\ pc' = "crashed" => scan_components < 3
<1>1. CASE DecodeRow
  BY <1>1 DEF DecodeRow, NextRow, shared
<1>2. CASE NullScanMemory
  BY <1>2 DEF NullScanMemory, file, shared
<1>3. CASE \E c \in Channels : PublishRow(c)
  <2>1. PICK c \in Channels : PublishRow(c)
    BY <1>3
  <2> QED
    BY <2>1 DEF PublishRow, NextRow, file
<1>4. CASE \E users \in (SUBSET Channels) \ {{}} : ParseDQT(users)
  BY <1>4 DEF ParseDQT, main, shared
<1>5. CASE ParseEOI
  BY <1>5 DEF ParseEOI, file, shared
<1> QED
  BY <1>1, <1>2, <1>3, <1>4, <1>5 DEF SegmentStep

LEMMA EndFrame ==
    ASSUME IInv, EndStep
    PROVE  /\ UNCHANGED <<parallel, file, shared, workers, conversion>>
           /\ channel \in Channels /\ pc \in {"join", "process"}
           /\ pc' # "crashed" => HasEnded(channel)
           /\ pc' = "crashed" => parallel /\ worker[channel] = "none"
           /\ \/ pc' = pc /\ channel < 2 /\ channel' = channel + 1
              \/ pc' = "convert" /\ channel = 2
              \/ pc' = "crashed"
<1>1. channel \in Channels /\ (pc = "join" => parallel)
  BY DEF IInv, TypeOK, SequentialInv
<1>2. channel < 2 \/ channel = 2
  BY <1>1 DEF Channels
<1> QED
  BY <1>1, <1>2 DEF EndStep, JoinWorker, JoinNoWorker, NextChannel, HasEnded

LEMMA ConversionFrame ==
    ASSUME ConversionStep
    PROVE  /\ UNCHANGED <<parallel, file, shared, workers>>
           /\ pc \in {"convert", "converting"} /\ pc' \in {"converting", "done"}
BY DEF ConversionStep, StartConversion, JoinConverters, ConvertRow, main

LEMMA CallsFrame ==
    ASSUME IInv, CallStep
    PROVE  /\ UNCHANGED <<parallel, file, main, shared, conversion>>
           /\ pc # "crashed"
           /\ \A c \in Channels : worker[c] # "none" => worker'[c] # "none"
           /\ \A c \in Channels :
                  worker[c] = "finished" \/ (parallel /\ worker[c] = "none") =>
                      worker'[c] = worker[c]
<1>1. worker \in [Channels -> {"none", "poll", "table", "rows", "finished"}]
      /\ channel \in Channels /\ (pc = "process" => ~parallel)
  BY DEF IInv, TypeOK, SequentialInv
<1>2. CASE ProcessChannel
  BY <1>1, <1>2 DEF ProcessChannel
<1>3. ASSUME NEW c \in Channels, pc # "crashed", Poll(c) \/ CopyTable(c) \/ ProcessRow(c)
      PROVE  /\ UNCHANGED <<parallel, file, main, shared, conversion>>
             /\ \A d \in Channels \ {c} : worker'[d] = worker[d]
             /\ worker[c] \in {"poll", "table", "rows"} /\ worker'[c] # "none"
  BY <1>1, <1>3 DEF Poll, CopyTable, ProcessRow
<1>4. CASE ~ProcessChannel
  <2>1. PICK c \in Channels : pc # "crashed" /\ (Poll(c) \/ CopyTable(c) \/ ProcessRow(c))
    BY <1>4 DEF CallStep
  <2> QED
    BY <1>3, <2>1
<1> QED
  BY <1>2, <1>4

-----------------------------------------------------------------------------
(***************************************************************************)
(* How calls begin and end                                                 *)
(***************************************************************************)

\* Does the worker of every complete channel run?
LEMMA StartedStep ==
    ASSUME IInv, StartedInv, [Next]_vars
    PROVE  StartedInv'
<1>1. CASE \E s \in LegalScans : ParseSOS(s)
  <2>1. PICK s \in LegalScans : ParseSOS(s)
    BY <1>1
  <2>2. pc = "segments" /\ parallel' = parallel
    BY <2>1 DEF ParseSOS
  <2>3. ASSUME NEW c \in Channels, parallel, channel_completeness'[c] = CHANNEL_COMPLETE
        PROVE  worker'[c] # "none"
    <3>1. CASE Completes(s) /\ c \in s.comps
      BY <2>1, <2>3, <3>1 DEF ParseSOS
    <3>2. CASE ~(Completes(s) /\ c \in s.comps)
      <4>1. channel_completeness[c] \in Nat
        BY DEF IInv, TypeOK
      <4>2. channel_completeness'[c] = channel_completeness[c] /\ worker'[c] = worker[c]
        BY <2>1, <3>2, <4>1 DEF ParseSOS
      <4> QED
        BY <2>2, <2>3, <4>2 DEF StartedInv, Complete
    <3> QED
      BY <3>1, <3>2
  <2>4. CHANNEL_COMPLETE' = CHANNEL_COMPLETE
    BY DEF CHANNEL_COMPLETE, Weight, Coeffs
  <2> QED
    BY <2>2, <2>3, <2>4 DEF StartedInv, Complete
<1>2. CASE ~(\E s \in LegalScans : ParseSOS(s))
  <2>1. /\ UNCHANGED <<parallel, channel_completeness>>
        /\ \A c \in Channels : worker[c] # "none" => worker'[c] # "none"
        /\ pc' # "crashed" => pc # "crashed"
    <3>1. CASE SegmentStep
      BY <3>1, SegmentFrame DEF workers
    <3>2. CASE EndStep
      BY <3>2, EndFrame DEF workers, shared
    <3>3. CASE ConversionStep
      BY <3>3, ConversionFrame DEF workers, shared
    <3>4. CASE CallStep
      BY <3>4, CallsFrame DEF shared
    <3>5. CASE UNCHANGED vars
      BY <3>5 DEF vars, main, workers, shared
    <3> QED
      BY <1>2, <3>1, <3>2, <3>3, <3>4, <3>5, StepKinds
  <2> QED
    BY <2>1 DEF StartedInv, Complete
<1> QED
  BY <1>1, <1>2

LEMMA JoinedStep ==
    ASSUME IInv, JoinedInv, [Next]_vars
    PROVE  JoinedInv'
<1>1. CASE \E s \in LegalScans : ParseSOS(s)
  BY <1>1 DEF ParseSOS, JoinedInv
<1>2. CASE SegmentStep
  <2>1. \A c \in Channels : ~(c < 0)
    BY DEF Channels
  <2> QED
    BY <1>2, <2>1, SegmentFrame DEF JoinedInv
<1>3. CASE EndStep
  <2>1. /\ parallel' = parallel /\ worker' = worker
        /\ channel \in Channels /\ pc \in {"join", "process"}
        /\ pc' # "crashed" => HasEnded(channel)
        /\ \/ pc' = pc /\ channel < 2 /\ channel' = channel + 1
           \/ pc' = "convert" /\ channel = 2
           \/ pc' = "crashed"
    BY <1>3, EndFrame DEF workers
  <2>2. \A c \in Channels : HasEnded(c)' <=> HasEnded(c)
    BY <2>1 DEF HasEnded
  <2>3. \A c \in Channels : c < channel => HasEnded(c)
    BY <2>1 DEF JoinedInv
  <2>4. pc' # "crashed" => \A c \in Channels : c <= channel => HasEnded(c)
    BY <2>1, <2>3 DEF Channels
  <2> QED
    BY <2>1, <2>2, <2>4 DEF JoinedInv, Channels
<1>4. CASE ConversionStep
  BY <1>4, ConversionFrame DEF JoinedInv, HasEnded, workers
<1>5. CASE CallStep
  <2>1. pc' = pc /\ channel' = channel /\ parallel' = parallel
        /\ \A c \in Channels : HasEnded(c) => HasEnded(c)'
    BY <1>5, CallsFrame DEF main, HasEnded
  <2> QED
    BY <2>1 DEF JoinedInv
<1>6. CASE UNCHANGED vars
  BY <1>6 DEF JoinedInv, HasEnded, vars, main, workers
<1> QED
  BY <1>1, <1>2, <1>3, <1>4, <1>5, <1>6, StepKinds

\* A channel without a worker lacks bits, when no scan is in progress.
LEMMA NoWorkerNoFile ==
    ASSUME IInv, StartedInv, parallel, pc \notin {"rows", "publish", "crashed"},
           NEW c \in Channels, worker[c] = "none"
    PROVE  ~FileComplete
<1> SUFFICES ASSUME FileComplete PROVE FALSE
  OBVIOUS
<1>1. \A k \in Coeffs : After(c, 0, k) = 0
  BY DEF FileComplete, IsFinal, Sent, After, Ahead, InScan
<1>2. FinalSet(c) = Coeffs
  BY <1>1 DEF FinalSet
<1>3. Complete(c)
  BY <1>2 DEF IInv, CompletenessInv, Complete, CHANNEL_COMPLETE
<1> QED
  BY <1>3 DEF StartedInv

LEMMA CrashStep ==
    ASSUME IInv, StartedInv, CrashExplained, [Next]_vars
    PROVE  CrashExplained'
<1>1. CASE \E s \in LegalScans : ParseSOS(s)
  BY <1>1 DEF ParseSOS, CrashExplained
<1>2. CASE SegmentStep
  BY <1>2, SegmentFrame DEF CrashExplained
<1>3. CASE EndStep
  <2>1. /\ UNCHANGED <<parallel, file>>
        /\ channel \in Channels /\ pc \in {"join", "process"}
        /\ pc' = "crashed" => parallel /\ worker[channel] = "none"
    BY <1>3, EndFrame
  <2>2. pc' = "crashed" => parallel /\ ~FileComplete
    BY <2>1, NoWorkerNoFile
  <2>3. FileComplete' <=> FileComplete
    BY <2>1 DEF FileComplete, IsFinal, Sent, file
  <2> QED
    BY <2>1, <2>2, <2>3 DEF CrashExplained
<1>4. CASE ConversionStep
  BY <1>4, ConversionFrame DEF CrashExplained
<1>5. CASE CallStep
  BY <1>5, CallsFrame DEF CrashExplained, main
<1>6. CASE UNCHANGED vars
  BY <1>6 DEF CrashExplained, FileComplete, IsFinal, Sent, vars, main, file
<1> QED
  BY <1>1, <1>2, <1>3, <1>4, <1>5, <1>6, StepKinds

-----------------------------------------------------------------------------
(***************************************************************************)
(* What calls have done                                                    *)
(***************************************************************************)

\* The numbers of a call that is at a row.
LEMMA RowNumbers ==
    ASSUME IInv, NEW c \in Channels, ProcessRow(c)
    PROVE  /\ scan_id[c] \in Rows /\ scan_id_end[c] \in 0 .. McuRows
           /\ scan_id[c] < scan_id_end[c]
           /\ out_block_downsampled' =
                  [out_block_downsampled EXCEPT ![c][scan_id[c]] =
                      [coeff |-> coeff[c][scan_id[c]], table |-> table[c]]]
           /\ \A d \in Channels, x \in Rows :
                  out_block_downsampled'[d][x] =
                      IF d = c /\ x = scan_id[c]
                      THEN [coeff |-> coeff[c][scan_id[c]], table |-> table[c]]
                      ELSE out_block_downsampled[d][x]
<1>1. scan_id[c] < scan_id_end[c]
  BY DEF ProcessRow, IInv, CallInv
<1>2. /\ scan_id[c] \in 0 .. McuRows /\ scan_id_end[c] \in 0 .. McuRows
      /\ McuRows \in Nat \ {0}
  BY CallNumbers
<1>3. scan_id[c] \in Rows
  BY <1>1, <1>2 DEF Rows
<1>4. out_block_downsampled' =
          [out_block_downsampled EXCEPT ![c][scan_id[c]] =
              [coeff |-> coeff[c][scan_id[c]], table |-> table[c]]]
  BY DEF ProcessRow
<1>5. out_block_downsampled \in [Channels -> [Rows -> RowContents]]
  BY DEF IInv, TypeOK
<1> QED
  BY <1>1, <1>2, <1>3, <1>4, <1>5

LEMMA RowsDoneStep ==
    ASSUME IInv, RowsDoneInv, [Next]_vars
    PROVE  RowsDoneInv'
<1>1. CASE \E s \in LegalScans : ParseSOS(s)
  <2>1. PICK s \in LegalScans : ParseSOS(s)
    BY <1>1
  <2>2. /\ UNCHANGED <<scan_id_start, scan_id, out_block_downsampled>>
        /\ \A c \in Channels : worker'[c] \in {worker[c], "poll"}
    BY <2>1 DEF ParseSOS
  <2>3. \A c \in Channels : /\ worker'[c] = "finished" => worker[c] = "finished"
                            /\ worker'[c] = "rows" => worker[c] = "rows"
    BY <2>2
  <2> QED
    BY <2>2, <2>3 DEF RowsDoneInv, IsDone
<1>2. CASE SegmentStep \/ EndStep \/ ConversionStep \/ UNCHANGED vars
  <2>1. UNCHANGED workers
    BY <1>2, SegmentFrame, EndFrame, ConversionFrame DEF vars
  <2> QED
    BY <2>1 DEF RowsDoneInv, IsDone, workers
<1>3. CASE CallStep
  <2>1. /\ worker \in [Channels -> {"none", "poll", "table", "rows", "finished"}]
        /\ scan_id \in [Channels -> 0 .. McuRows] /\ scan_id_start \in [Channels -> 0 .. McuRows]
        /\ channel \in Channels
    BY DEF IInv, TypeOK
  <2>2. CASE ProcessChannel \/ \E c \in Channels : Poll(c)
    <3>1. /\ UNCHANGED <<scan_id_start, scan_id, out_block_downsampled>>
          /\ \A c \in Channels : worker'[c] \in {worker[c], "table"}
      BY <2>1, <2>2 DEF ProcessChannel, Poll
    <3>2. \A c \in Channels : /\ worker'[c] = "finished" => worker[c] = "finished"
                              /\ worker'[c] = "rows" => worker[c] = "rows"
      BY <3>1
    <3> QED
      BY <3>1, <3>2 DEF RowsDoneInv, IsDone
  <2>3. ASSUME NEW c \in Channels, CopyTable(c)
        PROVE  RowsDoneInv'
    <3>1. /\ UNCHANGED <<scan_id_start, out_block_downsampled>>
          /\ worker' = [worker EXCEPT ![c] = "rows"]
          /\ scan_id' = [scan_id EXCEPT ![c] = scan_id_start[c]]
      BY <2>3 DEF CopyTable
    <3>2. \A d \in Channels, r \in Rows :
              /\ worker'[d] = "finished" => worker[d] = "finished"
              /\ IsDone(d, r)' => IsDone(d, r)
      BY <2>1, <3>1 DEF IsDone
    <3> QED
      BY <3>1, <3>2 DEF RowsDoneInv
  <2>4. ASSUME NEW c \in Channels, ProcessRow(c)
        PROVE  RowsDoneInv'
    <3>1. PICK r \in Rows, e \in 0 .. McuRows :
              /\ r = scan_id[c] /\ e = scan_id_end[c] /\ r < e
              /\ \A d \in Channels, x \in Rows :
                     out_block_downsampled'[d][x] =
                         IF d = c /\ x = r THEN [coeff |-> coeff[c][r], table |-> table[c]]
                         ELSE out_block_downsampled[d][x]
      BY <2>4, RowNumbers
    <3>2. r \in Nat /\ e \in Nat /\ McuRows \in Nat
      BY <3>1, SizeAssumption DEF Rows
    <3>3. [coeff |-> coeff[c][r], table |-> table[c]] # Nothing
      <4>1. table[c] \in 0 .. MaxDqt
        BY DEF IInv, TypeOK
      <4> QED
        BY <4>1, SizeAssumption DEF Nothing
    <3>4. \A d \in Channels, x \in Rows :
              out_block_downsampled[d][x] # Nothing \/ (d = c /\ x = r) =>
                  out_block_downsampled'[d][x] # Nothing
      BY <3>1, <3>3
    <3>5. /\ worker[c] = "rows" /\ scan_id' = [scan_id EXCEPT ![c] = r + 1]
          /\ \/ r + 1 < e /\ UNCHANGED <<worker, scan_id_start>>
             \/ /\ ~(r + 1 < e)
                /\ scan_id_start' = [scan_id_start EXCEPT ![c] = e]
                /\ worker' = [worker EXCEPT ![c] = IF e < McuRows THEN "poll" ELSE "finished"]
      BY <2>4, <3>1 DEF ProcessRow, TotalScans
    <3>6. ASSUME NEW d \in Channels \ {c}
          PROVE  /\ worker'[d] = "finished" => scan_id_start'[d] = McuRows
                 /\ \A x \in Rows : IsDone(d, x)' => out_block_downsampled'[d][x] # Nothing
      <4>1. worker'[d] = worker[d] /\ scan_id_start'[d] = scan_id_start[d] /\ scan_id'[d] = scan_id[d]
        BY <2>1, <3>5
      <4> QED
        BY <3>4, <4>1 DEF RowsDoneInv, IsDone
    <3>7. ASSUME NEW x \in Rows, IsDone(c, x)'
          PROVE  out_block_downsampled'[c][x] # Nothing
      <4>1. scan_id_start[c] \in Nat /\ x \in Nat
        BY <2>1 DEF Rows
      <4>2. x < scan_id_start[c] \/ x < r + 1
        <5>1. CASE r + 1 < e /\ UNCHANGED <<worker, scan_id_start>>
          BY <2>1, <3>5, <3>7, <5>1 DEF IsDone
        <5>2. CASE /\ ~(r + 1 < e)
                   /\ scan_id_start' = [scan_id_start EXCEPT ![c] = e]
                   /\ worker' = [worker EXCEPT ![c] = IF e < McuRows THEN "poll" ELSE "finished"]
          <6>1. scan_id_start'[c] = e /\ worker'[c] # "rows"
            BY <2>1, <5>2
          <6> QED
            BY <3>1, <3>2, <3>7, <4>1, <5>2, <6>1 DEF IsDone
        <5> QED
          BY <3>5, <5>1, <5>2
      <4>3. x < scan_id_start[c] \/ x < r \/ x = r
        BY <3>2, <4>1, <4>2
      <4>4. IsDone(c, x) \/ x = r
        BY <3>1, <3>5, <4>3 DEF IsDone
      <4> QED
        BY <3>4, <4>4 DEF RowsDoneInv
    <3>8. worker'[c] = "finished" => scan_id_start'[c] = McuRows
      <4>1. CASE r + 1 < e /\ UNCHANGED <<worker, scan_id_start>>
        BY <3>5, <4>1
      <4>2. CASE /\ scan_id_start' = [scan_id_start EXCEPT ![c] = e]
                 /\ worker' = [worker EXCEPT ![c] = IF e < McuRows THEN "poll" ELSE "finished"]
        <5>1. scan_id_start'[c] = e /\ (worker'[c] = "finished" => ~(e < McuRows))
          BY <2>1, <4>2
        <5> QED
          BY <3>1, <3>2, <5>1
      <4> QED
        BY <3>5, <4>1, <4>2
    <3> QED
      BY <3>6, <3>7, <3>8 DEF RowsDoneInv
  <2> QED
    BY <1>3, <2>2, <2>3, <2>4 DEF CallStep
<1> QED
  BY <1>1, <1>2, <1>3, StepKinds

\* A channel of which a row is, or is being, reconstructed by a worker has all
\* its bits; only workers do that before the end of the file.
LEMMA InUseIsFinal ==
    ASSUME IInv, pc # "crashed", NEW c \in Channels,
           worker[c] = "rows" \/ \E r \in Rows : out_block_downsampled[c][r] # Nothing
    PROVE  /\ parallel => IsFinal(c)
           /\ pc = "segments" => parallel
<1>1. worker[c] # "none" /\ Available(c) # 0
  <2>1. CASE worker[c] = "rows"
    <3>1. scan_id[c] < scan_id_end[c] /\ scan_id_end[c] <= Available(c)
      BY <2>1 DEF IInv, CallInv
    <3> QED
      BY <2>1, <3>1, CallNumbers
  <2>2. CASE \E r \in Rows : out_block_downsampled[c][r] # Nothing
    <3>1. PICK r \in Rows : r < Available(c) /\ worker[c] # "none"
      BY <2>2 DEF IInv, CallInv
    <3> QED
      BY <3>1 DEF Rows
  <2> QED
    BY <2>1, <2>2
<1>2. ASSUME parallel
      PROVE  IsFinal(c)
  <2>1. Complete(c) /\ num_scans_parsed[c] # 0
    BY <1>1, <1>2 DEF Available, IInv, PublishedInv
  <2>2. 0 \in Rows /\ 0 < num_scans_parsed[c]
    <3>1. num_scans_parsed[c] \in 0 .. McuRows
      BY DEF IInv, TypeOK
    <3> QED
      BY <2>1, <3>1, SizeAssumption DEF Rows
  <2>3. ~Ahead(c, 0)
    BY <1>2, <2>2, PublishedIsDecoded
  <2>4. \A k \in Coeffs : After(c, 0, k) = 0
    BY <1>2, <2>1, <2>2, CompleteIsFinal
  <2> QED
    BY <2>3, <2>4 DEF IsFinal, Sent, After
<1>3. pc = "segments" => parallel
  BY <1>1 DEF IInv, SequentialInv
<1> QED
  BY <1>2, <1>3

LEMMA TableNumbers ==
    ASSUME IInv, NEW c \in Channels
    PROVE  sent_with[c] \in Nat /\ quant_tables[c] \in Nat /\ table[c] \in Nat
BY DEF IInv, TypeOK

\* Every scan sends something.
LEMMA LegalBand ==
    ASSUME NEW s \in LegalScans
    PROVE  s.al \in Nat /\ Band(s) \subseteq Coeffs /\ s.ss \in Band(s)
<1>1. /\ s.ss \in Coeffs /\ s.se \in Coeffs /\ s.al \in 0 .. MaxAl
      /\ s.ss = 0 \/ s.ss <= s.se
  BY DEF LegalScans, Scans
<1>2. s.ss <= s.se
  BY <1>1 DEF Coeffs
<1> QED
  BY <1>1, <1>2, SizeAssumption DEF Band, Coeffs

\* A scan is sent with the table now in force; its channels are not in use.
LEMMA TableOfScan ==
    ASSUME IInv, TableInv, NEW s \in LegalScans, ParseSOS(s)
    PROVE  TableInv'
<1>1. /\ UNCHANGED <<table, quant_tables, out_block_downsampled>>
      /\ pc = "segments"
      /\ \A c \in Channels :
             /\ worker'[c] \in {worker[c], "poll"}
             /\ sent_with'[c] = IF c \in s.comps THEN quant_tables[c] ELSE sent_with[c]
  BY DEF ParseSOS
<1>2. ASSUME NEW c \in Channels, c \in s.comps
      PROVE  worker[c] # "rows" /\ \A r \in Rows : out_block_downsampled[c][r] = Nothing
  <2>1. ~IsFinal(c)
    <3>1. PICK k \in Band(s) : TRUE
      BY LegalBand
    <3>2. s.al < Sent(c)[k] /\ s.al \in Nat /\ k \in Coeffs
      BY <1>2, <3>1, ScansImprove, LegalBand
    <3> QED
      BY <3>2 DEF IsFinal
  <2> QED
    BY <1>1, <2>1, InUseIsFinal
<1>3. ASSUME NEW c \in Channels
      PROVE  /\ sent_with'[c] <= quant_tables'[c]
             /\ worker'[c] = "rows" => table'[c] \in InForce(c)'
             /\ \A r \in Rows :
                    out_block_downsampled'[c][r] # Nothing =>
                        out_block_downsampled'[c][r].table \in InForce(c)'
  <2>1. CASE c \in s.comps
    BY <1>1, <1>2, <2>1, TableNumbers
  <2>2. CASE c \notin s.comps
    BY <1>1, <2>2 DEF TableInv, InForce
  <2> QED
    BY <2>1, <2>2
<1> QED
  BY <1>3 DEF TableInv, Nothing, FullPrecision, Coeffs, Channels, Rows

LEMMA TableStep ==
    ASSUME IInv, TableInv, [Next]_vars
    PROVE  TableInv'
<1>1. CASE \E s \in LegalScans : ParseSOS(s)
  BY <1>1, TableOfScan
<1>2. CASE \E users \in (SUBSET Channels) \ {{}} : ParseDQT(users)
  <2>1. PICK users \in (SUBSET Channels) \ {{}} : ParseDQT(users)
    BY <1>2
  <2>2. /\ UNCHANGED <<workers, sent_with>>
        /\ \A c \in Channels :
               quant_tables'[c] = quant_tables[c] + IF c \in users THEN 1 ELSE 0
    BY <2>1 DEF ParseDQT
  <2>3. \A c \in Channels : quant_tables'[c] \in Nat /\ quant_tables[c] <= quant_tables'[c]
    BY <2>2, TableNumbers
  <2>4. \A c \in Channels : InForce(c) \subseteq InForce(c)'
    BY <2>2, <2>3, TableNumbers DEF InForce
  <2>5. \A c \in Channels : sent_with'[c] <= quant_tables'[c]
    BY <2>2, <2>3, TableNumbers DEF TableInv
  <2> QED
    BY <2>2, <2>4, <2>5 DEF TableInv, workers
<1>3. CASE SegmentStep /\ ~\E users \in (SUBSET Channels) \ {{}} : ParseDQT(users)
  <2>1. UNCHANGED <<table, quant_tables, sent_with, out_block_downsampled, worker>>
    BY <1>3 DEF SegmentStep, DecodeRow, NullScanMemory, PublishRow, ParseEOI, file, workers
  <2> QED
    BY <2>1 DEF TableInv, InForce
<1>4. CASE EndStep \/ ConversionStep \/ UNCHANGED vars
  <2>1. UNCHANGED workers /\ UNCHANGED file
    BY <1>4, EndFrame, ConversionFrame DEF vars
  <2> QED
    BY <2>1 DEF TableInv, InForce, workers, file
<1>5. CASE CallStep
  <2>1. /\ worker \in [Channels -> {"none", "poll", "table", "rows", "finished"}]
        /\ table \in [Channels -> 0 .. MaxDqt]
        /\ channel \in Channels
    BY DEF IInv, TypeOK
  <2>2. CASE ProcessChannel \/ \E c \in Channels : Poll(c)
    <3>1. /\ UNCHANGED <<table, quant_tables, sent_with, out_block_downsampled>>
          /\ \A c \in Channels : worker'[c] \in {worker[c], "table"}
      BY <2>1, <2>2 DEF ProcessChannel, Poll, file
    <3>2. \A c \in Channels : worker'[c] = "rows" => worker[c] = "rows"
      BY <3>1
    <3> QED
      BY <3>1, <3>2 DEF TableInv, InForce
  <2>3. ASSUME NEW c \in Channels, CopyTable(c)
        PROVE  TableInv'
    <3>1. /\ UNCHANGED <<quant_tables, sent_with, out_block_downsampled>>
          /\ worker' = [worker EXCEPT ![c] = "rows"]
          /\ table' = [table EXCEPT ![c] = quant_tables[c]]
      BY <2>3 DEF CopyTable, file
    <3>2. quant_tables[c] \in InForce(c)
      BY TableNumbers DEF TableInv, InForce
    <3>3. \A d \in Channels : worker'[d] = "rows" => table'[d] \in InForce(d)
      BY <2>1, <3>1, <3>2 DEF TableInv
    <3> QED
      BY <3>1, <3>3 DEF TableInv, InForce
  <2>4. ASSUME NEW c \in Channels, ProcessRow(c)
        PROVE  TableInv'
    <3>1. /\ UNCHANGED <<table, quant_tables, sent_with>> /\ worker[c] = "rows"
          /\ \A d \in Channels : worker'[d] = "rows" => worker[d] = "rows"
      <4>1. /\ UNCHANGED <<table, quant_tables, sent_with>> /\ worker[c] = "rows"
            /\ \/ UNCHANGED worker
               \/ worker' = [worker EXCEPT ![c] = "poll"]
               \/ worker' = [worker EXCEPT ![c] = "finished"]
        BY <2>4 DEF ProcessRow, file
      <4> QED
        BY <2>1, <4>1
    <3>2. table[c] \in InForce(c)
      BY <3>1 DEF TableInv
    <3>3. \A d \in Channels, x \in Rows :
              out_block_downsampled'[d][x] # Nothing =>
                  out_block_downsampled'[d][x].table \in InForce(d)
      <4> DEFINE row == [coeff |-> coeff[c][scan_id[c]], table |-> table[c]]
      <4>1. \A d \in Channels, x \in Rows :
                out_block_downsampled'[d][x] =
                    IF d = c /\ x = scan_id[c] THEN row
                    ELSE out_block_downsampled[d][x]
        BY <2>4, RowNumbers
      <4>2. row.table \in InForce(c)
        BY <3>2
      <4>3. \A d \in Channels, x \in Rows :
                out_block_downsampled[d][x] # Nothing =>
                    out_block_downsampled[d][x].table \in InForce(d)
        BY DEF TableInv
      <4> HIDE DEF row
      <4> QED
        BY <4>1, <4>2, <4>3
    <3> QED
      BY <3>1, <3>3 DEF TableInv, InForce
  <2> QED
    BY <1>5, <2>2, <2>3, <2>4 DEF CallStep
<1> QED
  BY <1>1, <1>2, <1>3, <1>4, <1>5, StepKinds

-----------------------------------------------------------------------------
(***************************************************************************)
(* The colour conversion                                                   *)
(***************************************************************************)

LEMMA SlicesStep ==
    ASSUME IInv, JoinedInv, SlicesInv, [Next]_vars
    PROVE  SlicesInv'
<1>1. CASE (\E s \in LegalScans : ParseSOS(s)) \/ SegmentStep
  <2>1. pc' \notin {"converting", "done"}
    BY <1>1, SegmentFrame DEF ParseSOS
  <2> QED
    BY <2>1 DEF SlicesInv
<1>2. CASE EndStep
  <2>1. pc' \notin {"converting", "done"}
    BY <1>2, EndFrame
  <2> QED
    BY <2>1 DEF SlicesInv
<1>3. CASE CallStep
  <2>1. pc' = pc
    BY <1>3, CallsFrame DEF main
  <2>2. pc \notin {"converting", "done"}
    <3>1. CASE ProcessChannel
      BY <3>1 DEF ProcessChannel
    <3>2. ASSUME NEW c \in Channels, Poll(c) \/ CopyTable(c) \/ ProcessRow(c)
          PROVE  pc \notin {"converting", "done"}
      BY <3>2 DEF Poll, CopyTable, ProcessRow, JoinedInv, HasEnded
    <3> QED
      BY <1>3, <3>1, <3>2 DEF CallStep
  <2> QED
    BY <2>1, <2>2 DEF SlicesInv
<1>4. ASSUME UNCHANGED parallel
      PROVE  /\ Converters' = Converters
             /\ \A j : SliceStart(j)' = SliceStart(j) /\ SliceEnd(j)' = SliceEnd(j)
  BY <1>4 DEF Converters, SliceStart, SliceEnd, ThreadCount
<1>5. Converters \subseteq 0 .. NumThreads - 1
  BY SizeAssumption DEF Converters
<1>6. /\ converter \in [0 .. NumThreads - 1 -> 0 .. McuRows]
      /\ image \in [Rows -> [Channels -> RowContents]]
  BY DEF IInv, TypeOK
<1>7. CASE StartConversion
  <2>1. \A j \in Converters : converter'[j] = SliceStart(j)
    BY <1>5, <1>7 DEF StartConversion
  <2>2. \A j \in Converters : /\ SliceStart(j) \in Nat /\ SliceStart(j) <= SliceEnd(j)
                              /\ SliceStart(j) <= SliceStart(j)
    BY SliceFacts
  <2>3. \A j \in Converters, r \in Rows : ~(SliceStart(j) <= r /\ r < SliceStart(j))
    BY SliceFacts DEF Rows
  <2>4. pc' = "converting" /\ parallel' = parallel
    BY <1>7 DEF StartConversion
  <2> QED
    BY <1>4, <2>1, <2>2, <2>3, <2>4 DEF SlicesInv
<1>8. CASE JoinConverters
  <2>1. /\ pc = "converting" /\ \A j \in Converters : converter[j] >= SliceEnd(j)
        /\ UNCHANGED <<parallel, converter, image, out_block_downsampled>>
    BY <1>8 DEF JoinConverters, conversion, workers
  <2>2. \A j \in Converters : converter[j] = SliceEnd(j)
    <3>1. \A j \in Converters : converter[j] \in Nat /\ SliceEnd(j) \in Nat
      BY <1>5, <1>6, SliceFacts, SizeAssumption
    <3> QED
      BY <2>1, <3>1 DEF SlicesInv
  <2> QED
    BY <1>4, <2>1, <2>2 DEF SlicesInv
<1>9. CASE \E t \in 0 .. NumThreads - 1 : ConvertRow(t)
  <2>1. PICK t \in 0 .. NumThreads - 1 : ConvertRow(t)
    BY <1>9
  <2>2. /\ pc = "converting" /\ pc' = pc /\ t \in Converters /\ converter[t] < SliceEnd(t)
        /\ image' = [image EXCEPT ![converter[t]] =
                        [c \in Channels |-> out_block_downsampled[c][converter[t]]]]
        /\ converter' = [converter EXCEPT ![t] = converter[t] + 1]
        /\ UNCHANGED <<parallel, out_block_downsampled>>
    BY <2>1 DEF ConvertRow, main, workers
  <2>3. PICK m \in Rows : m = converter[t]
    <3>1. SliceEnd(t) \in Nat /\ SliceEnd(t) <= McuRows /\ converter[t] \in 0 .. McuRows
      BY <1>5, <1>6, <2>2, SliceFacts
    <3> QED
      BY <2>2, <3>1, SizeAssumption DEF Rows
  <2>4. \A r \in Rows, c \in Channels :
            image'[r][c] = IF r = m THEN out_block_downsampled[c][m] ELSE image[r][c]
    BY <1>6, <2>2, <2>3
  <2>5. ASSUME NEW j \in Converters
        PROVE  /\ SliceStart(j) <= converter'[j] /\ converter'[j] <= SliceEnd(j)
               /\ \A r \in Rows, c \in Channels :
                      SliceStart(j) <= r /\ r < converter'[j] =>
                          image'[r][c] = out_block_downsampled[c][r]
    <3>1. /\ SliceStart(j) \in Nat /\ SliceEnd(j) \in Nat /\ converter[j] \in Nat
          /\ SliceStart(j) <= converter[j] /\ converter[j] <= SliceEnd(j)
          /\ \A r \in Rows, c \in Channels :
                 SliceStart(j) <= r /\ r < converter[j] =>
                     image[r][c] = out_block_downsampled[c][r]
      BY <1>5, <1>6, <2>2, SliceFacts, SizeAssumption DEF SlicesInv
    <3>2. converter'[j] = IF j = t THEN m + 1 ELSE converter[j]
      BY <1>5, <1>6, <2>2, <2>3
    <3>3. \A r \in Rows : r < converter'[j] => r < converter[j] \/ r = m
      BY <2>3, <3>1, <3>2 DEF Rows
    <3>4. SliceStart(j) <= converter'[j] /\ converter'[j] <= SliceEnd(j)
      BY <2>2, <2>3, <3>1, <3>2
    <3> QED
      BY <2>4, <3>1, <3>3, <3>4
  <2>6. pc' # "done" /\ UNCHANGED <<parallel, out_block_downsampled>>
    BY <2>2
  <2>7. ASSUME NEW j \in Converters'
        PROVE  /\ SliceStart(j)' <= converter'[j] /\ converter'[j] <= SliceEnd(j)'
               /\ \A r \in Rows, c \in Channels :
                      SliceStart(j)' <= r /\ r < converter'[j] =>
                          image'[r][c] = out_block_downsampled'[c][r]
    BY <1>4, <2>5, <2>6, <2>7
  <2> QED
    BY <2>6, <2>7 DEF SlicesInv
<1>10. CASE UNCHANGED vars
  <2>1. UNCHANGED <<parallel, pc, converter, image, out_block_downsampled>>
    BY <1>10 DEF vars, main, conversion, workers
  <2> QED
    BY <1>4, <2>1 DEF SlicesInv
<1> QED
  BY <1>1, <1>2, <1>3, <1>7, <1>8, <1>9, <1>10, StepKinds DEF ConversionStep

-----------------------------------------------------------------------------
(***************************************************************************)
(* The theorems                                                            *)
(***************************************************************************)

\* What is known of the ends of threads and of the rows they have done holds
\* in every state.
THEOREM EndsInvariance == Spec => []CInv
<1>1. Init => CInv
  BY InitialC
<1>2. IInv /\ CInv /\ [Next]_vars => CInv'
  BY StartedStep, JoinedStep, RowsDoneStep, CrashStep, SlicesStep DEF CInv
<1> QED
  BY <1>1, <1>2, Invariance, PTL DEF Spec

\* Whatever the file, the decoder crashes only if the first scan lacks a
\* component, or if the parallel build is given a file that ends early: the
\* joins of parse_file find a worker for every channel of a complete file.
THEOREM CrashIsExplained == Spec => []CrashExplained
<1>1. CInv => CrashExplained
  BY DEF CInv
<1> QED
  BY <1>1, EndsInvariance, PTL

\* The slices that convert_colorspace hands to its threads keep apart for any
\* number of rows and threads, and no worker runs any more.
THEOREM PixelsKeptApart == Spec => []NoPixelRace
<1>1. IInv /\ CInv => NoPixelRace
  <2> SUFFICES ASSUME IInv, CInv, pc = "converting",
                      NEW m \in Converters, converter[m] < SliceEnd(m)
               PROVE  /\ \A j \in Converters \ {m} :
                            converter[j] < SliceEnd(j) => converter[m] # converter[j]
                      /\ \A c \in Channels : worker[c] \in {"none", "finished"}
    BY DEF NoPixelRace
  <2>1. \A j \in Converters :
            /\ SliceStart(j) <= converter[j] /\ converter[j] \in Nat
            /\ j \in Int
    <3>1. Converters \subseteq 0 .. NumThreads - 1
      BY SizeAssumption DEF Converters
    <3> QED
      BY <3>1, SizeAssumption DEF CInv, SlicesInv, IInv, TypeOK
  <2>2. ASSUME NEW j \in Converters \ {m}, converter[j] < SliceEnd(j)
        PROVE  converter[m] # converter[j]
    <3>1. /\ m < j => SliceEnd(m) <= SliceStart(j)
          /\ j < m => SliceEnd(j) <= SliceStart(m)
          /\ SliceEnd(m) \in Nat /\ SliceEnd(j) \in Nat
          /\ SliceStart(m) \in Nat /\ SliceStart(j) \in Nat
      BY SliceFacts
    <3>2. m < j \/ j < m
      BY <2>1
    <3> QED
      BY <2>1, <2>2, <3>1, <3>2
  <2>3. \A c \in Channels : worker[c] \in {"none", "finished"}
    BY DEF CInv, JoinedInv, HasEnded
  <2> QED
    BY <2>2, <2>3
<1> QED
  BY <1>1, Invariance, EndsInvariance, PTL

\* No row is dequantised with a table that was replaced before the last scan of
\* its channel, wherever the file defines tables.
THEOREM TablesInForce == Spec => []NoStaleTable
<1>1. Init => TableInv
  BY InitialC
<1>2. IInv /\ TableInv /\ [Next]_vars => TableInv'
  BY TableStep
<1>3. TableInv => NoStaleTable
  BY DEF TableInv, NoStaleTable
<1> QED
  BY <1>1, <1>2, <1>3, Invariance, PTL DEF Spec

\* A finished decode shows every row with all the coefficients of the file and a
\* table in force: in the sequential build always, in the parallel build if the
\* file is complete.
THEOREM PictureIsComplete == Spec => []PictureComplete
<1>1. IInv /\ CInv /\ NoStaleTable => PictureComplete
  <2> SUFFICES ASSUME IInv, CInv, NoStaleTable, pc = "done", parallel => FileComplete,
                      NEW r \in Rows, NEW c \in Channels
               PROVE  image[r][c].coeff = coeff[c][r] /\ image[r][c].table \in InForce(c)
    BY DEF PictureComplete
  <2>1. worker[c] = "finished"
    BY NoWorkerNoFile DEF CInv, JoinedInv, HasEnded
  <2>2. out_block_downsampled[c][r] # Nothing
    <3>1. scan_id_start[c] = McuRows
      BY <2>1 DEF CInv, RowsDoneInv
    <3>2. r < McuRows
      BY Bounds
    <3> QED
      BY <3>1, <3>2 DEF CInv, RowsDoneInv, IsDone
  <2>3. /\ out_block_downsampled[c][r].coeff = coeff[c][r]
        /\ out_block_downsampled[c][r].table \in InForce(c)
    BY <2>2 DEF NoStaleTable, IInv, NoStaleRow
  <2>4. image[r][c] = out_block_downsampled[c][r]
    <3>1. PICK j \in Converters : SliceStart(j) <= r /\ r < SliceEnd(j)
      BY SliceFacts
    <3> QED
      BY <3>1 DEF CInv, SlicesInv
  <2> QED
    BY <2>3, <2>4
<1> QED
  BY <1>1, Invariance, EndsInvariance, TablesInForce, PTL

-----------------------------------------------------------------------------
(***************************************************************************)
(* JpegParallel implements JpegDecode: the initial states are initial      *)
(* states of it, and every step of a thread is a step of it or changes     *)
(* nothing there.                                                          *)
(***************************************************************************)

\* What JpegDecode's variables stand for.
Reconstructed ==
    {p \in Channels \X Rows : Good(p[1], out_block_downsampled[p[1]][p[2]])}

Converted == {r \in Rows : \A c \in Channels : Good(c, image[r][c])}

\* The same sets without the tables, which are in force anyway.
Full(row) == row # Nothing /\ row.coeff = FullPrecision

FullRows == {p \in Channels \X Rows : Full(out_block_downsampled[p[1]][p[2]])}

FullPixels == {r \in Rows : \A c \in Channels : Full(image[r][c])}

Alike == Reconstructed = FullRows /\ Converted = FullPixels

\* Before the conversion there are no pixels; from then on those that there
\* are, are of what has been reconstructed.
ImageInv ==
    \A r \in Rows, c \in Channels :
        \/ image[r][c] = Nothing
        \/ pc \in {"converting", "done"} /\ image[r][c] = out_block_downsampled[c][r]

-----------------------------------------------------------------------------

\* Nothing is not of any table a file may have.
LEMMA NothingIsNotGood ==
    ASSUME IInv, NEW c \in Channels
    PROVE  ~Good(c, Nothing)
<1>1. sent_with[c] \in Nat /\ quant_tables[c] \in 0 .. MaxDqt
  BY DEF IInv, TypeOK
<1>2. MaxDqt + 1 \notin sent_with[c] .. quant_tables[c]
  BY <1>1, SizeAssumption
<1> QED
  BY <1>2 DEF Good, InForce, Nothing

LEMMA GoodIsFull ==
    ASSUME IInv, TableInv, NEW c \in Channels, NEW r \in Rows
    PROVE  Good(c, out_block_downsampled[c][r]) <=> Full(out_block_downsampled[c][r])
BY NothingIsNotGood DEF TableInv, Good, Full

LEMMA TablesAside == IInv /\ TableInv /\ ImageInv => Alike
<1> SUFFICES ASSUME IInv, TableInv, ImageInv PROVE Alike
  OBVIOUS
<1>1. Reconstructed = FullRows
  BY GoodIsFull DEF Reconstructed, FullRows
<1>2. ASSUME NEW r \in Rows, NEW c \in Channels
      PROVE  Good(c, image[r][c]) <=> Full(image[r][c])
  <2>1. CASE image[r][c] = Nothing
    BY <2>1, NothingIsNotGood DEF Full
  <2>2. CASE image[r][c] = out_block_downsampled[c][r]
    BY <2>2, GoodIsFull
  <2> QED
    BY <2>1, <2>2 DEF ImageInv
<1>3. Converted = FullPixels
  BY <1>2 DEF Converted, FullPixels
<1> QED
  BY <1>1, <1>3 DEF Alike

LEMMA FirstChannel == 0 \in Channels
  BY DEF Channels

\* The steps that leave reconstructed rows and pixels alone.
LEMMA QuietSteps ==
    ASSUME IInv, [Next]_vars,
           ~\E c \in Channels : ProcessRow(c),
           ~\E t \in 0 .. NumThreads - 1 : ConvertRow(t)
    PROVE  UNCHANGED <<out_block_downsampled, image>>
<1>1. CASE \E s \in LegalScans : ParseSOS(s)
  BY <1>1 DEF ParseSOS, conversion
<1>2. CASE SegmentStep
  BY <1>2, SegmentFrame DEF workers, conversion
<1>3. CASE EndStep
  BY <1>3, EndFrame DEF workers, conversion
<1>4. CASE StartConversion \/ JoinConverters
  BY <1>4 DEF StartConversion, JoinConverters, workers, conversion
<1>5. CASE ProcessChannel \/ \E c \in Channels : Poll(c) \/ CopyTable(c)
  BY <1>5 DEF ProcessChannel, Poll, CopyTable, conversion
<1>6. CASE UNCHANGED vars
  BY <1>6 DEF vars, workers, conversion
<1> QED
  BY <1>1, <1>2, <1>3, <1>4, <1>5, <1>6, StepKinds DEF ConversionStep, CallStep

\* Where every channel of one row is complete, every row is.
LEMMA RowsAreAlike ==
    ASSUME IInv, CInv, pc = "converting", NEW m \in Rows,
           \A c \in Channels : Full(out_block_downsampled[c][m])
    PROVE  \A c \in Channels, r \in Rows : Full(out_block_downsampled[c][r])
<1>1. \A c \in Channels : coeff[c][m] = FullPrecision
  BY DEF IInv, NoStaleRow, Full
<1>2. \A c \in Channels, r \in Rows, k \in Coeffs : coeff[c][r][k] = coeff[c][0][k]
  BY DEF IInv, RowsInv, After, Ahead, InScan
<1>3. \A c \in Channels, r \in Rows : coeff[c][r] = FullPrecision
  <2>1. \A c \in Channels, r \in Rows, k \in Coeffs : coeff[c][r][k] = 0
    BY <1>1, <1>2 DEF FullPrecision
  <2>2. coeff \in [Channels -> [Rows -> [Coeffs -> Precisions]]]
    BY DEF IInv, TypeOK
  <2>3. ASSUME NEW c \in Channels, NEW r \in Rows
        PROVE  coeff[c][r] = [k \in Coeffs |-> 0]
    <3>1. coeff[c][r] \in [Coeffs -> Precisions]
      BY <2>2
    <3> QED
      BY <2>1, <3>1
  <2> QED
    BY <2>3 DEF FullPrecision
<1>4. FileComplete
  <2>1. 0 \in Rows
    BY SizeAssumption DEF Rows
  <2> QED
    BY <1>3, <2>1 DEF FileComplete, IsFinal, Sent, FullPrecision
<1>5. ASSUME NEW c \in Channels, NEW r \in Rows
      PROVE  Full(out_block_downsampled[c][r])
  <2>1. worker[c] = "finished"
    BY <1>4, NoWorkerNoFile DEF CInv, JoinedInv, HasEnded
  <2>2. scan_id_start[c] = McuRows /\ r < McuRows
    BY <2>1, Bounds DEF CInv, RowsDoneInv
  <2>3. out_block_downsampled[c][r] # Nothing
    BY <2>2 DEF CInv, RowsDoneInv, IsDone
  <2> QED
    BY <1>3, <2>3 DEF IInv, NoStaleRow, Full
<1> QED
  BY <1>5

-----------------------------------------------------------------------------
(***************************************************************************)
(* Pixels                                                                  *)
(***************************************************************************)

\* Pixels appear in the conversion only, a row at a time.
LEMMA RowOfPixels ==
    ASSUME IInv, NEW t \in 0 .. NumThreads - 1, ConvertRow(t)
    PROVE  /\ pc = "converting" /\ pc' = pc
           /\ UNCHANGED out_block_downsampled
           /\ converter[t] \in Rows
           /\ \A r \in Rows, c \in Channels :
                  image'[r][c] = IF r = converter[t] THEN out_block_downsampled[c][r]
                                                     ELSE image[r][c]
<1>1. /\ pc = "converting" /\ pc' = pc /\ t \in Converters
      /\ converter[t] < SliceEnd(t)
      /\ image' = [image EXCEPT ![converter[t]] =
                      [c \in Channels |-> out_block_downsampled[c][converter[t]]]]
      /\ UNCHANGED out_block_downsampled
  BY DEF ConvertRow, main, workers
<1>2. converter[t] \in Rows
  <2>1. SliceEnd(t) \in Nat /\ SliceEnd(t) <= McuRows
    BY <1>1, SliceFacts
  <2>2. converter \in [0 .. NumThreads - 1 -> 0 .. McuRows]
    BY DEF IInv, TypeOK
  <2>3. converter[t] \in 0 .. McuRows
    BY <2>2
  <2> QED
    BY <1>1, <2>1, <2>3, SizeAssumption DEF Rows
<1>3. image \in [Rows -> [Channels -> RowContents]]
  BY DEF IInv, TypeOK
<1>4. \A r \in Rows, c \in Channels :
          image'[r][c] = IF r = converter[t] THEN out_block_downsampled[c][r]
                                             ELSE image[r][c]
  BY <1>1, <1>2, <1>3
<1> QED
  BY <1>1, <1>2, <1>4

LEMMA ImageStep ==
    ASSUME IInv, CInv, ImageInv, [Next]_vars
    PROVE  ImageInv'
<1>1. CASE \E t \in 0 .. NumThreads - 1 : ConvertRow(t)
  <2>1. PICK t \in 0 .. NumThreads - 1 : ConvertRow(t)
    BY <1>1
  <2> QED
    BY <2>1, RowOfPixels DEF ImageInv
<1>2. CASE ~\E t \in 0 .. NumThreads - 1 : ConvertRow(t)
  <2>1. image' = image
    <3>1. CASE \E c \in Channels : ProcessRow(c)
      BY <3>1 DEF ProcessRow, conversion
    <3> QED
      BY <1>2, <3>1, QuietSteps
  <2>2. CASE pc \in {"converting", "done"}
    <3>1. pc' \in {"converting", "done"} /\ out_block_downsampled' = out_block_downsampled
      <4>1. CASE \E s \in LegalScans : ParseSOS(s)
        BY <2>2, <4>1 DEF ParseSOS
      <4>2. CASE SegmentStep
        BY <2>2, <4>2, SegmentFrame
      <4>3. CASE EndStep
        BY <2>2, <4>3, EndFrame
      <4>4. CASE ConversionStep
        BY <4>4, ConversionFrame DEF workers
      <4>5. CASE CallStep
        <5>1. \A c \in Channels : ~ProcessRow(c)
          BY <2>2 DEF ProcessRow, CInv, JoinedInv, HasEnded
        <5>2. CASE ProcessChannel
          BY <2>2, <5>2 DEF ProcessChannel
        <5>3. CASE \E c \in Channels : Poll(c) \/ CopyTable(c)
          BY <2>2, <5>3 DEF Poll, CopyTable, main
        <5> QED
          BY <4>5, <5>1, <5>2, <5>3 DEF CallStep
      <4>6. CASE UNCHANGED vars
        BY <2>2, <4>6 DEF vars, main, workers
      <4> QED
        BY <4>1, <4>2, <4>3, <4>4, <4>5, <4>6, StepKinds
    <3> QED
      BY <2>1, <3>1 DEF ImageInv
  <2>3. CASE pc \notin {"converting", "done"}
    <3>1. \A r \in Rows, c \in Channels : image[r][c] = Nothing
      BY <2>3 DEF ImageInv
    <3>2. Nothing' = Nothing
      BY DEF Nothing, FullPrecision, Coeffs
    <3> QED
      BY <2>1, <3>1, <3>2 DEF ImageInv
  <2> QED
    BY <2>2, <2>3
<1> QED
  BY <1>1, <1>2

-----------------------------------------------------------------------------
(***************************************************************************)
(* Steps                                                                   *)
(***************************************************************************)

\* What a step of JpegDecode is, in terms of the decoder's rows.
LEMMA StepOfDecode ==
    ASSUME Alike, Alike',
           \/ UNCHANGED <<FullRows, FullPixels>>
           \/ /\ \E c \in Channels, r \in Rows :
                     <<c, r>> \notin FullRows /\ FullRows' = FullRows \cup {<<c, r>>}
              /\ UNCHANGED FullPixels
           \/ /\ FullRows = Channels \X Rows
              /\ \E r \in Rows : r \notin FullPixels /\ FullPixels' = FullPixels \cup {r}
              /\ UNCHANGED FullRows
    PROVE  [Decode!Next]_(Decode!vars)
<1>1. /\ Reconstructed = FullRows /\ Reconstructed' = FullRows'
      /\ Converted = FullPixels /\ Converted' = FullPixels'
  BY DEF Alike
<1>2. \/ UNCHANGED <<Reconstructed, Converted>>
      \/ /\ \E c \in Channels, r \in Rows :
                <<c, r>> \notin Reconstructed /\ Reconstructed' = Reconstructed \cup {<<c, r>>}
         /\ UNCHANGED Converted
      \/ /\ Reconstructed = Channels \X Rows
         /\ \E r \in Rows : r \notin Converted /\ Converted' = Converted \cup {r}
         /\ UNCHANGED Reconstructed
  BY <1>1
<1> QED
  BY <1>2 DEF Decode!Next, Decode!Reconstruct, Decode!Convert, Decode!vars,
              Reconstructed, Converted

\* A call leaves complete rows as they are, and may add one.
LEMMA DecodeProcessRow ==
    ASSUME IInv, NEW c \in Channels, ProcessRow(c)
    PROVE  /\ UNCHANGED FullPixels
           /\ \/ UNCHANGED FullRows
              \/ \E r \in Rows : /\ <<c, r>> \notin FullRows
                                 /\ FullRows' = FullRows \cup {<<c, r>>}
<1> DEFINE x == scan_id[c]
           row == [coeff |-> coeff[c][x], table |-> table[c]]
<1>1. UNCHANGED image /\ Nothing' = Nothing /\ FullPrecision' = FullPrecision
  BY DEF ProcessRow, conversion, Nothing, FullPrecision, Coeffs
<1>2. UNCHANGED FullPixels
  BY <1>1 DEF FullPixels, Full, Channels, Rows
<1>3. x \in Rows
  BY RowNumbers
<1>4. \A d \in Channels, r \in Rows :
          out_block_downsampled'[d][r] =
              IF d = c /\ r = x THEN row ELSE out_block_downsampled[d][r]
  BY RowNumbers
<1>5. Full(out_block_downsampled[c][x]) => Full(row)
  <2>1. row # Nothing
    <3>1. table[c] \in 0 .. MaxDqt
      BY DEF IInv, TypeOK
    <3>2. table[c] # MaxDqt + 1
      BY <3>1, SizeAssumption
    <3> QED
      BY <3>2 DEF Nothing
  <2> QED
    BY <1>3, <2>1 DEF IInv, NoStaleRow, Full
<1> HIDE DEF row, x
<1>6. \A p \in Channels \X Rows :
          p \in FullRows' <=> p \in FullRows \/ (p = <<c, x>> /\ Full(row))
  <2>1. ASSUME NEW d \in Channels, NEW r \in Rows
        PROVE  <<d, r>> \in FullRows' <=>
                   <<d, r>> \in FullRows \/ (<<d, r>> = <<c, x>> /\ Full(row))
    <3>1. <<d, r>> \in FullRows <=> Full(out_block_downsampled[d][r])
      BY DEF FullRows
    <3>2. <<d, r>> \in FullRows' <=> Full(out_block_downsampled'[d][r])
      BY <1>1 DEF FullRows, Full, Channels, Rows
    <3> QED
      BY <1>4, <1>5, <3>1, <3>2
  <2> QED
    BY <2>1
<1>7. FullRows \subseteq Channels \X Rows /\ FullRows' \subseteq Channels \X Rows
  BY DEF FullRows, Channels, Rows
<1>8. CASE Full(row) /\ <<c, x>> \notin FullRows
  <2>1. FullRows' = FullRows \cup {<<c, x>>}
    BY <1>3, <1>6, <1>7, <1>8
  <2> QED
    BY <1>2, <1>3, <1>8, <2>1
<1>9. CASE ~(Full(row) /\ <<c, x>> \notin FullRows)
  BY <1>2, <1>6, <1>7, <1>9
<1> QED
  BY <1>8, <1>9

\* A row of pixels is complete if every channel's row is, and then all rows are.
LEMMA DecodeConvertRow ==
    ASSUME IInv, CInv, ImageInv, NEW t \in 0 .. NumThreads - 1, ConvertRow(t)
    PROVE  /\ UNCHANGED FullRows
           /\ \/ UNCHANGED FullPixels
              \/ /\ FullRows = Channels \X Rows
                 /\ \E r \in Rows : r \notin FullPixels /\ FullPixels' = FullPixels \cup {r}
<1>1. PICK m \in Rows : m = converter[t]
  BY RowOfPixels
<1>2. /\ pc = "converting" /\ UNCHANGED out_block_downsampled
      /\ \A r \in Rows, c \in Channels :
             image'[r][c] = IF r = m THEN out_block_downsampled[c][r] ELSE image[r][c]
  BY <1>1, RowOfPixels
<1>3. Nothing' = Nothing /\ FullPrecision' = FullPrecision
  BY DEF Nothing, FullPrecision, Coeffs
<1>4. UNCHANGED FullRows
  BY <1>2, <1>3 DEF FullRows, Full, Channels, Rows
<1>5. \A r \in Rows :
          /\ r \in FullPixels <=> \A c \in Channels : Full(image[r][c])
          /\ r \in FullPixels' <=> \A c \in Channels : Full(image'[r][c])
  BY <1>3 DEF FullPixels, Full, Channels, Rows
<1>6. FullPixels \subseteq Rows /\ FullPixels' \subseteq Rows
  BY DEF FullPixels, Rows
<1>7. \A r \in Rows : r # m => (r \in FullPixels' <=> r \in FullPixels)
  BY <1>2, <1>5
<1>8. m \in FullPixels => m \in FullPixels'
  <2>1. ASSUME NEW c \in Channels, m \in FullPixels
        PROVE  Full(image'[m][c])
    <3>1. Full(image[m][c]) /\ image[m][c] # Nothing
      BY <1>5, <2>1 DEF Full
    <3>2. image[m][c] = out_block_downsampled[c][m]
      BY <3>1 DEF ImageInv
    <3> QED
      BY <1>2, <3>1, <3>2
  <2> QED
    BY <1>5, <2>1
<1>9. m \in FullPixels' => FullRows = Channels \X Rows
  <2>1. SUFFICES ASSUME m \in FullPixels' PROVE FullRows = Channels \X Rows
    OBVIOUS
  <2>2. \A c \in Channels : Full(out_block_downsampled[c][m])
    BY <1>2, <1>5, <2>1
  <2>3. \A c \in Channels, r \in Rows : Full(out_block_downsampled[c][r])
    BY <1>2, <2>2, RowsAreAlike
  <2> QED
    BY <2>3 DEF FullRows
<1>10. CASE m \in FullPixels' /\ m \notin FullPixels
  <2>1. FullPixels' = FullPixels \cup {m}
    BY <1>6, <1>7, <1>10
  <2> QED
    BY <1>4, <1>9, <1>10, <2>1
<1>11. CASE ~(m \in FullPixels' /\ m \notin FullPixels)
  <2>1. FullPixels' = FullPixels
    BY <1>6, <1>7, <1>8, <1>11
  <2> QED
    BY <1>4, <2>1
<1> QED
  BY <1>10, <1>11

LEMMA DecodeStep ==
    ASSUME IInv, CInv, ImageInv, Alike, Alike', [Next]_vars
    PROVE  [Decode!Next]_(Decode!vars)
<1>1. CASE \E c \in Channels : ProcessRow(c)
  BY <1>1, DecodeProcessRow, StepOfDecode
<1>2. CASE \E t \in 0 .. NumThreads - 1 : ConvertRow(t)
  BY <1>2, DecodeConvertRow, StepOfDecode
<1>3. CASE UNCHANGED <<out_block_downsampled, image>>
  <2>1. UNCHANGED <<FullRows, FullPixels>>
    BY <1>3 DEF FullRows, FullPixels, Full, Nothing, Channels, Rows, FullPrecision, Coeffs
  <2> QED
    BY <2>1, StepOfDecode
<1> QED
  BY <1>1, <1>2, <1>3, QuietSteps

-----------------------------------------------------------------------------
(***************************************************************************)
(* The theorem                                                             *)
(***************************************************************************)

\* Main thread, workers and conversion threads together, in both builds, do what
\* JpegDecode says, on files of any kind.
THEOREM DecodeImplemented == Spec => StepsAsDecode
<1>1. Init => Decode!Init /\ ImageInv
  <2> SUFFICES ASSUME Init PROVE Decode!Init /\ ImageInv
    OBVIOUS
  <2>1. IInv
    BY Initial
  <2>2. /\ \A c \in Channels, r \in Rows : out_block_downsampled[c][r] = Nothing
        /\ \A r \in Rows, c \in Channels : image[r][c] = Nothing
    BY DEF Init
  <2>3. \A c \in Channels : ~Good(c, Nothing)
    BY <2>1, NothingIsNotGood
  <2> QED
    BY <2>2, <2>3, FirstChannel DEF Decode!Init, ImageInv
<1>2. Init => IInv /\ CInv /\ TableInv
  BY Initial, InitialC
<1>3. IInv /\ CInv /\ TableInv /\ ImageInv /\ [Next]_vars
          => (IInv /\ CInv /\ TableInv /\ ImageInv)'
  <2> SUFFICES ASSUME IInv, CInv, TableInv, ImageInv, [Next]_vars
               PROVE  (IInv /\ CInv /\ TableInv /\ ImageInv)'
    OBVIOUS
  <2>1. IInv'
    BY Inductive
  <2>2. CInv'
    BY StartedStep, JoinedStep, RowsDoneStep, CrashStep, SlicesStep DEF CInv
  <2>3. TableInv'
    BY TableStep
  <2>4. ImageInv'
    BY ImageStep
  <2> QED
    BY <2>1, <2>2, <2>3, <2>4
<1>4. IInv /\ CInv /\ ImageInv /\ Alike /\ Alike' /\ [Next]_vars
          => [Decode!Next]_(Decode!vars)
  BY DecodeStep
<1> QED
  BY <1>1, <1>2, <1>3, <1>4, TablesAside, PTL DEF Spec, StepsAsDecode, Decode!Safety

=============================================================================
