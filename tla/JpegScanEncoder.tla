--------------------------- MODULE JpegScanEncoder ---------------------------
(***************************************************************************)
(* The other side of the format: which scans a file may have, and which    *)
(* tokens a scan of given blocks may consist of (ITU-T T.81, annexes F and *)
(* G).  The repository has no encoder; this module says what the decoder   *)
(* of JpegProgressive must understand.                                     *)
(*                                                                         *)
(* Nothing is recursive: the tokens of a scan are laid out by the          *)
(* coefficient they belong to.  A symbol is put where the zeros it counts  *)
(* begin, a correction bit at its coefficient, the end of a band behind    *)
(* the last coded coefficient.                                             *)
(***************************************************************************)
EXTENDS JpegProgressive, SequencesExt

-----------------------------------------------------------------------------
(***************************************************************************)
(* Values                                                                  *)
(***************************************************************************)

\* The smallest number of bits that holds a magnitude.
SizeOf(v) == CHOOSE n \in 0 .. Abs(v) : 2^n > Abs(v) /\ \A m \in 0 .. n - 1 : 2^m <= Abs(v)

\* A value in its size: negative ones are stored less one, modulo 2^size.
ValueBits(v) == Bits(SizeOf(v), IF v < 0 THEN v + 2^SizeOf(v) - 1 ELSE v)

\* Nonzero before this scan, and nonzero for the first time in it.
Nonzero(v, i, s) == s.ah > 0 /\ PointTransform(v[i], i, s.ah) # 0
Coded(v, i, s) == PointTransform(v[i], i, s.al) # 0 /\ ~Nonzero(v, i, s)

-----------------------------------------------------------------------------
(***************************************************************************)
(* The AC coefficients of a block                                          *)
(***************************************************************************)

\* The AC coefficients of a scan are FirstAC(s) .. s.se.
FirstAC(s) == IF s.ss = 0 THEN 1 ELSE s.ss

LastCoded(v, s) ==
    LET S == {i \in FirstAC(s) .. s.se : Coded(v, i, s)}
    IN  IF S = {} THEN FirstAC(s) - 1 ELSE CHOOSE i \in S : \A j \in S : j <= i

\* The zeros before i that no symbol counts yet.  MaxRun + 1 of them are sent as
\* soon as they are complete.
Zeros(v, i, s) ==
    Cardinality({j \in FirstAC(s) .. i - 1 :
                    ~Nonzero(v, j, s) /\ \A m \in j .. i - 1 : ~Coded(v, m, s)})
        % (MaxRun + 1)

\* Does a symbol end with coefficient i?
EndsSymbol(v, i, s) == Coded(v, i, s) \/ (~Nonzero(v, i, s) /\ Zeros(v, i, s) = MaxRun)
BeginsSymbol(v, i, s) == i = FirstAC(s) \/ EndsSymbol(v, i - 1, s)

\* The symbol that begins with coefficient i, and the value it ends with.
SymbolFrom(v, i, s) ==
    LET end == CHOOSE e \in i .. LastCoded(v, s) :
                   EndsSymbol(v, e, s) /\ \A j \in i .. e - 1 : ~EndsSymbol(v, j, s)
        c == PointTransform(v[end], end, s.al)
    IN  IF Coded(v, end, s) THEN <<Symbol(Zeros(v, end, s), SizeOf(c)), ValueBits(c)>>
        ELSE <<Symbol(MaxRun, 0)>>

\* An end-of-band symbol for a run of n blocks.
EndOfBand(n) ==
    LET r == SizeOf(n) - 1
    IN  <<Symbol(r, 0)>> \o (IF r = 0 THEN <<>> ELSE <<Bits(r, n - 2^r)>>)

\* n blocks end behind the last coded coefficient of this one, if n > 0.
SymbolTokens(v, i, s, n) ==
    IF i <= LastCoded(v, s) THEN IF BeginsSymbol(v, i, s) THEN SymbolFrom(v, i, s) ELSE <<>>
    ELSE IF i = LastCoded(v, s) + 1 /\ n > 0 THEN EndOfBand(n) ELSE <<>>

CorrectionTokens(v, i, s) ==
    IF Nonzero(v, i, s) THEN <<Bits(1, Abs(PointTransform(v[i], i, s.al)) % 2)>> ELSE <<>>

\* The n-th coefficient of the band is FirstAC(s) + n - 1.
BandTokens(v, s, n) ==
    [m \in 1 .. s.se + 1 - FirstAC(s) |->
        SymbolTokens(v, FirstAC(s) + m - 1, s, n) \o CorrectionTokens(v, FirstAC(s) + m - 1, s)]

-----------------------------------------------------------------------------
(***************************************************************************)
(* Scans                                                                   *)
(***************************************************************************)

DC(bs, s, b) == IF b = 0 THEN 0 ELSE PointTransform(bs[b][0], 0, s.al)

\* DC values are sent as differences, or refined by a bit.
DCTokens(bs, s, b) ==
    LET d == DC(bs, s, b) - DC(bs, s, b - 1)
    IN  IF s.ss > 0 THEN <<>>
        ELSE IF s.ah > 0 THEN <<Bits(1, DC(bs, s, b) % 2)>>
        ELSE <<Symbol(0, SizeOf(d))>> \o (IF d = 0 THEN <<>> ELSE <<ValueBits(d)>>)

\* How the blocks that end before the end of the band may be gathered into
\* runs: run[b] blocks from b on, or 0 if no run begins with block b.
Runs(bs, s) ==
    {run \in [1 .. Len(bs) -> 0 .. s.run] :
        \A b \in 1 .. Len(bs) :
            /\ run[b] > 0 =>
                   /\ b + run[b] - 1 <= Len(bs)
                   /\ LastCoded(bs[b], s) < s.se
                   /\ \A j \in b + 1 .. b + run[b] - 1 :
                          run[j] = 0 /\ LastCoded(bs[j], s) < FirstAC(s)
            /\ run[b] = 0 =>
                   \/ LastCoded(bs[b], s) = s.se
                   \/ \E a \in 1 .. b - 1 : a + run[a] > b}

ScanTokens(bs, s, run) ==
    [b \in 1 .. Len(bs) |-> DCTokens(bs, s, b) \o FlattenSeq(BandTokens(bs[b], s, run[b]))]

\* The tokens of scan s of the blocks bs.
Encodings(bs, s) == {FlattenSeq(ScanTokens(bs, s, run)) : run \in Runs(bs, s)}

\* The first scan of a coefficient sends its high bits, each later one the next
\* bit.  AC coefficients are sent together with the DC value only once and for
\* all, and without runs of blocks.
LegalScan(scans, n) ==
    LET s == scans[n]
        Sends(m, i) == i \in scans[m].ss .. scans[m].se
    IN  /\ s.run < 2^MaxRun
        /\ s.ss = 0 /\ s.se > 0 => s.ah = 0 /\ s.run = 1
        /\ s.ah > 0 => s.ah = s.al + 1
        /\ \A i \in s.ss .. s.se :
               IF s.ah = 0 THEN \A m \in 1 .. n - 1 : ~Sends(m, i)
               ELSE \E m \in 1 .. n - 1 :
                        /\ Sends(m, i) /\ scans[m].al = s.ah
                        /\ \A l \in m + 1 .. n - 1 : ~Sends(l, i)

\* As far as a file is not damaged, its scans are legal and hold what an encoder
\* may send.
ASSUME EncoderAssumption ==
    \A f \in Files : \A n \in DOMAIN f.script :
        (\A m \in 1 .. n : f.script[m].run > 0) =>
            /\ LegalScan(f.script, n)
            /\ Streams(f.blocks, f.script[n]) \subseteq Encodings(f.blocks, f.script[n])

=============================================================================
