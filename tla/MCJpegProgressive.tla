------------------------- MODULE MCJpegProgressive -------------------------
(***************************************************************************)
(* Small instances of JpegProgressive for TLC: blocks of five coefficients *)
(* and runs of at most two zeros.                                          *)
(***************************************************************************)
EXTENDS JpegScanEncoder, TLC

\* A block from the list of its coefficients.
Block(l) == [i \in 0 .. LastCoeff |-> l[i + 1]]

\* Blocks with and without coefficients to code, to refine and to end early;
\* runs of three zeros do not fit a symbol.
SomeBlocks ==
    {Block(<<0, 0, 0, 0, 0>>), Block(<<-3, 0, 0, 0, 1>>),
     Block(<<5, -1, 2, 0, -3>>), Block(<<1, 3, 0, -1, 0>>),
     Block(<<-2, 0, 0, 0, -2>>), Block(<<0, 1, -2, 3, 1>>),
     Block(<<7, 2, 0, 0, 0>>)}

S(ss, se, ah, al, run) == [ss |-> ss, se |-> se, ah |-> ah, al |-> al, run |-> run]

\* Baseline; spectral selection; successive approximation, of the DC value
\* too; with runs of ended blocks and without.
Scripts ==
    {<<S(0, LastCoeff, 0, 0, 1)>>,
     <<S(0, 0, 0, 0, 1), S(1, 2, 0, 0, 3), S(3, LastCoeff, 0, 0, 2)>>}
    \cup {<<S(0, 0, 0, 1, 1), S(1, LastCoeff, 0, 1, run), S(0, 0, 1, 0, 1),
            S(1, LastCoeff, 1, 0, run)>> : run \in {1, 3}}
    \cup {<<S(0, 0, 0, 2, 1), S(1, LastCoeff, 0, 2, 3), S(1, LastCoeff, 2, 1, 2),
            S(0, 0, 2, 1, 1), S(0, 0, 1, 0, 1), S(1, LastCoeff, 1, 0, 3)>>}

EncodedFiles ==
    [blocks : UNION {[1 .. n -> SomeBlocks] : n \in 1 .. 3}, script : Scripts]

\* The last scan of a file may be any few tokens: what a decoder that is out
\* of step, or given a damaged file, reads into its blocks.
DamagedFiles ==
    [blocks : [1 .. 2 -> {Block(<<-3, 0, 0, 0, 1>>), Block(<<5, -1, 2, 0, -3>>),
                          Block(<<1, 3, 0, -2, 2>>)}],
     script : {<<S(0, LastCoeff, 0, 0, 0)>>, <<S(2, 3, 0, 0, 0)>>,
               <<S(1, LastCoeff, 0, 1, 1), S(1, LastCoeff, 1, 0, 0)>>}]

AnyTokens ==
    {Symbol(r, n) : r \in 0 .. MaxRun, n \in 0 .. 1} \cup {Bits(1, v) : v \in 0 .. 1}

MCFiles == EncodedFiles \cup DamagedFiles

MCStreams(bs, s) ==
    IF s.run > 0 THEN Encodings(bs, s) ELSE UNION {[1 .. n -> AnyTokens] : n \in 0 .. 4}

=============================================================================
