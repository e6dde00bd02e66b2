----------------------------- MODULE JpegFrame -----------------------------
(***************************************************************************)
(* What the frame header of a three-component JPEG file says of the        *)
(* picture, and the order in which an encoder sends the blocks of each     *)
(* scan (T.81, A.1 and A.2): the other side of JpegPicture.                *)
(***************************************************************************)
EXTENDS Naturals, SequencesExt

CONSTANTS
    BlockSize,      \* samples along a side of a block (8)
    Frames          \* see FramesAssumption

Components == 0 .. 2
Parts == {"DC", "AC"}
IDsOfYCbCr == <<1, 2, 3>>

ASSUME BlockSizeAssumption == BlockSize \in {4 * k : k \in 1 .. 2}

\* factors: the two halves of each component's byte of sampling factors.
ASSUME FramesAssumption ==
    \A f \in Frames :
        /\ f.X \in Nat \ {0} /\ f.Y \in Nat \ {0}
        /\ f.factors \in [Components -> (1 .. 4) \X (1 .. 4)]
        /\ f.progressive \in BOOLEAN
        /\ f.precision \in {8, 12}
        /\ f.ids \in Seq(0 .. 15) /\ Len(f.ids) = 3

\* The first half counts samples across, the second down.
H(f, c) == f.factors[c][1]
V(f, c) == f.factors[c][2]

Largest(S) == CHOOSE n \in S : \A m \in S : m <= n
HMax(f) == Largest({H(f, c) : c \in Components})
VMax(f) == Largest({V(f, c) : c \in Components})

Ceil(n, d) == (n + d - 1) \div d

\* Blocks a component takes, across and down, and MCUs of all components.
BlocksAcross(f, c) == Ceil(Ceil(f.X * H(f, c), HMax(f)), BlockSize)
BlocksDown(f, c) == Ceil(Ceil(f.Y * V(f, c), VMax(f)), BlockSize)
MCUsAcross(f) == Ceil(f.X, BlockSize * HMax(f))
MCUsDown(f) == Ceil(f.Y, BlockSize * VMax(f))

\* Where the file sends all of it, a component may be sent alone.
NeedsNoPadding(f) ==
    \A c \in Components :
        /\ BlocksAcross(f, c) = MCUsAcross(f) * H(f, c)
        /\ BlocksDown(f, c) = MCUsDown(f) * V(f, c)

\* All components in one scan, or the DC parts of all and then the AC parts of one each.
Scans(f) ==
    IF f.progressive
    THEN <<[comps |-> <<0, 1, 2>>, parts |-> {"DC"}]>>
         \o [c \in 1 .. 3 |-> [comps |-> <<c - 1>>, parts |-> {"AC"}]]
    ELSE <<[comps |-> <<0, 1, 2>>, parts |-> Parts]>>

Block(c, col, row) == [comp |-> c, col |-> col, row |-> row]

\* Component c's blocks of MCU m, line by line.
BlocksOfMCU(f, m, c) ==
    [b \in 1 .. H(f, c) * V(f, c) |->
        Block(c, (m % MCUsAcross(f)) * H(f, c) + ((b - 1) % H(f, c)),
                 (m \div MCUsAcross(f)) * V(f, c) + ((b - 1) \div H(f, c)))]

\* The blocks of a scan: MCU by MCU, or line by line if it is of one component.
Stream(f, scan) ==
    IF Len(scan.comps) = 1
    THEN LET c == scan.comps[1]
         IN  [n \in 1 .. BlocksAcross(f, c) * BlocksDown(f, c) |->
                 Block(c, (n - 1) % BlocksAcross(f, c), (n - 1) \div BlocksAcross(f, c))]
    ELSE FlattenSeq([m \in 1 .. MCUsAcross(f) * MCUsDown(f) |->
             FlattenSeq([k \in DOMAIN scan.comps |-> BlocksOfMCU(f, m - 1, scan.comps[k])])])

\* The sample of component c at pixel <<x, y>>: both parts of its block, and its
\* place in there.
SampleAt(f, c, x, y) ==
    LET across == (x * H(f, c)) \div HMax(f)
        down == (y * V(f, c)) \div VMax(f)
        block == Block(c, across \div BlockSize, down \div BlockSize)
    IN  [block |-> [p \in Parts |-> block],
         at |-> <<across % BlockSize, down % BlockSize>>]

=============================================================================
