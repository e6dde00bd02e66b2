----------------------------- MODULE JpegDecode -----------------------------
(***************************************************************************)
(* What decoding a JPEG file promises, whatever the number of threads.     *)
(*                                                                         *)
(* Every MCU row of every channel is reconstructed (dequantised and        *)
(* inverse transformed) exactly once, from the coefficients the file as a  *)
(* whole describes and with a table in force since the channel's last      *)
(* scan.  Only when all of them are reconstructed are rows of pixels       *)
(* computed, each one once and from all the channels, and decoding ends    *)
(* when every row of pixels is there.                                      *)
(***************************************************************************)
EXTENDS Naturals

CONSTANTS
    Channels,   \* the colour components of the image
    Rows        \* the MCU rows of the image

VARIABLES
    reconstructed,  \* the <<channel, row>> pairs reconstructed so far
    converted       \* the rows whose pixels are final

vars == <<reconstructed, converted>>

TypeOK ==
    /\ reconstructed \subseteq Channels \X Rows
    /\ converted \subseteq Rows

Init ==
    /\ reconstructed = {}
    /\ converted = {}

Reconstruct(c, r) ==
    /\ <<c, r>> \notin reconstructed
    /\ reconstructed' = reconstructed \cup {<<c, r>>}
    /\ UNCHANGED converted

Convert(r) ==
    /\ reconstructed = Channels \X Rows
    /\ r \notin converted
    /\ converted' = converted \cup {r}
    /\ UNCHANGED reconstructed

Next ==
    \/ \E c \in Channels, r \in Rows : Reconstruct(c, r)
    \/ \E r \in Rows : Convert(r)

Safety == Init /\ [][Next]_vars

Spec == Safety /\ WF_vars(Next)

\* Decoding comes to an end: every row of the picture gets its pixels.
Finished == converted = Rows
EventuallyFinished == <>Finished

=============================================================================
