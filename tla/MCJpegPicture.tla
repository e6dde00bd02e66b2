--------------------------- MODULE MCJpegPicture ---------------------------
(***************************************************************************)
(* JpegPicture on blocks of four samples a side and pictures of up to      *)
(* four blocks across or down.                                             *)
(***************************************************************************)
EXTENDS JpegPicture

FrameOf(width, height, factors, progressive) ==
    [X |-> width, Y |-> height, factors |-> [c \in Components |-> factors[c + 1]],
     progressive |-> progressive, precision |-> 8, ids |-> IDsOfYCbCr]

\* Sampling factors: the same across and down, in all orders of size, and others.
Square == {[c \in 1 .. 3 |-> <<q[c], q[c]>>] : q \in [1 .. 3 -> {1, 2}]}
Mixed ==
    {<<q[1], q[2], q[2]>> : q \in ((1 .. 3) \X (1 .. 3)) \X ({1, 2} \X {1, 2})}
Thirds == {<< <<3, 3>>, <<1, 1>>, <<3, 3>> >>}

Refused ==
    LET f == FrameOf(4, 4, << <<1, 1>>, <<1, 1>>, <<1, 1>> >>, FALSE)
    IN  {[f EXCEPT !.precision = 12], [f EXCEPT !.ids = <<0, 1, 2>>]}

\* Up to two rows of the largest MCUs, or two of these side by side.
MCFrames ==
    {FrameOf(w, h, q, progressive) :
        w \in {1, 5, 8}, h \in {3, 13}, q \in Square, progressive \in BOOLEAN}
    \cup {FrameOf(5, h, q, FALSE) : h \in {4, 13}, q \in Mixed \cup Thirds}
    \cup {FrameOf(13, 5, q, progressive) : q \in Square, progressive \in BOOLEAN}
    \cup Refused

=============================================================================
