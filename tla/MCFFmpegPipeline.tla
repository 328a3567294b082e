-------------------------- MODULE MCFFmpegPipeline --------------------------
(* Instances of FFmpegPipeline: two streams and the descriptors they need. *)
EXTENDS FFmpegPipeline, TLC

CONSTANTS p1, p2

TwoPipelines == {p1, p2}
Sizes(a, b) == [p \in TwoPipelines |-> IF p = p1 THEN a ELSE b]
Sizes23 == Sizes(2, 3)
First == {p1}
FourFds == 3 .. 6
=============================================================================
