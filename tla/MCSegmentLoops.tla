---------------------------- MODULE MCSegmentLoops ----------------------------
(* Constants of the runs of SegmentLoops. *)
EXTENDS SegmentLoops

CONSTANTS c1, c2, c3

\* c1 has the blocks 1 and 2, c2 the first and the last one, c3 the file.
MixedSources == [c \in Conns |-> IF c = c1 THEN {<<1, 3>>} ELSE IF c = c2 THEN {<<0, 1>>, <<3, 4>>} ELSE {}]
=============================================================================
