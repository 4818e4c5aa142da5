--------------------------- MODULE MCFileSegments ---------------------------
(* Constants of the runs of FileSegments. *)
EXTENDS FileSegments, TLC

CONSTANTS c1, c2, c3

FullSources == [c \in Conns |-> {}]

\* c1 has only the middle block of the file.
OnePartial == [c \in Conns |-> IF c = c1 THEN {<<1, 2>>} ELSE {}]

Symmetry == Permutations(Conns)
=============================================================================
