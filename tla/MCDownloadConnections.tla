----------------------- MODULE MCDownloadConnections -----------------------
(* Constants of the runs of DownloadConnections. *)
EXTENDS DownloadConnections, TLC

CONSTANTS t1, t2, t3, c1, c2

Symmetry == Permutations(Tokens) \union Permutations(Conns)
=============================================================================
