---------------------------- MODULE MCUploadSlots ----------------------------
(* Constants of the runs of UploadSlots. *)
EXTENDS UploadSlots, TLC

CONSTANTS c1, c2, c3, u1, u2

OwnConnections == (c1 :> u1) @@ (c2 :> u2)

SharedConnections == (c1 :> u1) @@ (c2 :> u2) @@ (c3 :> u2)
=============================================================================
