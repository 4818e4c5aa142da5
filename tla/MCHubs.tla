------------------------------- MODULE MCHubs -------------------------------
(* Constants of the run of Hubs. *)
EXTENDS Hubs, TLC

CONSTANTS h1, h2, u1, i1
=============================================================================
