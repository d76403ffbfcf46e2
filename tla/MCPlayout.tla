------------------------------ MODULE MCPlayout ------------------------------
(* A small instance of the playout loop for TLC, in ticks of one packet. *)
EXTENDS Playout

MCJumps == {-4, 4}
=============================================================================
