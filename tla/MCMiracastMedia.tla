-------------------------- MODULE MCMiracastMedia --------------------------
(* Access units of one packet and of three, datagrams of two packets, and   *)
(* counters that wrap within a run.                                         *)
EXTENDS MiracastMedia
=============================================================================
