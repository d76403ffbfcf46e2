--------------------------- MODULE MCScreenSharing ---------------------------
(* A small instance of the shared screen for TLC: one station, one frame of each *)
(* protocol.                                                               *)
EXTENDS ScreenSharing
=============================================================================
