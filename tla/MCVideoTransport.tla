-------------------------- MODULE MCVideoTransport --------------------------
(* Small instance of VideoTransport: the frame counter wraps after two frames. *)
EXTENDS VideoTransport
=============================================================================
