--------------------------- MODULE MCJitterBuffer ---------------------------
(* Small instance of JitterBuffer: the stream starts just below the wrap. *)
EXTENDS JitterBuffer
=============================================================================
