----------------------------- MODULE MCDecoding -----------------------------
(* Small instance of Decoding: two geometries, so that a source change can *)
(* grow and shrink the picture, and fewer CAPTURE buffers than frames.     *)
EXTENDS Decoding
=============================================================================
