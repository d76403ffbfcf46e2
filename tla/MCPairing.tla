----------------------------- MODULE MCPairing -----------------------------
(* Two senders, two PINs, a lock after two failures within two ticks. *)
EXTENDS Pairing
=============================================================================
