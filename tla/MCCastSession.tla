--------------------------- MODULE MCCastSession ---------------------------
(* Small instances of CastSession: one cast and a probe, or two casts. *)
EXTENDS CastSession
=============================================================================
