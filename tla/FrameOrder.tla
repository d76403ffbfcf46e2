----------------------------- MODULE FrameOrder -----------------------------
(***************************************************************************)
(* Frame numbers of the castr datagram protocol and their wrapping order   *)
(* (castr-proto: header.rs, packetize.rs, reassemble.rs).                  *)
(*                                                                         *)
(* A frame number is a u32 that the packetizer increments with wrapping    *)
(* arithmetic.  FrameModulus is 2^32 in the code; the runs use a small     *)
(* modulus so that the wrap happens inside a short behaviour.              *)
(***************************************************************************)
EXTENDS Integers

CONSTANT FrameModulus

ASSUME FrameModulusAssumption == FrameModulus \in Nat /\ FrameModulus > 4

FrameNumber == 0 .. (FrameModulus - 1)

(* Packetizer: next_frame.wrapping_add(1), JitterBuffer: last.wrapping_add(1) *)
NextNumber(n) == (n + 1) % FrameModulus

(* u32::MAX / 2: a.wrapping_sub(b) below this counts as newer or equal. *)
HalfRange == (FrameModulus - 1) \div 2

(* Mutant: frame numbers compared as plain integers. *)
NotWrapping(a, b) == a >= b

(* frame_newer_or_eq *)
NewerOrEq(a, b) == (a - b) % FrameModulus < HalfRange

=============================================================================
