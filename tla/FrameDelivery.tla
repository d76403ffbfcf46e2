--------------------------- MODULE FrameDelivery ---------------------------
(***************************************************************************)
(* What the castr video transport promises to the jitter buffer: it hands  *)
(* over only frames the sender has sent, each at most once, in any order.  *)
(* Frames may be lost.  Frames are named by their position in the stream.  *)
(***************************************************************************)
EXTENDS Naturals

CONSTANT MaxFrames

VARIABLES
  offered,     \* how many frames the sender has sent
  handed       \* how often each frame was handed to the jitter buffer

dvars == <<offered, handed>>

Init == offered = 0 /\ handed = [i \in 1 .. MaxFrames |-> 0]

Offer == offered < MaxFrames /\ offered' = offered + 1 /\ UNCHANGED handed

HandOver ==
  /\ \E i \in 1 .. offered : handed[i] = 0 /\ handed' = [handed EXCEPT ![i] = 1]
  /\ UNCHANGED offered

Next == Offer \/ HandOver

Spec == Init /\ [][Next]_dvars
=============================================================================
