--------------------------- MODULE MCMiracastRtsp ---------------------------
(* The Miracast session, for TLC: castr's own sink and a small picture     *)
(* with upsets, and other displays without.                                *)
EXTENDS MiracastRtsp

Codec(profile, level, cea, vesa, hh) ==
  [profile |-> profile, level |-> level, cea |-> cea, vesa |-> vesa, hh |-> hh]

Display(formats, lpcm, protected, max_kbps) ==
  [formats |-> formats, lpcm |-> lpcm, protected |-> protected, max_kbps |-> max_kbps]

(* A television: 1080p60 only with constrained high, and not at the level  *)
(* of its first tuple, whose masks claim it as well.                       *)
Baseline == Codec({0}, {0, 1}, {0, 5, 6, 8}, {4, 5, 12}, {6, 7})
High == Codec({1}, {2, 4}, {2, 7, 8, 16}, {27}, {})

Displays ==
  {Display(<<Baseline, High>>, {0, 1}, FALSE, k) : k \in {None, 6500, 12000, 65543000}}
    \cup {Display(<<Codec({1}, {3}, {1, 7}, {13}, {8, 9})>>, {1}, FALSE, 10000),
          Display(<<Codec({2}, {4}, {5, 6}, {}, {}), Codec({0, 1}, {5}, {5}, {}, {})>>, {1}, FALSE, None),
          Display(<<>>, {1}, FALSE, None),
          Display(<<Baseline>>, {0}, FALSE, None),
          Display(<<High>>, {1}, TRUE, 20000)}

MCCasts ==
  {[display |-> d, mode |-> m, ceiling |-> c, upsets |-> 0] :
      d \in Displays \cup {CastrDisplay}, m \in {"Quality", "Game"}, c \in {None, 3, 5, 9}}
    \cup {[display |-> CastrDisplay, mode |-> "Quality", ceiling |-> None, upsets |-> 2],
          [display |-> Display(<<Baseline>>, {1}, FALSE, None), mode |-> "Quality", ceiling |-> 4,
           upsets |-> 1]}
=============================================================================
