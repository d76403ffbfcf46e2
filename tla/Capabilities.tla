---------------------------- MODULE Capabilities ----------------------------
(***************************************************************************)
(* What a display says it can take, and the one stream castr's Miracast    *)
(* source chooses from it (castr-miracast source/caps.rs, with the ceiling *)
(* of source/session.rs), with castr's own sink as one such display        *)
(* (wfd.rs, rtsp.rs).                                                      *)
(*                                                                         *)
(* A bitmap is the set of its bits.                                        *)
(***************************************************************************)
EXTENDS Integers, Sequences, FiniteSetsExt

CONSTANT None

(* An H.264 codec tuple of a display. *)
VideoCodecCaps ==
  [profile : SUBSET (0 .. 7), level : SUBSET (0 .. 7),
   cea : SUBSET (0 .. 31), vesa : SUBSET (0 .. 31), hh : SUBSET (0 .. 31)]

(* What parse makes of the answer to M3: the codec tuples in order, none   *)
(* if they cannot be read; the LPCM bits, none if they are missing; whether *)
(* content protection is asked for; and the rate it names, if it does.     *)
SinkCaps ==
  [formats : Seq(VideoCodecCaps), lpcm : SUBSET (0 .. 31), protected : BOOLEAN,
   max_kbps : Nat \cup {None}]

VideoMode(width, height, fps) == [width |-> width, height |-> height, fps |-> fps]

(* The tables: bits without an entry are interlaced or unknown. *)
Cea ==
  LET modes == <<VideoMode(640, 480, 60), VideoMode(720, 480, 60), None, VideoMode(720, 576, 50), None,
                 VideoMode(1280, 720, 30), VideoMode(1280, 720, 60),
                 VideoMode(1920, 1080, 30), VideoMode(1920, 1080, 60), None,
                 VideoMode(1280, 720, 25), VideoMode(1280, 720, 50),
                 VideoMode(1920, 1080, 25), VideoMode(1920, 1080, 50), None,
                 VideoMode(1280, 720, 24), VideoMode(1920, 1080, 24)>>
  IN [bit \in {0, 1, 3} \cup 5 .. 8 \cup 10 .. 13 \cup {15, 16} |-> modes[bit + 1]]

(* A table of sizes, each at 30 (even bit) and at 60 (odd bit). *)
BothRates(sizes) ==
  [bit \in 0 .. 2 * Len(sizes) - 1 |->
     VideoMode(sizes[bit \div 2 + 1][1], sizes[bit \div 2 + 1][2], IF bit % 2 = 0 THEN 30 ELSE 60)]

Vesa == BothRates(
  <<<<800, 600>>, <<1024, 768>>, <<1152, 864>>, <<1280, 768>>, <<1280, 800>>, <<1360, 768>>,
    <<1366, 768>>, <<1280, 1024>>, <<1400, 1050>>, <<1440, 900>>, <<1600, 900>>,
    <<1600, 1200>>, <<1680, 1050>>, <<1920, 1200>>>>)

Hh == BothRates(
  <<<<800, 480>>, <<854, 480>>, <<864, 480>>, <<640, 360>>, <<960, 540>>, <<848, 480>>>>)

Tables == [cea |-> Cea, vesa |-> Vesa, hh |-> Hh]

(* The entries of a codec tuple's three masks: table, bit and mode. *)
TableModes(codec) ==
  UNION {{[table |-> t, bit |-> b, mode |-> Tables[t][b]] : b \in codec[t] \cap DOMAIN Tables[t]}
           : t \in DOMAIN Tables}
-----------------------------------------------------------------------------
(* H.264 levels are bits of a bitmap: 3.1, 3.2, 4.0, 4.1, 4.2. *)
Level == 0 .. 4

(* The smallest level for the mode's macroblock rate, None above 4.2. *)
RequiredLevel(mode) ==
  LET blocks(n) == (n + 15) \div 16
      rate == blocks(mode.width) * blocks(mode.height) * mode.fps
  IN CASE rate <= 108000 -> 0
       [] rate > 108000 /\ rate <= 216000 -> 1
       [] rate > 216000 /\ rate <= 245760 -> 2
       [] rate > 245760 /\ rate <= 522240 -> 4
       [] OTHER -> None

(* The highest level a bitmap names; -1 for one that names none. *)
LevelRank(level) == LET known == level \cap Level IN IF known = {} THEN -1 ELSE Max(known)

NeedsMbps(mode) == Max({(mode.width * mode.height * mode.fps) \div 6000000, 1})

(* What the source encodes, in the order in which our_modes lists it. *)
Ours ==
  <<VideoMode(1920, 1080, 60), VideoMode(1920, 1080, 30), VideoMode(1280, 720, 60),
    VideoMode(1280, 720, 30), VideoMode(1366, 768, 60), VideoMode(1366, 768, 30),
    VideoMode(1024, 768, 60), VideoMode(1024, 768, 30), VideoMode(960, 540, 60),
    VideoMode(960, 540, 30), VideoMode(640, 480, 60), VideoMode(640, 360, 60),
    VideoMode(640, 360, 30)>>

(* The sort of our_modes, which is stable: Quality wants a bigger picture, *)
(* Game a faster one.                                                      *)
Precedes(user, i, j) ==
  LET a == Ours[i]
      b == Ours[j]
      bigger == a.height > b.height
      faster == a.fps > b.fps
      tie == a.height = b.height /\ a.fps = b.fps /\ i < j
  IN \/ user = "Quality" /\ (bigger \/ (a.height = b.height /\ faster) \/ tie)
     \/ user = "Game" /\ (faster \/ (a.fps = b.fps /\ bigger) \/ tie)

(* The lowest of the limits that are there. *)
Lowest(limits) == IF limits \subseteq {None} THEN None ELSE Min(limits \ {None})

(* The ceiling for the picture in Mbit/s: 3 are set aside for the sound. *)
(* The display's rate goes through a u16.                                *)
PictureCeiling(display, user_mbps) ==
  LET named == IF display.max_kbps = None THEN None ELSE (display.max_kbps \div 1000) % 65536
      ceiling == Lowest({user_mbps, named})
  IN IF ceiling = None THEN None ELSE Max({ceiling - 3, 0})

(* The profile taken from a tuple: constrained baseline before constrained *)
(* high, None if it has neither.                                           *)
Profile(codec) ==
  CASE 0 \in codec.profile -> 0
    [] 0 \notin codec.profile /\ 1 \in codec.profile -> 1
    [] OTHER -> None

Carries(codec, mode) ==
  /\ Profile(codec) # None
  /\ RequiredLevel(mode) # None /\ RequiredLevel(mode) <= LevelRank(codec.level)
  /\ \E entry \in TableModes(codec) : entry.mode = mode

(* Mutant: the codec tuples lend each other their profiles. *)
SelectionOfFirst(display, mode, t) ==
  LET entry == CHOOSE e \in TableModes(display.formats[t]) : e.mode = mode
  IN [mode |-> mode, table |-> entry.table, bit |-> entry.bit,
      profile |-> Profile(display.formats[1]), level |-> RequiredLevel(mode)]

SelectionOf(display, mode, t) ==
  LET entry == CHOOSE e \in TableModes(display.formats[t]) : e.mode = mode
  IN [mode |-> mode, table |-> entry.table, bit |-> entry.bit,
      profile |-> Profile(display.formats[t]), level |-> RequiredLevel(mode)]

(* choose_selection over our_modes: the first mode of ours that a codec    *)
(* tuple of the display carries, in the first such tuple.                  *)
Selection(display, user, ceiling) ==
  LET allowed == {i \in DOMAIN Ours : ceiling # None => NeedsMbps(Ours[i]) <= ceiling}
      pairs == {p \in allowed \X DOMAIN display.formats : Carries(display.formats[p[2]], Ours[p[1]])}
      first == CHOOSE p \in pairs :
                 \A q \in pairs : Precedes(user, p[1], q[1]) \/ (p[1] = q[1] /\ p[2] <= q[2])
  IN IF pairs = {} THEN None ELSE SelectionOf(display, Ours[first[1]], first[2])

(* on_capabilities: why a display is refused, None when it is not. *)
Refusal(display, user, user_mbps) ==
  IF display.formats = <<>> THEN "unreadable"
  ELSE IF Selection(display, user, PictureCeiling(display, user_mbps)) = None
       THEN "nothing in common"
  ELSE IF 1 \notin display.lpcm THEN "no audio"
  ELSE IF display.protected THEN "protected"
  ELSE None

(* video_bitrate_kbps, for a mode that was chosen. *)
VideoBitrate(display, user_mbps, mode) ==
  LET preferred == NeedsMbps(mode) * 1000
      total == Lowest({IF user_mbps = None THEN None ELSE user_mbps * 1000, display.max_kbps})
  IN IF total = None THEN preferred ELSE Min({preferred, Max({total - 2200, 1000})})
-----------------------------------------------------------------------------
(* castr's own sink: 720p30 and no other, LPCM 48 kHz stereo, 8000 kbps. *)
CastrDisplay ==
  [formats |-> <<[profile |-> {1}, level |-> {2}, cea |-> {5}, vesa |-> {}, hh |-> {}]>>,
   lpcm |-> {1}, protected |-> FALSE, max_kbps |-> 8000]

(* parse_chosen_video: the mode castr's sink reads from M4, or None. *)
ParseChosenVideo(selection) ==
  IF selection.table = "cea" /\ selection.bit = 5 THEN VideoMode(1280, 720, 30) ELSE None
=============================================================================
