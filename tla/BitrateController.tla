------------------------- MODULE BitrateController -------------------------
(***************************************************************************)
(* The sender's bitrate controller (castr-media/src/bitrate.rs): a record  *)
(* and what set_mode and on_stats make of it.  Each report of the receiver *)
(* may cut or raise the bitrate and, in game mode, move one rung of the    *)
(* resolution ladder.  A report says how much was lost ("none" is under    *)
(* half a percent, "high" over two) and how deep the decode queue is.      *)
(***************************************************************************)
EXTENDS Integers, Sequences

CONSTANTS
    MinBitrate,         \* MIN_BITRATE
    CutGuard,           \* CUT_GUARD_US
    CleanRaise,         \* CLEAN_RAISE_US
    FloorStepDown,      \* FLOOR_STEP_DOWN_US
    CleanStepUp,        \* CLEAN_STEP_UP_US
    QueueStepDown,      \* QUEUE_STEP_DOWN_US
    MaxStepUpWait       \* MAX_STEP_UP_WAIT_US

ASSUME ControllerAssumption ==
    /\ MinBitrate \in Nat \ {0}
    /\ {CutGuard, CleanRaise, FloorStepDown, CleanStepUp, QueueStepDown} \subseteq Nat \ {0}
    /\ MaxStepUpWait \in Nat /\ MaxStepUpWait >= CleanStepUp

Never == -1     \* None of an Option<u64>

Atleast(a, b) == IF a >= b THEN a ELSE b

Atmost(a, b) == IF a <= b THEN a ELSE b

Even(n) == n - (n % 2)

RungWidths == <<1280, 960>>

\* The native size, then the fixed widths below it in the native aspect ratio
Ladder(native) ==
    LET Narrower(w) == w < native.w
        Scaled(w)   == [w |-> w, h |-> Even((w * native.h) \div native.w)]
        widths      == SelectSeq(RungWidths, Narrower)
    IN  <<native>> \o [i \in 1 .. Len(widths) |-> Scaled(widths[i])]

NewController(ceiling, initial, native, mode) ==
    [ceiling    |-> ceiling,
     bitrate    |-> Atmost(Atleast(initial, MinBitrate), ceiling),
     ladder     |-> Ladder(native),
     rung       |-> 1,
     mode       |-> mode,
     lastCut    |-> Never, cleanSince |-> Never, floorSince |-> Never,
     lastRaise  |-> Never, lastStepUp |-> Never, queueSince |-> Never,
     stepUpWait |-> CleanStepUp]

SetMode(c, mode) ==
    [c EXCEPT !.mode = mode, !.rung = IF mode = "quality" THEN 1 ELSE c.rung]

Size(c) == c.ladder[c.rung]

Clean(r) == r.loss = "none" /\ r.depth <= 1

Deep(r) == r.depth > 3

\* get_or_insert: a time already running goes on
Since(t, now) == IF t = Never THEN now ELSE t

\* At most one cut every CutGuard: 30 % for loss, 15 % for a deep queue
Cuts(c, r, now) ==
    /\ c.lastCut = Never \/ now - c.lastCut >= CutGuard
    /\ r.loss = "high" \/ Deep(r)

CutRate(c, r, now) ==
    IF Cuts(c, r, now)
    THEN Atleast((c.bitrate * (IF r.loss = "high" THEN 70 ELSE 85)) \div 100, MinBitrate)
    ELSE c.bitrate

\* Mutant: a report with trouble does not end the clean time
CleanSinceEver(c, r, now) == IF Clean(r) THEN Since(c.cleanSince, now) ELSE c.cleanSince

CleanSince(c, r, now) == IF Clean(r) THEN Since(c.cleanSince, now) ELSE Never

\* A twentieth of the ceiling for every CleanRaise without trouble; rate is
\* the bitrate after a cut
Raises(c, r, rate, now) ==
    /\ Clean(r) /\ rate < c.ceiling
    /\ now - Since(c.lastRaise, CleanSince(c, r, now)) >= CleanRaise

\* Game mode, a decode queue that stays deep over a clean network: one rung
\* down
QueueHigh(r) == Deep(r) /\ r.loss = "none"

TooHeavy(c, r, now) ==
    /\ QueueHigh(r) /\ c.rung < Len(c.ladder)
    /\ now - Since(c.queueSince, now) >= QueueStepDown

\* Mutant: a rung that was too heavy does not lengthen the wait
SameWait(c, heavy) == c.stepUpWait

\* and twice the wait before going up again
StepUpWait(c, heavy) == IF heavy THEN Atmost(c.stepUpWait * 2, MaxStepUpWait) ELSE c.stepUpWait

\* Game mode, a bitrate that stays at the floor: one rung down
StuckAtFloor(c, rate, rung, now) ==
    /\ rate = MinBitrate /\ rung < Len(c.ladder)
    /\ now - Since(c.floorSince, now) >= FloorStepDown

\* Game mode, everything clean for the wait: one rung up
Earned(c, r, wait, now) ==
    LET since == CleanSince(c, r, now)
    IN  since # Never /\ now - Atleast(c.lastStepUp, since) >= wait

OnStats(c, r, now) ==
    LET game   == c.mode = "game"
        cut    == CutRate(c, r, now)
        raises == Raises(c, r, cut, now)
        rate   == IF raises THEN Atmost(cut + (c.ceiling \div 20), c.ceiling) ELSE cut
        heavy  == game /\ TooHeavy(c, r, now)
        wait   == StepUpWait(c, heavy)
        down   == IF heavy THEN c.rung + 1 ELSE c.rung
        floor  == game /\ StuckAtFloor(c, rate, down, now)
        lower  == IF floor THEN down + 1 ELSE down
        up     == game /\ lower > 1 /\ Earned(c, r, wait, now)
    IN  [c EXCEPT
           !.bitrate    = rate,
           !.lastCut    = IF Cuts(c, r, now) THEN now ELSE @,
           !.cleanSince = CleanSince(c, r, now),
           !.lastRaise  = IF raises THEN now ELSE IF Clean(r) THEN @ ELSE Never,
           !.queueSince = IF ~game THEN @ ELSE IF heavy THEN now
                          ELSE IF QueueHigh(r) THEN Since(@, now) ELSE Never,
           !.floorSince = IF ~game THEN @ ELSE IF floor THEN now
                          ELSE IF rate = MinBitrate THEN Since(@, now) ELSE Never,
           !.stepUpWait = wait,
           !.rung       = IF up THEN lower - 1 ELSE lower,
           !.lastStepUp = IF up THEN now ELSE @]

=============================================================================
