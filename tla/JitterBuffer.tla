---------------------------- MODULE JitterBuffer ----------------------------
(***************************************************************************)
(* The receiver's jitter buffer (castr-media/src/jitter.rs): it orders     *)
(* complete video frames, waits for a missing predecessor, and hands the   *)
(* decoder a frame only when the decoder holds its reference.              *)
(*                                                                         *)
(* Three threads share the buffer under a mutex: the network task pushes   *)
(* frames, replaces the buffer on StartStream, changes its mode and        *)
(* flushes it; the decode thread pops and reports decode errors; the stats *)
(* tick takes the dropped counter.  Each is an action here.  The           *)
(* environment is a sender that encodes frames with contiguous numbers and *)
(* a transport that delivers each of them at most once, in any order, or   *)
(* never.  Times are abstract ticks.                                       *)
(***************************************************************************)
EXTENDS FrameOrder, Sequences

CONSTANTS
  None,             \* Option::None
  FrameInterval,    \* interval_us, the frame interval of the stream
  QualityDelay,     \* QUALITY_DELAY_US
  GameMaxDepth,     \* GAME_MAX_DEPTH
  QualityMaxLate,   \* QUALITY_MAX_LATE_US
  GapWait,          \* GAP_WAIT_US
  WaitMaxDepth,     \* WAIT_MAX_DEPTH
  FirstNumber,      \* the first frame number of the stream
  MaxFrames,        \* bound: frames the sender encodes
  MaxTime           \* bound: the last clock tick

VARIABLES
  mode, frames, last_popped, base_us, dropped, need_keyframe,
  gap_since,        \* the fields of JitterBuffer
  now,              \* the receiver's clock
  sent,             \* every frame the sender has encoded, in order
  inflight,         \* indices of sent that the transport may still deliver
  out,              \* the frame pop handed out last
  account           \* frames pushed and not yet handed out, flushed or reported

vars == <<mode, frames, last_popped, base_us, dropped,
          need_keyframe, gap_since, now, sent, inflight, out, account>>

Mode == {"Game", "Quality"}
Frame == [num : FrameNumber, ts : Nat, key : BOOLEAN]

ASSUME JitterAssumption ==
  /\ None \notin Int /\ None \notin Frame
  /\ QualityDelay \in Nat
  /\ WaitMaxDepth \in Nat
  /\ FirstNumber \in FrameNumber

(* A stream is shorter than half the range of frame numbers: 2^31 frames   *)
(* are more than a year of video at 60 frames per second.                  *)
ASSUME StreamAssumption == MaxFrames \in Nat /\ MaxFrames <= HalfRange
-----------------------------------------------------------------------------
(* JitterBuffer::new *)
Fresh(m) ==
  /\ mode' = m
  /\ frames' = <<>>
  /\ last_popped' = None
  /\ base_us' = None
  /\ dropped' = 0
  /\ need_keyframe' = TRUE
  /\ gap_since' = None

Init ==
  /\ mode = "Game"
  /\ frames = <<>>
  /\ last_popped = None
  /\ base_us = None
  /\ dropped = 0
  /\ need_keyframe = TRUE
  /\ gap_since = None
  /\ now = 0
  /\ sent = <<>>
  /\ inflight = {}
  /\ out = None
  /\ account = 0

(* require_keyframe: the decoder lost its reference. *)
RequireKeyframe ==
  /\ out # None
  /\ need_keyframe' = TRUE
  /\ UNCHANGED <<mode, frames, last_popped, base_us, dropped, gap_since,
                 now, sent, inflight, out, account>>

(* Mutant: a flush forgets the playout base but keeps the queue. *)
ClearedKeepsQueue ==
  /\ base_us' = None
  /\ need_keyframe' = TRUE
  /\ gap_since' = None
  /\ UNCHANGED <<frames, last_popped, dropped, account>>

(* The fields flush clears; last_popped and dropped survive it. *)
Cleared ==
  /\ frames' = <<>>
  /\ base_us' = None
  /\ need_keyframe' = TRUE
  /\ gap_since' = None
  /\ account' = account - Len(frames)
  /\ UNCHANGED <<last_popped, dropped>>

(* flush: the connection ended. *)
Flush == Cleared /\ UNCHANGED <<mode, now, sent, inflight, out>>

(* set_mode *)
SetMode(m) == mode' = m /\ Cleared /\ UNCHANGED <<now, sent, inflight, out>>

(* StartStream replaces the whole buffer. *)
StartStream(m) == Fresh(m) /\ account' = 0 /\ UNCHANGED <<now, sent, inflight, out>>

(* dropped(): the stats tick takes the counter. *)
TakeDropped ==
  /\ dropped' = 0
  /\ account' = account - dropped
  /\ UNCHANGED <<mode, frames, last_popped, base_us, need_keyframe, gap_since,
                 now, sent, inflight, out>>
-----------------------------------------------------------------------------
(* push: a frame not newer than the last one out is dropped. *)
TooOld(f) ==
  /\ last_popped # None
  /\ ~NewerOrEq(f.num, last_popped) \/ f.num = last_popped

(* The first queued frame that f must go in front of, or the end. *)
InsertAt(f, p) ==
  /\ p \in 1 .. (Len(frames) + 1)
  /\ p <= Len(frames) => NewerOrEq(frames[p].num, f.num)
  /\ \A i \in 1 .. (p - 1) : ~NewerOrEq(frames[i].num, f.num)

Queued(f, p) ==
  IF p <= Len(frames) /\ frames[p].num = f.num
  THEN frames
  ELSE SubSeq(frames, 1, p - 1) \o <<f>> \o SubSeq(frames, p, Len(frames))

Push(f) ==
  \/ /\ TooOld(f)
     /\ dropped' = dropped + 1
     /\ UNCHANGED <<frames, base_us>>
  \/ /\ ~TooOld(f)
     /\ base_us' = IF base_us = None THEN now - f.ts + QualityDelay ELSE base_us
     /\ \E p \in 1 .. (Len(frames) + 1) :
          InsertAt(f, p) /\ frames' = Queued(f, p)
     /\ UNCHANGED dropped

Arrive(i) ==
  /\ Push(sent[i])
  /\ inflight' = inflight \ {i}
  /\ account' = account + 1
  /\ UNCHANGED <<mode, last_popped, need_keyframe, gap_since, now, sent, out>>
-----------------------------------------------------------------------------
(* newest_keyframe(hi) = Some(k) *)
NewestKeyframe(k, hi) ==
  /\ k \in 1 .. hi
  /\ frames[k].key
  /\ \A i \in (k + 1) .. hi : ~frames[i].key

HasKeyframe(hi) == \E k \in 1 .. hi : frames[k].key

(* take: pop frames[k], dropping everything before it. *)
Take(k) ==
  /\ frames' = SubSeq(frames, k + 1, Len(frames))
  /\ dropped' = dropped + (k - 1)
  /\ last_popped' = frames[k].num
  /\ gap_since' = None
  /\ out' = frames[k]
  /\ account' = account - 1
  /\ UNCHANGED <<mode, base_us, now, sent, inflight>>

(* Mutant: frames trimmed while waiting are not counted as dropped. *)
TrimWaitingUncounted ==
  LET excess == IF Len(frames) > WaitMaxDepth THEN Len(frames) - WaitMaxDepth ELSE 0
  IN /\ frames' = SubSeq(frames, excess + 1, Len(frames))
     /\ dropped' = dropped

(* trim_waiting: bound the queue while waiting, dropping the oldest. *)
TrimWaiting ==
  LET excess == IF Len(frames) > WaitMaxDepth THEN Len(frames) - WaitMaxDepth ELSE 0
  IN /\ frames' = SubSeq(frames, excess + 1, Len(frames))
     /\ dropped' = dropped + excess

(* give_up_on_gop *)
GiveUpOnGop ==
  /\ dropped' = dropped + Len(frames)
  /\ frames' = <<>>
  /\ need_keyframe' = TRUE

Hand == <<mode, last_popped, base_us, now, sent, inflight, out, account>>

(* pop while the decoder has no reference. *)
PopFirstKeyframe ==
  /\ need_keyframe
  /\ need_keyframe' = FALSE
  /\ \E k \in 1 .. Len(frames) : NewestKeyframe(k, Len(frames)) /\ Take(k)

PopHold ==
  /\ frames # <<>>
  /\ need_keyframe
  /\ ~HasKeyframe(Len(frames))
  /\ TrimWaiting
  /\ UNCHANGED <<need_keyframe, gap_since>>
  /\ UNCHANGED Hand

(* Mutant: any newer head frame counts as following the last one out. *)
GapOnlyIfOlder ==
  /\ frames # <<>>
  /\ ~need_keyframe
  /\ last_popped # None
  /\ ~frames[1].key
  /\ ~NewerOrEq(frames[1].num, NextNumber(last_popped))

(* The head frame does not follow the last one out. *)
Gap ==
  /\ frames # <<>>
  /\ ~need_keyframe
  /\ last_popped # None
  /\ ~frames[1].key
  /\ frames[1].num # NextNumber(last_popped)

PopGapJump ==
  /\ Gap
  /\ \E k \in 1 .. Len(frames) : NewestKeyframe(k, Len(frames)) /\ Take(k)
  /\ UNCHANGED need_keyframe

(* Mutant: every pop restarts the wait, gap_since.insert(now). *)
GapRestart == now

(* gap_since.get_or_insert(now) *)
GapStart == IF gap_since = None THEN now ELSE gap_since

PopGapWait ==
  /\ Gap
  /\ ~HasKeyframe(Len(frames))
  /\ gap_since' = GapStart
  /\ now - GapStart <= GapWait
  /\ TrimWaiting
  /\ UNCHANGED need_keyframe
  /\ UNCHANGED Hand

PopGapGiveUp ==
  /\ Gap
  /\ ~HasKeyframe(Len(frames))
  /\ gap_since' = GapStart
  /\ now - GapStart > GapWait
  /\ GiveUpOnGop
  /\ UNCHANGED Hand

(* In order: the mode decides when, and how far, to go on. *)
InOrder == frames # <<>> /\ ~need_keyframe /\ ~Gap

PopGame ==
  /\ InOrder
  /\ mode = "Game"
  /\ \/ /\ \E k \in 1 .. Len(frames) : NewestKeyframe(k, Len(frames)) /\ Take(k)
        /\ UNCHANGED need_keyframe
     \/ /\ ~HasKeyframe(Len(frames))
        /\ Len(frames) > GameMaxDepth
        /\ GiveUpOnGop
        /\ UNCHANGED gap_since
        /\ UNCHANGED Hand
     \/ /\ ~HasKeyframe(Len(frames))
        /\ Len(frames) <= GameMaxDepth
        /\ Take(1)
        /\ UNCHANGED need_keyframe

DueAt(f) == f.ts + base_us

(* last_due: the end of the prefix of queued frames that are all due. *)
LastDue(d) ==
  /\ d \in 1 .. Len(frames)
  /\ \A i \in 1 .. d : DueAt(frames[i]) <= now
  /\ d < Len(frames) => DueAt(frames[d + 1]) > now

Late(d) == d > 1 /\ now - DueAt(frames[1]) > FrameInterval

(* Nothing due: pop returns None and changes nothing. *)
PopQuality ==
  /\ InOrder
  /\ mode = "Quality"
  /\ \E d \in 1 .. Len(frames) :
       /\ LastDue(d)
       /\ \/ /\ Late(d)
             /\ \E k \in 1 .. d : NewestKeyframe(k, d) /\ Take(k)
             /\ UNCHANGED need_keyframe
          \/ /\ Late(d)
             /\ ~HasKeyframe(d)
             /\ now - DueAt(frames[1]) > QualityMaxLate
             /\ GiveUpOnGop
             /\ UNCHANGED gap_since
             /\ UNCHANGED Hand
          \/ /\ \/ ~Late(d)
                \/ ~HasKeyframe(d) /\ now - DueAt(frames[1]) <= QualityMaxLate
             /\ Take(1)
             /\ UNCHANGED need_keyframe

Pop ==
  \/ PopFirstKeyframe
  \/ PopHold
  \/ PopGapJump
  \/ PopGapWait
  \/ PopGapGiveUp
  \/ PopGame
  \/ PopQuality
-----------------------------------------------------------------------------
(* The number of the i-th frame of the stream (Packetizer.next_frame). *)
StreamNumber(i) == (FirstNumber + i - 1) % FrameModulus

(* The sender: the encoder opens with a keyframe and numbers contiguously. *)
Encode(key) ==
  /\ Len(sent) < MaxFrames
  /\ sent = <<>> => key
  /\ sent' = Append(sent, [num |-> StreamNumber(Len(sent) + 1),
                           ts |-> now, key |-> key])
  /\ inflight' = inflight \cup {Len(sent) + 1}
  /\ UNCHANGED <<mode, frames, last_popped, base_us, dropped, need_keyframe,
                 gap_since, now, out, account>>

Tick ==
  /\ now < MaxTime
  /\ now' = now + 1
  /\ UNCHANGED <<mode, frames, last_popped, base_us, dropped, need_keyframe,
                 gap_since, sent, inflight, out, account>>

Next ==
  \/ \E key \in BOOLEAN : Encode(key)
  \/ \E i \in inflight : Arrive(i)
  \/ Pop
  \/ RequireKeyframe
  \/ Flush
  \/ \E m \in Mode : SetMode(m)
  \/ \E m \in Mode : StartStream(m)
  \/ TakeDropped
  \/ Tick

Spec == Init /\ [][Next]_vars

(* The decode thread polls pop every 2 ms and time passes. *)
FairSpec == Spec /\ WF_vars(Pop) /\ WF_vars(Tick)
-----------------------------------------------------------------------------
TypeOK ==
  /\ mode \in Mode
  /\ frames \in Seq(Frame)
  /\ last_popped \in FrameNumber \cup {None}
  /\ base_us \in Int \cup {None}
  /\ dropped \in Nat
  /\ need_keyframe \in BOOLEAN
  /\ gap_since \in Nat \cup {None}
  /\ now \in Nat
  /\ sent \in Seq(Frame)
  /\ inflight \subseteq DOMAIN sent
  /\ out \in Frame \cup {None}
  /\ account \in Int

(* The position of a frame in the sender's stream. *)
Position(num) == CHOOSE i \in DOMAIN sent : sent[i].num = num

(* The queue is in stream order, without duplicates and entirely newer     *)
(* than the last frame handed out, although push compares wrapped numbers  *)
(* and frames arrive in any order (jitter.rs push).                        *)
QueueInStreamOrder ==
  /\ \A i, j \in DOMAIN frames :
       i < j => Position(frames[i].num) < Position(frames[j].num)
  /\ last_popped # None =>
       \A i \in DOMAIN frames : Position(last_popped) < Position(frames[i].num)

(* The playout base is known whenever a frame is queued, so the expect in  *)
(* pop's quality branch cannot panic, and a buffer that is not waiting for *)
(* a keyframe has handed one out and remembers its number.                 *)
ReadyToPlay ==
  /\ frames # <<>> => base_us # None
  /\ ~need_keyframe => last_popped # None /\ out # None /\ out.num = last_popped

(* Every frame pushed is handed out, still queued, flushed with the        *)
(* buffer, or counted in dropped, which the sender is told about.          *)
FramesAccountedFor == account = Len(frames) + dropped

(* A delta frame is handed to the decoder only directly after the frame it *)
(* references, through gaps, jumps, decode errors, mode changes and        *)
(* replaced buffers.                                                       *)
DeltaFollowsItsReference ==
  [][out' # out /\ ~out'.key => out # None /\ out'.num = NextNumber(out.num)]_vars

(* A hole in the stream blocks playout for a bounded time: the missing     *)
(* frame arrives, a later keyframe takes over, or the group of pictures is *)
(* abandoned and a keyframe is required.                                   *)
GapEnds ==
  (Gap /\ gap_since # None /\ gap_since + GapWait < MaxTime) ~> ~Gap
=============================================================================
