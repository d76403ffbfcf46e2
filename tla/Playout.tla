------------------------------- MODULE Playout -------------------------------
(***************************************************************************)
(* The receiver's SDL loop (castr-receiver pipeline.rs) with its one-frame *)
(* lookahead, the audio queue (audio_out.rs) and the audio-master clock    *)
(* (castr-media clock.rs), fed by the decode thread, by the castr network  *)
(* task and by the thread of Miracast events over one bounded channel.     *)
(*                                                                         *)
(* A tick is the length of one audio packet.  A time stamp is kept as its  *)
(* age: how far the sender's own clock has run on since.  The receiver's    *)
(* clock is then one number, delay, the age of what it says is being        *)
(* presented: presented_ts gives now minus the same offset whether audio   *)
(* is stale or not, because an audio anchor sets that offset too.          *)
(* The loop handles its channel far faster than packets come, so a tick    *)
(* passes only with nothing left to handle; a loop that was held up finds  *)
(* older time stamps, and ages on arrival vary.                            *)
(***************************************************************************)
EXTENDS Integers, Sequences, FiniteSetsExt

CONSTANTS
  None,
  ChannelSize,      \* the capacity of the UiEvent channel
  TargetGame, TargetQuality,  \* audio.target_us for the two modes
  LagLimit,         \* AUDIO_LAG_LIMIT_US
  MaxConceal,       \* packets concealed for one gap at the most
  MaxGap,           \* a gap of this many packets is not concealed
  Lost,             \* how many packets in a row may be lost
  Delays,           \* ages of frames and audio when they are handled
  Jumps,            \* how far the clocks of two senders are apart
  MaxCasts,         \* bound: casts after the first
  MaxFrames,        \* bound: pictures decoded
  MaxBuffered,      \* bound: audio in the queue
  MaxAge            \* bound: older is not told apart

ASSUME PlayoutAssumption ==
  /\ {TargetGame, TargetQuality, LagLimit, MaxConceal, MaxGap} \subseteq Nat
  /\ ChannelSize \in Nat \ {0}

VARIABLES
  ui,               \* the channel of UiEvents
  toSend,           \* what the network task is about to send
  fed,              \* the network task or the events thread had its turn in this tick
  decoded,          \* how many pictures the decoder has put out
  shown,            \* the pictures presented, in order
  pending,          \* PendingFrame
  delay,            \* AvClock.video_offset, None before anything set it
  latest,           \* the age of latest_video_ts
  audio,            \* AudioOut: what is buffered, and the target
  casts,            \* casts after the first
  sound             \* history: how the sound ran that set the clock in this tick

vars == <<ui, toSend, fed, decoded, shown, pending, delay, latest, audio, casts, sound>>

(* AudioOut::new and clear: an empty queue. *)
EmptyQueue(target) == [buffered |-> 0, target |-> target]

Init ==
  /\ ui = <<>> /\ toSend = <<>>
  /\ fed = FALSE
  /\ decoded = 0
  /\ shown = <<>>
  /\ pending = None
  /\ delay = None
  /\ latest = None
  /\ audio = EmptyQueue(TargetGame)
  /\ casts = 0
  /\ sound = None

Frame(n, age) == [is |-> "Frame", num |-> n, age |-> age]
(* An audio packet, and how the sender's sound clock runs, which the        *)
(* receiver cannot see.                                                    *)
Packet(age, runs) == [is |-> "AudioPacket", age |-> age, runs |-> runs]
Conceal == [is |-> "Conceal"]    \* an AudioPacket without data
Pcm == [is |-> "AudioPcm"]
Mode(target) == [is |-> "Mode", target |-> target]

Lagging(age) == latest # None /\ age - latest > LagLimit
-----------------------------------------------------------------------------
(* What feeds the channel *)

(* The decode thread puts out a picture; it blocks while the channel is full. *)
Decode ==
  /\ decoded < MaxFrames
  /\ Len(ui) < ChannelSize
  /\ \E age \in Delays : ui' = Append(ui, Frame(decoded + 1, age))
  /\ decoded' = decoded + 1
  /\ UNCHANGED <<toSend, fed, shown, pending, delay, latest, audio, casts, sound>>

(* An audio frame of a castr sender, behind the packets to conceal for a   *)
(* gap before it.                                                          *)
Concealed(lost) ==
  [i \in 1 .. (IF lost + 1 < MaxGap THEN Min({lost, MaxConceal}) ELSE 0) |-> Conceal]

(* Its time stamp moves on with the sender's clock; or the sender's sound  *)
(* clock is broken, and stands still no further behind the newest picture  *)
(* than the limit, or lags by more.                                        *)
Packets ==
  LET newest == IF latest = None THEN 0 ELSE latest
  IN {Packet(age, "moves") : age \in Delays}
       \cup {Packet(newest + by, "stands") : by \in 0 .. LagLimit}
       \cup {Packet(newest + LagLimit + 1, "lags")}

AudioArrives ==
  /\ ~fed /\ toSend = <<>>
  /\ \E lost \in Lost, packet \in Packets :
       /\ toSend' = Append(Concealed(lost), packet)
       /\ audio.buffered + Len(toSend') <= MaxBuffered
  /\ fed' = TRUE
  /\ UNCHANGED <<ui, decoded, shown, pending, delay, latest, audio, casts, sound>>

(* StartStream or SetMode. *)
ModeArrives ==
  /\ ~fed /\ toSend = <<>>
  /\ \E target \in {TargetGame, TargetQuality} \ {audio.target} : toSend' = <<Mode(target)>>
  /\ fed' = TRUE
  /\ UNCHANGED <<ui, decoded, shown, pending, delay, latest, audio, casts, sound>>

SendUi ==
  /\ toSend # <<>>
  /\ Len(ui) < ChannelSize
  /\ ui' = Append(ui, Head(toSend))
  /\ toSend' = Tail(toSend)
  /\ UNCHANGED <<fed, decoded, shown, pending, delay, latest, audio, casts, sound>>

(* Miracast's samples, which carry no time stamp. *)
PcmArrives ==
  /\ ~fed
  /\ Len(ui) < ChannelSize
  /\ ui' = Append(ui, Pcm)
  /\ fed' = TRUE
  /\ UNCHANGED <<toSend, decoded, shown, pending, delay, latest, audio, casts, sound>>
-----------------------------------------------------------------------------
(* The loop *)

(* present_and_record, for a picture that is due or displaced. *)
Presented(f) == Append(shown, f.num)

(* Mutant: a newer picture takes the place of the one that waits. *)
OfferReplaces(f) ==
  /\ pending' = f
  /\ UNCHANGED shown

(* PendingFrame::offer; the picture displaced is presented at once. *)
Offer(f) ==
  /\ pending' = f
  /\ shown' = IF pending = None THEN shown ELSE Presented(pending)

FarAhead == audio.buffered > audio.target * 4

(* conceal_one does not look how far ahead the queue is. *)
ConcealOne == audio' = [audio EXCEPT !.buffered = @ + 1]

(* push_packet: what is far ahead is dropped. *)
PushPacket == ~FarAhead /\ audio' = [audio EXCEPT !.buffered = @ + 1]

(* push_pcm *)
PushPcm == audio' = [audio EXCEPT !.buffered = IF FarAhead THEN @ ELSE @ + 1]

(* audio_played: what is being presented is the packet pushed last, behind *)
(* everything that is buffered by now.                                     *)
AudioPlayed(packet) ==
  /\ delay' = packet.age + audio'.buffered
  /\ sound' = packet.runs

(* Mutant: audio drives the clock however far it lags. *)
HandlePacketAlways(packet) ==
  \/ PushPacket /\ AudioPlayed(packet)
  \/ FarAhead /\ UNCHANGED <<audio, delay, sound>>

(* The packet is played whether it lags or not; the clock follows only one *)
(* that does not.                                                          *)
HandlePacket(packet) ==
  \/ PushPacket /\ IF Lagging(packet.age) THEN UNCHANGED <<delay, sound>> ELSE AudioPlayed(packet)
  \/ FarAhead /\ UNCHANGED <<audio, delay, sound>>

Handle ==
  /\ ui # <<>>
  /\ ui' = Tail(ui)
  /\ LET ev == Head(ui)
     IN \/ /\ ev.is = "Frame"
           /\ latest' = IF latest = None THEN ev.age ELSE Min({latest, ev.age})
           /\ Offer([num |-> ev.num, age |-> ev.age])
           /\ UNCHANGED <<delay, audio, sound>>
        \/ /\ ev.is = "AudioPacket"
           /\ HandlePacket(ev)
           /\ UNCHANGED <<shown, pending, latest>>
        \/ /\ ev.is = "Conceal"
           /\ ConcealOne
           /\ UNCHANGED <<shown, pending, delay, latest, sound>>
        \/ /\ ev.is = "AudioPcm"
           /\ PushPcm
           /\ UNCHANGED <<shown, pending, delay, latest, sound>>
        \/ /\ ev.is = "Mode"
           /\ audio' = EmptyQueue(ev.target)
           /\ UNCHANGED <<shown, pending, delay, latest, sound>>
  /\ UNCHANGED <<toSend, fed, decoded, casts>>

(* AvClock::video_due; the first picture of all sets the clock. *)
VideoDue(age) == delay # None => age >= delay

(* take_if_due, once the channel is empty. *)
Due ==
  /\ ui = <<>>
  /\ pending # None /\ VideoDue(pending.age)
  /\ shown' = Presented(pending)
  /\ delay' = IF delay = None THEN pending.age ELSE delay
  /\ pending' = None
  /\ UNCHANGED <<ui, toSend, fed, decoded, latest, audio, casts, sound>>
-----------------------------------------------------------------------------
Older(age, by) == IF age = None THEN None ELSE Min({age + by, MaxAge})

Shifted(by) ==
  /\ pending' = IF pending = None THEN None ELSE [pending EXCEPT !.age = Older(@, by)]
  /\ latest' = Older(latest, by)

(* Time passes; the sound card plays what is buffered.  A picture as old   *)
(* as can be told apart comes nearer to what is being presented all the    *)
(* same.                                                                   *)
Tick ==
  /\ ui = <<>> /\ toSend = <<>>
  /\ pending # None => ~VideoDue(pending.age)
  /\ Shifted(1)
  /\ fed' = FALSE
  /\ audio' = [audio EXCEPT !.buffered = Max({@ - 1, 0})]
  /\ delay' = IF pending # None /\ pending'.age = pending.age THEN delay - 1 ELSE delay
  /\ sound' = None
  /\ UNCHANGED <<ui, toSend, decoded, shown, casts>>

(* Another sender, or the same one again, whose clock began elsewhere: the *)
(* clock of the receiver and latest_video_ts stay as they are.             *)
NewCast ==
  /\ casts < MaxCasts
  /\ casts' = casts + 1
  /\ ui = <<>> /\ toSend = <<>>
  /\ \E by \in Jumps : Shifted(by) /\ delay' = IF delay = None THEN None ELSE delay + by
  /\ UNCHANGED <<ui, toSend, fed, decoded, shown, audio, sound>>

Progress == SendUi \/ Handle \/ Due \/ Tick

Next == Decode \/ AudioArrives \/ ModeArrives \/ PcmArrives \/ NewCast \/ Progress

Spec == Init /\ [][Next]_vars

(* The loop runs, the network task goes on, and time passes. *)
FairSpec == Spec /\ WF_vars(Progress)
-----------------------------------------------------------------------------
(* "A frame that displaces a not-yet-due pending ... present it            *)
(* immediately rather than let it be silently dropped" (pipeline.rs:507):  *)
(* every picture decoded is in the channel, waits in the slot or has been  *)
(* presented, once and in order, whatever the clock says and whichever     *)
(* sender's time stamps it carries.                                        *)
EveryPictureIsShown ==
  LET waiting == IF pending = None THEN <<>> ELSE <<pending.num>>
      frames == SelectSeq(ui, LAMBDA ev : ev.is = "Frame")
  IN shown \o waiting \o [i \in DOMAIN frames |-> frames[i].num] = [n \in 1 .. decoded |-> n]

(* From some time on the sound drives the clock again and again, and never *)
(* with a time stamp that has moved on.                                    *)
SoundStandsStill == <>[](sound # "moves") /\ []<>(sound = "stands")

(* "Audio that lags far behind it must not drive the master clock, or a    *)
(* sender with a broken audio clock holds every video frame back forever"  *)
(* (pipeline.rs:484): the newest picture comes due without a successor,    *)
(* however the sound is lost, concealed, overfull, cleared or behind, and  *)
(* though it stands still for a while.  Sound that stands still for good   *)
(* within the limit does hold it back: every packet sets the clock before  *)
(* the picture again.                                                      *)
PicturesComeDue == ~SoundStandsStill => (pending # None ~> pending = None)
=============================================================================
