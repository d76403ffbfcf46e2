---------------------------- MODULE SenderMedia ----------------------------
(***************************************************************************)
(* The media side of one cast (castr-sender/src/cast.rs): the capture and  *)
(* encode thread, the audio thread, the bounded channels they feed, and    *)
(* the cast loop that empties those channels, steers the encoder through a *)
(* command queue and tells the receiver what it sends.                     *)
(*                                                                         *)
(* A frame is known by its encoder and its number in that encoder's        *)
(* stream: a delta refers to the frame numbered one less.  Pixels, sample  *)
(* values and time within an iteration of a thread are left out; how the   *)
(* link is made again is in CastSession.                                   *)
(***************************************************************************)
EXTENDS BitrateController, SequencesExt

CONSTANTS
    Native,        \* the captured desktop, [w, h]
    Caps,          \* Capabilities: [w, h, bitrate]
    MaxBitrates,   \* the values of --max-bitrate
    Reports,       \* what a Stats message may say: [loss, depth]
    Gaps,          \* time between two Stats messages
    Encoders,      \* "mf" with ICodecAPI, "plain" without it, "sw"
    VideoQueue,    \* capacity of the video channel
    AudioQueue,    \* capacity of the audio channel
    Budgets        \* bounds on captured frames, audio packets, Stats messages, commands
                   \* (keyframe requests, mode changes) and faults: a run is within one

ASSUME SenderAssumption ==
    /\ VideoQueue \in Nat \ {0} /\ AudioQueue \in Nat \ {0}
    /\ Budgets \subseteq [frames : Nat, sound : Nat, reports : Nat, commands : Nat, faults : Nat]
    /\ Reports \subseteq [loss : STRING, depth : Nat]
    /\ Gaps \subseteq Nat /\ Encoders \subseteq {"mf", "plain", "sw"}

VARIABLES
    loop,     \* the cast loop: phase, ceiling, params, ctl, audioAlive, videoAlive
    cmds,     \* EncCmd messages the capture thread has not taken
    cap,      \* the capture thread: where it is, its config, encoder, frame in hand
    video,    \* the video channel
    audio,    \* the audio thread, the number of packets in its channel, stop_audio
    clock,    \* microseconds since the start, in the controller's unit
    left,     \* what the bounds leave
    seen      \* history: what the receiver was told and sent, the reports so far, the
              \* frames a failed call of the encoder lost

vars == <<loop, cmds, cap, video, audio, clock, left, seen>>

None == "none"

Game == "game"

Quality == "quality"

------------------------------------------------------------------------------
(* Encoders: castr-codec-win/src/encoder.rs and castr-media/src/sw.rs *)

\* A new encoder starts a stream of its own; its first frame is a keyframe
NewEncoder(kind, cfg, gen) ==
    [kind |-> kind, gen |-> gen, size |-> cfg.size, rate |-> cfg.rate, mode |-> cfg.mode,
     force |-> TRUE, next |-> 1, held |-> <<>>, pending |-> <<>>]

\* SwEncoder builds its inner encoder anew: another stream
Rebuilt(enc) == [enc EXCEPT !.gen = @ + 1, !.next = 1, !.force = TRUE]

RequestKeyframe(enc) == IF enc.kind = "plain" THEN enc ELSE [enc EXCEPT !.force = TRUE]

SetRate(enc, rate) ==
    CASE enc.kind = "mf"    -> [enc EXCEPT !.rate = rate]
      [] enc.kind = "plain" -> enc     \* an error the caller ignores
      [] enc.kind = "sw"    -> Rebuilt([enc EXCEPT !.rate = rate])

SetEncoderMode(enc, mode) ==
    CASE enc.kind = "mf"    -> RequestKeyframe([enc EXCEPT !.mode = mode])
      [] enc.kind = "plain" -> enc
      [] enc.kind = "sw"    -> Rebuilt([enc EXCEPT !.mode = mode])

\* ProcessInput: the frame the transform will make of the picture
Input(enc) == [gen |-> enc.gen, n |-> enc.next, key |-> enc.force]

\* What a call of encode may come to: it takes `before` outputs while it waits
\* for the transform to ask for input, `after` more once the transform has
\* accepted the picture, and fails or not.  A transform that never asks for
\* input, or does not take it, fails the call with the picture dropped; an
\* output that cannot be taken fails it too, and that output may be lost.
\* SwEncoder holds nothing: it makes the frame, or fails with the frame made
\* and lost or not made.
Calls(enc) ==
    {o \in [before : 0 .. Len(enc.held), after : 0 .. Len(enc.held) + 1, loses : 0 .. 1,
            accepted : BOOLEAN, fails : BOOLEAN] :
        /\ o.before + o.after + o.loses <= Len(enc.held) + (IF o.accepted THEN 1 ELSE 0)
        /\ ~o.accepted => o.fails /\ o.after = 0
        /\ o.loses = 1 => o.fails
        /\ enc.kind = "sw" => IF o.fails THEN o.after = 0 /\ (o.loses = 1 <=> o.accepted)
                                         ELSE o.after = 1}

\* What the transform holds of the call, after the outputs taken before
Within(enc, o) ==
    SubSeq(enc.held, o.before + 1, Len(enc.held)) \o (IF o.accepted THEN <<Input(enc)>> ELSE <<>>)

\* The outputs the thread has not had, oldest first
Queued(enc, o) ==
    (enc.pending \o SubSeq(enc.held, 1, o.before)) \o SubSeq(Within(enc, o), 1, o.after)

\* The encoder once the call has handed out what leaves `rest` pending
Fed(enc, o, rest) ==
    [enc EXCEPT !.held = SubSeq(Within(enc, o), o.after + o.loses + 1, Len(Within(enc, o))),
                !.pending = rest,
                !.next = IF o.accepted THEN @ + 1 ELSE @,
                !.force = IF o.accepted THEN FALSE ELSE @]

Lost(enc, o) == SubSeq(Within(enc, o), o.after + 1, o.after + o.loses)

\* Mutant: the newest output is returned, the queued ones wait
EncodedFreshFirst(enc, o) ==
    LET out   == Queued(enc, o)
        gives == ~o.fails /\ out # <<>>
    IN  [enc  |-> Fed(enc, o, IF gives THEN Front(out) ELSE out),
         out  |-> IF gives THEN <<Last(out)>> ELSE <<>>,
         lost |-> Lost(enc, o)]

\* encode: the thread gets the oldest of all it has not had, or, when the call
\* fails, nothing yet
Encoded(enc, o) ==
    LET out   == Queued(enc, o)
        gives == ~o.fails /\ out # <<>>
    IN  [enc  |-> Fed(enc, o, IF gives THEN Tail(out) ELSE out),
         out  |-> IF gives THEN <<Head(out)>> ELSE <<>>,
         lost |-> Lost(enc, o)]

------------------------------------------------------------------------------
(* The capture thread *)

\* Mutant: the configuration keeps the mode the cast began with
ObeyedModeOnce(th, cmd, kind) ==
    CASE cmd.type = "Bitrate"    -> [th EXCEPT !.cfg.rate = cmd.rate, !.enc = SetRate(@, cmd.rate)]
      [] cmd.type = "Keyframe"   -> [th EXCEPT !.enc = RequestKeyframe(@)]
      [] cmd.type = "Mode"       -> [th EXCEPT !.enc = SetEncoderMode(@, cmd.mode)]
      [] cmd.type = "Resolution" ->
            [th EXCEPT !.cfg.size = cmd.size,
                       !.enc = NewEncoder(kind, [th.cfg EXCEPT !.size = cmd.size], th.enc.gen + 1)]
      [] cmd.type = "Stop"       -> [th EXCEPT !.at = "gone"]

\* One EncCmd.  kind is the encoder a change of resolution can open.
Obeyed(th, cmd, kind) ==
    CASE cmd.type = "Bitrate"    -> [th EXCEPT !.cfg.rate = cmd.rate, !.enc = SetRate(@, cmd.rate)]
      [] cmd.type = "Keyframe"   -> [th EXCEPT !.enc = RequestKeyframe(@)]
      [] cmd.type = "Mode"       -> [th EXCEPT !.cfg.mode = cmd.mode, !.enc = SetEncoderMode(@, cmd.mode)]
      [] cmd.type = "Resolution" ->
            [th EXCEPT !.cfg.size = cmd.size,
                       !.enc = NewEncoder(kind, [th.cfg EXCEPT !.size = cmd.size], th.enc.gen + 1)]
      [] cmd.type = "Stop"       -> [th EXCEPT !.at = "gone"]

\* DesktopCapture::new and the first encoder: the native size goes to the loop
\* before the encoder is opened, at half the ceiling
CaptureOpens ==
    /\ cap.at = "opening"
    /\ \E kind \in Encoders :
          cap' = [cap EXCEPT !.at = "running", !.native = TRUE,
                             !.enc = NewEncoder(kind, cap.cfg, 1)]
    /\ UNCHANGED <<loop, cmds, video, audio, clock, left, seen>>

\* No desktop to duplicate (nothing was sent), or no encoder (the size was)
CaptureFailsToOpen ==
    /\ cap.at = "opening" /\ left.faults > 0
    /\ \E sized \in BOOLEAN : cap' = [cap EXCEPT !.at = "gone", !.native = sized]
    /\ left' = [left EXCEPT !.faults = @ - 1]
    /\ UNCHANGED <<loop, cmds, video, audio, clock, seen>>

\* The top of the thread's loop takes every command there is; one at a time
\* here, before the iteration goes on
CaptureObeys ==
    /\ cap.at = "running" /\ cmds # <<>>
    /\ \E kind \in Encoders : cap' = Obeyed(cap, Head(cmds), kind)
    /\ cmds' = Tail(cmds)
    /\ UNCHANGED <<loop, video, audio, clock, left, seen>>

\* A change of resolution for which no encoder opens ends the thread
EncoderLost ==
    /\ cap.at = "running" /\ left.faults > 0
    /\ cmds # <<>> /\ Head(cmds).type = "Resolution"
    /\ cap' = [cap EXCEPT !.at = "gone"]
    /\ left' = [left EXCEPT !.faults = @ - 1]
    /\ UNCHANGED <<loop, cmds, video, audio, clock, seen>>

\* next_frame: the desktop changed, it did not within the wait, or duplication
\* was lost (to a full-screen program, a lock screen, a change of mode)
NextFrame == {"picture", "timeout", "lost"}

\* Lost: it is opened again and a keyframe asked for
CaptureReopens(got) ==
    /\ got = "lost" /\ left.faults > 0
    /\ cap' = [cap EXCEPT !.enc = RequestKeyframe(@)]
    /\ left' = [left EXCEPT !.faults = @ - 1]
    /\ UNCHANGED seen

\* Frames by their encoder and number
Names(frames) == {<<f.gen, f.n>> : f \in Range(frames)}

\* A picture is due, the new one or the last one again, and is encoded; what
\* the encoder gives back is in hand until the channel takes it.  After a call
\* that failed the thread goes on with the next picture as if it had not.
Encodes(got) ==
    /\ got = "picture" \/ (got = "timeout" /\ cap.last)
    /\ left.frames > 0
    /\ \E o \in Calls(cap.enc) :
          /\ o.fails => left.faults > 0
          /\ \E r \in {Encoded(cap.enc, o)} :
                /\ cap' = [cap EXCEPT !.enc = r.enc, !.hand = r.out, !.last = TRUE,
                                      !.at = IF r.out = <<>> THEN "running" ELSE "sending"]
                /\ seen' = [seen EXCEPT !.dropped = @ \union Names(r.lost)]
          /\ left' = [left EXCEPT !.frames = @ - 1, !.faults = IF o.fails THEN @ - 1 ELSE @]

\* The rest of the iteration; one in which no picture is due changes nothing
Captures ==
    /\ cap.at = "running" /\ cmds = <<>>
    /\ \E got \in NextFrame : CaptureReopens(got) \/ Encodes(got)
    /\ UNCHANGED <<loop, cmds, video, audio, clock>>

Closed == loop.phase \in {"over", "panicked"}    \* the loop's ends are dropped

\* out.blocking_send: waits for room; the thread returns when the channel is gone
CaptureSends ==
    /\ cap.at = "sending"
    /\ \/ /\ ~Closed /\ Len(video) < VideoQueue
          /\ video' = video \o cap.hand
          /\ cap' = [cap EXCEPT !.at = "running", !.hand = <<>>]
       \/ /\ Closed
          /\ cap' = [cap EXCEPT !.at = "gone", !.hand = <<>>]
          /\ UNCHANGED video
    /\ UNCHANGED <<loop, cmds, audio, clock, left, seen>>

------------------------------------------------------------------------------
(* The audio thread *)

\* A packet, when there is sound; the thread returns when the channel is gone
AudioSends ==
    /\ audio.at = "running"
    /\ \/ /\ ~Closed /\ ~audio.stop /\ audio.queued < AudioQueue /\ left.sound > 0
          /\ audio' = [audio EXCEPT !.queued = @ + 1]
          /\ left' = [left EXCEPT !.sound = @ - 1]
       \/ Closed /\ audio' = [audio EXCEPT !.at = "gone"] /\ UNCHANGED left
    /\ UNCHANGED <<loop, cmds, cap, video, clock, seen>>

\* The flag is looked at between two drains, not while a send waits for room
AudioStops ==
    /\ audio.at = "running" /\ audio.stop /\ audio.queued < AudioQueue
    /\ audio' = [audio EXCEPT !.at = "gone"]
    /\ UNCHANGED <<loop, cmds, cap, video, clock, left, seen>>

AudioFails ==
    /\ audio.at = "running" /\ left.faults > 0
    /\ audio' = [audio EXCEPT !.at = "gone"]
    /\ left' = [left EXCEPT !.faults = @ - 1]
    /\ UNCHANGED <<loop, cmds, cap, video, clock, seen>>

------------------------------------------------------------------------------
(* The cast loop *)

Cmd(t) == [type |-> t]

BitrateCmd(rate) == [type |-> "Bitrate", rate |-> rate]

ResolutionCmd(size) == [type |-> "Resolution", size |-> size]

\* choose_params: the desktop scaled into what the receiver takes
Chosen(native, caps) ==
    IF native.w <= caps.w /\ native.h <= caps.h THEN [w |-> Even(native.w), h |-> Even(native.h)]
    ELSE IF caps.w * native.h <= caps.h * native.w
    THEN [w |-> Even(caps.w), h |-> Even((native.h * caps.w) \div native.w)]
    ELSE [w |-> Even((native.w * caps.h) \div native.h), h |-> Even(caps.h)]

\* StartStream or SetMode on the link: a new stream for the receiver, which
\* waits for a keyframe
Started(params) == [size |-> params.size, mode |-> params.mode, synced |-> FALSE, last |-> <<>>]

\* The native size is here: the parameters, what the encoder must change, the
\* announcement, the audio thread and the controller, whose clamp panics when
\* the ceiling is below the minimum
StreamStarts ==
    /\ loop.phase = "opening" /\ cap.native
    /\ LET size   == Chosen(Native, Caps)
           params == [size |-> size, rate |-> loop.ceiling \div 2, mode |-> loop.params.mode]
       IN  /\ loop' = [loop EXCEPT
                 !.params = params,
                 !.phase = IF loop.ceiling < MinBitrate THEN "panicked" ELSE "casting",
                 !.ctl = NewController(loop.ceiling, params.rate, size, params.mode)]
           /\ cmds' = cmds \o (IF size = Native THEN <<>> ELSE <<ResolutionCmd(size)>>)
                           \o <<BitrateCmd(params.rate)>>
           /\ seen' = [seen EXCEPT !.told = Started(params)]
    /\ audio' = [audio EXCEPT !.at = "running"]
    /\ UNCHANGED <<cap, video, clock, left>>

\* Mutant: the error path does not tell the threads
GivesUpQuietly == loop' = [loop EXCEPT !.phase = "ending"] /\ UNCHANGED <<cmds, audio>>

\* Every way out of the session: the threads are told, and the goodbye begins
GivesUp ==
    /\ loop' = [loop EXCEPT !.phase = "ending"]
    /\ cmds' = Append(cmds, Cmd("Stop"))
    /\ audio' = [audio EXCEPT !.stop = TRUE]

\* recv_timeout: five seconds, or at once when the thread is gone
NoCapture ==
    /\ loop.phase = "opening" /\ ~cap.native
    /\ cap.at = "gone" \/ left.faults > 0
    /\ GivesUp
    /\ left' = [left EXCEPT !.faults = IF cap.at = "gone" THEN @ ELSE @ - 1]
    /\ UNCHANGED <<cap, video, clock, seen>>

\* Refers to what was sent just before it, or needs nothing
Decodable(f) ==
    f.key \/ \E i \in DOMAIN seen.told.last :
                 f.gen = seen.told.last[i].gen /\ f.n = seen.told.last[i].n + 1

\* Refers to a frame its encoder made and a failed call lost
Orphan(f) == <<f.gen, f.n - 1>> \in seen.dropped

SendsFrame ==
    /\ loop.phase = "casting" /\ video # <<>>
    /\ video' = Tail(video)
    /\ seen' = [seen EXCEPT !.told.last = <<Head(video)>>,
                            !.told.synced = @ \/ Head(video).key]
    /\ UNCHANGED <<loop, cmds, cap, audio, clock, left>>

\* video_rx.recv() is None
CaptureGone ==
    /\ loop.phase = "casting" /\ video = <<>> /\ cap.at = "gone"
    /\ GivesUp
    /\ UNCHANGED <<cap, video, clock, left, seen>>

SendsAudio ==
    /\ loop.phase = "casting" /\ loop.audioAlive
    /\ \/ /\ audio.queued > 0
          /\ audio' = [audio EXCEPT !.queued = @ - 1]
          /\ UNCHANGED loop
       \/ /\ audio.queued = 0 /\ audio.at = "gone"
          /\ loop' = [loop EXCEPT !.audioAlive = FALSE]
          /\ UNCHANGED audio
    /\ UNCHANGED <<cmds, cap, video, clock, left, seen>>

ReceiverWantsKeyframe ==
    /\ loop.phase = "casting" /\ left.commands > 0
    /\ cmds' = Append(cmds, Cmd("Keyframe"))
    /\ left' = [left EXCEPT !.commands = @ - 1]
    /\ UNCHANGED <<loop, cap, video, audio, clock, seen>>

Followed(params, c) == [params EXCEPT !.rate = c.bitrate, !.size = Size(c)]

\* A Stats message: the controller decides, and what differs from the
\* parameters goes to the encoder; a new size is announced to the receiver,
\* and a link that does not take that ends the cast
ReceiverReports ==
    /\ loop.phase = "casting" /\ left.reports > 0
    /\ \E r \in Reports, gap \in Gaps :
          LET now     == clock + gap
              c       == OnStats(loop.ctl, r, now)
              decides == c.bitrate # loop.ctl.bitrate \/ Size(c) # Size(loop.ctl)
              params  == IF decides THEN Followed(loop.params, c) ELSE loop.params
              resized == params.size # loop.params.size
              orders  == (IF params.rate # loop.params.rate THEN <<BitrateCmd(params.rate)>> ELSE <<>>)
                         \o (IF resized THEN <<ResolutionCmd(params.size)>> ELSE <<>>)
          IN  /\ clock' = now
              /\ \/ /\ loop' = [loop EXCEPT !.ctl = c, !.params = params]
                    /\ cmds' = cmds \o orders
                    /\ seen' = [seen EXCEPT
                          !.told = IF resized THEN Started(params) ELSE @,
                          !.troubleAt = IF Clean(r) THEN @ ELSE now,
                          !.heavy = IF loop.ctl.mode = Game /\ TooHeavy(loop.ctl, r, now) THEN @ + 1 ELSE @]
                    /\ left' = [left EXCEPT !.reports = @ - 1]
                    /\ UNCHANGED audio
                 \/ /\ resized /\ left.faults > 0
                    /\ loop' = [loop EXCEPT !.phase = "ending", !.ctl = c, !.params = params]
                    /\ cmds' = cmds \o Append(orders, Cmd("Stop"))
                    /\ audio' = [audio EXCEPT !.stop = TRUE]
                    /\ left' = [left EXCEPT !.reports = @ - 1, !.faults = @ - 1]
                    /\ UNCHANGED seen
    /\ UNCHANGED <<cap, video>>

Switched(lp, mode) == [lp EXCEPT !.params.mode = mode, !.ctl = SetMode(@, mode)]

\* CastCommand::SetMode, with a link that takes it or one that does not
UserSetsMode ==
    /\ loop.phase = "casting" /\ left.commands > 0
    /\ \E mode \in {Game, Quality} :
          /\ \/ /\ loop' = Switched(loop, mode)
                /\ cmds' = Append(cmds, [type |-> "Mode", mode |-> mode])
                /\ seen' = [seen EXCEPT !.told.mode = mode]
                /\ left' = [left EXCEPT !.commands = @ - 1]
                /\ UNCHANGED audio
             \/ /\ left.faults > 0
                /\ loop' = [Switched(loop, mode) EXCEPT !.phase = "ending"]
                /\ cmds' = cmds \o <<[type |-> "Mode", mode |-> mode], Cmd("Stop")>>
                /\ audio' = [audio EXCEPT !.stop = TRUE]
                /\ left' = [left EXCEPT !.commands = @ - 1, !.faults = @ - 1]
                /\ UNCHANGED seen
    /\ UNCHANGED <<cap, video, clock>>

\* CastCommand::Stop, or the receiver's Goodbye
CastStops ==
    /\ loop.phase = "casting"
    /\ GivesUp
    /\ UNCHANGED <<cap, video, clock, left, seen>>

LinkLost ==
    /\ loop.phase = "casting" /\ left.faults > 0
    /\ loop' = [loop EXCEPT !.phase = "reconnecting", !.videoAlive = TRUE]
    /\ left' = [left EXCEPT !.faults = @ - 1]
    /\ UNCHANGED <<cmds, cap, video, audio, clock, seen>>

\* reconnect_draining: what the threads make meanwhile is thrown away
DrainsVideo ==
    /\ loop.phase = "reconnecting" /\ loop.videoAlive
    /\ \/ video # <<>> /\ video' = Tail(video) /\ UNCHANGED loop
       \/ /\ video = <<>> /\ cap.at = "gone"
          /\ loop' = [loop EXCEPT !.videoAlive = FALSE]
          /\ UNCHANGED video
    /\ UNCHANGED <<cmds, cap, audio, clock, left, seen>>

DrainsAudio ==
    /\ loop.phase = "reconnecting" /\ loop.audioAlive
    /\ \/ audio.queued > 0 /\ audio' = [audio EXCEPT !.queued = @ - 1] /\ UNCHANGED loop
       \/ /\ audio.queued = 0 /\ audio.at = "gone"
          /\ loop' = [loop EXCEPT !.audioAlive = FALSE]
          /\ UNCHANGED audio
    /\ UNCHANGED <<cmds, cap, video, clock, left, seen>>

\* The link is made again and the session resumed: the stream is announced as
\* it is now, from a keyframe on
Reconnects ==
    /\ loop.phase = "reconnecting" /\ loop.videoAlive
    /\ loop' = [loop EXCEPT !.phase = "casting"]
    /\ cmds' = Append(cmds, Cmd("Keyframe"))
    /\ seen' = [seen EXCEPT !.told = Started(loop.params)]
    /\ UNCHANGED <<cap, video, audio, clock, left>>

\* Thirty seconds without a link, a refused resume, or nothing left to send
ReconnectFails ==
    /\ loop.phase = "reconnecting"
    /\ ~loop.videoAlive \/ left.faults > 0
    /\ GivesUp
    /\ left' = [left EXCEPT !.faults = IF loop.videoAlive THEN @ - 1 ELSE @]
    /\ UNCHANGED <<cap, video, clock, seen>>

\* The goodbye is read or 500 ms pass; the status is final and the channels close
CastReturns ==
    /\ loop.phase = "ending"
    /\ loop' = [loop EXCEPT !.phase = "over"]
    /\ video' = <<>>
    /\ audio' = [audio EXCEPT !.queued = 0]
    /\ UNCHANGED <<cmds, cap, clock, left, seen>>

------------------------------------------------------------------------------

Init ==
    /\ \E limit \in MaxBitrates, mode \in {Game, Quality} :
          LET ceiling == Atmost(limit, Caps.bitrate)
              params  == [size |-> Native, rate |-> ceiling \div 2, mode |-> mode]
          IN  /\ loop = [phase |-> "opening", ceiling |-> ceiling, params |-> params,
                         ctl |-> NewController(ceiling, params.rate, Native, mode),
                         audioAlive |-> TRUE, videoAlive |-> TRUE]
              /\ cap = [at |-> "opening", native |-> FALSE, cfg |-> params,
                        enc |-> NewEncoder(None, params, 0), hand |-> <<>>, last |-> FALSE]
    /\ cmds = <<>>
    /\ video = <<>>
    /\ audio = [at |-> "none", queued |-> 0, stop |-> FALSE]
    /\ clock = 0
    /\ left \in Budgets
    /\ seen = [told |-> Started([size |-> Native, mode |-> None]), troubleAt |-> 0, heavy |-> 0,
               dropped |-> {}]

CaptureNext ==
    \/ CaptureOpens \/ CaptureFailsToOpen \/ CaptureObeys \/ EncoderLost
    \/ Captures \/ CaptureSends

AudioNext == AudioSends \/ AudioStops \/ AudioFails

LoopNext ==
    \/ StreamStarts \/ NoCapture \/ SendsFrame \/ CaptureGone \/ SendsAudio
    \/ ReceiverWantsKeyframe \/ ReceiverReports \/ UserSetsMode \/ CastStops
    \/ LinkLost \/ DrainsVideo \/ DrainsAudio \/ Reconnects \/ ReconnectFails \/ CastReturns

Next == CaptureNext \/ AudioNext \/ LoopNext

Spec == Init /\ [][Next]_vars

\* The threads run, and select! takes a branch that stays ready
FairSpec ==
    /\ Spec
    /\ WF_vars(CaptureOpens \/ CaptureObeys) /\ WF_vars(CaptureSends)
    /\ WF_vars(AudioStops) /\ WF_vars(StreamStarts \/ NoCapture)
    /\ WF_vars(SendsFrame \/ CaptureGone) /\ WF_vars(DrainsVideo)
    /\ WF_vars(Reconnects \/ ReconnectFails) /\ WF_vars(CastReturns)

------------------------------------------------------------------------------
(* What must hold *)

\* Once the capture thread has caught up with its commands, its encoder has
\* the size, bitrate and mode of the parameters, and the receiver was told
\* that size and mode: after a stepped resolution, a change of mode, an
\* encoder opened anew and a link made again (cast.rs, commands and
\* StartStream).
SettingsAgree ==
    loop.phase = "casting" /\ cap.at \in {"running", "sending"} /\ cmds = <<>> =>
        /\ cap.enc.size = loop.params.size
        /\ seen.told.size = loop.params.size /\ seen.told.mode = loop.params.mode
        /\ cap.enc.kind # "plain" =>
              cap.enc.rate = loop.params.rate /\ cap.enc.mode = loop.params.mode

\* The receiver numbers what it gets and takes a delta for playable when the
\* numbers follow each other, so within one announced stream, from its first
\* keyframe on, every frame sent is a keyframe or refers to the frame sent
\* just before: whatever the encoder holds back, whenever it is replaced, and
\* whatever is thrown away while the link is down (encoder.rs, encode;
\* cast.rs, reconnect_draining).  The one exception is the frame after one
\* that a failed call of the encoder lost: cast.rs warns and goes on.
SentStreamDecodes ==
    [][seen.told.synced /\ seen'.told.synced /\ video # <<>> /\ seen'.told.last # seen.told.last
          => Decodable(Head(video)) \/ Orphan(Head(video))]_vars

\* The wait after n rungs that proved too heavy, were it not limited
Doubled[n \in Nat] == IF n = 0 THEN CleanStepUp ELSE 2 * Doubled[n - 1]

\* The resolution goes up only after a clean time that doubles with every
\* report that showed a rung too heavy for the decoder, up to the limit and
\* whatever mode the cast was in meanwhile; the reports are counted here, the
\* wait is the controller's (bitrate.rs, step_up_wait_us).
StepUpIsEarned ==
    [][loop.phase = "casting" /\ left'.reports < left.reports /\ loop'.ctl.rung < loop.ctl.rung
          => clock' - seen'.troubleAt >= Atmost(Doubled[seen.heavy], MaxStepUpWait)]_vars

\* A cast that ends takes both threads with it, and a capture thread that ends
\* takes the cast with it (cast.rs, teardown and the two channels).
EndsTogether ==
    /\ loop.phase = "ending" ~> loop.phase = "over" /\ cap.at = "gone" /\ audio.at # "running"
    /\ cap.at = "gone" ~> loop.phase \in {"over", "panicked"}

=============================================================================
