# castr in TLA+

castr is a screen-casting system in Rust: a Windows sender captures, encodes and
sends its screen; a receiver (a Raspberry Pi on a television, or any desktop)
decodes and shows it. There are two ways onto the screen. The *castr protocol*
runs over QUIC: control messages on a stream, video and audio in unreliable
datagrams that are repaired by NACKs. *Miracast* runs over Wi-Fi Direct: the
receiver is a group owner with a WPS PIN, the source speaks RTSP to it and sends
RTP. Both share one screen, one jitter buffer and one decode thread.

This directory holds models of the parts of castr in which the order of events
decides, the TLC configurations that check them, and proofs that TLAPS checks.
`PROJECT.json` maps every definition to the lines it models.

## 1. Inventory

| component | state | operations | talks to | what makes it right |
|---|---|---|---|---|
| jitter buffer (`castr-media/jitter.rs`) | queue of frames, last frame out, playout base, need_keyframe, gap timer, dropped counter | push, pop, flush, set_mode, require_keyframe, dropped | network task, decode thread, stats tick, Miracast events thread (one mutex) | stream order across the wrap of u32 numbers; no delta frame without its reference; no endless wait; every loss counted |
| video transport (`castr-proto/packetize.rs`, `reassemble.rs`, `castr-net/retransmit.rs`) | partial frames, watermark, loss counter, retransmit buffer, NACK rate limit | packetize, push, tick, record, lookup, prune | QUIC datagrams, NACK stream | a frame at most once; repair not cut off by newer frames; bounded memory; loss reported |
| cast session (`castr-proto/session.rs`, accept loop and control branch of `castr-receiver/pipeline.rs`, `castr-sender/cast.rs`) | session state and token, display owner, the one connection, each sender's phase | Hello, resume, StartStream, SetMode, Goodbye, loss, reconnect, restart | arbiter, jitter buffer | display held exactly while streaming; a session resumed only by its sender and in time; both ends in one mode |
| display arbiter and overlay (`display.rs`, `render.rs`) | owner, text over the picture | try_acquire, release, set overlay, present | castr handler, Miracast sink | one cast at a time; text that tells the truth |
| Miracast sink (`castr-miracast/sink.rs`, `lifecycle.rs`, `pairing.rs`) | group, stations, session_peer, lifecycle phase, held flag, PIN | supplicant events, RTSP accept, media, hold timer, radio failure | wpa_supplicant, arbiter, events thread | screen exclusive, never stuck; a PIN on offer whenever nobody is here |
| Miracast sink session (`session.rs`, `rtsp.rs`, `wfd.rs`) | RTSP phase, CSeq, silence timer | M1 to M7, keep-alive, teardown | source, sink thread | negotiation finishes or fails; silence is noticed |
| Miracast media in (`rtp.rs`, `ts.rs`) | RTP reorder window, PES assembly | push, pop, demux | sink session | packets in order, losses skipped |
| Miracast source (`source/*`, `castr-sender/miracast_cast.rs`) | RTSP phase, capabilities, mux counters | M1 to M7, keep-alive, IDR request | Wi-Fi Direct radio, encoder | negotiates a mode both can do; keep-alive timeout ends the cast |
| PIN pairing (`castr-net/pairing.rs`, `identity.rs`, the pairing branch of `handle_connection`, `pair_interactive`) | paired stores at both ends, failures in the last minute | PairRequest, PairResponse, PairConfirm, PairOk | session handler, GUI | both ends store each other's certificate or neither uses it; guesses limited |
| bitrate controller (`castr-media/bitrate.rs`) | target, last decisions | on_stats | cast loop, encoder | stays in its range, backs off on loss, recovers |
| decode thread and V4L2 decoder (`pipeline.rs`, `castr-codec-v4l2`) | decoder kind, error window, buffer ownership | decode, rebuild, fall back, drain | jitter buffer, keyframe requests | a bad decoder is replaced; a buffer is never owned twice |
| audio and clock (`castr-media/audio.rs`, `clock.rs`, `audio_out.rs`) | anchor, queue | push, play | decode thread | audio and video stay together |
| GUI and control socket (`castr-sender/gui`, `control`) | active cast, targets, single-instance record | start, stop, pair, list | cast loop | one cast at a time, stops stop |
| QUIC transport, TLS, discovery (`castr-net/transport.rs`, `tls.rs`, `discovery.rs`) | connections | connect, accept, send, receive | quinn, mdns | a thin layer: the environment of the models |
| platform codecs and capture, diagnostics, firewall, entry points | — | calls into Windows, the kernel, the registry | — | outside: pure I/O |

Hard behaviours: three threads and a task share the jitter buffer; a network that
loses, repeats and reorders; reconnection with a token that ages; processes that
crash or restart between two writes; a kernel driver and a `wpa_supplicant` that run
on their own and answer late; a teardown in several steps while the other protocol
starts; stations that join and leave in any order; commands that find a cast by a
file it may have left behind; timers (gap, NACK, token, hold, keep-alive, registration
window) that race the events they wait for. `PROJECT.json` lists them under
`hazards`, each at its line, with the properties about it.

## 2. Modules and the code they model

Every module keeps the control of its code and abstracts the data: payloads, texts
and picture contents are absent, a frame is its number, its place in the stream and
whether it is a keyframe. Times are small integers; constants carry the names of the
durations in the code. `PROJECT.json` (`map`) gives the lines of every definition.

The path of a castr frame:

- **FrameOrder** - `newer_or_eq` and the successor of a frame number over a modulus.
- **JitterBuffer** (extends FrameOrder) - `jitter.rs`. `Arrive` is `push`; `Pop` is
  `pop`, one disjunct per way through it (first keyframe, hold, jump over a gap,
  wait, give up, game mode, quality mode); `Flush`, `SetMode`, `RequireKeyframe`,
  `TakeDropped` are the methods, `StartStream` the receiver replacing the buffer.
  `out` and `account` are history variables.
- **VideoTransport** (extends FrameOrder, implements **FrameDelivery**) - packetizer,
  a network that loses, repeats and reorders fragments, `Reassembler`, the
  receiver's NACK tick with its rate limit, `RetransmitBuffer`. FrameDelivery is what
  the jitter buffer relies on: frames offered in order, each handed over at most once.
- **Decoding** - the decode thread of `pipeline.rs` with its error window, rebuild and
  fall-back to software, and the V4L2 decoder: `dec` is the decoder's record, `hw` the
  driver's state. A program counter makes a step of every ioctl or poll after which
  the driver may have moved; the driver skips, fails, stalls and changes the format.
- **Playout** - the SDL loop with its one-frame lookahead, `AudioOut`, `AvClock` and
  the channel that feeds them. Time stamps are kept as ages, so that the receiver's
  clock is one number, `delay`, and a second sender's clock is a jump.

Sessions and the screen:

- **CastSession** - the receiver's `ReceiverSession`, accept loop, greeting and control
  branch, its arbiter and the mode of its jitter buffer; and, for each sender,
  `connect_with_retry`, the cast loop, `reconnect_draining` and the goodbye. A
  *prober* is a sender inside `pair_interactive`. Connections are lost silently; the
  receiver may restart.
- **Pairing** - the PIN exchange over the serial accept loop: `PairingGuard`, the PIN
  on the screen, the certificates that are pinned or not, both ends' stores with
  `write_atomic`'s temporary file, crashes between its steps. SPAKE2 and the
  MACs are ideal.
- **MiracastSink** - `serve` of `sink.rs` with `Lifecycle` and the PIN: stations join
  and leave (each join may be reported twice), an RTSP connection is accepted or
  refused, media flows, sessions end, the hold expires, the radio fails.
- **ScreenSharing** (extends MiracastSink) - the composition: the castr handler and the
  three separate steps of its teardown, the Miracast events thread, the shared
  jitter buffer (its numbers and `last_popped`), the overlay over the picture.

Miracast below the sink and at the source:

- **GroupFormation** - what brings the group up: `ensure_supplicant`, `one_group`,
  `GroupGuard`, the control connection of `p2p.rs` (one command at a time, answers
  that come late), the working configuration of `supplicant_conf.rs`, `WpsWindow`,
  DHCP's lease. The supplicant is external.
- **Capabilities** - the mode tables, profiles and levels of `source/caps.rs` and the
  choice of the stream under the ceilings of user and display, as pure operators.
- **MiracastRtsp** (extends Capabilities) - one session from end to end: castr's source
  (`source/session.rs` in the loop of `miracast_cast.rs`, with its encoder and audio
  threads) against a display that speaks as castr's sink does (`Negotiation` inside
  `Session`). Two FIFO channels; the link may stall or die without a word.
- **MiracastMedia** - multiplexer, RTP packetizer, UDP, reordering window and
  demultiplexer, with the padding, continuity counters and sizes of the code.

The sender:

- **BitrateController** - `bitrate.rs` as operators on a record.
- **SenderMedia** (extends BitrateController) - the capture thread with its encoder and
  commands, the audio thread, the bounded channels and the cast loop with reports,
  mode changes, reconnection and every way out. A frame is its encoder and its number
  in that encoder's stream.
- **CastControl** - Miracast runs and the commands that look for them: the record
  file, the reused loopback port, the token, stop and status, and the Wi-Fi Direct
  group with its retry after a stale pairing.
- **SenderShell** (extends CastControl) - the window: scans, castr pairing, the prompt
  shared by pairings and runs, the active cast, the mode switch, the Wi-Fi check,
  closing; and the terminal commands. A frame of the window is one step.

Each **..._proofs** module extends the module it is named after and holds its
theorems (section 4); ScreenSharing_proofs also holds those of MiracastSink and GroupFormation. The
**MC** modules instantiate the specifications for TLC, with the bounds in their
`.cfg`.

Definitions commented *Mutant* are faulty variants of the definition below them. No
run uses them; put in its place, each makes the property listed with it in
`PROJECT.json` fail, which shows that the property depends on that code.

## 3. Runs

| run | checks | shows |
|---|---|---|
| `jitter` | QueueInStreamOrder, ReadyToPlay, FramesAccountedFor, DeltaFollowsItsReference, GapEnds | Across the wrap, with loss, reordering, mode changes, flushes, decode errors and replaced buffers: the queue is in stream order and newer than what was shown; `pop`'s `expect` cannot fail; every frame is shown, queued, flushed or counted; no delta without its reference; a wait for a missing frame ends |
| `transport` | DeliversFrames, RepairGoesOn, RepairEnds | A frame is handed over at most once (refinement of FrameDelivery); newer frames do not cut off a repair; every repair ends, and a frame given up is counted as lost |
| `decoding` | BuffersHaveOneOwner, PicturesInOrder, DecodeReturns | Queue flags and driver agree on every buffer; pictures come out once, in order, none thrown away by a change of size; the thread never hangs in a decode |
| `playout` | EveryPictureIsShown, PicturesComeDue | Every decoded picture is presented once and in order; the newest comes due without a successor, whatever the sound does short of standing still for good within the lag limit (section 5) |
| `session` | ModesAgree, ResumedByItsSender, CastSettles | Sender and jitter buffer end up in one mode; only the sender that opened a session resumes it; every attempt to start or resume ends |
| `pairing` | ProvenBeforeStored, PairingsSurvive, AcceptsAgain | Only a PIN typed for this very connection pairs; a stored pairing survives crashes and failed writes; the accept loop always comes back |
| `screen` | ScreenHasOneCast, PinOnScreenIsArmed, ScreenIsExclusive, SinkIsReadyAgain | One cast on the screen; arbiter, `held`, lifecycle and session agree on whose; a PIN on the screen is one the registrar accepts; once the stations have left the screen comes free and a PIN is on offer, unless the last connection never spoke (section 5) |
| `rtsp` | PlayIsSettled, HealthySessionLives, SelectionSuitsBoth, DeadLinkIsNoticed | Media starts when mode, port and session are settled, although the sink matches answers without CSeq; no timer ends a session whose link never stalled; the stream chosen is one the display decodes, within every limit, and the encoder never exceeds it; a dead link is noticed |
| `media` | UnitsAreWhole, WholeUnitsAreDelivered | What the sink emits is whole, once and in order; nothing that got through is withheld |
| `group` | PairedSourcesReturn, SinkKnowsItsGroup, SinkComesBack | A source that paired once gets back in, over redeploys, kills and a read-only disk; the sink knows the group, its sources and a PIN that works; it comes back after every failure |
| `sender_media` | SettingsAgree, SentStreamDecodes, StepUpIsEarned, EndsTogether | Encoder, parameters and receiver agree; what is sent can be decoded, but for the frame after one that a failed call of the encoder lost (section 5); the resolution goes up only after the clean time it takes, doubled for every rung that was too heavy; threads and cast end together |
| `shell` | StopReachesItsCast, StopIsObeyed, StalePairingHeals, WindowRecovers | A stop reaches the cast whose record it read, behind other clients and after its command gave up, and no cast nobody asked to stop; it is obeyed; a stale pairing is healed once; the window is usable after every end |

### Bounds

- `jitter`: four frames over a modulus of 16 from 14, across the wrap; limits of 1
  and three ticks, so that a frame can be early, on time or too late and both depth
  limits are exceeded.
- `transport`: two frames of up to two fragments from the last number before the
  wrap: one under repair, one that could cut it off. Four ticks exceed each age
  limit; one NACK may be under way, the round trip moves between 1 and 2.
- `decoding`: three frames, two in flight, two CAPTURE buffers, two picture sizes, one
  fault: a source change can grow and shrink the picture with both queues full.
- `playout`: a channel of two, two pictures, up to three packets lost in a row (the
  largest gap that is concealed is two), a queue that can exceed four times its
  target, one second cast whose clock is 4 ticks ahead or behind, more than the lag
  limit of 2. A sound clock may move on, stand anywhere within the limit behind the
  newest picture, or lag by more, packet by packet. Ages of pictures stop at 12; what
  the clock still has to run before a picture is due does not.
- `session`: a casting sender and a prober, two modes; one restart, two lost
  connections, two queued messages; the token outlives the reconnect budget by one
  tick, as 60 s does 30 s.
- `pairing`: two senders, two PINs, three connections; a lock after two failures
  within two ticks; one crash, lost link or failed write.
- `screen`: one station, castr's handler, one frame of each protocol, four unread
  messages. Two stations matter only for the peer of a session (section 5).
- `rtsp`: every combination of ten displays, two modes and four ceilings without
  upsets; castr's own sink with a stall and two upsets (losses, decode errors, ladder
  steps, media faults) together, and a small picture with one.
- `media`: access units of one packet and of three, datagrams of two packets, a
  continuity counter of 4 values and sequence numbers of 10, so that both wrap; two
  faults among four units.
- `group`, `sender_media`, `shell`: a behaviour picks one of a few *budgets* at the
  start, each a bound on every kind of event. Each budget is there for a group of
  hazards (a redeploy with two kills; reports alone, deep enough to climb, fall and
  climb the ladder again; two terminals on one port, and so on). Two sources, two
  ports, two runs and two commands are the least that can be confused.

Clocks that stop at a last tick (`jitter`, `transport`, `session`) have liveness
properties that speak of the waits whose limit falls before it. Deadlock is not
checked: a model stops when its bounds are used up.

### Fairness

- `jitter`: the decode thread polls `pop` every 2 ms; time passes.
- `transport`: the NACK tick and the sender's control task run; time passes. Nothing
  is assumed of the network.
- `decoding`: the thread runs and poll times out. The driver is not fair.
- `playout`: the loop runs, the network task sends what it has, time passes. No
  picture and no sound has to arrive.
- `session`: both programs' select loops run; time passes. No connection is promised
  to succeed, and which waiting sender is accepted is left open.
- `pairing`: both programs run and the user of a prompt types or cancels.
- `screen`: the events thread reads; `serve` gets round to minting a PIN, ending a
  session whose station spoke and is gone, and expiring a hold. Nothing is assumed of
  a connection on which nothing was ever read: its time-outs are armed by the first
  message (`rtsp.rs:443`, `580-589`). Strong, because the bound on the
  channel, which the code does not have, disables these now and then.
- `rtsp`: both loops run, frames keep coming (a still desktop is repeated), a stall
  ends, time passes. A dead link stays dead and nobody has to stop the cast.
- `group`: the sink's thread runs, a supplicant that is up answers, a source that has
  asked to come back is not ignored for ever.
- `sender_media`: threads run and `select!` takes a branch that stays ready.
- `shell`: threads, commands and workers run, a prompt is answered or cancelled.

## 4. Proofs

TLAPS proves the theorems below for every value of the constants that meets the
named assumptions of the modules: any modulus, any limits, any senders, stations,
displays or capacities, and any number of the losses, crashes and restarts that the
runs bound. The assumptions say that the constants have their types, that `None` is
not one of the values it stands beside, and, in FrameOrder, JitterBuffer and
VideoTransport, that the modulus is larger than 4 and a stream is not longer than half
of it (2^31 frames, more than a year at 60 frames per second). In GroupFormation they
say of the machine at the start that its file is a list of groups and that the sources
paired before hold the credentials of the first, as `stored_persistent_group` has it.
MiracastRtsp adds that a keep-alive is not slower than the silence it prevents and that
media may be silent for at least a tick (5 s, 10 s and 2 s in `rtsp.rs:336-339`,
`source/session.rs:24-25` and `session.rs:18`), and that a cast has one of the two modes
and a ceiling that is a number or none. Each inductive invariant was model-checked on
the run's instance before it was proved.

**JitterBuffer_proofs**

- *NewerIsLater* (of FrameOrder): on the numbers of two frames less than half the
  modulus apart, `newer_or_eq` is the order of the stream, across the wrap.
  VideoTransport_proofs has it as a lemma.
- *TypeCorrect*: the types, from lemmas on what insertion, `take` and `trim_waiting` do
  to the queue.
- *AlwaysReadyToPlay*: a queued frame has a playout base, because `push` sets it and
  whatever forgets it empties the queue too; a buffer that does not wait for a keyframe
  remembers the frame the decoder holds.
- *DeltaSafe*: no delta frame without its reference. Only `Pop` changes the frame
  handed out; it takes a keyframe, or the head of a queue without a gap. That the head
  then follows the *decoder's* frame, and not only `last_popped`, is the second half
  of ReadyToPlay. No bound on the stream is needed.
- *StreamInvariant*, with *QueueIsOrdered* and *EveryFrameIsAccountedFor*. The invariant
  StreamInv translates numbers into places in the stream: a number in the queue or
  handed out is that of a frame that arrived, and places increase along the queue and
  from the last frame out. Order of numbers alone is not inductive: a frame that
  arrives is compared with one number at a time, and the comparison is not transitive.
  The sum of shown, queued, flushed and dropped needs the types only.

**VideoTransport_proofs**

- *TransportRefinesDelivery*: `Spec => DeliversFrames`, the refinement of FrameDelivery:
  initial states map to initial states, a step to a step or a stutter. TransportInv
  says that what is in flight belongs to a frame that was sent, that a pending frame
  is filed under its own number and not handed over yet, and that the watermark is at
  or past everything handed over. The last is what stops a frame that expired and
  was re-created by an answer to a NACK from being handed over again.
- *RepairIsNotCutOff*: the action property RepairGoesOn, from the same invariant.

**ScreenSharing_proofs**

- *ScreenExclusive* (of MiracastSink): `SinkSpec => [](SinkTypeOK /\ ScreenIsExclusive)`.
  The two are proved together: the steps that free the display do so only if `held`,
  and that `held` is set in a hold is part of the agreement.
- *OneCastOnScreen*: `Spec => [](ScreenIsExclusive /\ ScreenHasOneCast)` for the
  composition. The lemma SinkLeavesCastr says that no step of the sink changes whether
  castr owns the display; the castr handler in turn changes the owner only between
  Idle and Castr. ShareInv, the sink's invariant with the agreement, is then inductive
  through castr's teardown in three steps.
- *ShownPinIsArmed*: PinInv says that while the registrar is not armed every PIN on its
  way to the screen, and one that is there, has a message behind it that takes it off.
  It speaks of the whole channel, because the events thread may be any number of
  messages late.
- *PairedSourcesComeBack* (of GroupFormation): `GroupSpec => []PairedSourcesReturn`,
  from RadioInv. While the working copy can be written and nothing was cut short or
  came late, every source's credentials open the first group of the file that is on
  disk, or about to be written over it (Keys), a group that is up or coming up is the
  first one stored (Group), and so is the one `P2P_GROUP_ADD` asks for. That last fact
  is about a number read two commands earlier. It holds because the supplicant has no
  group, and forms none, from the first command of a pass until that one is obeyed
  (Places); that takes in turn that an answer read is the answer to the command that
  was asked (Asking, OneAnswer), that the event which ends the wait is never missed
  (Coming), and that a pass that fails with a group up removes it. A command whose
  answer came too late breaks all of this, as the property allows.

**CastSession_proofs**, from CastInv: types, tokens, greetings and modes together.

- *OnlyItsSenderResumes*: tokens are numbered in the order they are drawn, so whoever
  has the latest one, in hand or in a message not read yet, must be the sender it was
  told to (TokenInv). A token survives its connection on both sides; hence the
  invariant is about messages on dead connections, too.
- *ModesAlwaysAgree*: the SetMode and StartStream messages not read yet end with the
  mode the user chose last (ModeInv). It needs HelloInv: nothing but a Hello is on a
  connection that was not greeted, so nobody changes a mode before the greeting.

**Pairing_proofs**, from PairInv.

- *StoredIsProven*: a proof of the PIN now on the screen, made or on its way, is of a
  user who read it there (PinInv); a proof that comes back, or an entry in a store, is
  about such a sender (ProvenInv). A Hello is the first thing on its connection (HelloInv),
  so nothing of an attempt is there before its PIN, and what is on disk after a crash is what the files say (FilesInv).
- *PairingsStay*: the action property that nothing leaves the receiver's disk and that
  a complete identity is never made again: `write_atomic` changes a file in one step,
  and memory never has less than the disk while the loop runs.

**SenderMedia_proofs**, from MediaInv.

- *SettingsAlwaysAgree*: the commands not obeyed yet turn the capture thread's settings
  into those of the cast (Turns: for every setting the last command of its kind
  carries the value wanted, and without one nothing is left to do). Agreement when
  the queue is empty, which is what the property says, is not inductive. An encoder
  that obeys nothing but its size is allowed for, as the code does.
- *SentStreamsDecode*: everything on its way to the receiver - the frame sent last, the
  channel, the frame in the thread's hand, what the encoder holds, its next input -
  is one chain in which each frame is a keyframe, refers to the one before, or to one
  that a failed call of the encoder lost (ChainInv). Frames are otherwise lost only at
  its front, when a cast reconnects, or at its back, with an encoder whose successor
  starts with a keyframe. The lemmas on chains say what joining, cutting, skipping the
  front and losing one in the middle do. The exception is what the code does, not a
  convenience: section 5 says where it comes from.
- *StepsUpAreEarned*: the action property StepUpIsEarned, from MediaInv with WaitInv:
  time does not go back; the controller's clean time begins after the last trouble it
  was told of; and the wait before a step up is CleanStepUp, doubled once for every report
  that showed a rung too heavy for the decoder, up to the limit. The history counts
  those reports, whatever the controller made of them; that its wait follows the count
  is part of the invariant, and a controller that does not double it fails the run.
  A report that steps up is clean, so it is not
  one of a heavy rung. The doubling is a recursive function; that it exists and is what
  its definition says is proved from a least counterexample.

**MiracastRtsp_proofs** - *PlayIsAlwaysSettled*, from RtspInv: M3 is asked once, by M2 or
by the grace period (AskedOnce), so the choice is made once; before it nothing that
builds on it is under way (NothingEarly); what the sink has sent tells how far it has
come and which mode it has (SinkFollows); an M4 on its way carries the source's choice
(Selects), and a PLAY has a SETUP before it unless the port is known (SetupFirst). The
lemmas on channels say how these facts fare when messages are appended, read, or lost
with a connection that is reset; QuietStep covers every step the exchange does not
turn on. That an answer to a keep-alive may be taken for the answer to SETUP is allowed
throughout.

- *HealthySessionsLive*, from HealthInv: RtspInv, and while the link has never stalled
  three more groups of facts. No state is left: messages are in the order they were
  sent, a greeting, M4, M5 and SETUP are each under way once, at either end of the
  exchange, and the answers the sink waits for carry the session it expects (Greeting,
  Supported, SetUpOnce, in Orderly). No timer runs out: each end heard the other within
  one keep-alive period, and since its last keep-alive unless that, or the answer to
  it, is still under way (SourceOnTime, SinkOnTime); media flows while both ends play
  (MediaFlows). The property alone is about sessions that have ended, and says nothing
  of the step before.
- *SelectionsSuitBoth*, from SelectInv: RtspInv, and that once the source has the
  capabilities its choice is what `choose_selection` makes of the display, the mode
  and the ceiling, that it has no rate before, that every rate asked for is a number, and
  that the rate set is no higher than the one negotiated (RateInv). The lemmas are
  about the choice: every set of castr's modes has a first in the order of `our_modes`
  (FirstOfOurs, by a number that orders them the same way); a mode found in a codec tuple
  has its bit in that tuple's mask, and a profile and level of it; the ceiling on
  the picture leaves room for the sound under every limit, the u16 of the capability
  included; and castr's own sink reads back the mode it advertised.

**Decoding_proofs**, from *DecoderStaysConsistent* (`Spec => []IInv`), for any number of
buffers and any limits. IInv says of the decoder and of the driver, whatever the
hardware has done since the last ioctl: which slots and capture buffers each of them
holds (SlotsOwned, BuffersOwned); that the frame numbers in `ready`, in the filled
buffers and in the jobs increase in that order (StreamOrder); and when the geometry of
the pictures is the driver's (Geometry). Of the thread it says that nothing in flight
is older than the picture shown or newer than the frame handed out, at every program
counter (ThreadOrder), what is drained when a rebuild starts (Drained), and that there
is a slot for the frame about to be put (Room).

- *EachBufferHasOneOwner*: BuffersHaveOneOwner as the property states it, with numbers
  of buffers, does not carry itself through a step: that the three places a buffer can
  be in are disjoint sets, and name buffers that exist, is what does.
- *PicturesStayInOrder*: the action property PicturesInOrder. A picture popped is newer
  than the one shown by StreamOrder and ThreadOrder together; that a rebuild throws
  nothing away that could still be collected is Drained.

What `collect_capture` puts into `ready` is a recursive function over the filled
buffers (Readied); its lemmas are proved from a least counterexample, which is how
induction over data can be done with these provers.

**Only model-checked**

- Liveness under fairness, which is outside what the prover does: GapEnds, RepairEnds,
  CastSettles, SinkIsReadyAgain, DeadLinkIsNoticed, DecodeReturns, PicturesComeDue,
  AcceptsAgain, SinkComesBack, EndsTogether, StopReachesItsCast, StopIsObeyed,
  StalePairingHeals, WindowRecovers.
- Safety that needs induction over data, because what it speaks of is computed by going
  through a sequence: EveryPictureIsShown (a filter), UnitsAreWhole and
  WholeUnitsAreDelivered of MiracastMedia (a unit is cut into packets by `Rest`, and the
  demultiplexer is folded over what the window releases), SinkKnowsItsGroup of
  GroupFormation (the last event about a source survives `Deduped`, a fold).

## 5. Observations

What the models showed, or met on the way, of the code as it is. The first group are
disagreements between the code and a comment or document of the repository; the rest
are behaviours that the models contain, or that mark where they stop.

**Code against its comments**

- A connection refused because the display is busy leaves the session Disconnected
  although nothing streamed (`pipeline.rs:805`, against the comments at 711 and 729).
- A second station that joins becomes `session_peer`, and its leaving ends the
  session of the first (`sink.rs:467`, against 322).
- The teardown of a refused castr connection flushes the jitter buffer of the Miracast
  session that owns the display (`pipeline.rs:693`, against `display.rs:5` and
  `sink.rs:435`).
- After a castr cast the keyframes of a Miracast session, whose numbers restart, are
  dropped as too old (`pipeline.rs:1191`, against `jitter.rs:29`).
- A picture damaged within 500 ms of a keyframe request is never reported
  (`session.rs:119-123`, `rtsp.rs:621`).
- A `--max-bitrate` below `MIN_BITRATE` makes the controller's clamp panic after the
  threads have started, and the teardown that "always runs" does not
  (`bitrate.rs:57`, `cast.rs:488-490`, `main.rs:81`).
- The one-cast check reads a record that is written only later, so two casts started
  together both run (`main.rs:317-320`, against `gui/session.rs:10`).
- The comments at `wfd.rs:17-19` and `caps.rs:73,317-333` disagree about which bit is
  which profile: castr's source encodes Constrained High for castr's own sink.
- Entering Quality mode sets the rung to native while the encoder keeps the reduced
  size until the next bitrate decision
  (`docs/superpowers/plans/2026-09-01-castr-core.md:2428`: "resets to native").
- An output the encoder cannot hand over is gone (`encoder.rs:285`, `286` and `309`,
  reached from 245, 350 and 357, against `encoder.rs:19-22`, "so no access unit is ever
  dropped"). `cast.rs:348` only warns, asks for no keyframe, and numbers what follows
  without a gap, so the receiver cannot tell that the next frame refers to one it was
  never sent: the picture stays wrong until the next keyframe. SentStreamDecodes names
  this one frame as its exception.
- A station whose hold has expired, and that connects again and never says a word,
  keeps the screen when it leaves without closing, and no PIN is minted, against
  `lifecycle.rs:9-11`. The connection takes the display (`sink.rs:541-552`), the
  session's time-outs are armed by what it hears first (`rtsp.rs:580-589`,
  `session.rs:140`), and its leaving the group does not end it because `session_peer`
  was cleared with the hold (`sink.rs:623-625`) or belongs to a newcomer. SinkIsReadyAgain
  names this connection as its exception (Mute), and fails without it.
- Sound whose time stamps stand still within a second of the newest picture never
  counts as lagging, and every packet sets the clock before that picture again: without
  a successor it is held for ever (`pipeline.rs:536-551`, against 484-486).
  PicturesComeDue names this sound as its exception (SoundStandsStill), and fails
  without it.

**Sessions.** A Disconnected session expires only when somebody asks. A Hello without
a token, or with an old one, destroys the session of another sender. A SessionToken
lost before it is read leaves nothing to resume with; after a reconnect a failed
`recv_control` ends the cast without a retry (`cast.rs:686`). The pairing limiter counts
over all senders, a cancelled prompt or an unpaired cast is a failed attempt, `locked`
and `required` share code 4, and `pair_as_receiver` has no timeout: a user at the PIN
prompt holds up the accept loop.

**Screen.** A Miracast PIN is shown over a running castr cast, castr's teardown
overwrites a Miracast PIN (`pipeline.rs:699`), a radio error blanks the idle text
(`lifecycle.rs:95`), and `overlay_survives_frame` takes any sender whose name contains
"PIN" for a PIN. When the UI channel is full the events thread may apply an event of
an old session late (`pipeline.rs:1251`).

**Transport.** A partial frame re-created after its expiry counts its losses twice; a
frame all of whose fragments are lost is never asked for; the NACK rate limit forgets
an expired frame (`pipeline.rs:955`).

**Playout.** The clock's offset and `latest_video_ts` outlive a cast although castr's
time stamps restart (`cast.rs:281`): in a second cast all sound counts as lagging until
it outlasts the first, and after a source with a larger time base the newest picture is
held until the next displaces it. The audio anchor also moves the video offset, so
`audio_stale` never changes when a picture is due. `conceal_one` ignores the limit on
the queue.

**Wi-Fi Direct.** The answer to a `SCAN` that timed out is read as the reply to
`LIST_NETWORKS`, so the sink makes a new group and locks paired sources out
(`sink.rs:216-219`). `GroupGuard` exists only after `wait_for_group`: a group that starts
after 20 s is removed by nobody (`sink.rs:287`). A supplicant that dies by itself leaves
its socket file, which `ensure_supplicant` trusts (`sink.rs:182-184`), and a serving sink
does not notice its death. The working configuration is rewritten without `fsync`.
`WpsWindow::reset` is never called; two sources get the same DHCP address. The source has no timer
before PLAY (`source/session.rs:409`). The ladder of the sink assumes 8000 kbit/s at the start
whatever the source chose. A display ceiling of 3 Mbit/s or less is reported as "no
video format in common".

**Media.** The loss of a multiple of 16 packets of one PID is invisible to the
continuity counter; the last unit is emitted only when another starts.

**Sender.** In Quality mode `queue_high_since` and `at_floor_since` are not cleared; a
ceiling equal to the minimum makes the resolution go up and down; a capture reopened
uses output 0 whatever `CASTR_OUTPUT` says (`cast.rs:315`). The end of one pairing
closes the prompt of another (`gui/mod.rs:146-149`); a Stop sent with `try_send` is lost
when the channel is full; checks of the radio and of `RunGuard` are followed by a
separate write; a client's `discard`, and the end of the first of two casts, can remove
the record of another. A request may be obeyed after its command reported a timeout.

**Decoding.** A drain into a larger picture stops at the first picture whose requeue
is refused; after a failed reconfiguration there is no capture queue; errors of
`poll_frame` do not enter the error window; falling back in Auto does not change the
choice, so the hardware is tried again.

## 6. Not modelled

- **QUIC, TLS, mDNS** (`castr-net`): thin wrappers of libraries. They are the
  environment: reliable ordered control messages until a silent loss, unreliable
  datagrams.
- **Diagnostics and firewall**: they read and write text, the registry and command
  output, and keep no state.
- **Platform codecs and capture**: pixels, cursor, Media Foundation. What the control
  loop sees of them (a frame, none, an error, a reopened device) is in SenderMedia; the
  driver of the V4L2 decoder is in Decoding.
- **Entry points, argument parsing, logging, drawing, message texts**. Which arguments
  reach which component is in the models' constants.
- The receiver's keyframe-request tick (`pipeline.rs:970-989`) and its statistics appear
  as the sender's environment; `PeerStore` serves a log line.
- In Playout: quitting, redraw, overlay, performance log, resampling against drift.
- In GroupFormation: routine events, a supplicant that is told to terminate (only
  logged), a join while not group owner.
- In MiracastRtsp: malformed messages and information elements. In MiracastMedia: PTS,
  CRC and table formats, and datagrams late by more than half the sequence space.
- In SenderMedia: periodic keyframes of the encoder, and encoders without `ICodecAPI`,
  which ignore requests for keyframes and rates.
- In Pairing: the fallback of `write_atomic` for systems whose rename does not replace.
- In CastControl: a foreign process on a reused port.

## 7. Plan

The proof to add next is SinkKnowsItsGroup of GroupFormation. It must hold after late
answers, too, where RadioInv says nothing, and rests on what `events.dedup` leaves of the
lines of two controls: that the last event about each source stays the last, which is an
induction over a fold.

Modules still worth writing: the receiver's keyframe-request tick, to compose
VideoTransport with JitterBuffer and the encoder of SenderMedia, so that recovery
from a lost reference is checked from end to end; the rules of `diagnose/rules.rs` as
a pure function, if they grow beyond independent tests of single facts.
