---------------------------- MODULE MiracastRtsp ----------------------------
(***************************************************************************)
(* A Miracast session between castr's own source (castr-miracast           *)
(* source/session.rs inside the loop of castr-sender miracast_cast.rs) and *)
(* castr's own sink (castr-miracast session.rs and the negotiation half of *)
(* rtsp.rs, inside serve of sink.rs): the exchange M1 to M7, keep-alives,  *)
(* keyframe requests, the media that flows, and how each end notices that  *)
(* the other is gone.                                                      *)
(*                                                                         *)
(* Both ends send requests over one TCP connection, toSink and toSource.   *)
(* A request is known by its role; a CSeq only tells the roles apart.  The *)
(* connection can stall for a while or die silently, as a radio link does. *)
(* Times are ages in clock ticks.  The display may be another than castr's *)
(* own: one that speaks as castr's sink does and advertises something      *)
(* else.  It accepts what it has advertised, so no request is refused.     *)
(***************************************************************************)
EXTENDS Capabilities, Integers, Sequences, FiniteSetsExt

CONSTANTS
  Casts,            \* the casts to look at, each with a display, the user's mode
                    \* ("Quality" or "Game") and ceiling, and upsets, the bound on
                    \* stalls, losses, decode errors and ladder steps together
  M2Grace,          \* M2_GRACE
  KeepaliveEvery,   \* KEEPALIVE_EVERY, the same at both ends
  KeepaliveTimeout, \* KEEPALIVE_TIMEOUT, the same at both ends
  MediaSilence,     \* MEDIA_SILENCE
  IdrMinInterval,   \* IDR_MIN_INTERVAL
  MinKbps,          \* MIN_KBPS
  MaxStalls         \* bound: stalls of the connection

ASSUME RtspAssumption ==
  /\ None \notin Int
  /\ None \notin {"told", "no session", "closed", "silence", "timeout", "stopped", "media",
                   "unreadable", "nothing in common", "no audio", "protected"}
  /\ \A c \in Casts : /\ c.display \in SinkCaps
                      /\ c.mode \in {"Quality", "Game"} /\ c.ceiling \in Nat \cup {None}
  /\ {M2Grace, KeepaliveEvery, KeepaliveTimeout, MediaSilence, IdrMinInterval, MinKbps} \subseteq Nat
  /\ KeepaliveEvery <= KeepaliveTimeout /\ MediaSilence >= 1

VARIABLES
  link,             \* "up", "stalled" or "dead"
  stalls, upsets,   \* stalls and upsets so far
  toSink, toSource, \* the two directions of the connection
  cast,             \* the one of Casts this is
  source,           \* SourceSession and the locals of cast_to
  sink,             \* Negotiation and Session
  gap,              \* media packets are missing that the sink does not know of yet
  damaged,          \* the sink's picture lacks a packet and no keyframe came since
  ended             \* why each end left: None while it is there

vars == <<link, stalls, upsets, toSink, toSource, cast, source, sink, gap, damaged, ended>>

LadderKbps == <<8000, 4000, 2000>>
LowestRung == 2
Rung == 0 .. LowestRung

Request(k) == [type |-> "request", of |-> k]
Bitrate(rung) == [type |-> "request", of |-> "Bitrate", kbps |-> LadderKbps[rung + 1]]
Response(k) == [type |-> "response", of |-> k, session |-> FALSE]
ResponseWithSession(k) == [Response(k) EXCEPT !.session = TRUE]
Teardown == Request("TEARDOWN")

(* SourceSession::new and start, Session::new *)
NewSource ==
  [state |-> "AwaitingCaps", asked_caps |-> FALSE, m1_answered |-> None, pending |-> {"M1"},
   chosen |-> None, port |-> FALSE, last_heard |-> None, last_keepalive |-> None, want_idr |-> FALSE,
   want_kbps |-> None, rate |-> None]
NewSink ==
  [state |-> "Init", chosen |-> None, peer_session |-> FALSE, playing |-> FALSE,
   last_heard |-> None, last_keepalive |-> None, last_media |-> None, last_idr |-> None,
   rung |-> 0, sampled |-> FALSE]

Init ==
  /\ link = "up"
  /\ stalls = 0
  /\ upsets = 0
  /\ toSource = <<>>
  /\ cast \in Casts
  /\ source = NewSource
  /\ toSink = <<Request("M1")>>
  /\ sink = NewSink
  /\ gap = FALSE
  /\ damaged = FALSE
  /\ ended = [source |-> None, sink |-> None]

SourceHere == ended.source = None
SinkHere == ended.sink = None

(* What is left of q when its writer closes: all of it, unless the writer  *)
(* had not read everything itself, which resets the connection.            *)
Left(q, unread) ==
  IF unread = <<>> THEN {q} ELSE {SubSeq(q, 1, k) : k \in 0 .. Len(q)}

(* A write; nobody reads what is written to a peer that has left. *)
ToSource(msgs) == toSource' = IF SourceHere THEN toSource \o msgs ELSE toSource
ToSink(msgs) == toSink' = IF SinkHere THEN toSink \o msgs ELSE toSink
-----------------------------------------------------------------------------
(* The sink *)

(* conn and session are dropped; nothing is said to the source. *)
SinkEnds(why, unread) ==
  /\ ended' = [ended EXCEPT !.sink = why]
  /\ sink' = NewSink
  /\ toSource' \in Left(toSource, unread)
  /\ toSink' = <<>>

SinkSend(msgs) == ToSource(msgs) /\ UNCHANGED ended

(* Negotiation::on_request, with on_set_parameter for M4 and M5. *)
SinkOnRequest(k, heard) ==
  \/ /\ k = "M1"
     /\ SinkSend(<<Response("M1"), Request("M2")>>)
     /\ sink' = heard
     /\ toSink' = Tail(toSink)
  \/ /\ k = "M3"
     /\ SinkSend(<<Response("M3")>>)
     /\ sink' = [heard EXCEPT !.state = "Capabilities"]
     /\ toSink' = Tail(toSink)
  \/ /\ k = "M4"
     /\ SinkSend(<<Response("M4")>>)
     /\ sink' = [heard EXCEPT !.chosen = Head(toSink).selection]
     /\ toSink' = Tail(toSink)
  \/ /\ k = "M5"
     /\ SinkSend(<<Response("M5"), Request("SETUP")>>)
     /\ sink' = [heard EXCEPT !.state = "Ready"]
     /\ toSink' = Tail(toSink)
  \/ /\ k = "Keepalive"
     /\ SinkSend(<<Response("Keepalive")>>)
     /\ sink' = heard
     /\ toSink' = Tail(toSink)
  \/ /\ k = "TEARDOWN"
     /\ SinkEnds("told", Tail(toSink))

(* Mutant: any answer with a session is the answer to SETUP. *)
AnyAnswerIsSetup(m, heard) ==
  \/ /\ ~sink.peer_session /\ m.session
     /\ sink' = [heard EXCEPT !.peer_session = TRUE, !.state = "Playing", !.playing = TRUE]
     /\ SinkSend(<<Request("PLAY")>>)
     /\ toSink' = Tail(toSink)
  \/ /\ sink.peer_session \/ ~m.session
     /\ sink' = heard
     /\ toSink' = Tail(toSink)
     /\ UNCHANGED <<toSource, ended>>

(* Negotiation::on_response: in Ready, the first answer to anything is     *)
(* taken for the answer to SETUP.                                          *)
SinkOnResponse(m, heard) ==
  \/ /\ sink.state = "Ready" /\ ~sink.peer_session
     /\ IF m.session
        THEN /\ sink' = [heard EXCEPT !.peer_session = TRUE, !.state = "Playing", !.playing = TRUE]
             /\ SinkSend(<<Request("PLAY")>>)
             /\ toSink' = Tail(toSink)
        ELSE SinkEnds("no session", Tail(toSink))
  \/ /\ ~(sink.state = "Ready" /\ ~sink.peer_session)
     /\ sink' = heard
     /\ toSink' = Tail(toSink)
     /\ UNCHANGED <<toSource, ended>>

SinkReceive ==
  /\ SinkHere /\ link = "up" /\ toSink # <<>>
  /\ LET m == Head(toSink)
         heard == [sink EXCEPT !.last_heard = 0]
     IN \/ m.type = "request" /\ SinkOnRequest(m.of, heard)
        \/ m.type = "response" /\ SinkOnResponse(m, heard)
  /\ UNCHANGED <<link, stalls, upsets, cast, source, gap, damaged>>

(* serve reads the end of the stream. *)
SinkSeesClose ==
  /\ SinkHere /\ link = "up" /\ toSink = <<>> /\ ~SourceHere
  /\ SinkEnds("closed", toSink)
  /\ UNCHANGED <<link, stalls, upsets, cast, source, gap, damaged>>

(* Mutant: the silence is counted from PLAY, not from the first datagram. *)
SilenceFromPlay == sink.playing /\ (sink.last_media # None => sink.last_media > MediaSilence)

(* Session::tick: the silence of the media. *)
SinkSilenceDue == sink.playing /\ sink.last_media # None /\ sink.last_media > MediaSilence

SinkSilence ==
  /\ SinkHere /\ SinkSilenceDue
  /\ SinkEnds("silence", toSink)
  /\ UNCHANGED <<link, stalls, upsets, cast, source, gap, damaged>>

(* BitrateLadder::sample: a bad second falls to the lowest rung, ten clean *)
(* ones climb one, at most one change a tick; request_bitrate tells the    *)
(* source of it.                                                           *)
Ladder ==
  {sink.rung} \cup {r \in Rung : /\ sink.state = "Playing" /\ ~sink.sampled
                                /\ upsets < cast.upsets
                                /\ r \in {LowestRung, sink.rung - 1}}
LadderRequest(rung) == IF rung # sink.rung THEN <<Bitrate(rung)>> ELSE <<>>
LadderUpsets(rung) == IF rung # sink.rung THEN upsets + 1 ELSE upsets

(* Mutant: the timeout counts only while playing, as it does at the source. *)
SinkTimeoutPlaying ==
  sink.state = "Playing" /\ sink.last_heard # None /\ sink.last_heard > KeepaliveTimeout

(* Session::tick goes on to the ladder and to Negotiation::tick. *)
SinkTimeoutDue ==
  sink.last_heard # None /\ sink.last_heard > KeepaliveTimeout

SinkKeepaliveDue ==
  IF sink.last_keepalive # None
  THEN sink.last_keepalive >= KeepaliveEvery
  ELSE sink.last_heard # None /\ sink.last_heard >= KeepaliveEvery

SinkTick ==
  /\ SinkHere /\ ~SinkSilenceDue
  /\ \E rung \in Ladder :
       LET s == [sink EXCEPT !.rung = rung, !.sampled = @ \/ rung # sink.rung]
       IN /\ upsets' = LadderUpsets(rung)
          /\ \/ /\ SinkTimeoutDue
                /\ SinkEnds("timeout", toSink)
             \/ /\ ~SinkTimeoutDue /\ SinkKeepaliveDue
                /\ sink' = [s EXCEPT !.last_keepalive = 0]
                /\ SinkSend(Append(LadderRequest(rung), Request("Keepalive")))
                /\ UNCHANGED toSink
             \/ /\ ~SinkTimeoutDue /\ ~SinkKeepaliveDue
                /\ sink' = s
                /\ SinkSend(LadderRequest(rung))
                /\ UNCHANGED toSink
  /\ UNCHANGED <<link, stalls, cast, source, gap, damaged>>

(* A time stamp that was never taken, or is at least limit old. *)
Elapsed(age, limit) == age # None => age >= limit

(* Negotiation::request_idr, at most one per interval: the sink and what   *)
(* it sends.                                                               *)
MayAskIdr == Elapsed(sink.last_idr, IdrMinInterval)
IdrAsked(s) == IF MayAskIdr THEN [s EXCEPT !.last_idr = 0] ELSE s
IdrRequest == IF MayAskIdr THEN <<Request("Idr")>> ELSE <<>>

(* note_decode_error, once there was something to decode. *)
DecodeError ==
  /\ SinkHere /\ sink.last_media # None
  /\ upsets < cast.upsets
  /\ upsets' = upsets + 1
  /\ sink' = IdrAsked(sink)
  /\ SinkSend(IdrRequest)
  /\ UNCHANGED <<link, stalls, toSink, cast, source, gap, damaged>>
-----------------------------------------------------------------------------
(* The media *)

(* The rate that goes with the mode chosen. *)
Negotiated == VideoBitrate(cast.display, cast.ceiling, source.chosen.mode)

(* start_media: the encoder is opened at that rate. *)
StartMedia(s) == [s EXCEPT !.rate = Negotiated]

(* Mutant: what the display asks for is obeyed as it is. *)
AppliedAsAsked(kbps) == kbps

(* The rate asked for, no lower than makes sense and no higher than that. *)
Applied(kbps) == Min({Max({kbps, MinKbps}), Negotiated})

(* The encoder thread takes want_idr and want_kbps with every frame.  An   *)
(* encoder that refuses a rate keeps the one it has.                       *)
Encoded ==
  LET rates == {source.rate}
                 \cup IF source.want_kbps = None THEN {} ELSE {Applied(source.want_kbps)}
  IN {[source EXCEPT !.want_idr = FALSE, !.want_kbps = None, !.rate = r] : r \in rates}

Encoding == SourceHere /\ source.state = "Playing"

(* A frame reaches the sink.  It is a keyframe if one was wanted or is     *)
(* scheduled; the sink asks for one if it now sees that packets before it  *)
(* are missing, and samples the ladder.                                    *)
MediaArrives ==
  /\ Encoding /\ SinkHere /\ sink.playing /\ link = "up"
  /\ source' \in Encoded
  /\ \E key \in BOOLEAN : /\ source.want_idr => key
                         /\ damaged' = (damaged /\ ~key)
  /\ gap' = FALSE
  /\ \E rung \in Ladder :
       LET s == [sink EXCEPT !.last_media = 0, !.rung = rung, !.sampled = @ \/ rung # sink.rung]
       IN /\ sink' = IF gap THEN IdrAsked(s) ELSE s
          /\ SinkSend((IF gap THEN IdrRequest ELSE <<>>) \o LadderRequest(rung))
          /\ upsets' = LadderUpsets(rung)
  /\ UNCHANGED <<link, stalls, toSink, cast>>

(* Packets of a frame are lost, all of them while the link is not up. *)
MediaLost ==
  /\ Encoding /\ SinkHere /\ sink.playing
  /\ IF link = "up" THEN upsets < cast.upsets /\ upsets' = upsets + 1 ELSE UNCHANGED upsets
  /\ source' \in Encoded
  /\ gap' = TRUE
  /\ damaged' = TRUE
  /\ UNCHANGED <<link, stalls, toSink, toSource, cast, sink, ended>>
-----------------------------------------------------------------------------
(* The source *)

(* Every way out of cast_to: stop the encoder, say TEARDOWN, close and     *)
(* drop the session.                                                       *)
SourceEnds(why, unread) ==
  /\ source' = NewSource
  /\ ended' = [ended EXCEPT !.source = why]
  /\ toSink' \in IF SinkHere THEN Left(Append(toSink, Teardown), unread) ELSE {<<>>}
  /\ toSource' = <<>>

SourceSend(s, msgs) ==
  /\ source' = s
  /\ ToSink(msgs)
  /\ toSource' = Tail(toSource)
  /\ UNCHANGED ended

(* ask_capabilities: M3. *)
Asking(s) == [s EXCEPT !.asked_caps = TRUE, !.pending = @ \cup {"M3"}]

(* SourceSession::on_request; castr's sink sends no TEARDOWN and no PAUSE. *)
SourceOnRequest(k, heard) ==
  \/ /\ k = "M2"
     /\ IF ~source.asked_caps /\ source.m1_answered # None
        THEN SourceSend(Asking(heard), <<Response("M2"), Request("M3")>>)
        ELSE SourceSend(heard, <<Response("M2")>>)
  \/ /\ k = "SETUP"
     /\ SourceSend([heard EXCEPT !.port = TRUE, !.state = "AwaitingSetup"],
                   <<ResponseWithSession("SETUP")>>)
  \/ /\ k = "PLAY"
     /\ SourceSend(StartMedia([heard EXCEPT !.state = "Playing"]), <<ResponseWithSession("PLAY")>>)
  \/ /\ k = "Idr"
     /\ SourceSend([heard EXCEPT !.want_idr = TRUE], <<ResponseWithSession("Idr")>>)
  \/ /\ k = "Bitrate"
     /\ SourceSend([heard EXCEPT !.want_kbps = Head(toSource).kbps],
                   <<ResponseWithSession("Bitrate")>>)
  \/ /\ k = "Keepalive"
     /\ SourceSend(heard, <<ResponseWithSession("Keepalive")>>)

(* SourceSession::on_response; every answer here has a pending request. *)
SourceOnResponse(k, heard) ==
  LET s == [heard EXCEPT !.pending = @ \ {k}]
  IN \/ /\ k = "M1"
        /\ SourceSend([s EXCEPT !.m1_answered = 0], <<>>)
     \/ /\ k = "M3"
        /\ LET refusal == Refusal(cast.display, cast.mode, cast.ceiling)
               ceiling == PictureCeiling(cast.display, cast.ceiling)
               chosen == Selection(cast.display, cast.mode, ceiling)
           IN IF refusal = None
              THEN SourceSend([s EXCEPT !.state = "Configuring", !.pending = @ \cup {"M4"},
                                        !.chosen = chosen],
                              <<[type |-> "request", of |-> "M4", selection |-> chosen]>>)
              ELSE SourceEnds(refusal, Tail(toSource))
     \/ /\ k = "M4"
        /\ SourceSend([s EXCEPT !.state = "AwaitingSetup", !.pending = @ \cup {"M5"}],
                      <<Request("M5")>>)
     \/ /\ k \in {"M5", "Keepalive"}
        /\ SourceSend(s, <<>>)

SourceReceive ==
  /\ SourceHere /\ link = "up" /\ toSource # <<>>
  /\ LET m == Head(toSource)
         heard == [source EXCEPT !.last_heard = 0]
     IN \/ m.type = "request" /\ SourceOnRequest(m.of, heard)
        \/ m.type = "response" /\ SourceOnResponse(m.of, heard)
  /\ UNCHANGED <<link, stalls, upsets, cast, sink, gap, damaged>>

SourceSeesClose ==
  /\ SourceHere /\ link = "up" /\ toSource = <<>> /\ ~SinkHere
  /\ SourceEnds("closed", toSource)
  /\ UNCHANGED <<link, stalls, upsets, cast, sink, gap, damaged>>

(* miracast-stop, Ctrl-C, or the end of the requested time. *)
Stop ==
  /\ SourceHere
  /\ SourceEnds("stopped", toSource)
  /\ UNCHANGED <<link, stalls, upsets, cast, sink, gap, damaged>>

(* The desktop, the encoder or the sound fails, or cannot be opened. *)
MediaFails ==
  /\ Encoding
  /\ upsets < cast.upsets
  /\ upsets' = upsets + 1
  /\ SourceEnds("media", toSource)
  /\ UNCHANGED <<link, stalls, cast, sink, gap, damaged>>

(* SourceSession::tick: M2 is overdue, the display is silent, a keep-alive. *)
GraceOver ==
  ~source.asked_caps /\ source.m1_answered # None /\ source.m1_answered >= M2Grace

(* cast_to carries out what a tick asks for. *)
SourceTicks(s, msg) ==
  /\ source' = s
  /\ ToSink(<<msg>>)
  /\ UNCHANGED <<link, stalls, upsets, toSource, cast, sink, gap, damaged, ended>>

AskAnyway == SourceHere /\ GraceOver /\ SourceTicks(Asking(source), Request("M3"))

SourceTimeoutDue ==
  /\ ~GraceOver /\ source.state = "Playing"
  /\ source.last_heard # None /\ source.last_heard > KeepaliveTimeout

SourceTimeout ==
  /\ SourceHere /\ SourceTimeoutDue
  /\ SourceEnds("timeout", toSource)
  /\ UNCHANGED <<link, stalls, upsets, cast, sink, gap, damaged>>

SourceKeepaliveDue ==
  /\ ~GraceOver /\ source.state = "Playing" /\ ~SourceTimeoutDue
  /\ Elapsed(source.last_keepalive, KeepaliveEvery)

SourceKeepalive ==
  /\ SourceHere /\ SourceKeepaliveDue
  /\ SourceTicks([source EXCEPT !.last_keepalive = 0, !.pending = @ \cup {"Keepalive"}],
                 Request("Keepalive"))
-----------------------------------------------------------------------------
(* The connection and time *)
Stall ==
  /\ link = "up" /\ stalls < MaxStalls /\ upsets < cast.upsets
  /\ link' \in {"stalled", "dead"}
  /\ stalls' = stalls + 1
  /\ upsets' = upsets + 1
  /\ UNCHANGED <<toSink, toSource, cast, source, sink, gap, damaged, ended>>

Recover ==
  /\ link = "stalled"
  /\ link' = "up"
  /\ UNCHANGED <<stalls, upsets, toSink, toSource, cast, source, sink, gap, damaged, ended>>

(* An age in whole ticks, no older than the rule it serves can tell. *)
Older(age, limit) == IF age = None \/ age > limit THEN age ELSE age + 1

(* Both loops come round several times a tick: what is due is done, what   *)
(* a working connection carries arrives, and frames keep coming.           *)
Clock ==
  /\ SourceHere \/ SinkHere
  /\ SourceHere => ~GraceOver /\ ~SourceTimeoutDue /\ ~SourceKeepaliveDue
  /\ SinkHere => ~SinkSilenceDue /\ ~SinkTimeoutDue /\ ~SinkKeepaliveDue
  /\ link = "up" => toSink = <<>> /\ toSource = <<>> /\ (SourceHere <=> SinkHere)
  /\ Encoding /\ SinkHere /\ sink.playing /\ link = "up" => sink.last_media \in {None, 0}
  /\ source' = [source EXCEPT !.m1_answered = Older(@, M2Grace),
                              !.last_heard = Older(@, KeepaliveTimeout),
                              !.last_keepalive = Older(@, KeepaliveEvery)]
  /\ sink' = [sink EXCEPT !.last_heard = Older(@, KeepaliveTimeout),
                          !.last_keepalive = Older(@, KeepaliveEvery),
                          !.last_media = Older(@, MediaSilence),
                          !.last_idr = Older(@, IdrMinInterval),
                          !.sampled = FALSE]
  /\ UNCHANGED <<link, stalls, upsets, toSink, toSource, cast, gap, damaged, ended>>

SinkStep ==
  SinkReceive \/ SinkSeesClose \/ SinkSilence \/ SinkTick
SourceStep ==
  SourceReceive \/ SourceSeesClose \/ AskAnyway \/ SourceTimeout \/ SourceKeepalive

Next ==
  \/ SinkStep \/ DecodeError
  \/ MediaArrives \/ MediaLost
  \/ SourceStep \/ Stop \/ MediaFails
  \/ Stall \/ Recover
  \/ Clock

Spec == Init /\ [][Next]_vars

(* Both loops run, a stall ends, and time passes: something of this goes    *)
(* on.  Nobody has to stop the cast, and a dead link stays dead.           *)
Progress == SinkStep \/ SourceStep \/ MediaArrives \/ Recover \/ Clock

FairSpec == Spec /\ WF_vars(Progress)
-----------------------------------------------------------------------------
(* Media starts only once both ends know the mode and the source knows the *)
(* port, although the sink takes the first answer of any kind for the      *)
(* answer to SETUP: a keep-alive of its own may have been overtaken by M5. *)
PlayIsSettled ==
  source.state = "Playing" =>
    source.port /\ (SinkHere => sink.chosen = source.chosen /\ sink.peer_session)

(* On a link that does not stall, no timer ends a session and nobody hangs *)
(* up: the keep-alives of both ends, the grace for M2 and the silence rule *)
(* leave a healthy session alone.                                          *)
HealthySessionLives ==
  stalls = 0 => /\ ended.source \notin {"closed", "timeout"}
                /\ ended.sink # None => ended.source # None

(* A dead link is noticed: by a source that plays and by a sink that has   *)
(* heard anything at all (KEEPALIVE_TIMEOUT, MEDIA_SILENCE).               *)
DeadLinkIsNoticed ==
  []<>(link = "dead" => /\ source.state = "Playing" => ~SourceHere
                        /\ sink.last_heard # None => ~SinkHere)

(* What is proposed this display can decode (caps.rs:7, 185): profile,     *)
(* level and mode belong to one of its codec tuples, each of which "owns    *)
(* its own profile, level and mode masks".                                 *)
Decodable(c) ==
  \E codec \in {cast.display.formats[i] : i \in DOMAIN cast.display.formats} :
    /\ c.profile \in codec.profile
    /\ \E level \in codec.level : level \in Level /\ c.level <= level
    /\ c.bit \in codec[c.table] /\ Tables[c.table][c.bit] = c.mode

(* The mode gets the rate it needs, which with the sound stays under the   *)
(* limits of the user and of the display.                                  *)
Affordable(c) ==
  LET total == {IF cast.ceiling = None THEN None ELSE cast.ceiling * 1000, cast.display.max_kbps}
      rate == VideoBitrate(cast.display, cast.ceiling, c.mode)
  IN rate = NeedsMbps(c.mode) * 1000 /\ \A limit \in total \ {None} : rate + 2200 <= limit

(* castr's own sink reads back the mode it advertised.                     *)
Suits(c) ==
  /\ Decodable(c) /\ Affordable(c)
  /\ cast.display = CastrDisplay => ParseChosenVideo(c) = c.mode

(* The selection suits the display and the limits; the encoder's rate is   *)
(* "never above what was negotiated" (miracast_cast.rs:578) later, however *)
(* the ladder moves.                                                       *)
SelectionSuitsBoth ==
  /\ source.state = "Configuring" => Suits(source.chosen)
  /\ source.rate # None => source.rate <= Negotiated
=============================================================================
