---------------------------- MODULE MiracastSink ----------------------------
(***************************************************************************)
(* The Miracast sink's service thread (castr-miracast sink.rs, lifecycle.rs *)
(* and the PIN of pairing.rs): one Wi-Fi Direct group after another, the   *)
(* stations that join and leave it, one RTSP session at a time, and the    *)
(* display, which the sink takes from the arbiter it shares with castr and *)
(* keeps for 30 s after a session breaks off.                              *)
(*                                                                         *)
(* serve() is one thread: every pass of its loop mints a missing PIN,      *)
(* handles the supplicant's events, accepts RTSP, moves media and ticks    *)
(* the hold.  Each of those is an action; what a pass has no input for it  *)
(* leaves alone, so any order of them is a run of the loop.  The session   *)
(* itself (RTSP negotiation, RTP) is only seen to play media and to end.   *)
(***************************************************************************)
EXTENDS Naturals, Sequences

CONSTANTS
  None,
  Stations,         \* the Wi-Fi stations that may join the group
  MaxOut            \* bound: messages to the receiver not yet read

ASSUME SinkAssumption == None \notin Stations

VARIABLES
  owner,            \* DisplayArbiter.owner
  group,            \* "up" while serve runs, "down" between groups, "stopped"
  life,             \* Lifecycle.phase
  held,             \* serve's own note that it holds the display
  rtsp,             \* conn and session: the station at the other end
  heard,            \* the session has heard from it, which arms its time-outs
  session_peer,     \* the station the session or the hold belongs to
  clients,          \* the stations in the group
  echo,             \* stations whose join is reported once more
  pin,              \* Pairing.pin is some
  out               \* the SinkOut channel

sinkVars == <<owner, group, life, held, rtsp, heard, session_peer, clients, echo, pin,
              out>>

Phase == {"Advertising", "Streaming", "Holding"}
SinkOut == {"Pin", "PinCleared", "Started", "Reconnecting", "Idle", "Video", "Ended"}

SinkInit ==
  /\ owner = "Idle"
  /\ group = "down"
  /\ life = "Advertising"
  /\ held = FALSE
  /\ rtsp = None
  /\ heard = FALSE
  /\ session_peer = None
  /\ clients = {}
  /\ echo = {}
  /\ pin = FALSE
  /\ out = <<>>

Emit(msgs) ==
  /\ Len(out) + Len(msgs) <= MaxOut
  /\ out' = out \o msgs
-----------------------------------------------------------------------------
(* The display *)

(* DisplayArbiter::try_acquire succeeds for who. *)
Free(who) == owner \in {"Idle", who}

(* DisplayArbiter::release *)
Released(who) == IF owner = who THEN "Idle" ELSE owner

(* Mutant: the sink forgets that it holds the display without freeing it. *)
ReleaseDisplayForgets == held' = FALSE /\ UNCHANGED owner

(* apply_lifecycle(ReleaseDisplay), but for the Idle it reports. *)
ReleaseDisplay ==
  /\ owner' = IF held THEN Released("Miracast") ELSE owner
  /\ held' = FALSE

(* Lifecycle::on(RadioError) and the end of serve: everything it kept goes. *)
LoseGroup(msgs) ==
  /\ group' = "down"
  /\ life' = "Advertising"
  /\ IF life \in {"Streaming", "Holding"}
     THEN ReleaseDisplay /\ Emit(msgs \o <<"Idle", "Started">>)
     ELSE UNCHANGED <<owner, held>> /\ Emit(msgs)
  /\ rtsp' = None
  /\ heard' = FALSE
  /\ session_peer' = None
  /\ clients' = {}
  /\ echo' = {}
  /\ pin' = FALSE
-----------------------------------------------------------------------------
(* The group and its PIN *)

(* one_group: the group comes up and a PIN with it, or arming the PIN fails. *)
GroupUp ==
  /\ group = "down"
  /\ Emit(<<"Pin">>)
  /\ \/ group' = "up" /\ pin' = TRUE
     \/ UNCHANGED <<group, pin>>
  /\ UNCHANGED <<owner, life, held, rtsp, heard, session_peer, clients, echo>>

(* apply_pin(Show::Pin): the screen first; a radio that will not take the  *)
(* PIN ends the group.                                                     *)
ShowPin ==
  \/ /\ pin' = TRUE
     /\ Emit(<<"Pin">>)
     /\ UNCHANGED <<owner, group, life, held, rtsp, heard, session_peer, clients, echo>>
  \/ LoseGroup(<<"Pin">>)

(* Nobody is here and no PIN is on offer: mint one. *)
MintPin ==
  /\ group = "up"
  /\ rtsp = None /\ clients = {}
  /\ ~pin
  /\ ShowPin

(* A station asks to be provisioned and no PIN is on offer. *)
ProvisionRequest == group = "up" /\ ~pin /\ ShowPin

(* WPS failed: fresh digits.  However often it fails, the bounded channel   *)
(* keeps room for the end of a session.                                    *)
WpsFail == group = "up" /\ Len(out) + 2 < MaxOut /\ ShowPin

(* The joining of a station: take the PIN down, give up a hold that is not *)
(* this station's, and take the station for the session's peer.            *)
Join(m) ==
  LET cleared == IF pin THEN <<"PinCleared">> ELSE <<>>
  IN /\ clients' = clients \cup {m}
     /\ pin' = FALSE
     /\ IF life = "Holding" /\ session_peer # m
        THEN /\ life' = "Advertising"
             /\ ReleaseDisplay
             /\ Emit(cleared \o <<"Idle">>)
        ELSE /\ Emit(cleared)
             /\ UNCHANGED <<life, owner, held>>
     /\ session_peer' = m
     /\ UNCHANGED <<group, rtsp, heard>>

(* Both control connections report a join; a copy that falls into a later  *)
(* drain is handled like a second join.                                    *)
ClientConnected(m) ==
  /\ group = "up"
  /\ m \notin clients
  /\ Join(m)
  /\ echo' \in {echo, echo \cup {m}}

ClientConnectedAgain(m) ==
  /\ group = "up"
  /\ m \in echo
  /\ Join(m)
  /\ echo' = echo \ {m}

(* Lifecycle::on(Ended): from here the screen is held for the peer. *)
SessionEnded(msgs) ==
  /\ rtsp' = None
  /\ heard' = FALSE
  /\ IF life = "Streaming"
     THEN life' = "Holding" /\ Emit(msgs \o <<"Ended", "Reconnecting">>)
     ELSE UNCHANGED life /\ Emit(msgs)
  /\ UNCHANGED owner

ClientDisconnected(m) ==
  /\ group = "up"
  /\ m \in clients \ echo
  /\ clients' = clients \ {m}
  /\ IF session_peer = m
     THEN SessionEnded(<<>>)
     ELSE UNCHANGED <<rtsp, heard, life, out, owner>>
  /\ UNCHANGED <<group, held, session_peer, echo, pin>>

GroupRemoved == group = "up" /\ LoseGroup(<<>>)
-----------------------------------------------------------------------------
(* The RTSP session *)

(* accept, unless castr has the display: then the connection is dropped. *)
RtspAccept(m) ==
  /\ group = "up"
  /\ rtsp = None
  /\ m \in clients
  /\ \/ life = "Holding" /\ UNCHANGED owner
     \/ life # "Holding" /\ Free("Miracast") /\ owner' = "Miracast"
  /\ held' = TRUE
  /\ rtsp' = m
  /\ heard' = FALSE
  /\ life' = "Streaming"
  /\ Emit(<<"Started">>)
  /\ UNCHANGED <<group, session_peer, clients, echo, pin>>

(* dispatch: what of a session reaches the receiver when it is negotiated  *)
(* and while it plays.                                                     *)
Dispatched == {"Started", "Video"}

(* on_rtsp_bytes: the first of what the station at the other end sends.    *)
Speaks ==
  /\ group = "up"
  /\ rtsp \in clients
  /\ heard' = TRUE
  /\ UNCHANGED <<owner, group, life, held, rtsp, session_peer, clients, echo, pin, out>>

(* The session of a station in the group negotiates and plays. *)
Media(msg) ==
  /\ group = "up"
  /\ rtsp \in clients
  /\ heard
  /\ msg \in Dispatched
  /\ Emit(<<msg>>)
  /\ UNCHANGED <<owner, group, life, held, rtsp, heard, session_peer, clients, echo, pin>>

(* The source closed, tore down, fell silent or could not be written to. *)
RtspEnds ==
  /\ group = "up"
  /\ rtsp # None
  /\ SessionEnded(<<>>)
  /\ UNCHANGED <<group, held, session_peer, clients, echo, pin>>

(* Mutant: nothing ticks the hold. *)
HoldExpiresNever == FALSE /\ UNCHANGED sinkVars

(* Lifecycle::tick, 30 s into a hold. *)
HoldExpires ==
  /\ group = "up"
  /\ life = "Holding"
  /\ life' = "Advertising"
  /\ session_peer' = None
  /\ ReleaseDisplay
  /\ Emit(<<"Idle">>)
  /\ UNCHANGED <<group, rtsp, heard, clients, echo, pin>>

(* shutdown: serve sees the stop flag. *)
StopSink ==
  /\ group # "stopped"
  /\ group' = "stopped"
  /\ ReleaseDisplay
  /\ life' = "Advertising"
  /\ rtsp' = None
  /\ heard' = FALSE
  /\ session_peer' = None
  /\ clients' = {}
  /\ echo' = {}
  /\ pin' = FALSE
  /\ UNCHANGED out

SinkStep ==
  \/ GroupUp \/ MintPin \/ ProvisionRequest \/ WpsFail \/ GroupRemoved
  \/ \E m \in Stations :
       ClientConnected(m) \/ ClientConnectedAgain(m) \/ ClientDisconnected(m) \/ RtspAccept(m)
  \/ \E msg \in SinkOut : Media(msg)
  \/ Speaks \/ RtspEnds \/ HoldExpires \/ StopSink
-----------------------------------------------------------------------------
(* The sink among a castr receiver and a reader of its channel. *)
CastrTakes ==
  /\ owner = "Idle" /\ owner' = "Castr"
  /\ UNCHANGED <<group, life, held, rtsp, heard, session_peer, clients, echo, pin, out>>

CastrFrees ==
  /\ owner = "Castr" /\ owner' = Released("Castr")
  /\ UNCHANGED <<group, life, held, rtsp, heard, session_peer, clients, echo, pin, out>>

ReadOut ==
  /\ out # <<>>
  /\ out' = Tail(out)
  /\ UNCHANGED <<owner, group, life, held, rtsp, heard, session_peer, clients, echo, pin>>

SinkNext == SinkStep \/ CastrTakes \/ CastrFrees \/ ReadOut

SinkSpec == SinkInit /\ [][SinkNext]_sinkVars
-----------------------------------------------------------------------------
SinkTypeOK ==
  /\ owner \in {"Idle", "Castr", "Miracast"}
  /\ group \in {"down", "up", "stopped"}
  /\ life \in Phase
  /\ held \in BOOLEAN
  /\ {rtsp, session_peer} \subseteq Stations \cup {None}
  /\ heard \in BOOLEAN
  /\ clients \subseteq Stations
  /\ echo \subseteq clients
  /\ pin \in BOOLEAN
  /\ out \in Seq(SinkOut)

(* The arbiter, serve's own flag and the lifecycle never disagree on who   *)
(* has the screen: the sink has it exactly while it streams or holds, and  *)
(* it streams exactly while an RTSP session is up.                         *)
ScreenIsExclusive ==
  /\ held <=> owner = "Miracast"
  /\ held <=> life \in {"Streaming", "Holding"}
  /\ life = "Streaming" <=> rtsp # None
  /\ held => group = "up"

(* A connection that was never heard from: none of the session's time-outs *)
(* is armed, and nothing but its own end ends it.                          *)
Mute == rtsp # None /\ ~heard

(* A room is not stuck with a dead cast: once every station has left, the  *)
(* screen comes free and a PIN is on offer again, so that the next guest   *)
(* can pair, unless a station comes back or the group goes down            *)
(* (Lifecycle::tick, serve's PIN).  The one exception is a connection that *)
(* was never heard from and that no station's leaving ended.               *)
SinkIsReadyAgain ==
  /\ (held /\ clients = {} /\ ~Mute) ~> (~held \/ clients # {})
  /\ (group = "up" /\ clients = {} /\ ~Mute) ~> (pin \/ clients # {} \/ group # "up")
=============================================================================
