---------------------------- MODULE CastSession ----------------------------
(***************************************************************************)
(* A castr cast from Hello to Goodbye, through lost connections and        *)
(* resumption: the receiver's session state machine (castr-proto           *)
(* session.rs) inside its serial accept loop (network_main,                *)
(* handle_connection and the control branch of stream() in castr-receiver  *)
(* pipeline.rs), the senders that cast to it (cast and connect_with_retry  *)
(* in castr-sender cast.rs) and the "already paired?" probe                *)
(* (pair_interactive), over connections that may be lost at any time.      *)
(*                                                                         *)
(* Every sender here is paired.  One connection is served at a time: conn  *)
(* is the one between accept and the end of its handler.  A clock tick is  *)
(* 30 s: no tick passes during a greeting, a goodbye, or while, within the  *)
(* 3 s idle timeout, one side has not yet noticed a lost connection.       *)
(***************************************************************************)
EXTENDS Integers, Sequences

CONSTANTS
  None,
  Senders,          \* the paired senders
  Probers,          \* those that only probe whether they are paired
  Mode,             \* Game and Quality
  TokenTtl,         \* TOKEN_TTL_US
  ConnectFor,       \* the 5 s budget of the first connect_with_retry
  ReconnectFor,     \* the 30 s budget of reconnect_draining
  MaxCasts,         \* bound: casts started by each sender
  MaxRestarts,      \* bound: restarts of the receiver
  MaxLosses,        \* bound: connections lost
  MaxQueue,         \* bound: control messages on their way to the receiver
  MaxTime           \* bound: the last clock tick

ASSUME CastAssumption ==
  /\ Probers \subseteq Senders
  /\ None \notin Int /\ None \notin Mode /\ None \notin Senders
  /\ {TokenTtl, ConnectFor, ReconnectFor} \subseteq Nat

VARIABLES
  now,
  session,          \* ReceiverSession: state, since, token, params
  issued,           \* tokens drawn so far
  holder,           \* the sender that opened the current session
  owner,            \* DisplayArbiter.owner
  conn,             \* the connection being handled, or None
  jmode,            \* the mode of the jitter buffer
  restarts, losses, \* restarts of the receiver and connections lost so far
  phase, token, again, since, mode, casts,   \* each sender; a probe has no mode
  inbox             \* control messages on their way to each sender

sender == <<phase, token, again, since, mode, casts, inbox>>
vars == <<now, session, issued, holder, owner, conn, jmode, restarts, losses,
          phase, token, again, since, mode, casts, inbox>>

Hello(t) == [type |-> "Hello", resume |-> t]
StartStream(m) == [type |-> "StartStream", mode |-> m]
SetMode(m) == [type |-> "SetMode", mode |-> m]
Goodbye == [type |-> "Goodbye"]
HelloAck == [type |-> "HelloAck"]
SessionToken(t) == [type |-> "SessionToken", token |-> t]
Error(c) == [type |-> "Error", code |-> c]

(* ReceiverSession::new with a token drawn at random. *)
NewSession(t) == [state |-> "AwaitingHello", since |-> 0, token |-> t, params |-> None]

Init ==
  /\ now = 0
  /\ session = NewSession(1)
  /\ issued = 1
  /\ holder = None
  /\ owner = "Idle"
  /\ conn = None
  /\ jmode = None
  /\ restarts = 0
  /\ losses = 0
  /\ phase = [s \in Senders |-> "idle"]
  /\ token = [s \in Senders |-> None]
  /\ again = [s \in Senders |-> FALSE]
  /\ since = [s \in Senders |-> 0]
  /\ mode \in [Senders -> Mode \cup {None}]
  /\ \A s \in Senders : mode[s] = None <=> s \in Probers
  /\ casts = [s \in Senders |-> 0]
  /\ inbox = [s \in Senders |-> <<>>]

LinkUp(s) == conn # None /\ conn.from = s /\ conn.up

(* What is left of a queue when its connection closes. *)
Prefixes(q) == {SubSeq(q, 1, k) : k \in 0 .. Len(q)}
-----------------------------------------------------------------------------
(* The receiver *)

(* accept: a closed session is replaced by a new one. *)
Accept(s) ==
  /\ conn = None
  /\ phase[s] = "connect"
  /\ now - since[s] <= IF again[s] THEN ReconnectFor ELSE ConnectFor
  /\ conn' = [from |-> s, up |-> TRUE, phase |-> "hello", toR |-> <<>>]
  /\ IF session.state = "Closed"
     THEN session' = NewSession(issued + 1) /\ issued' = issued + 1 /\ holder' = None
     ELSE UNCHANGED <<session, issued, holder>>
  /\ phase' = [phase EXCEPT ![s] = "linked"]
  /\ inbox' = [inbox EXCEPT ![s] = <<>>]
  /\ UNCHANGED <<now, owner, jmode, restarts, losses, token, again, since, mode, casts>>

(* ReceiverSession::on_disconnect, for sessions that reached Streaming. *)
Disconnected(sess) ==
  IF sess.state = "Streaming"
  THEN [sess EXCEPT !.state = "Disconnected", !.since = now]
  ELSE sess

(* The end of a handler: free the display, keep the session resumable, and *)
(* drop the connection with whatever of msgs its sender has not read.      *)
EndHandler(sess, msgs) ==
  /\ conn' = None
  /\ owner' = IF owner = "Castr" THEN "Idle" ELSE owner
  /\ session' = Disconnected(sess)
  /\ \E q \in Prefixes(inbox[conn.from] \o msgs) :
       inbox' = [inbox EXCEPT ![conn.from] = q]

(* Mutant: the token is not compared. *)
ResumesAnyToken(h) == now - session.since <= TokenTtl

(* Which Hello resumes a disconnected session. *)
Resumes(h) == h.resume = session.token /\ now - session.since <= TokenTtl

(* on_message(Hello) and what handle_connection does with the result. *)
Greeted == [session EXCEPT !.state = "Streaming"]

Welcome(replies) ==
  \/ /\ conn.up
     /\ owner \in {"Idle", "Castr"}
     /\ owner' = "Castr"
     /\ session' = Greeted
     /\ conn' = [conn EXCEPT !.phase = "stream", !.toR = Tail(@)]
     /\ inbox' = [inbox EXCEPT ![conn.from] = @ \o replies]
     /\ jmode' = IF session.params # None THEN session.params ELSE jmode
  \/ /\ conn.up                  \* display busy
     /\ owner = "Miracast"
     /\ EndHandler(Greeted, Append(replies, Error(5)))
     /\ UNCHANGED jmode
  \/ /\ ~conn.up                 \* the reply cannot be written
     /\ EndHandler(Greeted, <<>>)
     /\ UNCHANGED jmode

HelloReady == conn # None /\ conn.phase = "hello" /\ conn.toR # <<>>

RecvFirstHello ==
  /\ HelloReady
  /\ session.state = "AwaitingHello"
  /\ holder' = conn.from
  /\ Welcome(<<HelloAck, SessionToken(session.token)>>)
  /\ UNCHANGED <<now, issued, restarts, losses, phase, token, again, since, mode, casts>>

RecvResume ==
  /\ HelloReady
  /\ session.state = "Disconnected"
  /\ Resumes(Head(conn.toR))
  /\ Welcome(<<HelloAck>>)
  /\ UNCHANGED <<now, issued, holder, restarts, losses, phase, token, again, since, mode, casts>>

RecvBadToken ==
  /\ HelloReady
  /\ session.state = "Disconnected"
  /\ ~Resumes(Head(conn.toR))
  /\ EndHandler([session EXCEPT !.state = "Closed"], <<Error(1)>>)
  /\ UNCHANGED <<now, issued, holder, jmode, restarts, losses, phase, token, again, since, mode, casts>>

(* Mutant: a mode change does not reach the session's parameters. *)
AdoptStartStreamOnly(m) ==
  IF m.type = "StartStream" THEN [session EXCEPT !.params = m.mode] ELSE session

(* What a mode change, or new stream parameters, do to the session. *)
Adopt(m) ==
  IF m.type = "StartStream" \/ session.params # None
  THEN [session EXCEPT !.params = m.mode] ELSE session

(* stream(): the next control message. *)
RecvControl ==
  /\ conn # None /\ conn.phase = "stream" /\ conn.toR # <<>>
  /\ LET m == Head(conn.toR)
     IN \/ /\ m.type \in {"StartStream", "SetMode"}
           /\ session' = Adopt(m)
           /\ jmode' = m.mode
           /\ conn' = [conn EXCEPT !.toR = Tail(@)]
           /\ UNCHANGED <<owner, inbox>>
        \/ /\ m.type = "Goodbye"
           /\ EndHandler([session EXCEPT !.state = "Closed"], <<>>)
           /\ UNCHANGED jmode
  /\ UNCHANGED <<now, issued, holder, restarts, losses, phase, token, again, since, mode, casts>>

(* A read fails, or link.closed() resolves. *)
ReceiverNoticesLoss ==
  /\ conn # None /\ ~conn.up
  /\ EndHandler(session, <<>>)
  /\ UNCHANGED <<now, issued, holder, jmode, restarts, losses, phase, token, again, since, mode, casts>>

(* The receiver process restarts: nothing of the session survives. *)
ReceiverRestart ==
  /\ restarts < MaxRestarts
  /\ restarts' = restarts + 1
  /\ session' = NewSession(issued + 1)
  /\ issued' = issued + 1
  /\ holder' = None
  /\ owner' = "Idle"
  /\ conn' = None
  /\ jmode' = None
  /\ IF conn = None
     THEN UNCHANGED inbox
     ELSE \E q \in Prefixes(inbox[conn.from]) : inbox' = [inbox EXCEPT ![conn.from] = q]
  /\ UNCHANGED <<now, losses, phase, token, again, since, mode, casts>>

(* The Miracast sink takes and frees the display. *)
MiracastAcquire == owner = "Idle" /\ owner' = "Miracast"
MiracastRelease == owner = "Miracast" /\ owner' = "Idle"
Miracast ==
  /\ MiracastAcquire \/ MiracastRelease
  /\ UNCHANGED <<now, session, issued, holder, conn, jmode, restarts, losses>>
  /\ UNCHANGED sender
-----------------------------------------------------------------------------
(* The connection *)

(* It goes down, with some of what was under way in either direction. *)
Down(s) ==
  /\ \E q \in Prefixes(conn.toR) : conn' = [conn EXCEPT !.up = FALSE, !.toR = q]
  /\ \E q \in Prefixes(inbox[s]) : inbox' = [inbox EXCEPT ![s] = q]

LoseLink ==
  /\ conn # None /\ conn.up
  /\ losses < MaxLosses
  /\ losses' = losses + 1
  /\ Down(conn.from)
  /\ UNCHANGED <<now, session, issued, holder, owner, jmode, restarts,
                 phase, token, again, since, mode, casts>>

(* A sender writes to its connection. *)
Write(s, m) ==
  /\ LinkUp(s)
  /\ Len(conn.toR) < MaxQueue
  /\ conn' = [conn EXCEPT !.toR = Append(@, m)]
-----------------------------------------------------------------------------
(* The senders *)
Receiver == <<now, session, issued, holder, owner, jmode, restarts, losses>>

(* A new cast, or a probe, starts without a token. *)
Start(s) ==
  /\ phase[s] \in {"idle", "ended"}
  /\ casts[s] < MaxCasts
  /\ casts' = [casts EXCEPT ![s] = @ + 1]
  /\ phase' = [phase EXCEPT ![s] = "connect"]
  /\ token' = [token EXCEPT ![s] = None]
  /\ again' = [again EXCEPT ![s] = FALSE]
  /\ since' = [since EXCEPT ![s] = now]
  /\ UNCHANGED <<mode, inbox, conn>>
  /\ UNCHANGED Receiver

(* Mutant: a cast retries without a deadline. *)
ConnectForever(s) ==
  /\ phase[s] = "connect"
  /\ s \in Probers
  /\ phase' = [phase EXCEPT ![s] = "ended"]
  /\ UNCHANGED <<token, again, since, mode, casts, inbox, conn>>
  /\ UNCHANGED Receiver

(* connect_with_retry runs out of time; a probe connects only once. *)
ConnectTimeout(s) ==
  /\ phase[s] = "connect"
  /\ s \in Probers \/ now - since[s] >= IF again[s] THEN ReconnectFor ELSE ConnectFor
  /\ phase' = [phase EXCEPT ![s] = "ended"]
  /\ UNCHANGED <<token, again, since, mode, casts, inbox, conn>>
  /\ UNCHANGED Receiver

(* Connected: say Hello; when that fails, try again. *)
SendHello(s) ==
  /\ phase[s] = "linked"
  /\ \/ /\ Write(s, Hello(token[s]))
        /\ phase' = [phase EXCEPT ![s] = "await"]
     \/ /\ ~LinkUp(s)
        /\ phase' = [phase EXCEPT ![s] = IF s \in Probers THEN "ended" ELSE "connect"]
        /\ UNCHANGED conn
  /\ UNCHANGED <<token, again, since, mode, casts, inbox>>
  /\ UNCHANGED Receiver

(* The reply to Hello: start, or restart, the stream. *)
StartCast(s) ==
  /\ phase[s] = "await"
  /\ s \notin Probers
  /\ inbox[s] # <<>> /\ Head(inbox[s]) = HelloAck
  /\ inbox' = [inbox EXCEPT ![s] = Tail(@)]
  /\ \/ /\ Write(s, StartStream(mode[s]))
        /\ phase' = [phase EXCEPT ![s] = "cast"]
     \/ /\ ~LinkUp(s)
        /\ phase' = [phase EXCEPT ![s] = "ended"]
        /\ UNCHANGED conn
  /\ UNCHANGED <<token, again, since, mode, casts>>
  /\ UNCHANGED Receiver

(* A probe that is welcome says Goodbye and drops the connection at once. *)
EndProbe(s) ==
  /\ phase[s] = "await"
  /\ s \in Probers
  /\ inbox[s] # <<>> /\ Head(inbox[s]) = HelloAck
  /\ phase' = [phase EXCEPT ![s] = "ended"]
  /\ inbox' = [inbox EXCEPT ![s] = <<>>]
  /\ IF LinkUp(s)
     THEN \E q \in Prefixes(Append(conn.toR, Goodbye)) :
            conn' = [conn EXCEPT !.up = FALSE, !.toR = q]
     ELSE UNCHANGED conn
  /\ UNCHANGED <<token, again, since, mode, casts>>
  /\ UNCHANGED Receiver

(* The end of a cast: Goodbye, if the connection still takes it. *)
EndCast(s) ==
  \/ /\ Write(s, Goodbye)
     /\ phase' = [phase EXCEPT ![s] = "bye"]
  \/ /\ ~LinkUp(s)
     /\ phase' = [phase EXCEPT ![s] = "ended"]
     /\ UNCHANGED conn

(* Refused, or the connection was lost before the reply came. *)
Refused(s) ==
  /\ phase[s] = "await"
  /\ \/ inbox[s] # <<>> /\ Head(inbox[s]).type = "Error"
     \/ inbox[s] = <<>> /\ ~LinkUp(s)
  /\ EndCast(s)
  /\ inbox' = [inbox EXCEPT ![s] = <<>>]
  /\ UNCHANGED <<token, again, since, mode, casts>>
  /\ UNCHANGED Receiver

(* Casting: the token arrives, the user changes the mode or stops. *)
ReadControl(s) ==
  /\ phase[s] = "cast"
  /\ inbox[s] # <<>>
  /\ token' = IF Head(inbox[s]).type = "SessionToken"
              THEN [token EXCEPT ![s] = Head(inbox[s]).token] ELSE token
  /\ inbox' = [inbox EXCEPT ![s] = Tail(@)]
  /\ UNCHANGED <<phase, again, since, mode, casts, conn>>
  /\ UNCHANGED Receiver

ChangeMode(s, m) ==
  /\ phase[s] = "cast"
  /\ m # mode[s]
  /\ mode' = [mode EXCEPT ![s] = m]
  /\ \/ Write(s, SetMode(m)) /\ UNCHANGED phase
     \/ /\ ~LinkUp(s)
        /\ phase' = [phase EXCEPT ![s] = "ended"]
        /\ UNCHANGED conn
  /\ UNCHANGED <<token, again, since, casts, inbox>>
  /\ UNCHANGED Receiver

Stop(s) ==
  /\ phase[s] = "cast"
  /\ EndCast(s)
  /\ UNCHANGED <<token, again, since, mode, casts, inbox>>
  /\ UNCHANGED Receiver

(* The receiver closed, or 500 ms have passed and the sender closes. *)
Close(s) ==
  /\ phase[s] = "bye"
  /\ phase' = [phase EXCEPT ![s] = "ended"]
  /\ IF LinkUp(s) THEN Down(s) ELSE UNCHANGED <<conn, inbox>>
  /\ UNCHANGED <<token, again, since, mode, casts>>
  /\ UNCHANGED Receiver

(* link.closed() resolves in the cast loop: reconnect with the token. *)
NoticeLoss(s) ==
  /\ phase[s] = "cast"
  /\ ~LinkUp(s)
  /\ phase' = [phase EXCEPT ![s] = "connect"]
  /\ again' = [again EXCEPT ![s] = TRUE]
  /\ since' = [since EXCEPT ![s] = now]
  /\ inbox' = [inbox EXCEPT ![s] = <<>>]
  /\ UNCHANGED <<token, mode, casts, conn>>
  /\ UNCHANGED Receiver

(* A lost connection is noticed within the idle timeout, a greeting or a   *)
(* goodbye takes less than a tick.                                         *)
Clock ==
  /\ now < MaxTime
  /\ conn # None => conn.up /\ conn.phase = "stream"
  /\ \A s \in Senders : phase[s] \notin {"linked", "await", "bye"}
  /\ \A s \in Senders : phase[s] = "cast" => LinkUp(s)
  /\ now' = now + 1
  /\ UNCHANGED <<session, issued, holder, owner, conn, jmode, restarts, losses>>
  /\ UNCHANGED sender

ReceiverStep ==
  RecvFirstHello \/ RecvResume \/ RecvBadToken \/ RecvControl \/ ReceiverNoticesLoss

SenderStep(s) ==
  \/ ConnectTimeout(s) \/ SendHello(s) \/ StartCast(s) \/ EndProbe(s) \/ Refused(s)
  \/ ReadControl(s) \/ Close(s) \/ NoticeLoss(s)

Next ==
  \/ \E s \in Senders : Accept(s)
  \/ ReceiverStep
  \/ ReceiverRestart
  \/ Miracast
  \/ LoseLink
  \/ \E s \in Senders : Start(s) \/ SenderStep(s) \/ Stop(s)
  \/ \E s \in Senders, m \in Mode : ChangeMode(s, m)
  \/ Clock

Spec == Init /\ [][Next]_vars

(* Both programs' select loops run and time passes.  Whether a waiting     *)
(* sender is the one accepted is up to the endpoint's queue.               *)
FairSpec ==
  /\ Spec
  /\ WF_vars(ReceiverStep)
  /\ \A s \in Senders : WF_vars(SenderStep(s))
  /\ WF_vars(Clock)
-----------------------------------------------------------------------------
(* A disconnected session is resumed only by the sender that opened it. *)
ResumedByItsSender ==
  [][session.state = "Disconnected" /\ session'.state = "Streaming"
       => conn.from = holder]_vars

(* Once its control messages are read, the receiver plays in the mode the  *)
(* user of the streaming sender chose last, across reconnections.          *)
ModesAgree ==
  conn # None /\ conn.up /\ conn.phase = "stream" /\ conn.toR = <<>>
    /\ phase[conn.from] = "cast"
    => jmode = mode[conn.from] /\ session.params = mode[conn.from]

(* Every attempt to start or to resume a cast comes to an end, within the  *)
(* horizon: again and again no sender is left between connecting and       *)
(* casting, whatever connections were lost (cast, connect_with_retry).     *)
CastSettles ==
  []<>(\A s \in Senders : \/ phase[s] \in {"idle", "cast", "ended"}
                          \/ since[s] + ReconnectFor >= MaxTime)
=============================================================================
