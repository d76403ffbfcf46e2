------------------------ MODULE ScreenSharing_proofs ------------------------
(***************************************************************************)
(* For any set of stations: that the sink's types hold and the display     *)
(* arbiter, serve's own flag and the lifecycle agree on who has the        *)
(* screen, that two protocols share one screen without taking it from each *)
(* other, and that a PIN on the screen is one the registrar was armed      *)
(* with.  Of the radio under the sink, for any sources, stored groups and  *)
(* faults: that paired sources get back in.  The bounds play no part.      *)
(***************************************************************************)
EXTENDS ScreenSharing, GroupFormation, SequenceTheorems, TLAPS
------------------------------------------------------------------------------
(* The sink by itself *)

(* The invariant proved by induction: types and the agreement of the four  *)
(* pieces of state.  Each needs the other: Join and HoldExpires free the   *)
(* display only if held, which is TRUE in a hold by the agreement.         *)
SinkInv == SinkTypeOK /\ ScreenIsExclusive

(* Every step of the sink, of castr and of the channel's reader keeps it.  *)
LEMMA SinkInvStep == SinkInv /\ [SinkNext]_sinkVars => SinkInv'
<1> SUFFICES ASSUME SinkInv, [SinkNext]_sinkVars PROVE SinkInv'
  OBVIOUS
<1> USE SinkAssumption DEF SinkInv, SinkTypeOK, ScreenIsExclusive, Phase, SinkOut
<1>1. ASSUME NEW msgs \in Seq(SinkOut), Emit(msgs) PROVE out' \in Seq(SinkOut)
  BY <1>1 DEF Emit
<1>2. ASSUME NEW msgs \in Seq(SinkOut), LoseGroup(msgs) PROVE SinkInv'
  <2>1. msgs \o <<"Idle", "Started">> \in Seq(SinkOut)
    OBVIOUS
  <2>2. out' \in Seq(SinkOut)
    BY <1>1, <1>2, <2>1 DEF LoseGroup
  <2> QED BY <1>2, <2>2 DEF LoseGroup, ReleaseDisplay, Released
<1>3. <<"Pin">> \in Seq(SinkOut)
  OBVIOUS
<1>4. ASSUME ShowPin, group = "up" PROVE SinkInv'
  <2>1. CASE LoseGroup(<<"Pin">>)
    BY <1>2, <1>3, <2>1
  <2>2. CASE /\ pin' = TRUE
             /\ Emit(<<"Pin">>)
             /\ UNCHANGED <<owner, group, life, held, rtsp, heard, session_peer, clients, echo>>
    <3>1. out' \in Seq(SinkOut)
      BY <1>1, <1>3, <2>2
    <3> QED BY <1>4, <2>2, <3>1
  <2> QED BY <1>4, <2>1, <2>2, Zenon DEF ShowPin
<1>5. ASSUME NEW m \in Stations, Join(m), group = "up",
             echo' \subseteq echo \cup {m}
      PROVE SinkInv'
  <2> DEFINE cleared == IF pin THEN <<"PinCleared">> ELSE <<>>
  <2>1. /\ <<"PinCleared">> \in Seq(SinkOut)
        /\ <<>> \in Seq(SinkOut)
        /\ <<"Idle">> \in Seq(SinkOut)
    OBVIOUS
  <2>2. cleared \in Seq(SinkOut)
    BY <2>1, Zenon
  <2> HIDE DEF cleared
  <2>3. cleared \o <<"Idle">> \in Seq(SinkOut)
    BY <2>1, <2>2
  <2> USE DEF cleared
  <2>4. out' \in Seq(SinkOut)
    BY <1>1, <1>5, <2>2, <2>3 DEF Join
  <2> QED BY <1>5, <2>4 DEF Join, ReleaseDisplay, Released
<1>6. ASSUME SessionEnded(<<>>), group = "up" PROVE
        /\ out' \in Seq(SinkOut)
        /\ owner' = owner
        /\ rtsp' = None /\ heard' = FALSE
        /\ life' = IF life = "Streaming" THEN "Holding" ELSE life
  <2>1. <<>> \in Seq(SinkOut) /\ <<>> \o <<"Ended", "Reconnecting">> \in Seq(SinkOut)
    OBVIOUS
  <2> QED BY <1>1, <1>6, <2>1 DEF SessionEnded
<1>7. CASE GroupUp
  BY <1>1, <1>3, <1>7 DEF GroupUp
<1>8. CASE MintPin \/ ProvisionRequest \/ WpsFail
  BY <1>4, <1>8 DEF MintPin, ProvisionRequest, WpsFail
<1>9. CASE GroupRemoved
  <2>1. <<>> \in Seq(SinkOut)
    OBVIOUS
  <2> QED BY <1>2, <1>9, <2>1 DEF GroupRemoved
<1>10. ASSUME NEW m \in Stations, ClientConnected(m) \/ ClientConnectedAgain(m)
       PROVE SinkInv'
  BY <1>5, <1>10 DEF ClientConnected, ClientConnectedAgain
<1>11. ASSUME NEW m \in Stations, ClientDisconnected(m) PROVE SinkInv'
  <2>1. CASE session_peer = m
    BY <1>6, <1>11, <2>1 DEF ClientDisconnected
  <2>2. CASE session_peer # m
    BY <1>11, <2>2 DEF ClientDisconnected
  <2> QED BY <2>1, <2>2
<1>12. ASSUME NEW m \in Stations, RtspAccept(m) PROVE SinkInv'
  <2>1. <<"Started">> \in Seq(SinkOut)
    OBVIOUS
  <2>2. out' \in Seq(SinkOut)
    BY <1>1, <1>12, <2>1 DEF RtspAccept
  <2> QED BY <1>12, <2>2 DEF RtspAccept, Free
<1>13. ASSUME NEW msg \in SinkOut, Media(msg) PROVE SinkInv'
  <2>1. <<msg>> \in Seq(SinkOut)
    OBVIOUS
  <2>2. out' \in Seq(SinkOut)
    BY <1>1, <1>13, <2>1 DEF Media
  <2> QED BY <1>13, <2>2 DEF Media
<1>14. CASE RtspEnds
  BY <1>6, <1>14 DEF RtspEnds
<1>15. CASE HoldExpires
  <2>1. <<"Idle">> \in Seq(SinkOut)
    OBVIOUS
  <2>2. out' \in Seq(SinkOut)
    BY <1>1, <1>15, <2>1 DEF HoldExpires
  <2> QED BY <1>15, <2>2 DEF HoldExpires, ReleaseDisplay, Released
<1>16. CASE StopSink
  BY <1>16 DEF StopSink, ReleaseDisplay, Released
<1>17. CASE CastrTakes \/ CastrFrees
  BY <1>17 DEF CastrTakes, CastrFrees, Released
<1>18. CASE ReadOut
  <2>1. Tail(out) \in Seq(SinkOut)
    BY <1>18 DEF ReadOut
  <2> QED BY <1>18, <2>1 DEF ReadOut
<1>19. CASE UNCHANGED sinkVars
  BY <1>19 DEF sinkVars
<1>20. CASE Speaks
  BY <1>20 DEF Speaks
<1>21. CASE SinkStep
  BY <1>7, <1>8, <1>9, <1>10, <1>11, <1>12, <1>13, <1>14, <1>15, <1>16, <1>20,
     <1>21, Zenon
  DEF SinkStep
<1>22. CASE SinkNext
  BY <1>17, <1>18, <1>21, <1>22, Zenon DEF SinkNext
<1> HIDE DEF SinkInv
<1> QED
  BY <1>19, <1>22

(* The sink starts with no group, no session and the display with nobody. *)
LEMMA SinkInitInv == SinkInit => SinkInv
<1> SUFFICES ASSUME SinkInit PROVE SinkInv
  OBVIOUS
<1>1. out \in Seq(SinkOut)
  BY DEF SinkInit
<1>2. SinkTypeOK
  BY <1>1, Zenon DEF SinkInit, SinkTypeOK, Phase
<1>3. ScreenIsExclusive
  BY DEF SinkInit, ScreenIsExclusive
<1> QED
  BY <1>2, <1>3 DEF SinkInv

(* The types of the sink hold in every behaviour, and one protocol has the *)
(* screen: the arbiter's owner, serve's held flag and the lifecycle's      *)
(* phase never disagree, whatever the stations, the radio and castr do.    *)
THEOREM ScreenExclusive == SinkSpec => [](SinkTypeOK /\ ScreenIsExclusive)
<1>1. SinkInit => SinkInv
  BY SinkInitInv
<1>2. SinkInv /\ [SinkNext]_sinkVars => SinkInv'
  BY SinkInvStep
<1>3. SinkInv => SinkTypeOK /\ ScreenIsExclusive
  BY DEF SinkInv
<1> QED
  BY <1>1, <1>2, <1>3, PTL DEF SinkSpec
------------------------------------------------------------------------------
(* The sink and castr *)

(* The sink takes the display only when it is idle and frees only its own  *)
(* hold: whether castr owns the display is never the sink's doing.         *)
LEMMA SinkLeavesCastr ==
  ASSUME SinkInv, SinkStep
  PROVE  owner' = "Castr" <=> owner = "Castr"
<1> USE DEF SinkInv, SinkTypeOK, ScreenIsExclusive
<1>1. CASE GroupUp
  BY <1>1 DEF GroupUp
<1>2. CASE MintPin \/ ProvisionRequest \/ WpsFail
  BY <1>2 DEF MintPin, ProvisionRequest, WpsFail, ShowPin, LoseGroup, ReleaseDisplay, Released
<1>3. CASE GroupRemoved
  BY <1>3 DEF GroupRemoved, LoseGroup, ReleaseDisplay, Released
<1>4. CASE \E m \in Stations : ClientConnected(m) \/ ClientConnectedAgain(m)
  BY <1>4 DEF ClientConnected, ClientConnectedAgain, Join, ReleaseDisplay, Released
<1>5. CASE \E m \in Stations : ClientDisconnected(m)
  BY <1>5 DEF ClientDisconnected, SessionEnded
<1>6. CASE \E m \in Stations : RtspAccept(m)
  BY <1>6 DEF RtspAccept, Free
<1>7. CASE \E msg \in SinkOut : Media(msg)
  BY <1>7 DEF Media
<1>8. CASE RtspEnds
  BY <1>8 DEF RtspEnds, SessionEnded
<1>9. CASE HoldExpires
  BY <1>9 DEF HoldExpires, ReleaseDisplay, Released
<1>10. CASE StopSink
  BY <1>10 DEF StopSink, ReleaseDisplay, Released
<1>11. CASE Speaks
  BY <1>11 DEF Speaks
<1> HIDE DEF SinkInv, SinkTypeOK, ScreenIsExclusive
<1> QED
  BY <1>1, <1>2, <1>3, <1>4, <1>5, <1>6, <1>7, <1>8, <1>9, <1>10, <1>11 DEF SinkStep

(* One cast on the screen, with what the sink knows of the display: a castr *)
(* stream owns it, so the sink does not hold it.                           *)
ShareInv == SinkInv /\ ScreenHasOneCast

(* What the castr handler and the arbiter do to the display.               *)
LEMMA CastrKeepsShare ==
  ASSUME ShareInv, Castr
  PROVE  ShareInv'
<1>1. /\ UNCHANGED <<group, life, held, rtsp, heard, session_peer, clients, echo, pin>>
      /\ out' = out
  BY DEF Castr, CastrConnect, CastrPair, CastrStream, CastrRefused, CastrStartStream,
     CastrSetMode, CastrFrame, CastrEnds, CastrRelease, CastrFlush, CastrOverlay, sinkOwn
<1>2. owner' = owner \/ (owner = "Idle" /\ owner' = "Castr") \/ (owner = "Castr" /\ owner' = "Idle")
  BY DEF Castr, CastrConnect, CastrPair, CastrStream, CastrRefused, CastrStartStream, Free,
     CastrSetMode, CastrFrame, CastrEnds, CastrRelease, CastrFlush, CastrOverlay, Released
<1>3. SinkInv'
  BY <1>1, <1>2 DEF ShareInv, SinkInv, SinkTypeOK, ScreenIsExclusive
<1>4. ScreenHasOneCast'
  <2> USE DEF ShareInv, SinkInv, ScreenIsExclusive, ScreenHasOneCast
  <2>1. CASE CastrStream
    BY <1>1, <2>1 DEF CastrStream, Free
  <2>2. CASE CastrRelease
    BY <1>1, <2>2 DEF CastrRelease, Released
  <2>3. CASE CastrConnect \/ CastrRefused \/ CastrStartStream \/ CastrEnds
    BY <1>1, <2>3 DEF CastrConnect, CastrRefused, CastrStartStream, CastrEnds
  <2>4. CASE CastrPair \/ CastrSetMode \/ CastrFrame
    BY <1>1, <2>4 DEF CastrPair, CastrSetMode, CastrFrame
  <2>5. CASE CastrFlush \/ CastrOverlay
    BY <1>1, <2>5 DEF CastrFlush, CastrOverlay
  <2> QED
    BY <2>1, <2>2, <2>3, <2>4, <2>5 DEF Castr
<1> QED
  BY <1>3, <1>4 DEF ShareInv

(* Every step of the two protocols and of the threads between them. *)
LEMMA ShareInvStep == ShareInv /\ [Next]_vars => ShareInv'
<1> SUFFICES ASSUME ShareInv, [Next]_vars PROVE ShareInv'
  OBVIOUS
<1>1. CASE Sink
  <2>1. SinkInv /\ SinkStep /\ castr' = castr
    BY <1>1 DEF Sink, ShareInv, shareVars
  <2>2. SinkInv'
    BY <2>1, SinkInvStep DEF SinkNext
  <2>3. owner' = "Castr" <=> owner = "Castr"
    BY <2>1, SinkLeavesCastr
  <2> QED
    BY <2>1, <2>2, <2>3 DEF ShareInv, SinkInv, ScreenIsExclusive, ScreenHasOneCast
<1>2. CASE Castr
  BY <1>2, CastrKeepsShare
<1>3. CASE Deliver
  <2>1. ReadOut
    BY <1>3 DEF Deliver, ReadOut, sinkOwn
  <2>2. SinkInv'
    BY <2>1, SinkInvStep DEF ShareInv, SinkNext
  <2> QED
    BY <1>3, <2>2 DEF Deliver, sinkOwn, ShareInv, ScreenHasOneCast
<1>4. CASE Present \/ UNCHANGED vars
  <2>1. UNCHANGED sinkVars /\ castr' = castr
    BY <1>4 DEF Present, vars, sinkOwn, sinkVars
  <2>2. SinkInv'
    BY <2>1, SinkInvStep DEF ShareInv
  <2> QED
    BY <2>1, <2>2 DEF sinkVars, ShareInv, ScreenHasOneCast
<1> QED
  BY <1>1, <1>2, <1>3, <1>4 DEF Next

(* The screen has one cast: castr streams exactly while it owns the        *)
(* display, never into a Miracast session or its hold, and neither frees   *)
(* what the other has, in any interleaving of the castr handler, the sink  *)
(* and the events thread (display.rs, pipeline.rs network_main, sink.rs).  *)
THEOREM OneCastOnScreen == Spec => [](ScreenIsExclusive /\ ScreenHasOneCast)
<1>1. Init => ShareInv
  <2> SUFFICES ASSUME Init PROVE ShareInv
    OBVIOUS
  <2>1. SinkInit /\ castr = "none"
    BY DEF Init
  <2>2. SinkInv
    BY <2>1, SinkInitInv
  <2> QED
    BY <2>1, <2>2 DEF ShareInv, ScreenHasOneCast, SinkInit
<1>2. ShareInv /\ [Next]_vars => ShareInv'
  BY ShareInvStep
<1>3. ShareInv => ScreenIsExclusive /\ ScreenHasOneCast
  BY DEF ShareInv, SinkInv
<1> QED
  BY <1>1, <1>2, <1>3, PTL DEF Spec
-----------------------------------------------------------------------------
(* The messages that take a PIN off the screen. *)
Clearing == {"PinCleared", "Idle", "Reconnecting", "Started"}

Clears(q) == \E j \in DOMAIN q : q[j] \in Clearing

(* In the channel q, before a screen that shows text: every PIN still to   *)
(* be shown, and a PIN already there, is going to be taken off.            *)
PinPasses(q, text) ==
  /\ \A i \in DOMAIN q : q[i] = "Pin" => \E j \in DOMAIN q : i < j /\ q[j] \in Clearing
  /\ text = "Pin" => Clears(q)

(* While the registrar of a group is not armed, whatever PIN is on the     *)
(* screen, or on its way, passes.                                          *)
PinInv == group = "up" /\ ~pin => PinPasses(out, overlay)

(* Messages without a PIN leave a passing PIN passing, and one that clears *)
(* the screen makes any PIN before it pass.                                *)
LEMMA AppendPasses ==
  ASSUME NEW q \in Seq(SinkOut), NEW msgs \in Seq(SinkOut), NEW text,
         \A j \in DOMAIN msgs : msgs[j] # "Pin",
         PinPasses(q, text) \/ Clears(msgs)
  PROVE  PinPasses(q \o msgs, text)
<1> DEFINE r == q \o msgs
<1>1. /\ Len(q) \in Nat /\ Len(msgs) \in Nat
      /\ DOMAIN q = 1 .. Len(q) /\ DOMAIN msgs = 1 .. Len(msgs)
  BY LenProperties
<1>2. /\ r \in Seq(SinkOut) /\ Len(r) = Len(q) + Len(msgs)
      /\ \A i \in 1 .. (Len(q) + Len(msgs)) : r[i] = IF i <= Len(q) THEN q[i] ELSE msgs[i - Len(q)]
  BY ConcatProperties
<1> HIDE DEF r
<1>3. DOMAIN r = 1 .. (Len(q) + Len(msgs))
  BY <1>2, LenProperties
<1>4. \A i \in DOMAIN q : i \in DOMAIN r /\ r[i] = q[i]
  BY <1>1, <1>2, <1>3
<1>5. \A j \in DOMAIN msgs : j + Len(q) \in DOMAIN r /\ r[j + Len(q)] = msgs[j]
  <2> SUFFICES ASSUME NEW j \in DOMAIN msgs PROVE j + Len(q) \in DOMAIN r /\ r[j + Len(q)] = msgs[j]
    OBVIOUS
  <2>1. j + Len(q) \in 1 .. (Len(q) + Len(msgs)) /\ ~(j + Len(q) <= Len(q)) /\ (j + Len(q)) - Len(q) = j
    BY <1>1
  <2> QED
    BY <1>2, <1>3, <2>1
<1>6. \A i \in DOMAIN r : i \in DOMAIN q \/ (i - Len(q) \in DOMAIN msgs /\ r[i] = msgs[i - Len(q)])
  <2> SUFFICES ASSUME NEW i \in DOMAIN r, i \notin DOMAIN q
               PROVE  i - Len(q) \in DOMAIN msgs /\ r[i] = msgs[i - Len(q)]
    OBVIOUS
  <2>1. i \in 1 .. (Len(q) + Len(msgs)) /\ ~(i <= Len(q)) /\ i - Len(q) \in 1 .. Len(msgs)
    BY <1>1, <1>3
  <2> QED
    BY <1>1, <1>2, <2>1
<1>7. \A i \in DOMAIN r : r[i] = "Pin" => i \in DOMAIN q /\ q[i] = "Pin"
  BY <1>4, <1>6
<1>8. CASE PinPasses(q, text)
  <2>1. \A i \in DOMAIN r : r[i] = "Pin" => \E j \in DOMAIN r : i < j /\ r[j] \in Clearing
    BY <1>4, <1>7, <1>8 DEF PinPasses
  <2>2. text = "Pin" => Clears(r)
    BY <1>4, <1>8 DEF PinPasses, Clears
  <2> QED
    BY <2>1, <2>2 DEF PinPasses, r
<1>9. CASE Clears(msgs)
  <2>1. PICK j \in DOMAIN msgs : msgs[j] \in Clearing
    BY <1>9 DEF Clears
  <2>2. j + Len(q) \in DOMAIN r /\ r[j + Len(q)] \in Clearing
    BY <1>5, <2>1
  <2>3. \A i \in DOMAIN q : i < j + Len(q)
    BY <1>1
  <2>4. \A i \in DOMAIN r : r[i] = "Pin" => \E k \in DOMAIN r : i < k /\ r[k] \in Clearing
    BY <1>7, <2>2, <2>3
  <2> QED
    BY <2>2, <2>4 DEF PinPasses, Clears, r
<1> QED
  BY <1>8, <1>9

(* A step of the sink that leaves a group up without a PIN on offer found  *)
(* the group up, sends no PIN, and clears the screen if it took one down.  *)
LEMMA SinkClearsPin ==
  ASSUME SinkInv, SinkStep, group' = "up", ~pin'
  PROVE  /\ group = "up"
         /\ \E msgs \in Seq(SinkOut) :
              /\ out' = out \o msgs
              /\ \A j \in DOMAIN msgs : msgs[j] # "Pin"
              /\ pin => Clears(msgs)
<1> DEFINE Told(msgs) == /\ msgs \in Seq(SinkOut)
                         /\ out' = out \o msgs
                         /\ \A j \in DOMAIN msgs : msgs[j] # "Pin"
                         /\ pin => Clears(msgs)
<1>1. SUFFICES group = "up" /\ \E msgs : Told(msgs)
  OBVIOUS
<1>2. out \in Seq(SinkOut) /\ pin \in BOOLEAN
  BY DEF SinkInv, SinkTypeOK
<1>3. ASSUME group' = group, pin' = pin, out' = out PROVE group = "up" /\ \E msgs : Told(msgs)
  <2>1. out' = out \o <<>> /\ <<>> \in Seq(SinkOut) /\ DOMAIN <<>> = {}
    BY <1>2, <1>3, ConcatEmptySeq
  <2>2. Told(<<>>)
    BY <1>3, <2>1
  <2> HIDE DEF Told
  <2> QED
    BY <1>3, <2>2
<1>4. ASSUME group' = group, pin' = pin, NEW msgs \in Seq(SinkOut), Emit(msgs),
             \A j \in DOMAIN msgs : msgs[j] # "Pin"
      PROVE  group = "up" /\ \E m : Told(m)
  <2>1. Told(msgs)
    BY <1>4 DEF Emit
  <2> HIDE DEF Told
  <2> QED
    BY <1>4, <2>1
<1>5. CASE GroupUp
  BY <1>5 DEF GroupUp
<1>6. CASE MintPin \/ ProvisionRequest \/ WpsFail
  BY <1>6 DEF MintPin, ProvisionRequest, WpsFail, ShowPin, LoseGroup
<1>7. CASE GroupRemoved
  BY <1>7 DEF GroupRemoved, LoseGroup
<1>8. CASE \E m \in Stations : ClientConnected(m) \/ ClientConnectedAgain(m)
  <2>1. PICK m \in Stations : ClientConnected(m) \/ ClientConnectedAgain(m)
    BY <1>8
  <2>2. Join(m) /\ group = "up"
    BY <2>1 DEF ClientConnected, ClientConnectedAgain
  <2> DEFINE cleared == IF pin THEN <<"PinCleared">> ELSE <<>>
  <2>3. Emit(cleared \o <<"Idle">>) \/ Emit(cleared)
    BY <2>2 DEF Join
  <2>4. CASE pin
    <3> DEFINE both == <<"PinCleared">> \o <<"Idle">>
    <3>1. <<"PinCleared">> \in Seq(SinkOut) /\ <<"Idle">> \in Seq(SinkOut)
      BY DEF SinkOut
    <3>2. Emit(both) \/ Emit(<<"PinCleared">>)
      BY <2>3, <2>4
    <3>3. /\ both \in Seq(SinkOut) /\ Len(both) = 2 /\ DOMAIN both = 1 .. 2
          /\ both[1] = "PinCleared" /\ both[2] = "Idle"
      <4>1. Len(<<"PinCleared">>) = 1 /\ Len(<<"Idle">>) = 1
        OBVIOUS
      <4> QED
        BY <3>1, <4>1, ConcatProperties, LenProperties
    <3>4. Emit(both) => Told(both)
      <4> HIDE DEF both
      <4>1. \A j \in DOMAIN both : j = 1 \/ j = 2
        BY <3>3
      <4>2. (\A j \in DOMAIN both : both[j] # "Pin") /\ Clears(both)
        BY <3>3, <4>1 DEF Clears, Clearing
      <4> QED
        BY <3>3, <4>2 DEF Emit
    <3>5. Emit(<<"PinCleared">>) => Told(<<"PinCleared">>)
      BY <3>1 DEF Emit, Clears, Clearing
    <3> HIDE DEF Told, both
    <3> QED
      BY <2>2, <3>2, <3>4, <3>5
  <2>5. CASE ~pin
    <3>1. <<>> \in Seq(SinkOut) /\ <<"Idle">> \in Seq(SinkOut) /\ <<>> \o <<"Idle">> = <<"Idle">> /\ DOMAIN <<>> = {}
      BY DEF SinkOut
    <3>2. Emit(<<"Idle">>) \/ Emit(<<>>)
      BY <2>3, <2>5, <3>1
    <3>3. Emit(<<"Idle">>) => Told(<<"Idle">>)
      BY <2>5, <3>1 DEF Emit
    <3>4. Emit(<<>>) => Told(<<>>)
      BY <2>5, <3>1 DEF Emit
    <3> HIDE DEF Told
    <3> QED
      BY <2>2, <3>2, <3>3, <3>4
  <2> QED
    BY <1>2, <2>4, <2>5
<1>9. ASSUME SessionEnded(<<>>), group' = group, pin' = pin PROVE group = "up" /\ \E msgs : Told(msgs)
  <2>1. <<>> \o <<"Ended", "Reconnecting">> = <<"Ended", "Reconnecting">>
    OBVIOUS
  <2>2. Emit(<<"Ended", "Reconnecting">>) \/ Emit(<<>>)
    BY <1>9, <2>1 DEF SessionEnded
  <2>3. <<"Ended", "Reconnecting">> \in Seq(SinkOut) /\ <<>> \in Seq(SinkOut) /\ DOMAIN <<>> = {}
    BY DEF SinkOut
  <2>4. \A j \in DOMAIN <<"Ended", "Reconnecting">> : <<"Ended", "Reconnecting">>[j] # "Pin"
    OBVIOUS
  <2> HIDE DEF Told
  <2>5. CASE Emit(<<"Ended", "Reconnecting">>)
    BY <1>4, <1>9, <2>3, <2>4, <2>5
  <2>6. CASE Emit(<<>>)
    BY <1>4, <1>9, <2>3, <2>6
  <2> QED
    BY <2>2, <2>5, <2>6
<1>10. CASE \E m \in Stations : ClientDisconnected(m)
  <2>1. PICK m \in Stations : ClientDisconnected(m)
    BY <1>10
  <2>2. group' = group /\ pin' = pin /\ (SessionEnded(<<>>) \/ out' = out)
    BY <2>1 DEF ClientDisconnected
  <2> HIDE DEF Told
  <2> QED
    BY <1>3, <1>9, <2>2
<1>11. CASE \E m \in Stations : RtspAccept(m)
  <2>1. group' = group /\ pin' = pin /\ Emit(<<"Started">>)
    BY <1>11 DEF RtspAccept
  <2>2. <<"Started">> \in Seq(SinkOut) /\ \A j \in DOMAIN <<"Started">> : <<"Started">>[j] # "Pin"
    BY DEF SinkOut
  <2> HIDE DEF Told
  <2> QED
    BY <1>4, <2>1, <2>2
<1>12. CASE \E msg \in SinkOut : Media(msg)
  <2>1. PICK msg \in {"Started", "Video"} : group' = group /\ pin' = pin /\ Emit(<<msg>>)
    BY <1>12 DEF Media, Dispatched
  <2>2. <<msg>> \in Seq(SinkOut) /\ \A j \in DOMAIN <<msg>> : <<msg>>[j] # "Pin"
    BY DEF SinkOut
  <2> HIDE DEF Told
  <2> QED
    BY <1>4, <2>1, <2>2
<1>13. CASE RtspEnds
  <2> HIDE DEF Told
  <2> QED
    BY <1>9, <1>13 DEF RtspEnds
<1>14. CASE HoldExpires
  <2>1. group' = group /\ pin' = pin /\ Emit(<<"Idle">>)
    BY <1>14 DEF HoldExpires
  <2>2. <<"Idle">> \in Seq(SinkOut) /\ \A j \in DOMAIN <<"Idle">> : <<"Idle">>[j] # "Pin"
    BY DEF SinkOut
  <2> HIDE DEF Told
  <2> QED
    BY <1>4, <2>1, <2>2
<1>15. CASE StopSink
  BY <1>15 DEF StopSink
<1>16. CASE Speaks
  <2>1. out' = out /\ group' = group /\ pin' = pin
    BY <1>16 DEF Speaks
  <2> HIDE DEF Told
  <2> QED
    BY <1>3, <2>1
<1> HIDE DEF Told
<1> QED
  BY <1>5, <1>6, <1>7, <1>8, <1>10, <1>11, <1>12, <1>13, <1>14, <1>15, <1>16 DEF SinkStep

(* The events thread shows the head of the channel: a PIN it puts up has   *)
(* its clearing message behind it.                                         *)
LEMMA DeliverPasses ==
  ASSUME out \in Seq(SinkOut), PinPasses(out, overlay), Deliver
  PROVE  PinPasses(out', overlay')
<1>1. /\ out # <<>> /\ out' = Tail(out) /\ overlay' = OverlayOf(Head(out))
      /\ Len(out) \in Nat /\ DOMAIN out = 1 .. Len(out)
  BY LenProperties DEF Deliver
<1>2. /\ out' \in Seq(SinkOut) /\ Len(out') = Len(out) - 1
      /\ \A i \in 1 .. Len(out') : out'[i] = out[i + 1]
  BY <1>1, HeadTailProperties
<1>3. DOMAIN out' = 1 .. (Len(out) - 1) /\ Len(out) >= 1
  BY <1>1, <1>2, LenProperties, EmptySeq
<1>4. \A i \in DOMAIN out' : i \in Int /\ i + 1 \in DOMAIN out /\ out'[i] = out[i + 1]
  BY <1>1, <1>2, <1>3
<1>5. \A j \in DOMAIN out : j > 1 => j - 1 \in DOMAIN out' /\ out'[j - 1] = out[j]
  <2> SUFFICES ASSUME NEW j \in DOMAIN out, j > 1
               PROVE  j - 1 \in DOMAIN out' /\ out'[j - 1] = out[j]
    OBVIOUS
  <2>1. j - 1 \in DOMAIN out' /\ (j - 1) + 1 = j
    BY <1>1, <1>3
  <2> QED
    BY <1>4, <2>1
<1>6. Head(out) = out[1] /\ 1 \in DOMAIN out
  BY <1>1, <1>3
<1>7. ASSUME NEW i \in DOMAIN out', out'[i] = "Pin"
      PROVE  \E j \in DOMAIN out' : i < j /\ out'[j] \in Clearing
  <2>1. PICK j \in DOMAIN out : i + 1 < j /\ out[j] \in Clearing
    BY <1>4, <1>7 DEF PinPasses
  <2>2. j \in Int /\ i \in Int
    BY <1>1, <1>4
  <2>3. j > 1 /\ i < j - 1
    BY <1>3, <2>1, <2>2
  <2> QED
    BY <1>5, <2>1, <2>3
<1>8. ASSUME overlay' = "Pin" PROVE Clears(out')
  <2>1. CASE out[1] = "Pin"
    <3>1. PICK j \in DOMAIN out : 1 < j /\ out[j] \in Clearing
      BY <1>6, <2>1 DEF PinPasses
    <3>2. j > 1
      BY <1>1, <3>1
    <3> QED
      BY <1>5, <3>1, <3>2 DEF Clears
  <2>2. CASE out[1] # "Pin"
    <3>1. out[1] \notin Clearing /\ overlay = "Pin"
      BY <1>1, <1>6, <1>8, <2>2 DEF OverlayOf, Clearing
    <3>2. PICK j \in DOMAIN out : out[j] \in Clearing
      BY <3>1 DEF PinPasses, Clears
    <3>3. j > 1
      BY <1>1, <3>1, <3>2
    <3> QED
      BY <1>5, <3>2, <3>3 DEF Clears
  <2> QED
    BY <2>1, <2>2
<1> QED
  BY <1>7, <1>8 DEF PinPasses

(* Only the events thread puts a PIN up, and only the sink sends one. *)
LEMMA PinInvStep == ShareInv /\ PinInv /\ [Next]_vars => PinInv'
<1> SUFFICES ASSUME ShareInv, PinInv, [Next]_vars, group' = "up", ~pin'
             PROVE  PinPasses(out', overlay')
  BY DEF PinInv
<1>1. out \in Seq(SinkOut) /\ pin \in BOOLEAN
  BY DEF ShareInv, SinkInv, SinkTypeOK
<1>2. CASE Sink
  <2>1. SinkInv /\ SinkStep /\ overlay' = overlay
    BY <1>2 DEF Sink, ShareInv, shareVars
  <2>2. group = "up"
    BY <2>1, SinkClearsPin
  <2>3. PICK msgs \in Seq(SinkOut) :
          /\ out' = out \o msgs
          /\ \A j \in DOMAIN msgs : msgs[j] # "Pin"
          /\ pin => Clears(msgs)
    BY <2>1, SinkClearsPin
  <2>4. PinPasses(out, overlay) \/ Clears(msgs)
    BY <2>2, <2>3 DEF PinInv
  <2>5. PinPasses(out \o msgs, overlay)
    BY <1>1, <2>3, <2>4, AppendPasses
  <2> QED
    BY <2>1, <2>3, <2>5
<1>3. CASE Castr \/ Present \/ UNCHANGED vars
  <2>1. group' = group /\ pin' = pin /\ out' = out
    BY <1>3 DEF Castr, CastrConnect, CastrPair, CastrStream, CastrRefused, CastrStartStream,
       CastrSetMode, CastrFrame, CastrEnds, CastrRelease, CastrFlush, CastrOverlay, sinkOwn,
       Present, vars
  <2>2. overlay' = "Pin" => overlay = "Pin"
    BY <1>3 DEF Castr, CastrConnect, CastrPair, CastrStream, CastrRefused, CastrStartStream,
       CastrSetMode, CastrFrame, CastrEnds, CastrRelease, CastrFlush, CastrOverlay, Present, vars
  <2> QED
    BY <2>1, <2>2 DEF PinInv, PinPasses
<1>4. CASE Deliver
  <2>1. group' = group /\ pin' = pin
    BY <1>4 DEF Deliver, sinkOwn
  <2> QED
    BY <1>1, <1>4, <2>1, DeliverPasses DEF PinInv
<1> QED
  BY <1>2, <1>3, <1>4 DEF Next

(* The screen and the supplicant agree on the PIN once the events thread   *)
(* has caught up: a PIN shown over a group that is up is one the registrar *)
(* is armed with (sink.rs:961).                                            *)
THEOREM ShownPinIsArmed == Spec => []PinOnScreenIsArmed
<1>1. Init => ShareInv /\ PinInv
  <2> SUFFICES ASSUME Init PROVE ShareInv /\ PinInv
    OBVIOUS
  <2>1. SinkInit /\ castr = "none"
    BY DEF Init
  <2>2. ShareInv
    BY <2>1, SinkInitInv DEF ShareInv, ScreenHasOneCast, SinkInit
  <2>3. PinInv
    BY <2>1 DEF PinInv, SinkInit
  <2> QED
    BY <2>2, <2>3
<1>2. ShareInv /\ PinInv /\ [Next]_vars => (ShareInv /\ PinInv)'
  BY ShareInvStep, PinInvStep
<1>3. PinInv => PinOnScreenIsArmed
  <2> SUFFICES ASSUME PinInv, overlay = "Pin", group = "up", out = <<>>, ~pin PROVE FALSE
    BY DEF PinOnScreenIsArmed
  <2>1. Clears(<<>>)
    BY DEF PinInv, PinPasses
  <2> QED
    BY <2>1 DEF Clears
<1> QED
  BY <1>1, <1>2, <1>3, PTL DEF Spec
-----------------------------------------------------------------------------
(* The radio's invariant.  Sound says what PairedSourcesReturn presupposes: the *)
(* working copy can be written, and nothing was cut short or came late.         *)
Sound == left.writable /\ ~lost

Clear == sup.group = 0 /\ sup.forming = 0
Right(nets) == IF nets = <<>> THEN 0 ELSE Head(nets)
Stored == IF At("write") THEN sink.desired.nets ELSE disk.conf.nets

(* Places before the supplicant is up, and of serve with its group. *)
Boots == {"conf", "write", "stamp", "spawn"}
Serves == {"iface", "g_attach", "pin", "first", "poll", "mint", "rearm", "show", "drain",
           "drain_group", "handle"}

(* The command that is waited for was carried out, or its supplicant died. *)
Obeyed == sink.waits /\ asked = <<>>

(* The supplicant has said, or will say, that a group is up. *)
HasStart(lines) == \E i \in DOMAIN lines : lines[i].e = "GroupStarted"
Coming == sup.forming # 0 \/ HasStart(pending["w"]) \/ HasStart(wire["w"])

(* Answers and events, and the numbers of stored groups. *)
Words == {"OK", "FAIL", "NETS"}
News == {"GroupStarted", "GroupRemoved", "Connected", "Disconnected", "ProvisionRequest", "WpsFail"}
Lines == [e : Words \cup News, m : Sources \cup {Nothing}, n : Nat]
Pos == Nat \ {0}

(* The fields of the records that every step rewrites. *)
Shape ==
  /\ "writable" \in DOMAIN left
  /\ DOMAIN sink = {"at", "waits", "desired", "file", "stored", "guard", "pin", "wps", "clients",
                    "session", "todo", "stop"}
  /\ DOMAIN sup = {"up", "sock", "saves", "tmpl", "nets", "forming", "group", "pin", "walk",
                   "hears"}

(* Without a working copy nothing is written, and no group is kept. *)
ReadOnly ==
  ~left.writable =>
    ~sup.saves /\ sink.at \notin {"write", "stamp"} /\ (At("spawn") => sink.file = "template")

(* The file and the supplicant that was started from it. *)
Files ==
  /\ DOMAIN disk = {"tmpl", "conf", "stamp"} /\ DOMAIN disk.conf = {"tmpl", "nets"}
  /\ Stored \in Seq(Pos)
  /\ At("write") => DOMAIN sink.desired = {"tmpl", "nets"}
  /\ sink.file = "working"
  /\ sup.up => sup.sock /\ sup.saves /\ sup.nets = disk.conf.nets
  /\ sink.at \in Boots => ~sup.up

(* The credentials of every source open the first group stored. *)
Keys ==
  /\ DOMAIN radio = {"in", "creds", "lease", "asks", "enrolling", "digits", "made"}
  /\ DOMAIN radio.creds = Sources /\ radio.made \in Nat
  /\ radio.enrolling \in Sources \cup {Nothing}
  /\ \A m \in Sources : radio.creds[m] # 0 => Stored # <<>> /\ radio.creds[m] = Head(Stored)

(* The group that is up, or coming up, is the first one stored, if there is one. *)
Group ==
  /\ sup.group # 0 => sup.nets # <<>> /\ sup.group = Head(sup.nets)
  /\ sup.forming # 0 => sup.forming \in Pos /\ (sup.nets = <<>> \/ sup.forming = Head(sup.nets))
  /\ ~sup.up => Clear

(* At most one command is under way, and at most one answer: to the command waited for. *)
Channels == wire \in [{"w", "g"} -> Seq(Lines)] /\ pending \in [{"w", "g"} -> Seq(Lines)]
Asking ==
  /\ sink.waits => sink.at \in Commands
  /\ asked # <<>> => /\ sink.waits /\ sup.up
                     /\ asked = <<[ctl |-> ControlOf[sink.at], cmd |-> sink.at,
                                   n |-> Argument(sink.at)]>>
OneAnswer ==
  \A c \in {"w", "g"} : \A i \in DOMAIN wire[c] :
    ~IsEvent(wire[c][i]) =>
      /\ Obeyed /\ c = ControlOf[sink.at]
      /\ \A j \in DOMAIN wire[c] : IsEvent(wire[c][j]) \/ i = j
      /\ At("list") /\ sup.up => wire[c][i].n = Right(sup.nets)
      /\ At("add") /\ sup.up => IF wire[c][i].e = "FAIL" THEN Clear ELSE Coming

(* What the place in the pass says of the group. *)
Places ==
  /\ sink.at \in {"ensure", "open", "attach", "set", "scan", "list"} => Clear
  /\ At("pause") => Clear \/ sink.stop
  /\ At("add") /\ ~Obeyed => Clear /\ (sup.up => sink.stored = Right(sup.nets))
  /\ At("remove") /\ Obeyed => Clear
  /\ At("wait") /\ sup.up => Coming
  /\ At("attach") /\ Obeyed /\ sup.up => "w" \in sup.hears
  /\ sink.at \in {"set", "scan", "list", "add", "wait"} /\ sup.up => "w" \in sup.hears
  /\ sink.at \in Serves => sink.guard
SoundInv == Files /\ Keys /\ Group /\ Channels /\ Asking /\ OneAnswer /\ Places
RadioInv == Shape /\ ReadOnly /\ (Sound => SoundInv)
-----------------------------------------------------------------------------
(* A bound that is spent is not the machine's. *)
LEMMA Spends ==
  ASSUME "writable" \in DOMAIN left, NEW what, what # "writable", Spend(what)
  PROVE  "writable" \in DOMAIN left' /\ left'.writable = left.writable
BY DEF Spend

(* A pass that ends is neither writing nor starting a supplicant. *)
LEMMA LeavingBase ==
  ASSUME Shape, ReadOnly, LeavesPass,
         "writable" \in DOMAIN left', left'.writable = left.writable
  PROVE  Shape' /\ ReadOnly'
<1>1. sink'.at \in {"remove", "pause"} /\ DOMAIN sink' = DOMAIN NewPass
  BY DEF LeavesPass, NewPass
<1>2. DOMAIN NewPass = DOMAIN sink
  BY DEF NewPass, Shape
<1>3. DOMAIN sup' = DOMAIN sup /\ sup'.saves = sup.saves
  BY DEF LeavesPass, Shape
<1> QED
  BY <1>1, <1>2, <1>3 DEF Shape, ReadOnly, At

(* A step of the sink that leaves the supplicant alone or ends the pass. *)
LEMMA ElsewhereBase ==
  ASSUME Shape, ReadOnly, DOMAIN sink' = DOMAIN sink, DOMAIN sup' = DOMAIN sup,
         sup'.saves = sup.saves, "writable" \in DOMAIN left', left'.writable = left.writable,
         sink'.at \in {"write", "stamp"} => left.writable,
         At("spawn")' => left.writable \/ sink'.file = "template"
  PROVE  Shape' /\ ReadOnly'
BY DEF Shape, ReadOnly, At

LEMMA AnsweredBase ==
  ASSUME Shape, ReadOnly, NEW cmd \in Commands, NEW ok, NEW row, NEW rest,
         Answered(cmd, ok, row, rest), "writable" \in DOMAIN left', left'.writable = left.writable
  PROVE  Shape' /\ ReadOnly'
<1>1. CASE LeavesPass
  BY <1>1, LeavingBase
<1>2. CASE ~LeavesPass
  <2>1. sink' = [sink EXCEPT !.at = Then[cmd], !.waits = FALSE,
                     !.stored = IF cmd = "list" THEN row ELSE @,
                     !.wps = IF ok /\ cmd \in {"mint", "rearm"} THEN 0 ELSE @] /\ sup' = sup
    BY <1>2 DEF Answered
  <2>2. Then[cmd] \notin {"write", "stamp", "spawn"}
    BY DEF Then, Commands, ControlOf
  <2>3. DOMAIN sink' = DOMAIN sink /\ sink'.at = Then[cmd]
    BY <2>1 DEF Shape
  <2> QED
    BY <2>1, <2>2, <2>3, ElsewhereBase DEF At
<1> QED
  BY <1>1, <1>2

LEMMA BaseBegins == GroupInit => Shape /\ ReadOnly
BY GroupAssumption DEF GroupInit, Shape, ReadOnly, NewPass, NoSupplicant, At

LEMMA SinkBase ==
  ASSUME Shape, ReadOnly, SinkThread
  PROVE  Shape' /\ ReadOnly' /\ left'.writable = left.writable
<1>a. "writable" \in DOMAIN left
  BY DEF Shape
<1>b. ASSUME Fails PROVE Shape' /\ ReadOnly' /\ left'.writable = left.writable
  <2>1. "writable" \in DOMAIN left' /\ left'.writable = left.writable
    BY <1>a, <1>b, Spends DEF Fails
  <2> QED
    BY <1>b, <2>1, LeavingBase DEF Fails
<1>1. CASE EnsureSupplicant
  <2>1. DOMAIN sink' = DOMAIN sink /\ sink'.at \in {"open", "conf"}
    BY <1>1 DEF EnsureSupplicant, Goes, Shape
  <2> QED
    BY <1>1, <2>1, ElsewhereBase DEF EnsureSupplicant, At, Shape
<1>2. CASE WorkingConf
  <2>1. DOMAIN sink' = DOMAIN sink
    BY <1>2 DEF WorkingConf, Goes, Shape
  <2>2. /\ sink'.at \in {"write", "stamp"} => left.writable
        /\ At("spawn")' => left.writable \/ sink'.file = "template"
    BY <1>2 DEF WorkingConf, Goes, Shape, At
  <2> QED
    BY <1>2, <2>1, <2>2, ElsewhereBase DEF WorkingConf, Shape
<1>3. CASE Writes
  <2>1. left.writable
    BY <1>3 DEF Writes, ReadOnly, At
  <2>2. DOMAIN sink' = DOMAIN sink
    BY <1>3 DEF Writes, Goes, Shape
  <2>3. "writable" \in DOMAIN left' /\ left'.writable = left.writable
    BY <1>3, <1>a, Spends DEF Writes
  <2> QED
    BY <1>3, <2>1, <2>2, <2>3, ElsewhereBase DEF Writes, Shape
<1>4. CASE Stamps
  <2>1. left.writable /\ DOMAIN sink' = DOMAIN sink
    BY <1>4 DEF Stamps, ReadOnly, Goes, Shape, At
  <2> QED
    BY <1>4, <2>1, ElsewhereBase DEF Stamps, Shape
<1>5. CASE Spawns
  <2>1. CASE Fails
    BY <1>b, <2>1
  <2>2. CASE ~Fails
    <3>1. sink.at = "spawn" /\ sink' = [sink EXCEPT !.at = "open"] /\ left' = left
      BY <1>5, <2>2 DEF Spawns, Goes, At
    <3>2. DOMAIN sup' = DOMAIN NoSupplicant /\ (sup'.saves => sink.file = "working")
      BY <1>5, <2>2 DEF Spawns, NoSupplicant
    <3>3. DOMAIN sup' = DOMAIN sup
      BY <3>2 DEF NoSupplicant, Shape
    <3>4. DOMAIN sink' = DOMAIN sink /\ sink'.at = "open"
      BY <3>1 DEF Shape
    <3> QED
      BY <3>1, <3>2, <3>3, <3>4 DEF Shape, ReadOnly, At
  <2> QED
    BY <2>1, <2>2
<1>6. CASE Opens
  <2>1. CASE LeavesPass
    BY <1>6, <2>1, <1>a, LeavingBase DEF Opens
  <2>2. CASE ~LeavesPass
    <3>1. sink' = [sink EXCEPT !.at = "attach"] /\ sup' = sup /\ left' = left
      BY <1>6, <2>2 DEF Opens, Goes
    <3>2. DOMAIN sink' = DOMAIN sink /\ sink'.at = "attach"
      BY <3>1 DEF Shape
    <3> QED
      BY <3>1, <3>2, <1>a, ElsewhereBase DEF At
  <2> QED
    BY <2>1, <2>2
<1>7. ASSUME NEW cmd \in Commands, Sends(cmd)
      PROVE  Shape' /\ ReadOnly' /\ left'.writable = left.writable
  <2>1. CASE sup.up
    <3>1. sink.at = cmd /\ sink' = [sink EXCEPT !.waits = TRUE] /\ sup' = sup /\ left' = left
      BY <1>7, <2>1 DEF Sends, At
    <3>2. DOMAIN sink' = DOMAIN sink /\ sink'.at = cmd
      BY <3>1 DEF Shape
    <3>3. cmd \notin {"write", "stamp", "spawn"}
      BY DEF Commands, ControlOf
    <3> QED
      BY <3>1, <3>2, <3>3, <1>a, ElsewhereBase DEF At
  <2>2. CASE ~sup.up
    BY <1>7, <2>2, <1>a, AnsweredBase DEF Sends
  <2> QED
    BY <2>1, <2>2
<1>8. ASSUME NEW cmd \in Commands, ReadsLine(cmd)
      PROVE  Shape' /\ ReadOnly' /\ left'.writable = left.writable
  <2> DEFINE c == ControlOf[cmd]
             line == Head(wire[c])
             rest == [wire EXCEPT ![c] = Tail(@)]
  <2>1. /\ left' = left
        /\ UNCHANGED <<sup, sink, asked>> \/ Answered(cmd, line.e # "FAIL", line.n, rest)
    BY <1>8, Zenon DEF ReadsLine
  <2> HIDE DEF line, rest
  <2>2. CASE UNCHANGED <<sup, sink, asked>>
    BY <2>1, <2>2 DEF Shape, ReadOnly, At
  <2>3. CASE Answered(cmd, line.e # "FAIL", line.n, rest)
    BY <2>1, <2>3, <1>a, AnsweredBase
  <2> QED
    BY <2>1, <2>2, <2>3
<1>9. CASE WaitsForGroup
  <2>1. "writable" \in DOMAIN left' /\ left'.writable = left.writable
    BY <1>9, <1>a, Spends DEF WaitsForGroup
  <2>2. CASE LeavesPass
    BY <2>1, <2>2, LeavingBase
  <2>3. CASE ~LeavesPass
    <3>1. sup' = sup /\ (sink' = sink \/ sink' = [sink EXCEPT !.at = "iface", !.guard = TRUE])
      BY <1>9, <2>3, Zenon DEF WaitsForGroup
    <3> QED
      BY <3>1, <2>1 DEF Shape, ReadOnly, At
  <2> QED
    BY <2>2, <2>3
<1>10. CASE ConfiguresInterface
  <2>1. CASE Fails
    BY <1>b, <2>1
  <2>2. CASE LeavesPass /\ left' = left
    BY <2>2, <1>a, LeavingBase
  <2>3. CASE ~LeavesPass
    <3>1. sink' = [sink EXCEPT !.at = "g_attach"] /\ sup' = sup /\ left' = left
      BY <1>10, <2>3 DEF ConfiguresInterface, Goes, Fails
    <3> QED
      BY <3>1 DEF Shape, ReadOnly, At
  <2> QED
    BY <1>10, <2>1, <2>2, <2>3 DEF ConfiguresInterface
<1>11. CASE MintsFirst
  BY <1>11 DEF MintsFirst, Shape, ReadOnly, At
<1>12. CASE Pauses
  BY <1>12 DEF Pauses, Goes, Shape, ReadOnly, At
<1>13. CASE StartsPass
  <2>1. CASE LeavesPass
    BY <1>13, <2>1, <1>a, LeavingBase DEF StartsPass
  <2>2. CASE ~LeavesPass
    <3>1. sup' = sup /\ left' = left
      BY <1>13, <2>2 DEF StartsPass
    <3>2. sink' = [sink EXCEPT !.at = "mint", !.pin = Fresh]
          \/ sink' = [sink EXCEPT !.at = "rearm"] \/ sink' = [sink EXCEPT !.at = "drain"]
      BY <1>13, <2>2, Zenon DEF StartsPass
    <3> QED
      BY <3>1, <3>2 DEF Shape, ReadOnly, At
  <2> QED
    BY <2>1, <2>2
<1>14. CASE DrainsWlan
  BY <1>14 DEF DrainsWlan, Shape, ReadOnly, At
<1>15. CASE DrainsGroup
  <2>1. sup' = sup /\ left' = left /\ DOMAIN sink' = DOMAIN sink /\ sink'.at = "handle"
    BY <1>15 DEF DrainsGroup, Shape
  <2> QED
    BY <2>1, <1>a, ElsewhereBase DEF At
<1>16. CASE Handles
  <2> DEFINE s == [sink EXCEPT !.todo = Tail(@)]
  <2>1. CASE LeavesPass
    BY <1>16, <2>1, <1>a, LeavingBase DEF Handles
  <2>2. CASE ~LeavesPass
    <3>1. sup' = sup /\ left' = left /\ sink.at = "handle"
      BY <1>16, <2>2, Zenon DEF Handles, At
    <3>2. \/ sink' = s \/ sink' = [s EXCEPT !.pin = Fresh, !.at = "show"]
          \/ \E ev : sink' = [s EXCEPT !.clients = @ \cup {ev.m}, !.pin = 0]
          \/ \E ev, session : sink' = [s EXCEPT !.clients = @ \ {ev.m}, !.session = session]
      BY <1>16, <2>2, Zenon DEF Handles
    <3>3. DOMAIN s = DOMAIN sink /\ s.at = "handle"
      BY <3>1 DEF Shape
    <3> HIDE DEF s
    <3>4. DOMAIN sink' = DOMAIN sink /\ sink'.at \in {"handle", "show"}
      BY <3>2, <3>3 DEF Shape
    <3> QED
      BY <3>1, <3>4, <1>a, ElsewhereBase DEF At
  <2> QED
    BY <2>1, <2>2
<1>17. CASE Addresses
  <2>1. "writable" \in DOMAIN left' /\ left'.writable = left.writable
    BY <1>17, <1>a, Spends DEF Addresses
  <2>2. sup' = sup /\ DOMAIN sink' = DOMAIN sink /\ sink'.at = "poll"
    BY <1>17 DEF Addresses, Goes, Shape
  <2> QED
    BY <2>1, <2>2, ElsewhereBase DEF At
<1> QED
  BY <1>1, <1>2, <1>3, <1>4, <1>5, <1>6, <1>7, <1>8, <1>9, <1>10, <1>11, <1>12, <1>13, <1>14,
     <1>15, <1>16, <1>17 DEF SinkThread

LEMMA OthersBase ==
  ASSUME Shape, ReadOnly, GroupNext, ~SinkThread
  PROVE  Shape' /\ ReadOnly' /\ left'.writable = left.writable
<1>a. "writable" \in DOMAIN left
  BY DEF Shape
<1> DEFINE Same == /\ DOMAIN sup' = DOMAIN sup /\ sup'.saves = sup.saves
                   /\ "writable" \in DOMAIN left' /\ left'.writable = left.writable
<1>b. ASSUME Same, sink' = sink PROVE Shape' /\ ReadOnly'
  BY <1>b DEF Shape, ReadOnly, At
<1>c. ASSUME sink' = NewPass, DOMAIN sup' = DOMAIN NoSupplicant, sup'.saves = FALSE,
             "writable" \in DOMAIN left'
      PROVE  Shape' /\ ReadOnly'
  BY <1>c DEF Shape, ReadOnly, At, NewPass, NoSupplicant
<1>1. ASSUME NEW cmd \in Commands, TimesOut(cmd)
      PROVE  Shape' /\ ReadOnly' /\ left'.writable = left.writable
  <2>1. "writable" \in DOMAIN left' /\ left'.writable = left.writable
    BY <1>1, <1>a, Spends DEF TimesOut
  <2> QED
    BY <1>1, <2>1, AnsweredBase DEF TimesOut
<1>2. CASE Answers
  <2>1. "writable" \in DOMAIN left' /\ left'.writable = left.writable
    BY <1>2, <1>a, Spends DEF Answers
  <2>2. CASE sup' = sup
    BY <1>2, <2>1, <2>2, <1>b DEF Answers
  <2>3. CASE sup' # sup
    <3>1. Obeys(Head(asked))
      BY <1>2, <2>3 DEF Answers
    <3>2. DOMAIN sup' = DOMAIN sup /\ sup'.saves = sup.saves
      BY <3>1, <2>3 DEF Obeys, AddsGroup, Shape
    <3> QED
      BY <1>2, <2>1, <3>2, <1>b DEF Answers
  <2> QED
    BY <2>2, <2>3
<1>3. CASE GroupComesUp
  <2>1. DOMAIN sup' = DOMAIN sup /\ sup'.saves = sup.saves
    BY <1>3 DEF GroupComesUp, Shape
  <2> QED
    BY <1>3, <1>a, <2>1, <1>b DEF GroupComesUp
<1>4. CASE GroupFails
  <2>1. DOMAIN sup' = DOMAIN sup /\ sup'.saves = sup.saves
    BY <1>4 DEF GroupFails, Shape
  <2>2. "writable" \in DOMAIN left' /\ left'.writable = left.writable
    BY <1>4, <1>a, Spends DEF GroupFails
  <2> QED
    BY <1>4, <2>1, <2>2, <1>b DEF GroupFails
<1>5. CASE SupplicantDies
  <2>1. "writable" \in DOMAIN left' /\ left'.writable = left.writable
    BY <1>5, <1>a, Spends DEF SupplicantDies
  <2>2. DOMAIN sup' = DOMAIN sup /\ ~sup'.saves
    BY <1>5 DEF SupplicantDies, Shape, NoSupplicant
  <2> QED
    BY <1>5, <2>1, <2>2 DEF SupplicantDies, Shape, ReadOnly, At
<1>6. ASSUME NEW m \in Sources, Joins(m) \/ Leaves(m) \/ Provisions(m) \/ Asks(m)
      PROVE  Shape' /\ ReadOnly' /\ left'.writable = left.writable
  <2>1. "writable" \in DOMAIN left' /\ left'.writable = left.writable
    BY <1>6, <1>a, Spends DEF Joins, Leaves, Provisions, Asks
  <2>2. sink' = sink /\ sup' = sup
    BY <1>6 DEF Joins, Leaves, Provisions, Asks
  <2> QED
    BY <2>1, <2>2, <1>b
<1>7. CASE Enrols
  <2>1. "writable" \in DOMAIN left' /\ left'.writable = left.writable
    BY <1>7, <1>a, Spends, Zenon DEF Enrols
  <2>2. sink' = sink /\ DOMAIN sup' = DOMAIN sup /\ sup'.saves = sup.saves
    BY <1>7 DEF Enrols, Shape
  <2> QED
    BY <2>1, <2>2, <1>b
<1>8. CASE Stops
  <2>1. "writable" \in DOMAIN left' /\ left'.writable = left.writable
    BY <1>8, <1>a, Spends DEF Stops
  <2> QED
    BY <1>8, <2>1 DEF Stops, Shape, ReadOnly, At
<1>9. CASE Tick
  BY <1>9 DEF Tick, Shape, ReadOnly, At
<1>10. CASE Killed
  <2>1. "writable" \in DOMAIN left' /\ left'.writable = left.writable
    BY <1>10, <1>a, Spends DEF Killed
  <2>2. sink' = NewPass /\ DOMAIN sup' = DOMAIN NoSupplicant /\ sup'.saves = FALSE
    BY <1>10 DEF Killed, NoSupplicant
  <2> QED
    BY <2>1, <2>2, <1>c
<1>11. CASE Deploys
  <2>1. "writable" \in DOMAIN left' /\ left'.writable = left.writable
    BY <1>11, <1>a, Spends DEF Deploys
  <2>2. sink' = NewPass /\ DOMAIN sup' = DOMAIN NoSupplicant /\ sup'.saves = FALSE
    BY <1>11 DEF Deploys, NoSupplicant
  <2> QED
    BY <2>1, <2>2, <1>c
<1> QED
  BY <1>1, <1>2, <1>3, <1>4, <1>5, <1>6, <1>7, <1>8, <1>9, <1>10, <1>11 DEF GroupNext

LEMMA BaseStep ==
  ASSUME Shape, ReadOnly, GroupNext
  PROVE  Shape' /\ ReadOnly' /\ left'.writable = left.writable
BY SinkBase, OthersBase

(* What went wrong once stays so. *)
LEMMA SoundBefore ==
  ASSUME Shape, ReadOnly, GroupNext, Sound'
  PROVE  Sound
<1>1. left.writable
  BY BaseStep DEF Sound
<1>2. lost => lost'
  BY DEF GroupNext, SinkThread, EnsureSupplicant, WorkingConf, Writes, Stamps, Spawns, Opens, Sends,
         ReadsLine, TimesOut, Answers, GroupComesUp, GroupFails, SupplicantDies, Joins, Leaves,
         Provisions, Enrols, Asks, WaitsForGroup, ConfiguresInterface, MintsFirst, Pauses, Stops,
         StartsPass, DrainsWlan, DrainsGroup, Handles, Addresses, Tick, Killed, Deploys
<1> QED
  BY <1>1, <1>2 DEF Sound
-----------------------------------------------------------------------------
(* The tables of commands. *)
LEMMA Tables ==
  /\ \A cmd \in Commands : ControlOf[cmd] \in {"w", "g"}
  /\ \A cmd \in {"attach", "set", "scan", "list", "add", "remove"} :
       cmd \in Commands /\ ControlOf[cmd] = "w"
  /\ Commands = {"attach", "set", "scan", "list", "add", "g_attach", "first", "mint", "rearm",
                 "show", "remove"}
  /\ Then["attach"] = "set" /\ Then["set"] = "scan" /\ Then["scan"] = "list"
  /\ Then["list"] = "add" /\ Then["add"] = "wait" /\ Then["remove"] = "pause"
  /\ \A cmd \in {"g_attach", "first", "mint", "rearm", "show"} :
       Then[cmd] \in {"pin", "poll", "drain", "handle"}
BY DEF Commands, ControlOf, Then

LEMMA QuietChannels ==
  /\ Quiet \in [{"w", "g"} -> Seq(Lines)]
  /\ \A c \in {"w", "g"} : Quiet[c] = <<>> /\ DOMAIN Quiet[c] = {}
<1>1. DOMAIN Quiet = {"w", "g"} /\ Quiet["w"] = <<>> /\ Quiet["g"] = <<>>
  BY DEF Quiet
<1>2. <<>> \in Seq(Lines) /\ DOMAIN <<>> = {}
  OBVIOUS
<1>3. Quiet = [c \in {"w", "g"} |-> Quiet[c]]
  BY <1>1, Zenon DEF Quiet
<1>4. \A c \in {"w", "g"} : Quiet[c] = <<>>
  BY <1>1
<1> QED
  BY <1>2, <1>3, <1>4

(* A pass that ends without a command under way: a group it had is removed, *)
(* and a group that comes up later is nobody's only when the sink stops.    *)
LEMMA LeavingKeeps ==
  ASSUME Shape, SoundInv, LeavesPass, UNCHANGED <<disk, radio>>, asked = <<>>, ~At("write"),
         sink.guard \/ Clear \/ sink.stop
  PROVE  SoundInv'
<1>1. /\ sink'.at = IF sink.guard THEN "remove" ELSE "pause"
      /\ ~sink'.waits /\ sink'.file = "working" /\ sink'.stop = sink.stop
  BY DEF LeavesPass, NewPass
<1>2. wire' = Quiet /\ pending' = Quiet /\ asked' = <<>>
  BY DEF LeavesPass, Orphaned
<1>3. /\ sup'.up = sup.up /\ sup'.sock = sup.sock /\ sup'.saves = sup.saves /\ sup'.nets = sup.nets
      /\ sup'.group = sup.group /\ sup'.forming = sup.forming
  BY DEF LeavesPass, Shape
<1>4. Stored' = Stored
  BY <1>1 DEF Stored, At
<1>5. Files'
  BY <1>1, <1>3, <1>4 DEF SoundInv, Files, At, Boots
<1>6. Keys'
  BY <1>4 DEF SoundInv, Keys
<1>7. Group' /\ (Clear => Clear')
  BY <1>3 DEF SoundInv, Group, Clear
<1>8. Channels' /\ Asking' /\ OneAnswer'
  BY <1>1, <1>2, QuietChannels DEF Channels, Asking, OneAnswer
<1>9. Places'
  BY <1>1, <1>2, <1>7 DEF Places, At, Obeyed, Serves
<1> QED
  BY <1>5, <1>6, <1>7, <1>8, <1>9 DEF SoundInv

(* While nothing is asked, no answer is on its way. *)
LEMMA NoAnswer ==
  ASSUME OneAnswer, ~Obeyed
  PROVE  \A c \in {"w", "g"} : \A i \in DOMAIN wire[c] : IsEvent(wire[c][i])
BY DEF OneAnswer

(* The sink goes on with something else: what holds at the new place is left to show. *)
LEMMA MovingKeeps ==
  ASSUME Shape, SoundInv, UNCHANGED <<disk, sup, radio, wire, pending, asked>>,
         ~sink.waits, ~sink'.waits, sink'.file = sink.file, ~At("write"),
         sink'.at \notin Boots, Places'
  PROVE  SoundInv'
<1>1. asked = <<>>
  BY DEF SoundInv, Asking
<1>2. Stored' = Stored
  BY DEF Stored, At, Boots
<1>3. Files'
  BY <1>2 DEF SoundInv, Files, At, Boots
<1>4. Keys' /\ Group' /\ Channels'
  BY <1>2 DEF SoundInv, Keys, Group, Channels, Clear
<1>5. ~Obeyed
  BY DEF Obeyed
<1>6. \A c \in {"w", "g"} : \A i \in DOMAIN wire[c] : IsEvent(wire[c][i])
  BY <1>5, NoAnswer DEF SoundInv
<1>7. Asking' /\ OneAnswer'
  BY <1>1, <1>6 DEF Asking, OneAnswer
<1> QED
  BY <1>3, <1>4, <1>7 DEF SoundInv

(* A place of serve asks only that the group be removed in the end. *)
LEMMA ServingPlaces ==
  ASSUME sink'.at \in Serves, sink'.guard
  PROVE  Places'
BY DEF Places, Serves, At
-----------------------------------------------------------------------------
(* The steps of a pass that wait for nothing. *)
LEMMA EnsureKeeps ==
  ASSUME Shape, SoundInv, EnsureSupplicant
  PROVE  SoundInv'
<1>1. /\ At("ensure") /\ sink' = [sink EXCEPT !.at = IF sup.sock THEN "open" ELSE "conf"]
      /\ UNCHANGED <<disk, sup, radio, wire, pending, asked>>
  BY DEF EnsureSupplicant, Goes
<1>2. /\ sink'.at = (IF sup.sock THEN "open" ELSE "conf") /\ sink'.waits = sink.waits
      /\ sink'.file = sink.file /\ sink'.stop = sink.stop
  BY <1>1 DEF Shape
<1>3. ~sink.waits /\ asked = <<>>
  BY <1>1, Tables DEF SoundInv, Asking, At
<1>4. CASE sup.sock
  BY <1>1, <1>2, <1>3, <1>4, MovingKeeps DEF SoundInv, Places, At, Boots, Clear, Serves
<1>5. CASE ~sup.sock
  <2>1. ~sup.up /\ Stored' = Stored
    BY <1>1, <1>2, <1>5 DEF SoundInv, Files, Stored, At
  <2>2. Files' /\ Keys' /\ Group' /\ Channels' /\ Places'
    BY <1>1, <1>2, <1>5, <2>1
       DEF SoundInv, Files, Keys, Group, Channels, Clear, Places, At, Serves, Boots
  <2>3. Asking' /\ OneAnswer'
    BY <1>1, <1>2, <1>3, NoAnswer DEF SoundInv, Asking, OneAnswer, Obeyed
  <2> QED
    BY <2>2, <2>3 DEF SoundInv
<1> QED
  BY <1>4, <1>5

(* The places before the supplicant is up. *)
LEMMA BootKeeps ==
  ASSUME Shape, SoundInv, sink.at \in Boots, sink'.at \in Boots, sink'.waits = sink.waits,
         sink'.file = sink.file, UNCHANGED <<sup, radio, wire, pending, asked>>,
         DOMAIN disk' = DOMAIN disk, DOMAIN disk'.conf = DOMAIN disk.conf, Stored' = Stored,
         At("write")' => DOMAIN sink'.desired = {"tmpl", "nets"}
  PROVE  SoundInv'
<1>1. ~sup.up /\ ~sink.waits
  BY Tables DEF SoundInv, Files, Asking, Boots
<1>2. asked = <<>>
  BY <1>1 DEF SoundInv, Asking
<1>3. Files'
  BY <1>1 DEF SoundInv, Files, Boots, At
<1>4. Keys' /\ Group' /\ Channels' /\ Places'
  BY <1>1 DEF SoundInv, Keys, Group, Channels, Clear, Places, At, Boots, Serves
<1>5. Asking' /\ OneAnswer'
  BY <1>1, <1>2, NoAnswer DEF SoundInv, Asking, OneAnswer, Obeyed
<1> QED
  BY <1>3, <1>4, <1>5 DEF SoundInv

LEMMA ConfKeeps ==
  ASSUME Shape, SoundInv, Sound, WorkingConf
  PROVE  SoundInv'
<1>1. At("conf") /\ left.writable /\ UNCHANGED <<sup, radio, wire, pending, asked>>
  BY DEF WorkingConf, Sound
<1>2. DOMAIN disk = {"tmpl", "conf", "stamp"} /\ DOMAIN disk.conf = {"tmpl", "nets"}
  BY DEF SoundInv, Files
<1>3. CASE Derived
  <2>1. sink' = [sink EXCEPT !.at = "spawn"] /\ disk' = disk
    BY <1>1, <1>3 DEF WorkingConf, Goes
  <2>2. sink'.at = "spawn" /\ sink'.waits = sink.waits /\ sink'.file = sink.file
    BY <2>1 DEF Shape
  <2>3. Stored' = Stored
    BY <1>1, <2>1, <2>2 DEF Stored, At
  <2> QED
    BY <1>1, <2>1, <2>2, <2>3, BootKeeps DEF At, Boots
<1>4. CASE ~Derived
  <2>1. sink' = [sink EXCEPT !.at = "write", !.desired = IF disk.conf = Empty
                        THEN FromTemplate ELSE Reseed(disk.conf)]
        /\ disk' = [disk EXCEPT !.conf = Empty]
    BY <1>1, <1>4 DEF WorkingConf
  <2>2. /\ sink'.at = "write" /\ sink'.waits = sink.waits /\ sink'.file = sink.file
        /\ sink'.desired = IF disk.conf = Empty THEN FromTemplate ELSE Reseed(disk.conf)
    BY <2>1 DEF Shape
  <2>3. DOMAIN disk' = DOMAIN disk /\ DOMAIN disk'.conf = {"tmpl", "nets"}
    BY <1>2, <2>1 DEF Empty
  <2>4. DOMAIN sink'.desired = {"tmpl", "nets"} /\ sink'.desired.nets = disk.conf.nets
    BY <2>2 DEF Empty, FromTemplate, Reseed
  <2>5. Stored' = Stored
    BY <1>1, <2>2, <2>4 DEF Stored, At
  <2> QED
    BY <1>1, <1>2, <2>2, <2>3, <2>4, <2>5, BootKeeps DEF At, Boots
<1> QED
  BY <1>3, <1>4

LEMMA WritesKeeps ==
  ASSUME Shape, SoundInv, Sound', Writes
  PROVE  SoundInv'
<1>1. /\ At("write") /\ disk' = [disk EXCEPT !.conf = sink.desired]
      /\ sink' = [sink EXCEPT !.at = "stamp"] /\ UNCHANGED <<sup, radio, wire, pending, asked>>
  BY DEF Writes, Sound, Goes
<1>2. /\ sink'.at = "stamp" /\ sink'.waits = sink.waits /\ sink'.file = sink.file
  BY <1>1 DEF Shape
<1>3. DOMAIN disk = {"tmpl", "conf", "stamp"} /\ DOMAIN disk.conf = {"tmpl", "nets"}
      /\ DOMAIN sink.desired = {"tmpl", "nets"}
  BY <1>1 DEF SoundInv, Files
<1>4. DOMAIN disk' = DOMAIN disk /\ disk'.conf = sink.desired
  BY <1>1, <1>3
<1>5. Stored' = Stored
  BY <1>1, <1>2, <1>4 DEF Stored, At
<1> QED
  BY <1>1, <1>2, <1>3, <1>4, <1>5, BootKeeps DEF At, Boots

LEMMA StampsKeeps ==
  ASSUME Shape, SoundInv, Stamps
  PROVE  SoundInv'
<1>1. /\ At("stamp") /\ disk' = [disk EXCEPT !.stamp = disk.tmpl]
      /\ sink' = [sink EXCEPT !.at = "spawn"] /\ UNCHANGED <<sup, radio, wire, pending, asked>>
  BY DEF Stamps, Goes
<1>2. /\ sink'.at = "spawn" /\ sink'.waits = sink.waits /\ sink'.file = sink.file
  BY <1>1 DEF Shape
<1>3. DOMAIN disk' = DOMAIN disk /\ disk'.conf = disk.conf
  BY <1>1 DEF SoundInv, Files
<1>4. Stored' = Stored
  BY <1>1, <1>2, <1>3 DEF Stored, At
<1> QED
  BY <1>1, <1>2, <1>3, <1>4, BootKeeps DEF At, Boots

LEMMA SpawnsKeeps ==
  ASSUME Shape, SoundInv, Spawns
  PROVE  SoundInv'
<1>1. At("spawn") /\ UNCHANGED <<disk, radio>> /\ ~sup.up /\ Clear
  BY DEF Spawns, SoundInv, Files, Group, At, Boots
<1>2. ~sink.waits /\ asked = <<>> /\ sink.file = "working"
  BY <1>1, Tables DEF SoundInv, Asking, Files, At
<1>3. CASE Fails
  BY <1>1, <1>2, <1>3, LeavingKeeps DEF Fails, At
<1>4. CASE ~Fails
  <2>1. /\ sup' = [NoSupplicant EXCEPT !.up = TRUE, !.sock = TRUE, !.saves = TRUE,
                            !.tmpl = disk.conf.tmpl, !.nets = disk.conf.nets]
        /\ sink' = [sink EXCEPT !.at = "open"] /\ UNCHANGED <<wire, pending, asked>>
    BY <1>2, <1>4 DEF Spawns, Goes
  <2>2. /\ sup'.up /\ sup'.sock /\ sup'.saves /\ sup'.nets = disk.conf.nets
        /\ sup'.group = 0 /\ sup'.forming = 0
    BY <2>1 DEF NoSupplicant
  <2>3. /\ sink'.at = "open" /\ sink'.waits = sink.waits /\ sink'.file = sink.file
    BY <2>1 DEF Shape
  <2>4. Stored' = Stored
    BY <1>1, <2>3 DEF Stored, At
  <2>5. Files' /\ Keys' /\ Group' /\ Channels' /\ Places'
    BY <1>1, <2>1, <2>2, <2>3, <2>4
       DEF SoundInv, Files, Keys, Group, Channels, Clear, Places, At, Serves, Boots
  <2>6. Asking' /\ OneAnswer'
    BY <1>2, <2>1, <2>3, NoAnswer DEF SoundInv, Asking, OneAnswer, Obeyed
  <2> QED
    BY <2>5, <2>6 DEF SoundInv
<1> QED
  BY <1>3, <1>4

LEMMA OpensKeeps ==
  ASSUME Shape, SoundInv, Opens
  PROVE  SoundInv'
<1>1. At("open") /\ UNCHANGED <<disk, radio>> /\ Clear
  BY DEF Opens, SoundInv, Places, At
<1>2. ~sink.waits /\ asked = <<>>
  BY <1>1, Tables DEF SoundInv, Asking, At
<1>3. CASE LeavesPass
  BY <1>1, <1>2, <1>3, LeavingKeeps DEF At
<1>4. CASE ~LeavesPass
  <2>1. sink' = [sink EXCEPT !.at = "attach"] /\ UNCHANGED <<sup, wire, pending, asked>>
    BY <1>4 DEF Opens, Goes
  <2>2. sink'.at = "attach" /\ sink'.waits = sink.waits /\ sink'.file = sink.file
    BY <2>1 DEF Shape
  <2>3. Places'
    BY <1>1, <1>2, <2>1, <2>2 DEF Places, At, Clear, Obeyed, Serves
  <2> QED
    BY <1>1, <1>2, <2>1, <2>2, <2>3, MovingKeeps DEF At, Boots
<1> QED
  BY <1>3, <1>4
-----------------------------------------------------------------------------
(* Lines on the controls. *)
LEMMA LinesTail ==
  ASSUME NEW s \in Seq(Lines), s # <<>>
  PROVE  /\ Tail(s) \in Seq(Lines) /\ Head(s) \in Lines /\ Head(s) = s[1] /\ 1 \in DOMAIN s
         /\ \A i \in DOMAIN Tail(s) : i + 1 \in DOMAIN s /\ Tail(s)[i] = s[i + 1] /\ i + 1 # 1
         /\ HasStart(s) => HasStart(Tail(s)) \/ Head(s).e = "GroupStarted"
<1>1. Tail(s) \in Seq(Lines) /\ Head(s) \in Lines /\ Head(s) = s[1] /\ 1 \in DOMAIN s
  OBVIOUS
<1>2. \A i \in DOMAIN Tail(s) : i + 1 \in DOMAIN s /\ Tail(s)[i] = s[i + 1] /\ i + 1 # 1
  OBVIOUS
<1>3. ASSUME HasStart(s), Head(s).e # "GroupStarted"
      PROVE  HasStart(Tail(s))
  <2>1. PICK i \in DOMAIN s : s[i].e = "GroupStarted"
    BY <1>3 DEF HasStart
  <2>2. i # 1 /\ i \in 1 .. Len(s)
    BY <1>1, <1>3, <2>1
  <2>3. i - 1 \in DOMAIN Tail(s) /\ Tail(s)[i - 1] = s[i]
    BY <2>2
  <2> QED
    BY <2>1, <2>3 DEF HasStart
<1> QED
  BY <1>1, <1>2, <1>3

LEMMA LinesAppend ==
  ASSUME NEW s \in Seq(Lines), NEW line \in Lines
  PROVE  /\ Append(s, line) \in Seq(Lines)
         /\ \A i \in DOMAIN Append(s, line) :
              \/ i \in DOMAIN s /\ Append(s, line)[i] = s[i]
              \/ i = Len(s) + 1 /\ Append(s, line)[i] = line
         /\ HasStart(s) \/ line.e = "GroupStarted" => HasStart(Append(s, line))
<1>1. Append(s, line) \in Seq(Lines)
  OBVIOUS
<1>2. \A i \in DOMAIN Append(s, line) :
        \/ i \in DOMAIN s /\ Append(s, line)[i] = s[i]
        \/ i = Len(s) + 1 /\ Append(s, line)[i] = line
  OBVIOUS
<1>3. ASSUME HasStart(s) PROVE HasStart(Append(s, line))
  <2>1. PICK i \in DOMAIN s : s[i].e = "GroupStarted"
    BY <1>3 DEF HasStart
  <2>2. i \in DOMAIN Append(s, line) /\ Append(s, line)[i] = s[i]
    BY <2>1
  <2> QED
    BY <2>1, <2>2 DEF HasStart
<1>4. ASSUME line.e = "GroupStarted" PROVE HasStart(Append(s, line))
  <2>1. Len(s) + 1 \in DOMAIN Append(s, line) /\ Append(s, line)[Len(s) + 1] = line
    OBVIOUS
  <2> QED
    BY <1>4, <2>1 DEF HasStart
<1> QED
  BY <1>1, <1>2, <1>3, <1>4
-----------------------------------------------------------------------------
(* Control::request *)

(* The answer is in, or the supplicant is dead: what it must have meant. *)
LEMMA AnsweredKeeps ==
  ASSUME Shape, SoundInv, UNCHANGED <<disk, radio>>, asked = <<>>,
         NEW cmd \in Commands, At(cmd), NEW ok \in BOOLEAN, NEW row, NEW rest,
         rest \in [{"w", "g"} -> Seq(Lines)],
         \A c \in {"w", "g"} : \A i \in DOMAIN rest[c] : IsEvent(rest[c][i]),
         HasStart(wire["w"]) => HasStart(rest["w"]),
         Answered(cmd, ok, row, rest),
         cmd = "list" /\ sup.up => row = Right(sup.nets),
         cmd = "add" /\ sup.up => IF ok THEN Coming ELSE Clear,
         cmd = "remove" => Clear,
         cmd = "attach" /\ sup.up => "w" \in sup.hears
  PROVE  SoundInv'
<1>0. ~At("write") /\ cmd \notin Boots
  BY Tables DEF At, Boots
<1>1. CASE LeavesPass /\ ~ok /\ cmd \notin Shrugged
  <2>1. sink.guard \/ Clear \/ sink.stop
    <3>1. CASE cmd \in {"g_attach", "first", "mint", "show"}
      BY <3>1 DEF SoundInv, Places, At, Serves
    <3>2. CASE cmd \in {"attach", "set"}
      BY <3>2 DEF SoundInv, Places, At
    <3>3. CASE cmd = "add"
      BY <1>1, <3>3 DEF SoundInv, Group
    <3> QED
      BY <1>1, <3>1, <3>2, <3>3, Tables DEF Shrugged
  <2> QED
    BY <1>0, <1>1, <2>1, LeavingKeeps
<1>2. CASE ~(LeavesPass /\ ~ok /\ cmd \notin Shrugged)
  <2>1. /\ ok \/ cmd \in Shrugged
        /\ sink' = [sink EXCEPT !.at = Then[cmd], !.waits = FALSE,
                     !.stored = IF cmd = "list" THEN row ELSE @,
                     !.wps = IF ok /\ cmd \in {"mint", "rearm"} THEN 0 ELSE @]
        /\ wire' = rest /\ UNCHANGED <<sup, pending, asked>>
    BY <1>2 DEF Answered
  <2>2. /\ sink'.at = Then[cmd] /\ ~sink'.waits /\ sink'.file = sink.file
        /\ sink'.guard = sink.guard /\ sink'.stop = sink.stop
        /\ sink'.stored = IF cmd = "list" THEN row ELSE sink.stored
    BY <2>1 DEF Shape
  <2>3. sink'.at \notin Boots
    BY <2>2, Tables DEF Boots
  <2>4. Stored' = Stored
    BY <1>0, <2>2, <2>3 DEF Stored, At, Boots
  <2>5. Files'
    BY <2>1, <2>2, <2>3, <2>4 DEF SoundInv, Files, At, Boots
  <2>6. Keys' /\ Group'
    BY <2>1, <2>4 DEF SoundInv, Keys, Group, Clear
  <2>7. Channels' /\ Asking' /\ OneAnswer'
    BY <2>1, <2>2 DEF SoundInv, Channels, Asking, OneAnswer
  <2>8. Places'
    <3>1. CASE cmd \in {"g_attach", "first", "mint", "rearm", "show"}
      <4>1. sink'.at \in Serves /\ sink'.guard
        BY <2>2, <3>1, Tables DEF Serves, SoundInv, Places, At
      <4> QED
        BY <4>1, ServingPlaces
    <3>2. CASE cmd = "attach"
      BY <2>1, <2>2, <3>2, Tables DEF SoundInv, Places, At, Clear, Obeyed, Serves
    <3>3. CASE cmd = "set"
      BY <2>1, <2>2, <3>3, Tables DEF SoundInv, Places, At, Clear, Obeyed, Serves
    <3>4. CASE cmd = "scan"
      BY <2>1, <2>2, <3>4, Tables DEF SoundInv, Places, At, Clear, Obeyed, Serves
    <3>5. CASE cmd = "list"
      BY <2>1, <2>2, <3>5, Tables DEF SoundInv, Places, At, Clear, Obeyed, Right, Serves
    <3>6. CASE cmd = "add"
      <4>1. sink'.at = "wait" /\ (sup.up => Coming' /\ "w" \in sup'.hears)
        BY <2>1, <2>2, <3>6, Tables DEF SoundInv, Places, At, Coming, Shrugged
      <4> QED
        BY <2>1, <4>1 DEF Places, At, Serves
    <3>7. CASE cmd = "remove"
      BY <2>1, <2>2, <3>7, Tables DEF SoundInv, Places, At, Clear, Obeyed, Serves
    <3> QED
      BY <3>1, <3>2, <3>3, <3>4, <3>5, <3>6, <3>7, Tables
  <2> QED
    BY <2>5, <2>6, <2>7, <2>8 DEF SoundInv
<1> QED
  BY <1>1, <1>2

LEMMA SendsKeeps ==
  ASSUME Shape, SoundInv, NEW cmd \in Commands, Sends(cmd)
  PROVE  SoundInv'
<1>1. At(cmd) /\ ~sink.waits /\ asked = <<>> /\ ~Obeyed /\ UNCHANGED <<disk, radio>>
  BY DEF Sends, SoundInv, Asking, Obeyed
<1>2. \A c \in {"w", "g"} : \A i \in DOMAIN wire[c] : IsEvent(wire[c][i])
  BY <1>1, NoAnswer DEF SoundInv
<1>3. CASE sup.up
  <2>1. /\ asked' = <<[ctl |-> ControlOf[cmd], cmd |-> cmd, n |-> Argument(cmd)]>>
        /\ sink' = [sink EXCEPT !.waits = TRUE] /\ UNCHANGED <<sup, wire, pending>>
    BY <1>1, <1>3 DEF Sends
  <2>2. /\ sink'.at = cmd /\ sink'.waits /\ sink'.file = sink.file /\ sink'.stored = sink.stored
        /\ sink'.pin = sink.pin /\ sink'.guard = sink.guard /\ sink'.stop = sink.stop
        /\ sink'.desired = sink.desired
    BY <1>1, <2>1 DEF Shape, At
  <2>3. Stored' = Stored
    BY <1>1, <2>2 DEF Stored, At
  <2>4. Files'
    BY <1>1, <2>1, <2>2, <2>3 DEF SoundInv, Files, At
  <2>5. Keys' /\ Group' /\ Channels'
    BY <1>1, <2>1, <2>3 DEF SoundInv, Keys, Group, Clear, Channels
  <2>6. asked' # <<>> /\ Argument(cmd)' = Argument(cmd)
    BY <2>1, <2>2 DEF Argument
  <2>7. Asking'
    BY <1>3, <2>1, <2>2, <2>6 DEF Asking, Argument
  <2>8. OneAnswer'
    BY <1>2, <2>1 DEF OneAnswer
  <2>9. Places'
    BY <1>1, <2>1, <2>2, <2>6 DEF SoundInv, Places, At, Clear, Obeyed, Coming
  <2> QED
    BY <2>4, <2>5, <2>7, <2>8, <2>9 DEF SoundInv
<1>4. CASE ~sup.up
  <2>1. Answered(cmd, FALSE, 0, wire)
    BY <1>4 DEF Sends
  <2>2. Clear
    BY <1>4 DEF SoundInv, Group
  <2> QED
    BY <1>1, <1>2, <1>4, <2>1, <2>2, AnsweredKeeps DEF SoundInv, Channels
<1> QED
  BY <1>3, <1>4

LEMMA TimesOutKeeps ==
  ASSUME Shape, SoundInv, Sound', NEW cmd \in Commands, TimesOut(cmd)
  PROVE  SoundInv'
<1>1. At(cmd) /\ sink.waits /\ ~sup.up /\ wire[ControlOf[cmd]] = <<>>
      /\ Answered(cmd, FALSE, 0, wire) /\ UNCHANGED <<disk, radio>>
  BY DEF TimesOut, Sound
<1>2. asked = <<>> /\ Clear
  BY <1>1 DEF SoundInv, Asking, Group
<1>3. \A c \in {"w", "g"} : \A i \in DOMAIN wire[c] : IsEvent(wire[c][i])
  BY <1>1 DEF SoundInv, OneAnswer, At
<1> QED
  BY <1>1, <1>2, <1>3, AnsweredKeeps DEF SoundInv, Channels

(* A line read from a control is queued if it is an event; if not, it is the answer. *)
LEMMA ReadsLineKeeps ==
  ASSUME Shape, SoundInv, NEW cmd \in Commands, ReadsLine(cmd)
  PROVE  SoundInv'
<1> DEFINE c == ControlOf[cmd]
           line == Head(wire[c])
           rest == [wire EXCEPT ![c] = Tail(@)]
<1>1. /\ At(cmd) /\ sink.waits /\ wire[c] # <<>> /\ UNCHANGED <<disk, radio>>
      /\ \/ /\ IsEvent(line)
            /\ wire' = rest
            /\ pending' = [pending EXCEPT ![c] = Append(@, line)]
            /\ UNCHANGED <<sup, sink, asked>>
         \/ /\ ~IsEvent(line)
            /\ Answered(cmd, line.e # "FAIL", line.n, rest)
  BY Zenon DEF ReadsLine
<1>2. c \in {"w", "g"}
  BY Tables
<1>3. wire \in [{"w", "g"} -> Seq(Lines)] /\ pending \in [{"w", "g"} -> Seq(Lines)]
  BY DEF SoundInv, Channels
<1> HIDE DEF c
<1>4. wire[c] \in Seq(Lines) /\ pending[c] \in Seq(Lines)
  BY <1>2, <1>3
<1>5. /\ Tail(wire[c]) \in Seq(Lines) /\ line \in Lines /\ line = wire[c][1] /\ 1 \in DOMAIN wire[c]
      /\ \A i \in DOMAIN Tail(wire[c]) :
           i + 1 \in DOMAIN wire[c] /\ Tail(wire[c])[i] = wire[c][i + 1] /\ i + 1 # 1
      /\ HasStart(wire[c]) => HasStart(Tail(wire[c])) \/ line.e = "GroupStarted"
  BY <1>1, <1>4, LinesTail
<1>6. /\ rest \in [{"w", "g"} -> Seq(Lines)] /\ rest[c] = Tail(wire[c])
      /\ \A d \in {"w", "g"} : d # c => rest[d] = wire[d]
  BY <1>2, <1>3, <1>5
<1> HIDE DEF line, rest
<1>7. CASE IsEvent(line)
  <2>1. /\ wire' = rest /\ pending' = [pending EXCEPT ![c] = Append(@, line)]
        /\ UNCHANGED <<disk, radio, sup, sink, asked>>
    BY <1>1, <1>7
  <2>2. Append(pending[c], line) \in Seq(Lines)
        /\ (HasStart(pending[c]) \/ line.e = "GroupStarted" => HasStart(Append(pending[c], line)))
    BY <1>4, <1>5, LinesAppend
  <2>3. /\ pending' \in [{"w", "g"} -> Seq(Lines)] /\ pending'[c] = Append(pending[c], line)
        /\ \A d \in {"w", "g"} : d # c => pending'[d] = pending[d]
    BY <1>2, <1>3, <2>1, <2>2
  <2>4. Coming => Coming'
    BY <1>2, <1>5, <1>6, <2>1, <2>2, <2>3 DEF Coming
  <2>5. OneAnswer'
    <3> SUFFICES ASSUME NEW d \in {"w", "g"}, NEW i \in DOMAIN wire'[d], ~IsEvent(wire'[d][i])
                 PROVE  /\ Obeyed' /\ d = ControlOf[sink'.at]
                        /\ \A j \in DOMAIN wire'[d] : IsEvent(wire'[d][j]) \/ i = j
                        /\ At("list")' /\ sup'.up => wire'[d][i].n = Right(sup'.nets)
                        /\ At("add")' /\ sup'.up =>
                             IF wire'[d][i].e = "FAIL" THEN Clear' ELSE Coming'
      BY DEF OneAnswer
    <3>1. CASE d # c
      BY <1>6, <2>1, <2>4, <3>1 DEF SoundInv, OneAnswer, Obeyed, At, Clear
    <3>2. CASE d = c
      <4>1. i + 1 \in DOMAIN wire[d] /\ wire'[d][i] = wire[d][i + 1]
        BY <1>5, <1>6, <2>1, <3>2
      <4>2. /\ Obeyed /\ d = ControlOf[sink.at]
            /\ \A j \in DOMAIN wire[d] : IsEvent(wire[d][j]) \/ i + 1 = j
            /\ At("list") /\ sup.up => wire[d][i + 1].n = Right(sup.nets)
            /\ At("add") /\ sup.up => IF wire[d][i + 1].e = "FAIL" THEN Clear ELSE Coming
        BY <4>1 DEF SoundInv, OneAnswer
      <4>3. ASSUME NEW j \in DOMAIN wire'[d], ~IsEvent(wire'[d][j])
            PROVE  i = j
        <5>1. j + 1 \in DOMAIN wire[d] /\ wire'[d][j] = wire[d][j + 1]
          BY <1>5, <1>6, <2>1, <3>2
        <5>2. j + 1 = i + 1
          BY <4>2, <4>3, <5>1
        <5>3. i \in Nat /\ j \in Nat
          BY <1>5, <1>6, <2>1, <3>2
        <5> QED
          BY <5>2, <5>3
      <4> QED
        BY <2>1, <2>4, <4>1, <4>2, <4>3 DEF Obeyed, At, Clear
    <3> QED
      BY <3>1, <3>2
  <2>6. Channels'
    BY <1>6, <2>1, <2>3 DEF Channels
  <2>7. Files' /\ Keys' /\ Group' /\ Asking'
    BY <2>1 DEF SoundInv, Files, Keys, Group, Asking, Stored, At, Clear, Argument
  <2>8. Places'
    BY <2>1, <2>4 DEF SoundInv, Places, At, Clear, Obeyed
  <2> QED
    BY <2>5, <2>6, <2>7, <2>8 DEF SoundInv
<1>8. CASE ~IsEvent(line)
  <2>1. Answered(cmd, line.e # "FAIL", line.n, rest)
    BY <1>1, <1>8
  <2>2. /\ Obeyed /\ c = ControlOf[sink.at]
        /\ \A j \in DOMAIN wire[c] : IsEvent(wire[c][j]) \/ 1 = j
        /\ At("list") /\ sup.up => line.n = Right(sup.nets)
        /\ At("add") /\ sup.up => IF line.e = "FAIL" THEN Clear ELSE Coming
    BY <1>2, <1>5, <1>8 DEF SoundInv, OneAnswer
  <2>3. \A d \in {"w", "g"} : \A i \in DOMAIN rest[d] : IsEvent(rest[d][i])
    <3> SUFFICES ASSUME NEW d \in {"w", "g"}, NEW i \in DOMAIN rest[d]
                 PROVE  IsEvent(rest[d][i])
      OBVIOUS
    <3>1. CASE d = c
      <4>1. i + 1 \in DOMAIN wire[c] /\ rest[d][i] = wire[c][i + 1] /\ i + 1 # 1
        BY <1>5, <1>6, <3>1
      <4> QED
        BY <2>2, <4>1
    <3>2. CASE d # c
      BY <1>6, <2>2, <3>2 DEF SoundInv, OneAnswer
    <3> QED
      BY <3>1, <3>2
  <2>4. HasStart(wire["w"]) => HasStart(rest["w"])
    BY <1>5, <1>6, <1>8 DEF IsEvent
  <2>5. asked = <<>> /\ (cmd = "remove" => Clear)
        /\ (cmd = "attach" /\ sup.up => "w" \in sup.hears)
    BY <1>1, <2>2 DEF SoundInv, Places, Obeyed, At
  <2>6. (line.e # "FAIL") \in BOOLEAN
    OBVIOUS
  <2> QED
    BY <1>1, <1>6, <2>1, <2>2, <2>3, <2>4, <2>5, <2>6, AnsweredKeeps DEF At
<1> QED
  BY <1>7, <1>8
-----------------------------------------------------------------------------
(* The passes once a group is up. *)

(* The sink goes on, whatever it read: no answer was on its way. *)
LEMMA PassKeeps ==
  ASSUME Shape, SoundInv, UNCHANGED <<disk, sup, asked>>, DOMAIN radio' = DOMAIN radio,
         radio'.creds = radio.creds, radio'.made = radio.made,
         radio'.enrolling = radio.enrolling,
         ~sink.waits, ~sink'.waits, sink'.file = sink.file, ~At("write"), sink'.at \notin Boots,
         Channels', \A c \in {"w", "g"} : \A i \in DOMAIN wire'[c] : IsEvent(wire'[c][i]), Places'
  PROVE  SoundInv'
<1>1. asked = <<>>
  BY DEF SoundInv, Asking
<1>2. Stored' = Stored
  BY DEF Stored, At, Boots
<1>3. Files'
  BY <1>2 DEF SoundInv, Files, At, Boots
<1>4. Keys' /\ Group'
  BY <1>2 DEF SoundInv, Keys, Group, Clear
<1>5. Asking' /\ OneAnswer'
  BY <1>1 DEF Asking, OneAnswer
<1> QED
  BY <1>3, <1>4, <1>5 DEF SoundInv

LEMMA WaitsKeeps ==
  ASSUME Shape, SoundInv, Sound', WaitsForGroup
  PROVE  SoundInv'
<1>1. At("wait") /\ UNCHANGED <<disk, radio>>
  BY DEF WaitsForGroup
<1>2. ~sink.waits /\ asked = <<>> /\ ~Obeyed
  BY <1>1, Tables DEF SoundInv, Asking, At, Obeyed
<1>3. /\ wire \in [{"w", "g"} -> Seq(Lines)] /\ pending \in [{"w", "g"} -> Seq(Lines)]
      /\ wire["w"] \in Seq(Lines) /\ pending["w"] \in Seq(Lines)
      /\ \A c \in {"w", "g"} : \A i \in DOMAIN wire[c] : IsEvent(wire[c][i])
  BY <1>2, NoAnswer DEF SoundInv, Channels
<1> DEFINE lines == pending.w \o wire.w
<1>4. CASE lines = <<>> /\ LeavesPass
  <2>1. ~sup.up \/ sink.stop \/ sup.forming = 0
    BY <1>4 DEF WaitsForGroup, Sound
  <2>2. pending["w"] = <<>> /\ wire["w"] = <<>>
    BY <1>3, <1>4
  <2>3. ~HasStart(pending["w"]) /\ ~HasStart(wire["w"])
    BY <2>2 DEF HasStart
  <2>4. sup.up => sup.forming # 0
    BY <1>1, <2>3 DEF SoundInv, Places, Coming
  <2>5. Clear \/ sink.stop
    BY <2>1, <2>4 DEF SoundInv, Group
  <2> QED
    BY <1>1, <1>2, <1>4, <2>5, LeavingKeeps DEF At
<1>5. CASE ~(lines = <<>> /\ LeavesPass)
  <2>1. /\ lines # <<>>
        /\ sink' = IF Head(lines).e = "GroupStarted"
                   THEN [sink EXCEPT !.at = "iface", !.guard = TRUE] ELSE sink
        /\ pending' = [pending EXCEPT !.w = IF @ = <<>> THEN @ ELSE Tail(@)]
        /\ wire' = [wire EXCEPT !.w = IF pending.w = <<>> THEN Tail(@) ELSE @]
        /\ UNCHANGED <<sup, asked>>
    BY <1>5, Zenon DEF WaitsForGroup
  <2>2. /\ Channels' /\ (\A i \in DOMAIN wire'["w"] : IsEvent(wire'["w"][i]))
        /\ wire'["g"] = wire["g"]
        /\ Coming /\ Head(lines).e # "GroupStarted" => Coming'
    <3>1. CASE pending["w"] = <<>>
      <4>1. lines = wire["w"]
        <5>1. \A t \in Seq(Lines) : <<>> \o t = t
          OBVIOUS
        <5> QED
          BY <1>3, <3>1, <5>1
      <4> HIDE DEF lines
      <4>2. /\ Tail(lines) \in Seq(Lines)
            /\ \A i \in DOMAIN Tail(lines) : i + 1 \in DOMAIN lines /\ Tail(lines)[i] = lines[i + 1]
            /\ HasStart(lines) => HasStart(Tail(lines)) \/ Head(lines).e = "GroupStarted"
        BY <1>3, <2>1, <4>1, LinesTail
      <4>3. wire' = [wire EXCEPT !["w"] = Tail(lines)] /\ pending' = [pending EXCEPT !["w"] = <<>>]
        BY <2>1, <3>1, <4>1
      <4>4. /\ wire'["w"] = Tail(lines) /\ wire'["g"] = wire["g"] /\ pending'["w"] = pending["w"]
            /\ Channels'
        BY <1>3, <3>1, <4>2, <4>3 DEF Channels
      <4> QED
        BY <1>3, <2>1, <4>1, <4>2, <4>4 DEF Coming
    <3>2. CASE pending["w"] # <<>>
      <4>1. Head(lines) = Head(pending["w"])
        BY <1>3, <3>2
      <4> HIDE DEF lines
      <4>2. /\ Tail(pending["w"]) \in Seq(Lines)
            /\ HasStart(pending["w"])
                 => HasStart(Tail(pending["w"])) \/ Head(pending["w"]).e = "GroupStarted"
        BY <1>3, <3>2, LinesTail
      <4>3. wire' = [wire EXCEPT !["w"] = wire["w"]]
            /\ pending' = [pending EXCEPT !["w"] = Tail(pending["w"])]
        BY <2>1, <3>2
      <4>4. /\ wire' = wire /\ pending'["w"] = Tail(pending["w"]) /\ Channels'
        BY <1>3, <4>2, <4>3 DEF Channels
      <4> QED
        BY <1>3, <2>1, <4>1, <4>2, <4>4 DEF Coming
    <3> QED
      BY <3>1, <3>2
  <2>3. \A c \in {"w", "g"} : \A i \in DOMAIN wire'[c] : IsEvent(wire'[c][i])
    BY <1>3, <2>2
  <2> HIDE DEF lines
  <2>4. CASE Head(lines).e = "GroupStarted"
    <3>1. /\ sink'.at = "iface" /\ sink'.guard /\ sink'.waits = sink.waits
          /\ sink'.file = sink.file
      BY <2>1, <2>4 DEF Shape
    <3>2. Places'
      BY <3>1, ServingPlaces DEF Serves
    <3> QED
      BY <1>1, <1>2, <2>1, <2>2, <2>3, <3>1, <3>2, PassKeeps DEF At, Boots
  <2>5. CASE Head(lines).e # "GroupStarted"
    <3>1. sink' = sink
      BY <2>1, <2>5
    <3>2. Places'
      BY <1>1, <2>1, <2>2, <2>5, <3>1 DEF SoundInv, Places, At
    <3> QED
      BY <1>1, <1>2, <2>1, <2>2, <2>3, <3>1, <3>2, PassKeeps DEF At, Boots
  <2> QED
    BY <2>4, <2>5
<1> QED
  BY <1>4, <1>5

LEMMA InterfaceKeeps ==
  ASSUME Shape, SoundInv, ConfiguresInterface
  PROVE  SoundInv'
<1>1. At("iface") /\ UNCHANGED <<disk, radio>> /\ sink.guard
  BY DEF ConfiguresInterface, SoundInv, Places, At, Serves
<1>2. ~sink.waits /\ asked = <<>>
  BY <1>1, Tables DEF SoundInv, Asking, At
<1>3. CASE LeavesPass
  BY <1>1, <1>2, <1>3, LeavingKeeps DEF At
<1>4. CASE ~LeavesPass
  <2>1. sink' = [sink EXCEPT !.at = "g_attach"] /\ UNCHANGED <<sup, wire, pending, asked>>
    BY <1>4 DEF ConfiguresInterface, Goes, Fails
  <2>2. /\ sink'.at = "g_attach" /\ sink'.waits = sink.waits /\ sink'.file = sink.file
        /\ sink'.guard = sink.guard
    BY <2>1 DEF Shape
  <2>3. Places'
    BY <1>1, <2>2, ServingPlaces DEF Serves
  <2> QED
    BY <1>1, <1>2, <2>1, <2>2, <2>3, MovingKeeps DEF At, Boots
<1> QED
  BY <1>3, <1>4

(* From one place of serve to another, with nothing read. *)
LEMMA ServingKeeps ==
  ASSUME Shape, SoundInv, UNCHANGED <<disk, sup, radio, wire, pending, asked>>,
         sink.at \in Serves, ~sink.waits, sink'.at \in Serves, ~sink'.waits,
         sink'.file = sink.file, sink'.guard = sink.guard
  PROVE  SoundInv'
<1>1. sink.guard
  BY DEF SoundInv, Places, Serves
<1>2. Places'
  BY <1>1, ServingPlaces
<1> QED
  BY <1>2, MovingKeeps DEF At, Serves, Boots

LEMMA MintsKeeps ==
  ASSUME Shape, SoundInv, MintsFirst
  PROVE  SoundInv'
<1>1. /\ At("pin") /\ sink' = [sink EXCEPT !.at = "first", !.pin = Fresh]
      /\ UNCHANGED <<disk, sup, radio, wire, pending, asked>>
  BY DEF MintsFirst
<1>2. ~sink.waits
  BY <1>1, Tables DEF SoundInv, Asking, At
<1>3. /\ sink'.at = "first" /\ sink'.waits = sink.waits /\ sink'.file = sink.file
      /\ sink'.guard = sink.guard
  BY <1>1 DEF Shape
<1> QED
  BY <1>1, <1>2, <1>3, ServingKeeps DEF At, Serves

LEMMA PausesKeeps ==
  ASSUME Shape, SoundInv, Pauses
  PROVE  SoundInv'
<1>1. /\ At("pause") /\ sink' = [sink EXCEPT !.at = IF sink.stop THEN "stopped" ELSE "ensure"]
      /\ UNCHANGED <<disk, sup, radio, wire, pending, asked>>
  BY DEF Pauses, Goes
<1>2. ~sink.waits
  BY <1>1, Tables DEF SoundInv, Asking, At
<1>3. /\ sink'.at = (IF sink.stop THEN "stopped" ELSE "ensure") /\ sink'.waits = sink.waits
      /\ sink'.file = sink.file
  BY <1>1 DEF Shape
<1>4. Places'
  BY <1>1, <1>3 DEF SoundInv, Places, At, Clear, Serves
<1> QED
  BY <1>1, <1>2, <1>3, <1>4, MovingKeeps DEF At, Boots

LEMMA StartsPassKeeps ==
  ASSUME Shape, SoundInv, StartsPass
  PROVE  SoundInv'
<1>1. At("poll") /\ UNCHANGED <<disk, radio>> /\ sink.guard
  BY DEF StartsPass, SoundInv, Places, At, Serves
<1>2. ~sink.waits /\ asked = <<>>
  BY <1>1, Tables DEF SoundInv, Asking, At
<1>3. CASE LeavesPass
  BY <1>1, <1>2, <1>3, LeavingKeeps DEF At
<1>4. CASE ~LeavesPass
  <2>1. UNCHANGED <<sup, wire, pending, asked>>
        /\ \/ sink' = [sink EXCEPT !.at = "mint", !.pin = Fresh]
           \/ sink' = [sink EXCEPT !.at = "rearm"]
           \/ sink' = [sink EXCEPT !.at = "drain"]
    BY <1>4, Zenon DEF StartsPass
  <2>2. /\ sink'.at \in {"mint", "rearm", "drain"} /\ sink'.waits = sink.waits
        /\ sink'.file = sink.file /\ sink'.guard = sink.guard
    BY <2>1 DEF Shape
  <2> QED
    BY <1>1, <1>2, <2>1, <2>2, ServingKeeps DEF At, Serves
<1> QED
  BY <1>3, <1>4

LEMMA DrainsKeeps ==
  ASSUME Shape, SoundInv, DrainsWlan \/ DrainsGroup
  PROVE  SoundInv'
<1>1. PICK c \in {"w", "g"} : /\ wire' = [wire EXCEPT ![c] = <<>>]
                              /\ pending' = [pending EXCEPT ![c] = <<>>]
  BY DEF DrainsWlan, DrainsGroup
<1>2. UNCHANGED <<disk, sup, radio, asked>> /\ sink.at \in {"drain", "drain_group"}
  BY DEF DrainsWlan, DrainsGroup, At
<1>3. ~sink.waits /\ sink.guard
  BY <1>2, Tables DEF SoundInv, Asking, Places, Serves
<1>4. /\ sink'.at \in {"drain_group", "handle"} /\ sink'.waits = sink.waits
      /\ sink'.file = sink.file /\ sink'.guard = sink.guard
  <2>1. CASE DrainsWlan
    BY <2>1 DEF DrainsWlan, Shape
  <2>2. CASE DrainsGroup
    BY <2>2 DEF DrainsGroup, Shape
  <2> QED
    BY <2>1, <2>2
<1>5. Places'
  BY <1>3, <1>4, ServingPlaces DEF Serves
<1>6. wire \in [{"w", "g"} -> Seq(Lines)] /\ pending \in [{"w", "g"} -> Seq(Lines)]
  BY DEF SoundInv, Channels
<1>7. Channels'
  BY <1>1, <1>6 DEF Channels
<1>8. \A d \in {"w", "g"} : wire'[d] = wire[d] \/ (wire'[d] = <<>> /\ DOMAIN wire'[d] = {})
  BY <1>1, <1>6
<1>9. \A d \in {"w", "g"} : \A i \in DOMAIN wire'[d] : IsEvent(wire'[d][i])
  BY <1>3, <1>8, NoAnswer DEF SoundInv, Obeyed
<1> QED
  BY <1>2, <1>3, <1>4, <1>5, <1>7, <1>9, PassKeeps DEF At, Boots

LEMMA HandlesKeeps ==
  ASSUME Shape, SoundInv, Handles
  PROVE  SoundInv'
<1> DEFINE s == [sink EXCEPT !.todo = Tail(@)]
<1>1. At("handle") /\ ~sink.waits /\ UNCHANGED <<disk, radio>>
  BY Zenon DEF Handles
<1>2. asked = <<>> /\ sink.guard
  BY <1>1 DEF SoundInv, Asking, Places, At, Serves
<1>3. CASE LeavesPass
  BY <1>1, <1>2, <1>3, LeavingKeeps DEF At
<1>4. CASE ~LeavesPass
  <2>1. UNCHANGED <<sup, wire, pending, asked>>
    BY <1>4, Zenon DEF Handles
  <2>2. \/ sink' = s \/ sink' = [s EXCEPT !.pin = Fresh, !.at = "show"]
        \/ \E ev : sink' = [s EXCEPT !.clients = @ \cup {ev.m}, !.pin = 0]
        \/ \E ev, session : sink' = [s EXCEPT !.clients = @ \ {ev.m}, !.session = session]
    BY <1>4, Zenon DEF Handles
  <2>3. /\ DOMAIN s = DOMAIN sink /\ s.at = "handle" /\ s.waits = sink.waits
        /\ s.file = sink.file /\ s.guard = sink.guard
    BY <1>1 DEF Shape, At
  <2> HIDE DEF s
  <2>4. /\ sink'.at \in {"handle", "show"} /\ sink'.waits = sink.waits
        /\ sink'.file = sink.file /\ sink'.guard = sink.guard
    <3>0. CASE sink' = s
      BY <2>3, <3>0
    <3>1. CASE sink' = [s EXCEPT !.pin = Fresh, !.at = "show"]
      BY <2>3, <3>1 DEF Shape
    <3>2. CASE \E ev : sink' = [s EXCEPT !.clients = @ \cup {ev.m}, !.pin = 0]
      BY <2>3, <3>2 DEF Shape
    <3>3. CASE \E ev, session : sink' = [s EXCEPT !.clients = @ \ {ev.m}, !.session = session]
      BY <2>3, <3>3 DEF Shape
    <3> QED
      BY <2>2, <3>0, <3>1, <3>2, <3>3
  <2> QED
    BY <1>1, <1>2, <2>1, <2>4, ServingKeeps DEF At, Serves
<1> QED
  BY <1>3, <1>4

LEMMA AddressesKeeps ==
  ASSUME Shape, SoundInv, Addresses
  PROVE  SoundInv'
<1>1. At("handle") /\ ~sink.waits /\ UNCHANGED <<disk, sup, wire, pending, asked>>
  BY DEF Addresses
<1>2. sink.guard
  BY <1>1 DEF SoundInv, Places, At, Serves
<1>3. /\ sink'.at = "poll" /\ sink'.waits = sink.waits
      /\ sink'.file = sink.file /\ sink'.guard = sink.guard
  BY DEF Addresses, Goes, Shape
<1>4. PICK lease : radio' = [radio EXCEPT !.asks = {}, !.lease = lease]
  BY Zenon DEF Addresses
<1>5. /\ DOMAIN radio' = DOMAIN radio /\ radio'.creds = radio.creds /\ radio'.made = radio.made
      /\ radio'.enrolling = radio.enrolling
  BY <1>4 DEF SoundInv, Keys
<1>6. Places' /\ Channels'
  BY <1>1, <1>2, <1>3, ServingPlaces DEF Serves, SoundInv, Channels
<1>7. \A d \in {"w", "g"} : \A i \in DOMAIN wire'[d] : IsEvent(wire'[d][i])
  BY <1>1, NoAnswer DEF SoundInv, Obeyed
<1> QED
  BY <1>1, <1>3, <1>5, <1>6, <1>7, PassKeeps DEF At, Boots
-----------------------------------------------------------------------------
(* The supplicant and the sources. *)

(* What the supplicant writes. *)
LEMMA Written ==
  ASSUME NEW e \in Words \cup News, NEW m \in Sources \cup {Nothing}, NEW n \in Nat
  PROVE  /\ Line(e, m, n) \in Lines /\ Line(e, m, n).e = e /\ Line(e, m, n).n = n
         /\ e \in News => IsEvent(Line(e, m, n))
         /\ e \in Words => ~IsEvent(Line(e, m, n))
<1>1. Line(e, m, n) \in Lines /\ Line(e, m, n).e = e /\ Line(e, m, n).n = n
  BY DEF Line, Lines
<1> QED
  BY <1>1 DEF IsEvent, Words, News

(* A line of news goes to the end of a control, and is no answer. *)
LEMMA Told ==
  ASSUME Channels, NEW line \in Lines, IsEvent(line), NEW controls, Tells(line, controls),
         pending' = pending
  PROVE  /\ Channels'
         /\ \A c \in {"w", "g"} : \A i \in DOMAIN wire'[c] :
              ~IsEvent(wire'[c][i]) => i \in DOMAIN wire[c] /\ wire'[c][i] = wire[c][i]
         /\ HasStart(wire["w"]) => HasStart(wire'["w"])
         /\ line.e = "GroupStarted" /\ "w" \in controls \cap sup.hears => HasStart(wire'["w"])
<1>1. \A c \in {"w", "g"} :
        /\ wire[c] \in Seq(Lines) /\ Append(wire[c], line) \in Seq(Lines)
        /\ \A i \in DOMAIN Append(wire[c], line) :
             \/ i \in DOMAIN wire[c] /\ Append(wire[c], line)[i] = wire[c][i]
             \/ i = Len(wire[c]) + 1 /\ Append(wire[c], line)[i] = line
        /\ HasStart(wire[c]) \/ line.e = "GroupStarted" => HasStart(Append(wire[c], line))
  <2> SUFFICES ASSUME NEW c \in {"w", "g"}
               PROVE  /\ wire[c] \in Seq(Lines) /\ Append(wire[c], line) \in Seq(Lines)
                      /\ \A i \in DOMAIN Append(wire[c], line) :
                           \/ i \in DOMAIN wire[c] /\ Append(wire[c], line)[i] = wire[c][i]
                           \/ i = Len(wire[c]) + 1 /\ Append(wire[c], line)[i] = line
                      /\ HasStart(wire[c]) \/ line.e = "GroupStarted"
                           => HasStart(Append(wire[c], line))
    OBVIOUS
  <2>1. wire[c] \in Seq(Lines)
    BY DEF Channels
  <2> QED
    BY <2>1, LinesAppend
<1>2. wire' = [c \in {"w", "g"} |-> IF c \in controls \cap sup.hears
                                    THEN Append(wire[c], line) ELSE wire[c]]
  BY DEF Tells
<1>3. \A c \in {"w", "g"} : wire'[c] = IF c \in controls \cap sup.hears
                                       THEN Append(wire[c], line) ELSE wire[c]
  BY <1>2
<1>4. Channels'
  BY <1>1, <1>2 DEF Channels
<1>5. ASSUME NEW c \in {"w", "g"}, NEW i \in DOMAIN wire'[c], ~IsEvent(wire'[c][i])
      PROVE  i \in DOMAIN wire[c] /\ wire'[c][i] = wire[c][i]
  <2>1. CASE c \in controls \cap sup.hears
    <3>1. wire'[c] = Append(wire[c], line)
      BY <1>3, <2>1
    <3>2. i \in DOMAIN Append(wire[c], line) /\ ~IsEvent(Append(wire[c], line)[i])
      BY <1>5, <3>1
    <3>3. Append(wire[c], line)[i] # line
      BY <3>2
    <3> QED
      BY <1>1, <3>1, <3>2, <3>3
  <2>2. CASE c \notin controls \cap sup.hears
    BY <1>3, <1>5, <2>2
  <2> QED
    BY <2>1, <2>2
<1>6. HasStart(wire["w"]) => HasStart(wire'["w"])
  BY <1>1, <1>3
<1>7. line.e = "GroupStarted" /\ "w" \in controls \cap sup.hears => HasStart(wire'["w"])
  BY <1>1, <1>3
<1> QED
  BY <1>4, <1>5, <1>6, <1>7

(* News change nothing about the command under way and the place of the pass. *)
LEMMA NewsKeeps ==
  ASSUME Shape, SoundInv, UNCHANGED <<sink, asked>>, sup'.up = sup.up, sup'.hears = sup.hears,
         \A c \in {"w", "g"} : \A i \in DOMAIN wire'[c] :
           ~IsEvent(wire'[c][i]) => i \in DOMAIN wire[c] /\ wire'[c][i] = wire[c][i],
         Clear => Clear' /\ sup'.nets = sup.nets, Coming => Coming'
  PROVE  Asking' /\ OneAnswer' /\ Places'
<1>1. Asking'
  BY DEF SoundInv, Asking, Argument
<1>2. Places'
  BY DEF SoundInv, Places, At, Obeyed
<1>3. OneAnswer'
  <2> SUFFICES ASSUME NEW c \in {"w", "g"}, NEW i \in DOMAIN wire'[c], ~IsEvent(wire'[c][i])
               PROVE  /\ Obeyed' /\ c = ControlOf[sink'.at]
                      /\ \A j \in DOMAIN wire'[c] : IsEvent(wire'[c][j]) \/ i = j
                      /\ At("list")' /\ sup'.up => wire'[c][i].n = Right(sup'.nets)
                      /\ At("add")' /\ sup'.up =>
                           IF wire'[c][i].e = "FAIL" THEN Clear' ELSE Coming'
    BY DEF OneAnswer
  <2>1. i \in DOMAIN wire[c] /\ wire'[c][i] = wire[c][i]
    OBVIOUS
  <2>2. /\ Obeyed /\ c = ControlOf[sink.at]
        /\ \A j \in DOMAIN wire[c] : IsEvent(wire[c][j]) \/ i = j
        /\ At("list") /\ sup.up => wire[c][i].n = Right(sup.nets)
        /\ At("add") /\ sup.up => IF wire[c][i].e = "FAIL" THEN Clear ELSE Coming
    BY <2>1 DEF SoundInv, OneAnswer
  <2>3. \A j \in DOMAIN wire'[c] : IsEvent(wire'[c][j]) \/ i = j
    BY <2>2
  <2>4. At("list") => sup'.nets = sup.nets
    BY DEF SoundInv, Places, At
  <2> QED
    BY <2>1, <2>2, <2>3, <2>4 DEF Obeyed, At
<1> QED
  BY <1>1, <1>2, <1>3

LEMMA ComesUpKeeps ==
  ASSUME Shape, SoundInv, GroupComesUp
  PROVE  SoundInv'
<1> DEFINE nets == IF sup.forming \in ToSet(sup.nets) THEN sup.nets
                   ELSE Append(sup.nets, sup.forming)
<1>1. /\ sup.up /\ sup.forming # 0 /\ UNCHANGED <<radio, sink, pending, asked>>
      /\ sup' = [sup EXCEPT !.group = sup.forming, !.forming = 0, !.nets = nets]
      /\ disk' = IF sup.saves THEN [disk EXCEPT !.conf.nets = nets] ELSE disk
      /\ Tells(Line("GroupStarted", Nothing, 0), {"w"})
  BY Zenon DEF GroupComesUp
<1>2. /\ sup.saves /\ sup.sock /\ sup.nets = disk.conf.nets /\ sup.nets \in Seq(Pos)
      /\ sink.at \notin Boots /\ Stored = disk.conf.nets
      /\ DOMAIN disk = {"tmpl", "conf", "stamp"} /\ DOMAIN disk.conf = {"tmpl", "nets"}
  BY <1>1 DEF SoundInv, Files, Stored, At, Boots
<1>3. sup.forming \in Pos /\ (sup.nets = <<>> \/ sup.forming = Head(sup.nets))
  BY <1>1 DEF SoundInv, Group
<1>4. /\ nets \in Seq(Pos) /\ nets # <<>> /\ Head(nets) = sup.forming
      /\ sup.nets # <<>> => nets = sup.nets
  <2>1. CASE sup.nets = <<>>
    <3>1. ToSet(sup.nets) = {}
      BY <2>1 DEF ToSet
    <3> QED
      BY <1>3, <2>1, <3>1
  <2>2. CASE sup.nets # <<>>
    <3>1. sup.forming = sup.nets[1] /\ 1 \in DOMAIN sup.nets
      BY <1>2, <1>3, <2>2
    <3>2. sup.forming \in ToSet(sup.nets)
      BY <3>1 DEF ToSet
    <3> QED
      BY <1>2, <1>3, <2>2, <3>2
  <2> QED
    BY <2>1, <2>2
<1> HIDE DEF nets
<1>5. /\ sup'.up /\ sup'.sock /\ sup'.saves /\ sup'.hears = sup.hears /\ sup'.nets = nets
      /\ sup'.group = sup.forming /\ sup'.forming = 0
  BY <1>1, <1>2 DEF Shape
<1>6. /\ DOMAIN disk' = {"tmpl", "conf", "stamp"} /\ DOMAIN disk'.conf = {"tmpl", "nets"}
      /\ disk'.conf.nets = nets
  BY <1>1, <1>2
<1>7. Stored' = nets
  BY <1>1, <1>2, <1>6 DEF Stored, At, Boots
<1>8. Line("GroupStarted", Nothing, 0) \in Lines /\ IsEvent(Line("GroupStarted", Nothing, 0))
      /\ Line("GroupStarted", Nothing, 0).e = "GroupStarted"
  BY Written DEF News
<1>9. /\ Channels'
      /\ \A c \in {"w", "g"} : \A i \in DOMAIN wire'[c] :
           ~IsEvent(wire'[c][i]) => i \in DOMAIN wire[c] /\ wire'[c][i] = wire[c][i]
      /\ HasStart(wire["w"]) => HasStart(wire'["w"])
      /\ "w" \in sup.hears => HasStart(wire'["w"])
  BY <1>1, <1>8, Told DEF SoundInv
<1>10. Files'
  BY <1>1, <1>2, <1>4, <1>5, <1>6, <1>7 DEF SoundInv, Files, At, Boots
<1>11. Keys'
  <2>1. \A m \in Sources : radio.creds[m] # 0 => Stored # <<>> /\ radio.creds[m] = Head(Stored)
    BY DEF SoundInv, Keys
  <2>2. \A m \in Sources : radio.creds[m] # 0 => nets # <<>> /\ radio.creds[m] = Head(nets)
    BY <1>2, <1>4, <2>1
  <2> QED
    BY <1>1, <1>7, <2>2 DEF SoundInv, Keys
<1>12. Group'
  BY <1>4, <1>5 DEF Group
<1>13. ~Clear
  BY <1>1 DEF Clear
<1>14. CASE "w" \in sup.hears
  <2>1. Coming'
    BY <1>9, <1>14 DEF Coming
  <2>2. Asking' /\ OneAnswer' /\ Places'
    BY <1>1, <1>5, <1>9, <1>13, <2>1, NewsKeeps
  <2> QED
    BY <1>9, <1>10, <1>11, <1>12, <2>2 DEF SoundInv
<1>15. CASE "w" \notin sup.hears
  <2>1. sink.at \notin {"wait", "add", "list"}
    BY <1>1, <1>13, <1>15 DEF SoundInv, Places, At
  <2>2. Asking'
    BY <1>1, <1>5 DEF SoundInv, Asking, Argument
  <2>3. Places'
    BY <1>1, <1>5, <1>13, <2>1 DEF SoundInv, Places, At, Obeyed
  <2>4. OneAnswer'
    BY <1>1, <1>9, <2>1 DEF SoundInv, OneAnswer, Obeyed, At
  <2> QED
    BY <1>9, <1>10, <1>11, <1>12, <2>2, <2>3, <2>4 DEF SoundInv
<1> QED
  BY <1>14, <1>15

(* News of the group and its sources, with the credentials right. *)
LEMMA SourcesKeep ==
  ASSUME Shape, SoundInv, UNCHANGED <<disk, sink, pending, asked>>,
         sup'.up = sup.up, sup'.sock = sup.sock, sup'.saves = sup.saves, sup'.nets = sup.nets,
         sup'.hears = sup.hears, sup'.forming = sup.forming, sup'.group \in {0, sup.group},
         DOMAIN radio' = DOMAIN radio, DOMAIN radio'.creds = Sources,
         \A m \in Sources : radio'.creds[m] \in {radio.creds[m], sup.group},
         radio'.made = radio.made, radio'.enrolling \in Sources \cup {Nothing},
         Channels', \A c \in {"w", "g"} : \A i \in DOMAIN wire'[c] :
           ~IsEvent(wire'[c][i]) => i \in DOMAIN wire[c] /\ wire'[c][i] = wire[c][i],
         HasStart(wire["w"]) => HasStart(wire'["w"])
  PROVE  SoundInv'
<1>1. Files' /\ Stored' = Stored
  BY DEF SoundInv, Files, Stored, At
<1>2. Group'
  BY DEF SoundInv, Group, Clear
<1>3. Keys'
  <2>1. ASSUME sup.group # 0 PROVE Stored # <<>> /\ sup.group = Head(Stored)
    <3>1. sup.up /\ sup.nets # <<>> /\ sup.group = Head(sup.nets)
      BY <2>1 DEF SoundInv, Group, Clear
    <3>2. ~At("write") /\ sup.nets = disk.conf.nets
      BY <3>1 DEF SoundInv, Files, At, Boots
    <3> QED
      BY <3>1, <3>2 DEF Stored
  <2>2. \A m \in Sources : radio'.creds[m] # 0 => Stored # <<>> /\ radio'.creds[m] = Head(Stored)
    BY <2>1 DEF SoundInv, Keys
  <2> QED
    BY <1>1, <2>2 DEF SoundInv, Keys
<1>4. (Clear => Clear' /\ sup'.nets = sup.nets) /\ (Coming => Coming')
  BY DEF Clear, Coming
<1>5. Asking' /\ OneAnswer' /\ Places'
  BY <1>4, NewsKeeps
<1> QED
  BY <1>1, <1>2, <1>3, <1>5 DEF SoundInv

(* A line is told while the supplicant stays as it is, or the group goes. *)
LEMMA TellingKeeps ==
  ASSUME Shape, SoundInv, UNCHANGED <<disk, sink, pending, asked>>,
         sup'.up = sup.up, sup'.sock = sup.sock, sup'.saves = sup.saves, sup'.nets = sup.nets,
         sup'.hears = sup.hears, sup'.forming = sup.forming, sup'.group \in {0, sup.group},
         DOMAIN radio' = DOMAIN radio, DOMAIN radio'.creds = Sources,
         \A m \in Sources : radio'.creds[m] \in {radio.creds[m], sup.group},
         radio'.made = radio.made, radio'.enrolling \in Sources \cup {Nothing},
         NEW e \in News, NEW m \in Sources \cup {Nothing}, NEW controls,
         Tells(Line(e, m, 0), controls)
  PROVE  SoundInv'
<1>1. Line(e, m, 0) \in Lines /\ IsEvent(Line(e, m, 0))
  BY Written
<1>2. /\ Channels'
      /\ \A c \in {"w", "g"} : \A i \in DOMAIN wire'[c] :
           ~IsEvent(wire'[c][i]) => i \in DOMAIN wire[c] /\ wire'[c][i] = wire[c][i]
      /\ HasStart(wire["w"]) => HasStart(wire'["w"])
  BY <1>1, Told DEF SoundInv
<1> QED
  BY <1>2, SourcesKeep

(* Nothing is told. *)
LEMMA SilentKeeps ==
  ASSUME Shape, SoundInv, UNCHANGED <<disk, sink, wire, pending, asked, sup>>,
         DOMAIN radio' = DOMAIN radio, radio'.creds = radio.creds,
         radio'.made = radio.made, radio'.enrolling \in Sources \cup {Nothing}
  PROVE  SoundInv'
<1>1. DOMAIN radio'.creds = Sources /\ Channels'
  BY DEF SoundInv, Keys, Channels
<1> QED
  BY <1>1, SourcesKeep

LEMMA GroupFailsKeeps ==
  ASSUME Shape, SoundInv, GroupFails
  PROVE  SoundInv'
<1>1. /\ sup' = [sup EXCEPT !.group = 0, !.pin = 0, !.walk = 0] /\ radio' = Scattered
      /\ Tells(Line("GroupRemoved", Nothing, 0), {"w", "g"})
      /\ UNCHANGED <<disk, sink, pending, asked>>
  BY DEF GroupFails
<1>2. /\ sup'.up = sup.up /\ sup'.sock = sup.sock /\ sup'.saves = sup.saves /\ sup'.nets = sup.nets
      /\ sup'.hears = sup.hears /\ sup'.forming = sup.forming /\ sup'.group = 0
  BY <1>1 DEF Shape
<1>3. /\ DOMAIN radio' = DOMAIN radio /\ radio'.creds = radio.creds /\ radio'.made = radio.made
      /\ radio'.enrolling = Nothing
  BY <1>1 DEF Scattered, SoundInv, Keys
<1>4. DOMAIN radio'.creds = Sources
  BY <1>3 DEF SoundInv, Keys
<1> QED
  BY <1>1, <1>2, <1>3, <1>4, TellingKeeps DEF News

LEMMA DiesKeeps ==
  ASSUME Shape, SoundInv, SupplicantDies
  PROVE  SoundInv'
<1>1. /\ sup' = [NoSupplicant EXCEPT !.sock = TRUE] /\ radio' = Scattered
      /\ asked' = <<>> /\ UNCHANGED <<disk, sink, wire, pending>>
  BY DEF SupplicantDies
<1>2. ~sup'.up /\ Clear'
  BY <1>1 DEF NoSupplicant, Clear
<1>3. /\ DOMAIN radio' = DOMAIN radio /\ radio'.creds = radio.creds /\ radio'.made = radio.made
      /\ radio'.enrolling = Nothing
  BY <1>1 DEF Scattered, SoundInv, Keys
<1>4. Files' /\ Keys' /\ Group' /\ Channels'
  BY <1>1, <1>2, <1>3 DEF SoundInv, Files, Keys, Group, Channels, Stored, At, Clear
<1>5. Asking' /\ OneAnswer' /\ Places'
  BY <1>1, <1>2 DEF SoundInv, Asking, OneAnswer, Places, Obeyed, At
<1> QED
  BY <1>4, <1>5 DEF SoundInv

LEMMA StationsKeep ==
  ASSUME Shape, SoundInv, NEW m \in Sources, Joins(m) \/ Leaves(m) \/ Provisions(m) \/ Asks(m)
  PROVE  SoundInv'
<1>1. DOMAIN radio = {"in", "creds", "lease", "asks", "enrolling", "digits", "made"}
      /\ radio.enrolling \in Sources \cup {Nothing} /\ DOMAIN radio.creds = Sources
  BY DEF SoundInv, Keys
<1>2. UNCHANGED <<disk, sup, sink, pending, asked>>
  BY DEF Joins, Leaves, Provisions, Asks
<1>3. CASE Joins(m)
  <2>1. PICK address : radio' = [radio EXCEPT !.in = @ \cup {m}, !.lease[m] = address]
    BY <1>3 DEF Joins
  <2>2. /\ DOMAIN radio' = DOMAIN radio /\ radio'.creds = radio.creds /\ radio'.made = radio.made
        /\ radio'.enrolling = radio.enrolling
    BY <1>1, <2>1
  <2> QED
    BY <1>1, <1>2, <1>3, <2>2, TellingKeeps DEF Joins, News
<1>4. CASE Leaves(m)
  <2>1. radio' = [radio EXCEPT !.in = @ \ {m}, !.asks = @ \ {m}, !.lease[m] = "none"]
    BY <1>4 DEF Leaves
  <2>2. /\ DOMAIN radio' = DOMAIN radio /\ radio'.creds = radio.creds /\ radio'.made = radio.made
        /\ radio'.enrolling = radio.enrolling
    BY <1>1, <2>1
  <2> QED
    BY <1>1, <1>2, <1>4, <2>2, TellingKeeps DEF Leaves, News
<1>5. CASE Provisions(m)
  <2>1. radio' = [radio EXCEPT !.enrolling = m, !.digits = sink.pin]
    BY <1>5 DEF Provisions
  <2>2. /\ DOMAIN radio' = DOMAIN radio /\ radio'.creds = radio.creds /\ radio'.made = radio.made
        /\ radio'.enrolling = m
    BY <1>1, <2>1
  <2> QED
    BY <1>1, <1>2, <1>5, <2>2, TellingKeeps DEF Provisions, News
<1>6. CASE Asks(m)
  <2>1. radio' = [radio EXCEPT !.asks = @ \cup {m}] /\ wire' = wire
    BY <1>6 DEF Asks
  <2>2. /\ DOMAIN radio' = DOMAIN radio /\ radio'.creds = radio.creds /\ radio'.made = radio.made
        /\ radio'.enrolling = radio.enrolling
    BY <1>1, <2>1
  <2> QED
    BY <1>1, <1>2, <2>1, <2>2, SilentKeeps
<1> QED
  BY <1>3, <1>4, <1>5, <1>6

LEMMA EnrolsKeeps ==
  ASSUME Shape, SoundInv, Enrols
  PROVE  SoundInv'
<1> DEFINE m == radio.enrolling
<1>1. /\ DOMAIN radio = {"in", "creds", "lease", "asks", "enrolling", "digits", "made"}
      /\ m \in Sources \cup {Nothing} /\ DOMAIN radio.creds = Sources
      /\ UNCHANGED <<disk, sink, pending, asked>>
  BY DEF Enrols, SoundInv, Keys
<1>2. \/ /\ sup' = [sup EXCEPT !.pin = 0, !.walk = 0]
         /\ radio' = [radio EXCEPT !.enrolling = Nothing, !.creds[m] = sup.group,
                                   !.in = @ \cup {m}]
         /\ Tells(Line("Connected", m, 0), {"w", "g"})
      \/ /\ radio' = [radio EXCEPT !.enrolling = Nothing]
         /\ Tells(Line("WpsFail", Nothing, 0), {"g"})
         /\ UNCHANGED sup
      \/ /\ radio' = [radio EXCEPT !.enrolling = Nothing]
         /\ UNCHANGED <<sup, wire>>
  BY Zenon DEF Enrols
<1> HIDE DEF m
<1>3. CASE /\ sup' = [sup EXCEPT !.pin = 0, !.walk = 0]
           /\ radio' = [radio EXCEPT !.enrolling = Nothing, !.creds[m] = sup.group,
                                     !.in = @ \cup {m}]
           /\ Tells(Line("Connected", m, 0), {"w", "g"})
  <2>1. /\ sup'.up = sup.up /\ sup'.sock = sup.sock /\ sup'.saves = sup.saves
        /\ sup'.nets = sup.nets /\ sup'.hears = sup.hears /\ sup'.forming = sup.forming
        /\ sup'.group = sup.group
    BY <1>3 DEF Shape
  <2>2. /\ DOMAIN radio' = DOMAIN radio /\ radio'.made = radio.made
        /\ radio'.enrolling = Nothing /\ radio'.creds = [radio.creds EXCEPT ![m] = sup.group]
    BY <1>1, <1>3
  <2>3. DOMAIN radio'.creds = Sources
        /\ \A k \in Sources : radio'.creds[k] \in {radio.creds[k], sup.group}
    BY <1>1, <2>2
  <2> QED
    BY <1>1, <1>3, <2>1, <2>2, <2>3, TellingKeeps DEF News
<1>4. CASE radio' = [radio EXCEPT !.enrolling = Nothing] /\ UNCHANGED sup
  <2>1. /\ DOMAIN radio' = DOMAIN radio /\ radio'.made = radio.made
        /\ radio'.enrolling = Nothing /\ radio'.creds = radio.creds
    BY <1>1, <1>4
  <2>2. CASE Tells(Line("WpsFail", Nothing, 0), {"g"})
    BY <1>1, <1>4, <2>1, <2>2, TellingKeeps DEF News
  <2>3. CASE wire' = wire
    BY <1>1, <1>4, <2>1, <2>3, SilentKeeps
  <2>4. Tells(Line("WpsFail", Nothing, 0), {"g"}) \/ wire' = wire
        \/ /\ sup' = [sup EXCEPT !.pin = 0, !.walk = 0]
           /\ radio' = [radio EXCEPT !.enrolling = Nothing, !.creds[m] = sup.group,
                                     !.in = @ \cup {m}]
           /\ Tells(Line("Connected", m, 0), {"w", "g"})
    BY <1>2
  <2> QED
    BY <1>3, <2>2, <2>3, <2>4
<1> QED
  BY <1>2, <1>3, <1>4

LEMMA StopsKeeps ==
  ASSUME Shape, SoundInv, Stops
  PROVE  SoundInv'
<1>1. /\ sink' = [sink EXCEPT !.stop = TRUE]
      /\ UNCHANGED <<disk, sup, radio, wire, pending, asked>>
  BY DEF Stops
<1>2. /\ sink'.at = sink.at /\ sink'.waits = sink.waits /\ sink'.file = sink.file
      /\ sink'.desired = sink.desired /\ sink'.stored = sink.stored /\ sink'.pin = sink.pin
      /\ sink'.guard = sink.guard /\ sink'.stop
  BY <1>1 DEF Shape
<1>3. Files' /\ Keys' /\ Group' /\ Channels'
  BY <1>1, <1>2 DEF SoundInv, Files, Keys, Group, Channels, Stored, At, Clear
<1>4. Asking'
  BY <1>1, <1>2 DEF SoundInv, Asking, Argument
<1>5. OneAnswer'
  BY <1>1, <1>2 DEF SoundInv, OneAnswer, Obeyed, At, Clear, Coming
<1>6. Places'
  BY <1>1, <1>2 DEF SoundInv, Places, Obeyed, At, Clear, Coming
<1> QED
  BY <1>3, <1>4, <1>5, <1>6 DEF SoundInv

LEMMA TickKeeps ==
  ASSUME Shape, SoundInv, Tick
  PROVE  SoundInv'
<1>1. /\ At("poll") /\ UNCHANGED <<disk, radio, wire, pending, asked>>
      /\ sink' = [sink EXCEPT !.wps = IF @ < Rearm THEN @ + 1 ELSE @]
      /\ sup' = [sup EXCEPT !.walk = IF @ > 0 THEN @ - 1 ELSE @]
  BY DEF Tick, Settled
<1>2. /\ sink'.at = "poll" /\ sink'.waits = sink.waits /\ sink'.file = sink.file
      /\ sink'.guard = sink.guard
  BY <1>1 DEF Shape, At
<1>3. /\ sup'.up = sup.up /\ sup'.sock = sup.sock /\ sup'.saves = sup.saves /\ sup'.nets = sup.nets
      /\ sup'.forming = sup.forming /\ sup'.group = sup.group
  BY <1>1 DEF Shape
<1>4. ~sink.waits /\ asked = <<>> /\ sink.guard
  BY <1>1, Tables DEF SoundInv, Asking, Places, At, Serves
<1>5. Files' /\ Keys' /\ Group' /\ Channels'
  BY <1>1, <1>2, <1>3 DEF SoundInv, Files, Keys, Group, Channels, Stored, At, Clear
<1>6. Asking' /\ OneAnswer'
  BY <1>1, <1>2, <1>4, NoAnswer DEF SoundInv, Asking, OneAnswer, Obeyed
<1>7. Places'
  BY <1>2, <1>4, ServingPlaces DEF Serves
<1> QED
  BY <1>5, <1>6, <1>7 DEF SoundInv

(* A service that starts anew finds the disk as it was left. *)
LEMMA RestartKeeps ==
  ASSUME SoundInv, ~At("write"), disk'.conf = disk.conf, DOMAIN disk' = DOMAIN disk,
         sup'.up = FALSE, sup'.group = 0, sup'.forming = 0, sink' = NewPass, radio' = Scattered,
         wire' = Quiet, pending' = Quiet, asked' = <<>>
  PROVE  SoundInv'
<1>1. sink'.at = "ensure" /\ ~sink'.waits /\ sink'.file = "working"
  BY DEF NewPass
<1>2. /\ DOMAIN radio' = DOMAIN radio /\ radio'.creds = radio.creds /\ radio'.made = radio.made
      /\ radio'.enrolling = Nothing
  BY DEF Scattered, SoundInv, Keys
<1>3. Stored' = Stored
  BY <1>1 DEF Stored, At
<1>4. Files'
  BY <1>1, <1>3 DEF SoundInv, Files, At
<1>5. Keys'
  BY <1>2, <1>3 DEF SoundInv, Keys
<1>6. Group'
  BY DEF Group, Clear
<1>7. Channels' /\ Asking' /\ OneAnswer'
  BY <1>1, QuietChannels DEF Channels, Asking, OneAnswer
<1>8. Places'
  BY <1>1 DEF Places, At, Clear, Serves
<1> QED
  BY <1>4, <1>5, <1>6, <1>7, <1>8 DEF SoundInv

LEMMA KilledKeeps ==
  ASSUME Shape, SoundInv, Sound', Killed
  PROVE  SoundInv'
<1>1. ~At("write")
  BY DEF Killed, Sound
<1>2. disk' = disk
  BY <1>1 DEF Killed, CutShort
<1>3. sup'.up = FALSE /\ sup'.group = 0 /\ sup'.forming = 0
  BY DEF Killed, NoSupplicant
<1> QED
  BY <1>1, <1>2, <1>3, RestartKeeps DEF Killed

LEMMA DeploysKeeps ==
  ASSUME Shape, SoundInv, Deploys
  PROVE  SoundInv'
<1>1. disk' = [disk EXCEPT !.tmpl = @ + 1]
  BY DEF Deploys
<1>2. disk'.conf = disk.conf /\ DOMAIN disk' = DOMAIN disk
  BY <1>1 DEF SoundInv, Files
<1>3. sup'.up = FALSE /\ sup'.group = 0 /\ sup'.forming = 0
  BY DEF Deploys, NoSupplicant
<1> QED
  BY <1>2, <1>3, RestartKeeps DEF Deploys

(* The answer to the command under way is written. *)
Replied ==
  \E e \in Words, n \in Nat :
    /\ wire' = [wire EXCEPT ![ControlOf[sink.at]] = Append(@, Line(e, Nothing, n))]
    /\ At("list") => n = Right(sup.nets)
    /\ At("add") => IF e = "FAIL" THEN Clear' ELSE sup'.forming # 0

(* A command carried out or refused has one answer, and that says what it did. *)
LEMMA AnswersWith ==
  ASSUME Shape, SoundInv, Answers
  PROVE  /\ sink.waits /\ asked' = <<>> /\ sup.up /\ UNCHANGED <<disk, sink, pending>>
         /\ sink.at \in Commands
         /\ Replied
         /\ sup'.up /\ sup'.sock = sup.sock /\ sup'.saves = sup.saves /\ sup'.nets = sup.nets
         /\ sup.hears \subseteq sup'.hears
         /\ DOMAIN radio' = DOMAIN radio /\ radio'.creds = radio.creds
         /\ radio'.made \in Nat /\ radio'.enrolling \in Sources \cup {Nothing}
         /\ sup'.group \in {0, sup.group}
         /\ sup'.forming # 0 => sup'.forming \in Pos
                                /\ (sup.nets = <<>> \/ sup'.forming = Head(sup.nets))
         /\ At("remove") => Clear'
         /\ ~At("add") /\ Clear => Clear'
         /\ At("attach") => "w" \in sup'.hears
<1> DEFINE c == ControlOf[sink.at]
<1>1. /\ asked = <<[ctl |-> c, cmd |-> sink.at, n |-> Argument(sink.at)]>>
      /\ sink.waits /\ sup.up /\ sink.at \in Commands
  BY DEF Answers, SoundInv, Asking
<1>2. /\ Head(asked).ctl = c /\ Head(asked).cmd = sink.at /\ Head(asked).n = Argument(sink.at)
      /\ Tail(asked) = <<>>
  BY <1>1
<1>3. /\ asked' = <<>> /\ UNCHANGED <<disk, sink, pending>>
      /\ \/ Obeys(Head(asked))
         \/ /\ sink.at \in {"set", "add"} \cup Armings
            /\ Replies(c, Line("FAIL", Nothing, 0)) /\ UNCHANGED <<sup, radio>>
  BY <1>2 DEF Answers
<1>4. c \in {"w", "g"} /\ (At("attach") => c = "w")
  BY <1>1, Tables DEF At
<1>5. \A line : Replies(c, line) <=> wire' = [wire EXCEPT ![c] = Append(@, line)]
  BY <1>4 DEF Replies
<1>6. /\ radio.made \in Nat /\ radio.enrolling \in Sources \cup {Nothing}
      /\ DOMAIN radio = {"in", "creds", "lease", "asks", "enrolling", "digits", "made"}
      /\ sup.forming # 0 => sup.forming \in Pos /\ (sup.nets = <<>> \/ sup.forming = Head(sup.nets))
      /\ sup.nets \in Seq(Pos) /\ Right(sup.nets) \in Nat
  BY <1>1 DEF SoundInv, Keys, Group, Files, Stored, At, Right, Pos, Boots
<1>7. At("add") => Clear /\ sink.stored = Right(sup.nets)
  BY <1>1 DEF SoundInv, Places, Obeyed
<1> HIDE DEF c
<1>8. CASE /\ sink.at \in {"set", "add"} \cup Armings
           /\ Replies(c, Line("FAIL", Nothing, 0)) /\ UNCHANGED <<sup, radio>>
  <2>1. wire' = [wire EXCEPT ![c] = Append(@, Line("FAIL", Nothing, 0))]
    BY <1>5, <1>8
  <2>2. ~At("list") /\ ~At("remove") /\ ~At("attach")
    BY <1>8 DEF At, Armings
  <2>3. Clear => Clear'
    BY <1>8 DEF Clear
  <2>4. Replied
    BY <1>7, <2>1, <2>2, <2>3 DEF c, Replied, Words
  <2> QED
    BY <1>1, <1>3, <1>6, <1>8, <2>2, <2>3, <2>4 DEF c
<1>9. CASE Obeys(Head(asked))
  <2>1. CASE sink.at \in {"attach", "g_attach"}
    <3>1. /\ sup' = [sup EXCEPT !.hears = @ \cup {c}] /\ radio' = radio
          /\ wire' = [wire EXCEPT ![c] = Append(@, Line("OK", Nothing, 0))]
      BY <1>2, <1>4, <1>5, <1>9, <2>1 DEF Obeys, Armings
    <3>2. /\ sup'.up = sup.up /\ sup'.sock = sup.sock /\ sup'.saves = sup.saves
          /\ sup'.nets = sup.nets /\ sup'.group = sup.group /\ sup'.forming = sup.forming
          /\ sup'.hears = sup.hears \cup {c}
      BY <3>1 DEF Shape
    <3>3. Replied
      BY <2>1, <3>1 DEF c, Replied, At, Words
    <3> QED
      BY <1>1, <1>3, <1>4, <1>6, <2>1, <3>1, <3>2, <3>3 DEF c, At, Clear
  <2>2. CASE sink.at \in {"set", "scan"}
    <3>1. /\ sup' = sup /\ radio' = radio
          /\ wire' = [wire EXCEPT ![c] = Append(@, Line("OK", Nothing, 0))]
      BY <1>2, <1>5, <1>9, <2>2 DEF Obeys, Armings
    <3>2. Replied
      BY <2>2, <3>1 DEF c, Replied, At, Words
    <3> QED
      BY <1>1, <1>3, <1>6, <2>2, <3>1, <3>2 DEF c, At, Clear
  <2>3. CASE sink.at = "list"
    <3>1. /\ sup' = sup /\ radio' = radio
          /\ wire' = [wire EXCEPT ![c] = Append(@, Line("NETS", Nothing, Right(sup.nets)))]
      BY <1>2, <1>5, <1>9, <2>3 DEF Obeys, Armings, Right
    <3>2. Replied
      BY <1>6, <2>3, <3>1 DEF c, Replied, At, Words
    <3> QED
      BY <1>1, <1>3, <1>6, <2>3, <3>1, <3>2 DEF c, At, Clear
  <2>4. CASE sink.at = "add"
    <3>1. AddsGroup(Head(asked)) /\ Head(asked).n = sink.stored
      BY <1>2, <1>9, <2>4 DEF Obeys, Armings, Argument
    <3>2. sup.group = 0 /\ sup.forming = 0 /\ sink.stored = Right(sup.nets)
      BY <1>7, <2>4 DEF At, Clear
    <3>3. wire' = [wire EXCEPT ![c] = Append(@, Line("OK", Nothing, 0))]
      BY <1>2, <1>5, <3>1, <3>2 DEF AddsGroup
    <3>4. PICK f : /\ sup' = [sup EXCEPT !.forming = f] /\ f \in Pos
                   /\ sup.nets = <<>> \/ f = Head(sup.nets)
                   /\ DOMAIN radio' = DOMAIN radio /\ radio'.creds = radio.creds
                   /\ radio'.made \in Nat /\ radio'.enrolling = radio.enrolling
      <4>1. CASE sink.stored # 0
        BY <1>6, <3>1, <3>2, <4>1 DEF AddsGroup, Right, Pos
      <4>2. CASE sink.stored = 0
        <5>1. sup.nets = <<>>
          BY <1>6, <3>2, <4>2 DEF Right, Pos
        <5>2. /\ sup' = [sup EXCEPT !.forming = radio.made + 1]
              /\ radio' = [radio EXCEPT !.made = @ + 1]
          BY <3>1, <3>2, <4>2 DEF AddsGroup
        <5> QED
          BY <1>6, <5>1, <5>2 DEF Pos
      <4> QED
        BY <4>1, <4>2
    <3>5. /\ sup'.up = sup.up /\ sup'.sock = sup.sock /\ sup'.saves = sup.saves
          /\ sup'.nets = sup.nets /\ sup'.group = sup.group /\ sup'.forming = f
          /\ sup'.hears = sup.hears
      BY <3>4 DEF Shape
    <3>6. Replied
      BY <2>4, <3>3, <3>4, <3>5 DEF c, Replied, At, Pos, Words
    <3> QED
      BY <1>1, <1>3, <1>6, <2>4, <3>4, <3>5, <3>6 DEF c, At
  <2>5. CASE sink.at \in Armings
    <3>1. \/ /\ sup' = [sup EXCEPT !.pin = Head(asked).n, !.walk = WalkTime] /\ radio' = radio
             /\ wire' = [wire EXCEPT ![c] = Append(@, Line("OK", Nothing, 0))]
          \/ /\ sup' = sup /\ radio' = radio
             /\ wire' = [wire EXCEPT ![c] = Append(@, Line("FAIL", Nothing, 0))]
      BY <1>2, <1>5, <1>9, <2>5 DEF Obeys, Armings
    <3>2. /\ sup'.up = sup.up /\ sup'.sock = sup.sock /\ sup'.saves = sup.saves
          /\ sup'.nets = sup.nets /\ sup'.group = sup.group /\ sup'.forming = sup.forming
          /\ sup'.hears = sup.hears /\ radio' = radio
      BY <3>1 DEF Shape
    <3>3. ~At("list") /\ ~At("add") /\ ~At("attach") /\ ~At("remove")
      BY <2>5 DEF At, Armings
    <3>4. Replied
      BY <3>1, <3>3 DEF c, Replied, Words
    <3> QED
      BY <1>1, <1>3, <1>6, <3>2, <3>3, <3>4 DEF c, Clear
  <2>6. CASE sink.at = "remove"
    <3>1. /\ sup' = [sup EXCEPT !.group = 0, !.forming = 0, !.pin = 0, !.walk = 0]
          /\ radio' = Scattered
          /\ wire' = [wire EXCEPT ![c] = Append(@, Line("OK", Nothing, 0))]
      BY <1>2, <1>5, <1>9, <2>6 DEF Obeys, Armings
    <3>2. /\ sup'.up = sup.up /\ sup'.sock = sup.sock /\ sup'.saves = sup.saves
          /\ sup'.nets = sup.nets /\ sup'.group = 0 /\ sup'.forming = 0
          /\ sup'.hears = sup.hears
      BY <3>1 DEF Shape
    <3>3. /\ DOMAIN radio' = DOMAIN radio /\ radio'.creds = radio.creds
          /\ radio'.made = radio.made /\ radio'.enrolling = Nothing
      BY <1>6, <3>1 DEF Scattered
    <3>4. Replied
      BY <2>6, <3>1 DEF c, Replied, At, Words
    <3> QED
      BY <1>1, <1>3, <1>6, <2>6, <3>2, <3>3, <3>4 DEF c, At, Clear
  <2> QED
    BY <1>1, <2>1, <2>2, <2>3, <2>4, <2>5, <2>6, Tables DEF Armings
<1> QED
  BY <1>3, <1>8, <1>9

LEMMA AnswersKeeps ==
  ASSUME Shape, SoundInv, Answers
  PROVE  SoundInv'
<1>1. /\ sink.waits /\ asked' = <<>> /\ sup.up /\ UNCHANGED <<disk, sink, pending>>
      /\ sink.at \in Commands
      /\ sup'.up /\ sup'.sock = sup.sock /\ sup'.saves = sup.saves /\ sup'.nets = sup.nets
      /\ sup.hears \subseteq sup'.hears
      /\ DOMAIN radio' = DOMAIN radio /\ radio'.creds = radio.creds
      /\ radio'.made \in Nat /\ radio'.enrolling \in Sources \cup {Nothing}
      /\ sup'.group \in {0, sup.group}
      /\ sup'.forming # 0 => sup'.forming \in Pos
                             /\ (sup.nets = <<>> \/ sup'.forming = Head(sup.nets))
      /\ At("remove") => Clear'
      /\ ~At("add") /\ Clear => Clear'
      /\ At("attach") => "w" \in sup'.hears
  BY AnswersWith
<1> DEFINE c == ControlOf[sink.at]
<1>2. PICK e \in Words, n \in Nat :
        /\ wire' = [wire EXCEPT ![c] = Append(@, Line(e, Nothing, n))]
        /\ At("list") => n = Right(sup.nets)
        /\ At("add") => IF e = "FAIL" THEN Clear' ELSE sup'.forming # 0
  BY AnswersWith DEF Replied
<1> DEFINE line == Line(e, Nothing, n)
<1>3. c \in {"w", "g"}
  BY <1>1, Tables
<1>4. line \in Lines /\ ~IsEvent(line) /\ line.e = e /\ line.n = n
  BY Written
<1>5. ~Obeyed
  BY DEF Answers, Obeyed
<1>6. \A d \in {"w", "g"} : \A i \in DOMAIN wire[d] : IsEvent(wire[d][i])
  BY <1>5, NoAnswer DEF SoundInv
<1>7. wire \in [{"w", "g"} -> Seq(Lines)]
  BY DEF SoundInv, Channels
<1>8. /\ Append(wire[c], line) \in Seq(Lines)
      /\ \A i \in DOMAIN Append(wire[c], line) :
           \/ i \in DOMAIN wire[c] /\ Append(wire[c], line)[i] = wire[c][i]
           \/ i = Len(wire[c]) + 1 /\ Append(wire[c], line)[i] = line
  <2>1. wire[c] \in Seq(Lines)
    BY <1>3, <1>7
  <2> HIDE DEF line, c
  <2> QED
    BY <1>4, <2>1, LinesAppend
<1> HIDE DEF c, line
<1>9. /\ wire' \in [{"w", "g"} -> Seq(Lines)] /\ wire'[c] = Append(wire[c], line)
      /\ \A d \in {"w", "g"} : d # c => wire'[d] = wire[d]
  BY <1>2, <1>3, <1>7, <1>8 DEF line
<1>10. Channels'
  BY <1>1, <1>9 DEF SoundInv, Channels
<1>11. Files' /\ Stored' = Stored
  BY <1>1 DEF SoundInv, Files, Stored, At
<1>12. Keys'
  BY <1>1, <1>11 DEF SoundInv, Keys
<1>13. Group'
  BY <1>1 DEF SoundInv, Group
<1>14. Asking'
  BY <1>1 DEF Asking
<1>15. OneAnswer'
  <2> SUFFICES ASSUME NEW d \in {"w", "g"}, NEW i \in DOMAIN wire'[d], ~IsEvent(wire'[d][i])
               PROVE  /\ Obeyed' /\ d = ControlOf[sink'.at]
                      /\ \A j \in DOMAIN wire'[d] : IsEvent(wire'[d][j]) \/ i = j
                      /\ At("list")' /\ sup'.up => wire'[d][i].n = Right(sup'.nets)
                      /\ At("add")' /\ sup'.up =>
                           IF wire'[d][i].e = "FAIL" THEN Clear' ELSE Coming'
    BY DEF OneAnswer
  <2>1. d = c
    BY <1>6, <1>9
  <2>2. i = Len(wire[c]) + 1 /\ wire'[d][i] = line
    BY <1>3, <1>6, <1>8, <1>9, <2>1
  <2>3. ASSUME NEW j \in DOMAIN wire'[d], ~IsEvent(wire'[d][j])
        PROVE  i = j
    <3>1. j \in DOMAIN Append(wire[c], line) /\ ~IsEvent(Append(wire[c], line)[j])
      BY <1>9, <2>1, <2>3
    <3>2. j \notin DOMAIN wire[c] \/ Append(wire[c], line)[j] # wire[c][j]
      BY <1>3, <1>6, <3>1
    <3>3. j = Len(wire[c]) + 1
      BY <1>8, <3>1, <3>2
    <3> QED
      BY <2>2, <3>3
  <2>4. At("add") /\ e # "FAIL" => Coming'
    BY <1>2 DEF Coming
  <2> QED
    BY <1>1, <1>2, <1>4, <2>1, <2>2, <2>3, <2>4 DEF Obeyed, At, c
<1>16. Places'
  <2>1. sink.at \in {"ensure", "open", "attach", "set", "scan", "list"} => Clear'
    BY <1>1 DEF SoundInv, Places, At
  <2>2. ~At("pause") /\ ~At("wait")
    BY <1>1, Tables DEF At
  <2>3. Obeyed'
    BY <1>1 DEF Obeyed
  <2>4. sink.at \in {"set", "scan", "list", "add"} => "w" \in sup'.hears
    BY <1>1 DEF SoundInv, Places
  <2> QED
    BY <1>1, <2>1, <2>2, <2>3, <2>4 DEF SoundInv, Places, At
<1> QED
  BY <1>10, <1>11, <1>12, <1>13, <1>14, <1>15, <1>16 DEF SoundInv
-----------------------------------------------------------------------------
(* The radio's invariant, and what it is for. *)

LEMMA RadioBegins == GroupInit => RadioInv
<1> SUFFICES ASSUME GroupInit PROVE RadioInv
  OBVIOUS
<1>1. Shape /\ ReadOnly
  BY BaseBegins
<1>2. PICK b \in Budgets : b = left
  BY DEF GroupInit
<1>3. /\ left.conf \in [tmpl : Nat, nets : Seq(Pos)]
      /\ left.paired # {} => left.conf.nets # <<>> /\ Head(left.conf.nets) = 1
  BY <1>2, GroupAssumption DEF Pos
<1>4. /\ disk = [tmpl |-> 1, conf |-> left.conf, stamp |-> left.conf.tmpl] /\ sink = NewPass
      /\ sup = NoSupplicant /\ wire = Quiet /\ pending = Quiet /\ asked = <<>>
      /\ radio = [in |-> {}, creds |-> [m \in Sources |-> IF m \in left.paired THEN 1 ELSE 0],
                lease |-> [m \in Sources |-> "none"], asks |-> {}, enrolling |-> Nothing,
                digits |-> 0, made |-> Len(left.conf.nets)]
  BY DEF GroupInit
<1>5. sink.at = "ensure" /\ ~sink.waits /\ sink.file = "working"
  BY <1>4 DEF NewPass
<1>6. ~sup.up /\ Clear
  BY <1>4 DEF NoSupplicant, Clear
<1>7. Stored = left.conf.nets
  BY <1>4, <1>5 DEF Stored, At
<1>8. Files
  BY <1>3, <1>4, <1>5, <1>6, <1>7 DEF Files, At
<1>9. Keys
  BY <1>3, <1>4, <1>7 DEF Keys
<1>10. Group
  BY <1>6 DEF Group, Clear
<1>11. Channels /\ Asking /\ OneAnswer
  BY <1>4, <1>5, QuietChannels DEF Channels, Asking, OneAnswer
<1>12. Places
  BY <1>5, <1>6 DEF Places, At, Serves
<1> QED
  BY <1>1, <1>8, <1>9, <1>10, <1>11, <1>12 DEF RadioInv, SoundInv

LEMMA SoundStep ==
  ASSUME Shape, ReadOnly, Sound, SoundInv, GroupNext, Sound'
  PROVE  SoundInv'
<1>1. CASE SinkThread
  <2>1. CASE \E cmd \in Commands : Sends(cmd) \/ ReadsLine(cmd)
    BY <2>1, SendsKeeps, ReadsLineKeeps
  <2> QED
    BY <1>1, <2>1, EnsureKeeps, ConfKeeps, WritesKeeps, StampsKeeps, SpawnsKeeps, OpensKeeps,
       WaitsKeeps, InterfaceKeeps, MintsKeeps, PausesKeeps, StartsPassKeeps, DrainsKeeps,
       HandlesKeeps, AddressesKeeps DEF SinkThread
<1>2. CASE \E cmd \in Commands : TimesOut(cmd)
  BY <1>2, TimesOutKeeps
<1>3. CASE \E m \in Sources : Joins(m) \/ Leaves(m) \/ Provisions(m) \/ Asks(m)
  BY <1>3, StationsKeep
<1> QED
  BY <1>1, <1>2, <1>3, AnswersKeeps, ComesUpKeeps, GroupFailsKeeps, DiesKeeps, EnrolsKeeps,
     StopsKeeps, TickKeeps, KilledKeeps, DeploysKeeps DEF GroupNext

LEMMA RadioStep == RadioInv /\ [GroupNext]_groupVars => RadioInv'
<1> SUFFICES ASSUME RadioInv, [GroupNext]_groupVars PROVE RadioInv'
  OBVIOUS
<1>1. CASE GroupNext
  <2>1. Shape /\ ReadOnly
    BY DEF RadioInv
  <2>2. Shape' /\ ReadOnly'
    BY <1>1, <2>1, BaseStep
  <2>3. ASSUME Sound' PROVE SoundInv'
    <3>1. Sound
      BY <1>1, <2>1, <2>3, SoundBefore
    <3>2. SoundInv
      BY <3>1 DEF RadioInv
    <3> QED
      BY <1>1, <2>1, <2>3, <3>1, <3>2, SoundStep
  <2> QED
    BY <2>2, <2>3 DEF RadioInv
<1>2. CASE UNCHANGED groupVars
  BY <1>2 DEF groupVars, RadioInv, Shape, ReadOnly, Sound, SoundInv, Files, Keys, Group, Channels,
     Asking, OneAnswer, Places, At, Stored, Clear, Coming, Obeyed, Argument
<1> QED
  BY <1>1, <1>2

LEMMA RadioReturns == RadioInv => PairedSourcesReturn
<1> SUFFICES ASSUME RadioInv, sup.saves, ~lost, sup.group # 0, NEW m \in Sources
             PROVE  radio.creds[m] \in {0, sup.group}
  BY DEF PairedSourcesReturn
<1>1. SoundInv
  BY DEF RadioInv, ReadOnly, Sound
<1>2. sup.up /\ sup.group = Head(sup.nets)
  BY <1>1 DEF SoundInv, Group, Clear
<1>3. Stored = sup.nets
  BY <1>1, <1>2 DEF SoundInv, Files, Stored, At, Boots
<1> QED
  BY <1>1, <1>2, <1>3 DEF SoundInv, Keys

(* A source that paired once gets back in without a PIN, over restarts,     *)
(* deploys and lost groups: PairedSourcesReturn, for any sources, stored    *)
(* groups and faults (p2p.rs's stored group, supplicant_conf.rs's reseed).  *)
THEOREM PairedSourcesComeBack == GroupSpec => []PairedSourcesReturn
<1>1. GroupSpec => []RadioInv
  BY RadioBegins, RadioStep, PTL DEF GroupSpec
<1> QED
  BY <1>1, RadioReturns, PTL
=============================================================================
