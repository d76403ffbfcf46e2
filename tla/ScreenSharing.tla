---------------------------- MODULE ScreenSharing ----------------------------
(***************************************************************************)
(* Two protocols and one screen: the castr connection handler              *)
(* (network_main in castr-receiver pipeline.rs), the Miracast sink         *)
(* (MiracastSink), the thread that carries the sink's events to the        *)
(* receiver (miracast-events) and the decode and render loop, which all    *)
(* share the display arbiter, one jitter buffer and one overlay.           *)
(*                                                                         *)
(* A handler frees the display, then flushes the buffer, then writes the   *)
(* overlay: three steps between which the other threads run.  Every frame  *)
(* here is a keyframe; JitterBuffer has the rest of the buffer's rules.    *)
(* Castr numbers frames from 0 in each cast, the events thread from 0 once  *)
(* per run of the receiver.                                                *)
(***************************************************************************)
EXTENDS MiracastSink

CONSTANT MaxFrames  \* bound: frames of each protocol

VARIABLES
  castr,            \* how far the castr connection is
  overlay,          \* the text over the picture
  queue,            \* JitterBuffer.frames: who sent each, and its number
  last,             \* JitterBuffer.last_popped
  frame_number,     \* the events thread's counter
  castr_number      \* the castr sender's counter

shareVars == <<castr, overlay, queue, last, frame_number, castr_number>>
vars == <<owner, group, life, held, rtsp, heard, session_peer, clients, echo, pin, out,
          castr, overlay, queue, last, frame_number, castr_number>>
sinkOwn == <<group, life, held, rtsp, heard, session_peer, clients, echo, pin>>

Init ==
  /\ SinkInit
  /\ castr = "none"
  /\ overlay = "Idle"
  /\ queue = <<>>
  /\ last = None
  /\ frame_number = 0
  /\ castr_number = 0

(* JitterBuffer::push: a number not newer than the last one out is too old. *)
TooOld(n) == last # None /\ n <= last

Push(who, n) ==
  IF TooOld(n) \/ \E i \in DOMAIN queue : queue[i].num = n
  THEN queue
  ELSE SelectSeq(queue, LAMBDA f : f.num < n)
         \o <<[by |-> who, num |-> n]>>
         \o SelectSeq(queue, LAMBDA f : f.num > n)
-----------------------------------------------------------------------------
(* The castr connection handler *)
CastrConnect ==
  /\ castr = "none" /\ castr' = "hello"
  /\ UNCHANGED <<owner, out, overlay, queue, last, frame_number, castr_number>>
  /\ UNCHANGED sinkOwn

(* An unpaired sender says Hello: its PIN goes over whatever is shown. *)
CastrPair ==
  /\ castr = "hello"
  /\ overlay' = "CastrPin"
  /\ UNCHANGED <<owner, out, castr, queue, last, frame_number, castr_number>>
  /\ UNCHANGED sinkOwn

(* Hello is answered and the display is free; a resumed session clears the *)
(* overlay and, through set_mode, the buffer.                              *)
CastrStream ==
  /\ castr = "hello"
  /\ Free("Castr")
  /\ owner' = "Castr"
  /\ castr' = "stream"
  /\ \/ UNCHANGED <<overlay, queue>>
     \/ overlay' = "none" /\ queue' = <<>>
  /\ UNCHANGED <<out, last, frame_number, castr_number>>
  /\ UNCHANGED sinkOwn

(* Display busy, not paired, a bad token, or the connection is lost. *)
CastrRefused ==
  /\ castr = "hello" /\ castr' = "ended"
  /\ UNCHANGED <<owner, out, overlay, queue, last, frame_number, castr_number>>
  /\ UNCHANGED sinkOwn

(* StartStream: a new buffer, and the overlay goes. *)
CastrStartStream ==
  /\ castr = "stream" /\ castr' = "video"
  /\ queue' = <<>>
  /\ last' = None
  /\ overlay' = "none"
  /\ castr_number' = 0
  /\ UNCHANGED <<owner, out, frame_number>>
  /\ UNCHANGED sinkOwn

(* SetMode discards what is queued. *)
CastrSetMode ==
  /\ castr \in {"stream", "video"}
  /\ queue' = <<>>
  /\ UNCHANGED <<owner, out, castr, overlay, last, frame_number, castr_number>>
  /\ UNCHANGED sinkOwn

CastrFrame ==
  /\ castr \in {"stream", "video"}
  /\ castr_number < MaxFrames
  /\ queue' = Push("Castr", castr_number)
  /\ castr_number' = castr_number + 1
  /\ UNCHANGED <<owner, out, castr, overlay, last, frame_number>>
  /\ UNCHANGED sinkOwn

(* Goodbye, or the connection is lost. *)
CastrEnds ==
  /\ castr \in {"stream", "video"} /\ castr' = "ended"
  /\ UNCHANGED <<owner, out, overlay, queue, last, frame_number, castr_number>>
  /\ UNCHANGED sinkOwn

(* Mutant: a connection that ends frees the display whoever has it. *)
CastrReleaseAny ==
  /\ castr = "ended" /\ castr' = "released"
  /\ owner' = "Idle"
  /\ UNCHANGED <<out, overlay, queue, last, frame_number, castr_number>>
  /\ UNCHANGED sinkOwn

CastrRelease ==
  /\ castr = "ended" /\ castr' = "released"
  /\ owner' = Released("Castr")
  /\ UNCHANGED <<out, overlay, queue, last, frame_number, castr_number>>
  /\ UNCHANGED sinkOwn

CastrFlush ==
  /\ castr = "released" /\ castr' = "flushed"
  /\ queue' = <<>>
  /\ UNCHANGED <<owner, out, overlay, last, frame_number, castr_number>>
  /\ UNCHANGED sinkOwn

(* "Reconnecting" when the session can be resumed. *)
CastrOverlay ==
  /\ castr = "flushed" /\ castr' = "none"
  /\ overlay' \in {"Idle", "Reconnecting"}
  /\ UNCHANGED <<owner, out, queue, last, frame_number, castr_number>>
  /\ UNCHANGED sinkOwn
-----------------------------------------------------------------------------
(* Mutant: the PIN stays up when it is taken back. *)
OverlayOfKeepsPin(msg) ==
  CASE msg = "Pin" -> "Pin"
    [] msg = "Idle" -> "Idle"
    [] msg = "Reconnecting" -> "Reconnecting"
    [] msg = "Started" -> "none"
    [] OTHER -> overlay

(* The text the events thread puts up for a message of the sink. *)
OverlayOf(msg) ==
  CASE msg = "Pin" -> "Pin"
    [] msg \in {"PinCleared", "Idle"} -> "Idle"
    [] msg = "Reconnecting" -> "Reconnecting"
    [] msg = "Started" -> "none"
    [] OTHER -> overlay

(* The events thread *)
Deliver ==
  /\ out # <<>>
  /\ out' = Tail(out)
  /\ overlay' = OverlayOf(Head(out))
  /\ queue' = CASE Head(out) = "Video" -> Push("Miracast", frame_number)
                [] Head(out) = "Ended" -> <<>>
                [] OTHER -> queue
  /\ frame_number' = IF Head(out) = "Video" THEN frame_number + 1 ELSE frame_number
  /\ UNCHANGED <<owner, castr, last, castr_number>>
  /\ UNCHANGED sinkOwn

(* Decode and present: pop hands out a queued frame and drops what is      *)
(* older; drawing it takes any text but a PIN off the screen.              *)
Present ==
  /\ \E k \in DOMAIN queue :
       /\ queue' = SubSeq(queue, k + 1, Len(queue))
       /\ last' = queue[k].num
  /\ overlay' = IF overlay \in {"Pin", "CastrPin"} THEN overlay ELSE "none"
  /\ UNCHANGED <<owner, out, castr, frame_number, castr_number>>
  /\ UNCHANGED sinkOwn

Videos(q) == Len(SelectSeq(q, LAMBDA msg : msg = "Video"))

Sink ==
  /\ SinkStep
  /\ frame_number + Videos(out') <= MaxFrames
  /\ UNCHANGED shareVars

Castr ==
  \/ CastrConnect \/ CastrPair \/ CastrStream \/ CastrRefused
  \/ CastrStartStream \/ CastrSetMode \/ CastrFrame \/ CastrEnds
  \/ CastrRelease \/ CastrFlush \/ CastrOverlay

Next == Sink \/ Castr \/ Deliver \/ Present

Spec == Init /\ [][Next]_vars

(* The events thread and the service loop run, a source that was heard     *)
(* from and has left the group is noticed by its silence, and 30 s of a    *)
(* hold go by; nothing is assumed of a connection that was never heard     *)
(* from, whose time-outs are not armed (rtsp.rs tick).  Fairness is strong *)
(* because the bound on out, unlike the unbounded channel it stands for,   *)
(* disables an action now and then.                                        *)
FairSpec ==
  /\ Spec
  /\ WF_vars(Deliver)
  /\ SF_vars(MintPin /\ UNCHANGED shareVars)
  /\ SF_vars(RtspEnds /\ heard /\ rtsp \notin clients /\ UNCHANGED shareVars)
  /\ SF_vars(HoldExpires /\ UNCHANGED shareVars)
-----------------------------------------------------------------------------
(* One cast on the screen: castr streams exactly while it owns the display, *)
(* never while a Miracast session streams or is held for its return, and a *)
(* connection the arbiter refused, or that ended, frees nobody else's.     *)
ScreenHasOneCast ==
  /\ castr \in {"stream", "video"} => owner = "Castr" /\ ~held
  /\ owner = "Castr" => castr \in {"stream", "video", "ended"}

(* "The screen and the supplicant must never disagree" (sink.rs:961), one  *)
(* half: a PIN on the screen of a group that is up is the PIN the registrar *)
(* was armed with, once the events thread has caught up.                   *)
PinOnScreenIsArmed ==
  overlay = "Pin" /\ group = "up" /\ out = <<>> => pin
=============================================================================
