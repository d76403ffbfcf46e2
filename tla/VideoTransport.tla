--------------------------- MODULE VideoTransport ---------------------------
(***************************************************************************)
(* Video frames over unreliable datagrams: the sender's packetizer and     *)
(* retransmit buffer (castr-proto/packetize.rs, castr-net/retransmit.rs,   *)
(* the send and NACK branches of castr-sender/cast.rs), a network that     *)
(* loses and reorders datagrams, and the receiver's reassembler with its   *)
(* NACK tick (castr-proto/reassemble.rs, stream() in                       *)
(* castr-receiver/pipeline.rs).                                            *)
(*                                                                         *)
(* A payload is abstracted to the position of its frame in the stream and  *)
(* the index of the fragment.  One time unit stands for the 20 ms NACK     *)
(* tick.  A datagram that is never delivered is lost.                      *)
(***************************************************************************)
EXTENDS FrameOrder, FiniteSets, FiniteSetsExt, Sequences

CONSTANTS
  None,
  FirstNumber,      \* Packetizer.next_frame at the start
  MaxFragments,     \* bound: fragments of one frame
  MaxFrames,        \* bound: frames sent
  MaxTime,          \* bound: the last clock tick
  MaxNacks,         \* bound: NACKs the flow-controlled stream holds
  Rtts,             \* values the connection's round trip estimate takes
  NackFloor,        \* the 20 ms floor of min_gap
  DecodeMargin,     \* DECODE_MARGIN_US
  RepairWindow,     \* GAP_WAIT_US, passed to tick as repair_window_us
  MaxAge,           \* Reassembler::new(500_000).max_age_us
  RtxMaxAge,        \* RetransmitBuffer::new(500_000).max_age_us
  RetainFor         \* how long last_nack keeps an entry

ASSUME TransportAssumption ==
  /\ None \notin Int
  /\ FirstNumber \in FrameNumber
  /\ MaxFragments \in Nat \ {0}
  /\ MaxFrames \in Nat /\ MaxFrames < HalfRange
  /\ Rtts \subseteq Nat
  /\ {NackFloor, DecodeMargin, RepairWindow, MaxAge, RtxMaxAge, RetainFor} \subseteq Nat

VARIABLES
  now, rtt,         \* the clock and link.rtt()
  sent,             \* frames sent: their keyframe flag and fragment count
  rtx,              \* RetransmitBuffer.frames
  net,              \* the fragments in flight; the network loses a second copy
  nacks,            \* the NACK stream, in order
  partial, newest_completed, lost,   \* the Reassembler
  last_nack,        \* stream()'s rate limit
  completed         \* how often each frame was handed to the jitter buffer

vars == <<now, rtt, sent, rtx, net, nacks, partial, newest_completed, lost,
          last_nack, completed>>

Fragment == (1 .. MaxFrames) \X (0 .. (MaxFragments - 1))
Partial == [pos : 1 .. MaxFrames, key : BOOLEAN, count : 1 .. MaxFragments, seen : Nat,
            got : SUBSET (0 .. (MaxFragments - 1))]
Pending == DOMAIN partial

(* Packetizer.next_frame before the i-th frame. *)
StreamNumber(i) == (FirstNumber + i - 1) % FrameModulus
Number(f) == StreamNumber(f[1])

(* The function g without the keys outside S. *)
Only(g, S) == [x \in DOMAIN g \cap S |-> g[x]]
With(g, x, v) == [y \in DOMAIN g \cup {x} |-> IF y = x THEN v ELSE g[y]]
Nothing == [x \in {} |-> None]

Init ==
  /\ now = 0
  /\ rtt \in Rtts
  /\ sent = <<>>
  /\ rtx = <<>>
  /\ net = {}
  /\ nacks = <<>>
  /\ partial = Nothing
  /\ newest_completed = None
  /\ lost = 0
  /\ last_nack = Nothing
  /\ completed = [i \in 1 .. MaxFrames |-> 0]
-----------------------------------------------------------------------------
(* The sender *)

(* RetransmitBuffer::prune, applied to the queue q: the front goes while   *)
(* it is too old.                                                          *)
Fresh(s) == now - s.sent_at <= RtxMaxAge

Prune(q) ==
  LET keep == {i \in DOMAIN q : Fresh(q[i])}
      first == CHOOSE i \in 1 .. (Len(q) + 1) :
                 /\ \A j \in 1 .. (i - 1) : j \notin keep
                 /\ i <= Len(q) => i \in keep
  IN SubSeq(q, first, Len(q))

(* packetize, record for retransmission, and send every fragment. *)
SendFrame(key, count) ==
  LET i == Len(sent) + 1
      frame == [key |-> key, count |-> count]
      record == [num |-> StreamNumber(i), pos |-> i, count |-> count, sent_at |-> now]
  IN /\ i <= MaxFrames
     /\ sent' = Append(sent, frame)
     /\ rtx' = Prune(Append(rtx, record))
     /\ net' = net \cup ({i} \X (0 .. (count - 1)))
     /\ UNCHANGED <<now, rtt, nacks, partial, newest_completed, lost, last_nack,
                    completed>>

(* lookup: the fragments to resend for a NACK; unknown indices are skipped. *)
Lookup(q, n) ==
  {<<q[i].pos, j>> : i \in {k \in DOMAIN q :
                              /\ q[k].num = n.num
                              /\ \A l \in 1 .. (k - 1) : q[l].num # n.num},
                     j \in n.missing} \cap
  {f \in Fragment : f[1] \in DOMAIN sent /\ f[2] < sent[f[1]].count}

(* The sender reads the next NACK and resends what it still has. *)
AnswerNack ==
  /\ nacks # <<>>
  /\ nacks' = Tail(nacks)
  /\ rtx' = Prune(rtx)
  /\ net' = net \cup Lookup(rtx', Head(nacks))
  /\ UNCHANGED <<now, rtt, sent, partial, newest_completed, lost, last_nack,
                 completed>>
-----------------------------------------------------------------------------
(* The receiver *)

(* Mutant: the newest completed frame itself is not recognised. *)
StaleOnlyIfOlder(n) ==
  /\ newest_completed # None
  /\ ~NewerOrEq(n, newest_completed)
  /\ n \notin Pending

(* Mutant: everything at or below the watermark is dropped. *)
StaleEvenIfPending(n) ==
  /\ newest_completed # None
  /\ ~NewerOrEq(n, newest_completed) \/ n = newest_completed

(* push: the fragment belongs to a completed frame, or to one given up on. *)
Stale(n) ==
  /\ newest_completed # None
  /\ ~NewerOrEq(n, newest_completed) \/ n = newest_completed
  /\ n \notin Pending

(* The partial frame that fragment f goes into: entry().or_insert_with(). *)
Entry(f) ==
  LET s == sent[f[1]]
  IN IF Number(f) \in Pending
     THEN partial[Number(f)]
     ELSE [pos |-> f[1], key |-> s.key, count |-> s.count, seen |-> now, got |-> {}]

(* The newer of the watermark and a frame that has just completed. *)
Watermark(n) ==
  IF newest_completed = None \/ NewerOrEq(n, newest_completed) THEN n ELSE newest_completed

(* Accept fragment f, completing its frame when it was the last one. *)
Accept(f) ==
  LET n == Number(f)
      e == Entry(f)
      got == e.got \cup {f[2]}
  IN IF Cardinality(got) < e.count
     THEN /\ partial' = With(partial, n, [e EXCEPT !.got = got])
          /\ UNCHANGED <<newest_completed, completed>>
     ELSE /\ partial' = Only(partial, Pending \ {n})
          /\ newest_completed' = Watermark(n)
          /\ completed' = [completed EXCEPT ![e.pos] = @ + 1]

(* A datagram arrives; a repeated fragment is ignored. *)
Receive(f) ==
  /\ net' = net \ {f}
  /\ IF Stale(Number(f))
     THEN UNCHANGED <<partial, newest_completed, completed>>
     ELSE Accept(f)
  /\ UNCHANGED <<now, rtt, sent, rtx, nacks, lost, last_nack>>

(* Mutant: keyframes never expire. *)
ExpiredDelta(n) == ~partial[n].key /\ now - partial[n].seen > MaxAge

Expired(n) == now - partial[n].seen > MaxAge
InTime(n) == now + rtt + DecodeMargin < partial[n].seen + RepairWindow
Missing(n) == (0 .. (partial[n].count - 1)) \ partial[n].got

(* Reassembler::tick: the frames to ask for, expired ones left out. *)
Wanted == {n \in Pending : ~Expired(n) /\ (partial[n].key \/ InTime(n))}

MinGap == IF rtt > NackFloor THEN rtt ELSE NackFloor

(* The rate limit: frames asked for in this tick. *)
Due == {n \in Wanted : n \notin DOMAIN last_nack \/ now - last_nack[n] >= MinGap}

(* BTreeMap order. *)
InNumberOrder(S) ==
  CHOOSE q \in [1 .. Cardinality(S) -> S] : \A i, j \in DOMAIN q : i < j => q[i] < q[j]

(* Fragments the frames in S never got. *)
MissingOf(S) == MapThenSumSet(LAMBDA n : Cardinality(Missing(n)), S)

(* The 20 ms tick: expire, ask again, forget frames no longer pending. *)
NackTick ==
  LET expired == {n \in Pending : Expired(n)}
      order == InNumberOrder(Due)
      stamped == [n \in DOMAIN last_nack \cup Due |-> IF n \in Due THEN now ELSE last_nack[n]]
  IN /\ Len(nacks) + Cardinality(Due) <= MaxNacks
     /\ lost' = lost + MissingOf(expired)
     /\ partial' = Only(partial, Pending \ expired)
     /\ nacks' = nacks \o [i \in DOMAIN order |-> [num |-> order[i], missing |-> Missing(order[i])]]
     /\ last_nack' = Only(stamped, {n \in Wanted : now - stamped[n] < RetainFor})
     /\ UNCHANGED <<now, rtt, sent, rtx, net, newest_completed, completed>>

(* fragments_lost: the stats tick takes the counter. *)
TakeLost ==
  /\ lost' = 0
  /\ UNCHANGED <<now, rtt, sent, rtx, net, nacks, partial, newest_completed, last_nack,
                 completed>>
-----------------------------------------------------------------------------
Clock ==
  /\ now < MaxTime
  /\ now' = now + 1
  /\ UNCHANGED <<rtt, sent, rtx, net, nacks, partial, newest_completed, lost, last_nack,
                 completed>>

(* The connection's round trip estimate moves. *)
RttChange(r) ==
  /\ rtt' = r
  /\ UNCHANGED <<now, sent, rtx, net, nacks, partial, newest_completed, lost, last_nack,
                 completed>>

Next ==
  \/ \E key \in BOOLEAN, count \in 1 .. MaxFragments : SendFrame(key, count)
  \/ AnswerNack
  \/ \E f \in net : Receive(f)
  \/ NackTick
  \/ TakeLost
  \/ Clock
  \/ \E r \in Rtts : RttChange(r)

Spec == Init /\ [][Next]_vars

(* stream()'s interval fires, the sender's select loop reads NACKs and     *)
(* time passes; nothing is assumed of the network.                         *)
FairSpec == Spec /\ WF_vars(NackTick) /\ WF_vars(AnswerNack) /\ WF_vars(Clock)
-----------------------------------------------------------------------------
Completed == {i \in DOMAIN completed : completed[i] > 0}

(* The transport is a frame delivery service: only frames that were sent,  *)
(* each at most once, although fragments are repeated by NACK answers, the *)
(* watermark compares wrapped numbers and frames expire and come back      *)
(* (Reassembler::push).                                                    *)
Delivery == INSTANCE FrameDelivery WITH offered <- Len(sent), handed <- completed
DeliversFrames == Delivery!Spec

(* Newer frames completing do not cut off a frame under repair: while it   *)
(* is pending, a fragment it misses is always taken.                       *)
RepairGoesOn ==
  [][\A f \in net :
       f \notin net' /\ Number(f) \in Pending =>
         \/ completed'[f[1]] > completed[f[1]]
         \/ f[2] \in partial'[Number(f)].got]_vars

(* Repair ends, and by giving up it is reported: a frame that leaves repair *)
(* incomplete adds its missing fragments to the loss counter of the next   *)
(* stats message, and again and again no frame is under repair whose age   *)
(* limit lies within the horizon (Reassembler::tick).                      *)
RepairEnds ==
  /\ [][\A n \in Pending :
          n \notin DOMAIN partial' /\ completed' = completed => lost' > lost]_vars
  /\ []<>(\A n \in Pending : partial[n].seen + MaxAge >= MaxTime)
=============================================================================
