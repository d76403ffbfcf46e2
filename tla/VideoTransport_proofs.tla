------------------------ MODULE VideoTransport_proofs ------------------------
(***************************************************************************)
(* For every modulus, round trip and time limit: the packetizer, the       *)
(* retransmit buffer and the reassembler together implement the frame      *)
(* delivery service, and repair is never cut off by newer frames.          *)
(***************************************************************************)
EXTENDS VideoTransport, SequenceTheorems, TLAPS

-----------------------------------------------------------------------------

(* The wrapping comparison of frame numbers, for every modulus: it is the  *)
(* order of the unwrapped counters as long as these are less than half the *)
(* range apart.                                                            *)

(* Division with remainder by the modulus. *)
LEMMA Division ==
  ASSUME NEW x \in Int
  PROVE  /\ x % FrameModulus \in FrameNumber
         /\ x \div FrameModulus \in Int
         /\ x = FrameModulus * (x \div FrameModulus) + (x % FrameModulus)
BY FrameModulusAssumption DEF FrameNumber

(* The remainder is the only number of the range that differs from x by a  *)
(* multiple of the modulus.                                                *)
LEMMA RemainderUnique ==
  ASSUME NEW x \in Int, NEW q \in Int, NEW r \in FrameNumber,
         x = FrameModulus * q + r
  PROVE  x % FrameModulus = r
BY FrameModulusAssumption DEF FrameNumber

(* Half the range is less than half the modulus. *)
LEMMA HalfRangeBound == HalfRange \in Nat /\ 2 * HalfRange < FrameModulus
BY FrameModulusAssumption DEF HalfRange

(* The distance of two wrapped counters is their distance, modulo. *)
LEMMA WrappedDistance ==
  ASSUME NEW x \in Int, NEW y \in Int
  PROVE  ((x % FrameModulus) - (y % FrameModulus)) % FrameModulus = (x - y) % FrameModulus
<1> DEFINE m == FrameModulus
           qx == x \div m
           qy == y \div m
           rx == x % m
           ry == y % m
           d == (x - y) \div m
           r == (x - y) % m
<1>1. m \in Nat /\ qx \in Int /\ qy \in Int /\ rx \in Int /\ ry \in Int /\ d \in Int /\ r \in FrameNumber
  BY Division, FrameModulusAssumption DEF FrameNumber
<1>2. x = m * qx + rx /\ y = m * qy + ry /\ x - y = m * d + r
  BY Division
<1> HIDE DEF m, qx, qy, rx, ry, d, r
<1>3. r \in Int
  BY <1>1, FrameModulusAssumption DEF FrameNumber
<1>4. rx - ry = m * (d - qx + qy) + r
  <2>1. rx - ry = m * d + r - m * qx + m * qy
    BY <1>1, <1>2, <1>3
  <2>2. m * (d - qx + qy) = m * d - m * qx + m * qy
    BY <1>1
  <2> QED
    BY <2>1, <2>2, <1>1, <1>3
<1>5. rx - ry \in Int /\ d - qx + qy \in Int
  BY <1>1
<1>6. (rx - ry) % FrameModulus = r
  BY <1>1, <1>4, <1>5, RemainderUnique DEF m
<1> QED
  BY <1>6 DEF rx, ry, r, m

(* frame_newer_or_eq on the wrapped numbers of two counters less than half *)
(* the range apart is the order of the counters.                           *)
LEMMA NewerIsLater ==
  ASSUME NEW x \in Int, NEW y \in Int, x - y < HalfRange, y - x < HalfRange
  PROVE  NewerOrEq(x % FrameModulus, y % FrameModulus) <=> x >= y
<1>1. HalfRange \in Nat /\ 2 * HalfRange < FrameModulus /\ FrameModulus \in Nat
  BY HalfRangeBound, FrameModulusAssumption
<1>2. CASE x >= y
  <2>1. x - y \in FrameNumber /\ x - y = FrameModulus * 0 + (x - y)
    BY <1>1, <1>2 DEF FrameNumber
  <2>2. (x - y) % FrameModulus = x - y
    BY <2>1, RemainderUnique
  <2> QED
    BY <1>2, <2>2, WrappedDistance DEF NewerOrEq
<1>3. CASE x < y
  <2>1. /\ x - y + FrameModulus \in FrameNumber
        /\ x - y = FrameModulus * (-1) + (x - y + FrameModulus)
    BY <1>1, <1>3 DEF FrameNumber
  <2>2. (x - y) % FrameModulus = x - y + FrameModulus
    BY <2>1, RemainderUnique
  <2>3. ~(x - y + FrameModulus < HalfRange)
    BY <1>1
  <2> QED
    BY <1>3, <2>2, <2>3, WrappedDistance DEF NewerOrEq
<1> QED
  BY <1>2, <1>3

(* Counters less than half the range apart have different numbers. *)
LEMMA DifferentNumbers ==
  ASSUME NEW x \in Int, NEW y \in Int, x - y < HalfRange, y - x < HalfRange,
         x % FrameModulus = y % FrameModulus
  PROVE  x = y
<1>1. NewerOrEq(x % FrameModulus, y % FrameModulus) <=> x >= y
  BY NewerIsLater
<1>2. NewerOrEq(y % FrameModulus, x % FrameModulus) <=> y >= x
  BY NewerIsLater
<1> QED
  BY <1>1, <1>2
-----------------------------------------------------------------------------

(* Within one stream a frame number names one position. *)
LEMMA OnePosition ==
  ASSUME NEW i \in 1 .. MaxFrames, NEW j \in 1 .. MaxFrames,
         StreamNumber(i) = StreamNumber(j)
  PROVE  i = j
<1> DEFINE x == FirstNumber + i - 1
           y == FirstNumber + j - 1
<1>1. /\ x \in Int /\ y \in Int /\ x - y < HalfRange /\ y - x < HalfRange
      /\ x = y => i = j
  BY TransportAssumption, HalfRangeBound DEF FrameNumber
<1>2. x % FrameModulus = y % FrameModulus
  BY DEF StreamNumber
<1> HIDE DEF x, y
<1> QED
  BY <1>1, <1>2, DifferentNumbers

(* The wrapping comparison of two numbers of the stream is the order of    *)
(* their positions.                                                        *)
LEMMA NewerPosition ==
  ASSUME NEW i \in 1 .. MaxFrames, NEW j \in 1 .. MaxFrames
  PROVE  NewerOrEq(StreamNumber(i), StreamNumber(j)) <=> i >= j
<1> DEFINE x == FirstNumber + i - 1
           y == FirstNumber + j - 1
<1>1. /\ x \in Int /\ y \in Int /\ x - y < HalfRange /\ y - x < HalfRange
      /\ x >= y <=> i >= j
  BY TransportAssumption, HalfRangeBound DEF FrameNumber
<1> HIDE DEF x, y
<1>2. NewerOrEq(x % FrameModulus, y % FrameModulus) <=> x >= y
  BY <1>1, NewerIsLater
<1> QED
  BY <1>1, <1>2 DEF x, y, StreamNumber

SentFrame == [key : BOOLEAN, count : 1 .. MaxFragments]

(* The sender's side: what is in flight belongs to a frame that was sent. *)
SenderInv ==
  /\ now \in Nat
  /\ sent \in Seq(SentFrame)
  /\ Len(sent) <= MaxFrames
  /\ net \subseteq Fragment
  /\ \A f \in net : f[1] \in DOMAIN sent

(* A pending frame is filed under the number of its position and has not   *)
(* been handed over yet.                                                   *)
PendingInv ==
  /\ partial \in [Pending -> Partial]
  /\ \A n \in Pending : /\ partial[n].pos \in DOMAIN sent
                        /\ n = StreamNumber(partial[n].pos)
                        /\ completed[partial[n].pos] = 0

(* The watermark is at or past every frame that was handed over. *)
WatermarkInv ==
  /\ completed \in [1 .. MaxFrames -> {0, 1}]
  /\ newest_completed = None => \A i \in 1 .. MaxFrames : completed[i] = 0
  /\ newest_completed # None =>
       \E i \in DOMAIN sent :
         newest_completed = StreamNumber(i) /\ \A j \in 1 .. MaxFrames : j > i => completed[j] = 0

TransportInv == SenderInv /\ PendingInv /\ WatermarkInv

(* The fragment that arrives finds its own frame, which has not been       *)
(* handed over, unless push drops it.                                      *)
LEMMA EntryIsOwn ==
  ASSUME TransportInv, NEW f \in net, ~Stale(Number(f))
  PROVE  /\ Entry(f) \in Partial
         /\ Entry(f).pos = f[1]
         /\ f[1] \in DOMAIN sent /\ f[1] \in 1 .. MaxFrames
         /\ completed[f[1]] = 0
<1>1. f[1] \in DOMAIN sent /\ f \in Fragment
  BY DEF TransportInv, SenderInv
<1>2. f[1] \in 1 .. MaxFrames /\ f[2] \in 0 .. (MaxFragments - 1)
  BY <1>1 DEF Fragment
<1>3. DOMAIN sent \subseteq 1 .. MaxFrames
  BY LenProperties, TransportAssumption DEF TransportInv, SenderInv
<1>4. CASE Number(f) \in Pending
  <2>1. Entry(f) = partial[Number(f)]
    BY <1>4 DEF Entry
  <2>2. /\ partial[Number(f)] \in Partial
        /\ partial[Number(f)].pos \in DOMAIN sent
        /\ Number(f) = StreamNumber(partial[Number(f)].pos)
        /\ completed[partial[Number(f)].pos] = 0
    BY <1>4 DEF TransportInv, PendingInv
  <2>3. partial[Number(f)].pos = f[1]
    BY <1>2, <1>3, <2>2, OnePosition DEF Number
  <2> QED
    BY <1>1, <1>2, <2>1, <2>2, <2>3
<1>5. CASE Number(f) \notin Pending
  <2>1. Entry(f) = [pos |-> f[1], key |-> sent[f[1]].key, count |-> sent[f[1]].count,
                    seen |-> now, got |-> {}]
    BY <1>5 DEF Entry
  <2>2. sent[f[1]] \in SentFrame /\ now \in Nat
    BY <1>1 DEF TransportInv, SenderInv
  <2>3. Entry(f) \in Partial /\ Entry(f).pos = f[1]
    BY <1>2, <2>1, <2>2 DEF SentFrame, Partial
  <2>4. completed[f[1]] = 0
    <3>1. CASE newest_completed = None
      BY <1>2, <3>1 DEF TransportInv, WatermarkInv
    <3>2. CASE newest_completed # None
      <4>1. PICK i \in DOMAIN sent :
              newest_completed = StreamNumber(i) /\ \A j \in 1 .. MaxFrames : j > i => completed[j] = 0
        BY <3>2 DEF TransportInv, WatermarkInv
      <4>2. NewerOrEq(StreamNumber(f[1]), StreamNumber(i)) /\ f[1] # i
        BY <1>5, <3>2, <4>1 DEF Stale, Number
      <4>3. i \in 1 .. MaxFrames
        BY <1>3
      <4>4. f[1] >= i
        BY <1>2, <4>2, <4>3, NewerPosition
      <4>5. f[1] > i
        BY <1>2, <4>2, <4>3, <4>4, TransportAssumption
      <4> QED
        BY <1>2, <4>1, <4>5
    <3> QED
      BY <3>1, <3>2
  <2> QED
    BY <1>1, <1>2, <2>3, <2>4
<1> QED
  BY <1>4, <1>5

(* push: a fragment is added to its frame, and the frame it completes is   *)
(* handed over for the first time, under a watermark that covers it.       *)
LEMMA AcceptStep ==
  ASSUME TransportInv, NEW f \in net, ~Stale(Number(f)), Accept(f),
         UNCHANGED <<now, sent>>, net' = net \ {f}
  PROVE  /\ TransportInv'
         /\ completed' = completed
              \/ completed' = [completed EXCEPT ![f[1]] = 1]
         /\ completed[f[1]] = 0 /\ f[1] \in 1 .. Len(sent) /\ f[1] \in 1 .. MaxFrames
         /\ completed'[f[1]] = 1 \/ (Number(f) \in Pending' /\ f[2] \in partial'[Number(f)].got)
<1> DEFINE n == Number(f)
           e == Entry(f)
           got == e.got \cup {f[2]}
<1>1. /\ e \in Partial /\ e.pos = f[1]
      /\ f[1] \in DOMAIN sent /\ f[1] \in 1 .. MaxFrames
      /\ completed[f[1]] = 0
  BY EntryIsOwn
<1>2. n = StreamNumber(f[1]) /\ f[2] \in 0 .. (MaxFragments - 1)
  BY DEF Number, TransportInv, SenderInv, Fragment
<1>3. SenderInv'
  BY DEF TransportInv, SenderInv
<1>4. /\ partial \in [Pending -> Partial]
      /\ \A m \in Pending : /\ partial[m].pos \in DOMAIN sent
                            /\ m = StreamNumber(partial[m].pos)
                            /\ completed[partial[m].pos] = 0
  BY DEF TransportInv, PendingInv
<1>5. DOMAIN sent = 1 .. Len(sent) /\ DOMAIN sent \subseteq 1 .. MaxFrames /\ sent' = sent
  BY LenProperties, TransportAssumption DEF TransportInv, SenderInv
<1>6. completed \in [1 .. MaxFrames -> {0, 1}]
  BY DEF TransportInv, WatermarkInv
<1> HIDE DEF n, e
<1>7. CASE Cardinality(got) < e.count
  <2>1. /\ partial' = With(partial, n, [e EXCEPT !.got = got])
        /\ newest_completed' = newest_completed /\ completed' = completed
    BY <1>7 DEF Accept, n, e
  <2> DEFINE filled == [e EXCEPT !.got = got]
  <2>2. filled \in Partial /\ filled.pos = f[1] /\ f[2] \in filled.got
    BY <1>1, <1>2 DEF Partial
  <2> HIDE DEF filled
  <2>3. /\ Pending' = Pending \cup {n}
        /\ \A m \in Pending' : partial'[m] = IF m = n THEN filled ELSE partial[m]
        /\ partial' \in [Pending' -> Partial]
    BY <1>4, <2>1, <2>2 DEF With, Pending, filled
  <2>4. PendingInv'
    <3>1. filled.pos \in DOMAIN sent /\ n = StreamNumber(filled.pos) /\ completed[filled.pos] = 0
      BY <1>1, <1>2, <2>2
    <3>2. \A m \in Pending' : /\ partial'[m].pos \in DOMAIN sent
                              /\ m = StreamNumber(partial'[m].pos)
                              /\ completed[partial'[m].pos] = 0
      BY <1>4, <2>3, <3>1
    <3> QED
      BY <1>5, <2>1, <2>3, <3>2 DEF PendingInv
  <2>5. WatermarkInv'
    BY <1>5, <2>1 DEF TransportInv, WatermarkInv
  <2>6. n \in Pending' /\ f[2] \in partial'[n].got
    BY <2>2, <2>3
  <2> QED
    BY <1>1, <1>3, <1>5, <2>1, <2>4, <2>5, <2>6 DEF TransportInv, n
<1>8. CASE ~(Cardinality(got) < e.count)
  <2>1. /\ partial' = Only(partial, Pending \ {n})
        /\ newest_completed' = Watermark(n)
        /\ completed' = [completed EXCEPT ![f[1]] = @ + 1]
    BY <1>1, <1>8 DEF Accept, n, e
  <2>2. completed' = [completed EXCEPT ![f[1]] = 1]
    BY <1>1, <1>6, <2>1
  <2>3. completed' \in [1 .. MaxFrames -> {0, 1}] /\ completed'[f[1]] = 1
    BY <1>1, <1>6, <2>2
  <2>4. \A j \in 1 .. MaxFrames : j # f[1] => completed'[j] = completed[j]
    BY <1>6, <2>2
  <2>5. /\ Pending' = Pending \ {n}
        /\ \A m \in Pending' : partial'[m] = partial[m]
        /\ partial' \in [Pending' -> Partial]
    BY <1>4, <2>1 DEF Only, Pending
  <2>6. PendingInv'
    <3>1. \A m \in Pending' : partial[m].pos # f[1] /\ partial[m].pos \in 1 .. MaxFrames
      BY <1>2, <1>4, <1>5, <2>5
    <3> QED
      BY <1>4, <1>5, <2>4, <2>5, <3>1 DEF PendingInv
  <2>7. WatermarkInv'
    <3>1. CASE newest_completed = None
      <4>1. newest_completed' = StreamNumber(f[1])
        BY <1>2, <2>1, <3>1 DEF Watermark
      <4>2. \A j \in 1 .. MaxFrames : j > f[1] => completed'[j] = 0
        BY <1>1, <2>4, <3>1, TransportAssumption DEF TransportInv, WatermarkInv
      <4>3. newest_completed' # None
        <5>1. StreamNumber(f[1]) \in Int
          BY <1>1, TransportAssumption, FrameModulusAssumption DEF StreamNumber, FrameNumber
        <5> QED
          BY <4>1, <5>1, TransportAssumption
      <4> QED
        BY <1>1, <1>5, <2>3, <4>1, <4>2, <4>3 DEF WatermarkInv
    <3>2. CASE newest_completed # None
      <4>1. PICK i \in DOMAIN sent :
              newest_completed = StreamNumber(i) /\ \A j \in 1 .. MaxFrames : j > i => completed[j] = 0
        BY <3>2 DEF TransportInv, WatermarkInv
      <4>2. i \in 1 .. MaxFrames /\ (NewerOrEq(n, newest_completed) <=> f[1] >= i)
        BY <1>1, <1>2, <1>5, <4>1, NewerPosition
      <4>3. StreamNumber(f[1]) \in Int
        BY <1>1, TransportAssumption, FrameModulusAssumption DEF StreamNumber, FrameNumber
      <4>4. CASE f[1] >= i
        <5>1. newest_completed' = StreamNumber(f[1]) /\ newest_completed' # None
          BY <1>2, <2>1, <4>2, <4>3, <4>4, TransportAssumption DEF Watermark
        <5>2. \A j \in 1 .. MaxFrames : j > f[1] => j > i /\ j # f[1]
          BY <1>1, <4>2, <4>4, TransportAssumption
        <5>3. \A j \in 1 .. MaxFrames : j > f[1] => completed'[j] = 0
          BY <2>4, <4>1, <5>2
        <5> QED
          BY <1>1, <1>5, <2>3, <5>1, <5>3 DEF WatermarkInv
      <4>5. CASE ~(f[1] >= i)
        <5>1. newest_completed' = newest_completed
          BY <2>1, <3>2, <4>2, <4>5 DEF Watermark
        <5>2. \A j \in 1 .. MaxFrames : j > i => j # f[1]
          BY <1>1, <4>2, <4>5, TransportAssumption
        <5>3. \A j \in 1 .. MaxFrames : j > i => completed'[j] = 0
          BY <2>4, <4>1, <5>2
        <5> QED
          BY <1>5, <2>3, <3>2, <4>1, <5>1, <5>3 DEF WatermarkInv
      <4> QED
        BY <4>4, <4>5
    <3> QED
      BY <3>1, <3>2
  <2> QED
    BY <1>1, <1>3, <1>5, <2>2, <2>3, <2>6, <2>7 DEF TransportInv
<1> QED
  BY <1>7, <1>8

(* A fragment that push drops changes nothing but the network. *)
LEMMA ReceiveStep ==
  ASSUME TransportInv, NEW f \in net, Receive(f)
  PROVE  /\ TransportInv'
         /\ completed' = completed
              \/ (completed[f[1]] = 0 /\ f[1] \in 1 .. Len(sent)
                    /\ completed' = [completed EXCEPT ![f[1]] = 1])
         /\ Len(sent') = Len(sent)
<1>1. now' = now /\ sent' = sent /\ net' = net \ {f}
  BY DEF Receive
<1>2. CASE Stale(Number(f))
  <2>1. partial' = partial /\ newest_completed' = newest_completed /\ completed' = completed
    BY <1>2 DEF Receive
  <2>2. TransportInv'
    BY <1>1, <2>1 DEF TransportInv, SenderInv, PendingInv, WatermarkInv, Pending
  <2> QED
    BY <1>1, <2>1, <2>2
<1>3. CASE ~Stale(Number(f))
  <2>1. Accept(f)
    BY <1>3 DEF Receive
  <2> QED
    BY <1>1, <1>3, <2>1, AcceptStep
<1> QED
  BY <1>2, <1>3

(* Giving up on frames leaves the others as they were. *)
LEMMA TickStep ==
  ASSUME TransportInv, NackTick
  PROVE  TransportInv' /\ completed' = completed /\ sent' = sent /\ net' = net
<1>1. /\ now' = now /\ sent' = sent /\ net' = net
      /\ newest_completed' = newest_completed /\ completed' = completed
  BY DEF NackTick
<1>2. PICK kept : partial' = Only(partial, kept)
  BY DEF NackTick
<1>3. Pending' \subseteq Pending /\ partial' \in [Pending' -> Partial]
      /\ \A n \in Pending' : partial'[n] = partial[n]
  BY <1>2 DEF Only, Pending, TransportInv, PendingInv
<1>4. PendingInv'
  BY <1>1, <1>3 DEF TransportInv, PendingInv
<1> QED
  BY <1>1, <1>4 DEF TransportInv, SenderInv, WatermarkInv

(* A new frame extends the stream; what is filed and watched stays valid. *)
LEMMA SendStep ==
  ASSUME TransportInv, NEW key \in BOOLEAN, NEW count \in 1 .. MaxFragments, SendFrame(key, count)
  PROVE  TransportInv' /\ completed' = completed /\ Len(sent') = Len(sent) + 1
         /\ Len(sent) < MaxFrames /\ net \subseteq net'
<1> DEFINE i == Len(sent) + 1
           frame == [key |-> key, count |-> count]
<1>1. /\ i <= MaxFrames /\ sent' = Append(sent, frame)
      /\ net' = net \cup ({i} \X (0 .. (count - 1)))
      /\ now' = now /\ partial' = partial /\ newest_completed' = newest_completed
      /\ completed' = completed
  BY DEF SendFrame
<1>2. frame \in SentFrame /\ sent \in Seq(SentFrame) /\ Len(sent) \in Nat
  BY LenProperties DEF SentFrame, TransportInv, SenderInv
<1> HIDE DEF frame
<1>3. sent' \in Seq(SentFrame) /\ Len(sent') = Len(sent) + 1
  BY <1>1, <1>2, AppendProperties
<1>4. DOMAIN sent = 1 .. Len(sent) /\ DOMAIN sent' = 1 .. (Len(sent) + 1)
  BY <1>2, <1>3, LenProperties
<1>5. DOMAIN sent \subseteq DOMAIN sent' /\ i \in DOMAIN sent' /\ i \in 1 .. MaxFrames
  BY <1>1, <1>2, <1>4, TransportAssumption
<1>6. 0 .. (count - 1) \subseteq 0 .. (MaxFragments - 1)
  BY TransportAssumption
<1> HIDE DEF i
<1>7. SenderInv'
  <2>1. net' \subseteq Fragment
    BY <1>1, <1>5, <1>6 DEF Fragment, TransportInv, SenderInv
  <2>2. \A f \in net' : f[1] \in DOMAIN sent'
    BY <1>1, <1>5 DEF TransportInv, SenderInv
  <2>3. now' \in Nat
    BY <1>1 DEF TransportInv, SenderInv
  <2>4. Len(sent') <= MaxFrames
    BY <1>1, <1>3 DEF i
  <2> QED
    BY <1>3, <2>1, <2>2, <2>3, <2>4 DEF SenderInv
<1>8. PendingInv' /\ WatermarkInv'
  BY <1>1, <1>5 DEF TransportInv, PendingInv, WatermarkInv, Pending
<1>9. Len(sent) < MaxFrames
  BY <1>1, <1>2, TransportAssumption DEF i
<1> QED
  BY <1>1, <1>3, <1>7, <1>8, <1>9 DEF TransportInv

(* A NACK is answered from frames that were sent. *)
LEMMA AnswerStep ==
  ASSUME TransportInv, AnswerNack
  PROVE  TransportInv' /\ completed' = completed /\ sent' = sent /\ net \subseteq net'
<1>1. /\ net' = net \cup Lookup(rtx', Head(nacks))
      /\ now' = now /\ sent' = sent /\ partial' = partial
      /\ newest_completed' = newest_completed /\ completed' = completed
  BY DEF AnswerNack
<1>2. \A f \in Lookup(rtx', Head(nacks)) : f \in Fragment /\ f[1] \in DOMAIN sent
  BY DEF Lookup
<1>3. SenderInv'
  BY <1>1, <1>2 DEF TransportInv, SenderInv
<1> QED
  BY <1>1, <1>3 DEF TransportInv, PendingInv, WatermarkInv, Pending

(* The invariant holds in the beginning, when nothing was sent. *)
LEMMA TransportInit == Init => TransportInv
<1> SUFFICES ASSUME Init PROVE TransportInv
  OBVIOUS
<1>1. now = 0 /\ sent = <<>> /\ net = {} /\ partial = Nothing /\ newest_completed = None
  BY DEF Init
<1>2. completed = [i \in 1 .. MaxFrames |-> 0]
  BY DEF Init
<1>3. Pending = {} /\ partial \in [Pending -> Partial]
  BY <1>1 DEF Nothing, Pending
<1>4. SenderInv
  BY <1>1, TransportAssumption DEF SenderInv
<1>5. PendingInv
  BY <1>3 DEF PendingInv
<1>6. WatermarkInv
  BY <1>1, <1>2 DEF WatermarkInv
<1> QED
  BY <1>4, <1>5, <1>6 DEF TransportInv

(* Every step keeps it, and hands over at most one frame, a frame that was *)
(* sent and not handed over before.                                        *)
LEMMA TransportStep ==
  ASSUME TransportInv, [Next]_vars
  PROVE  /\ TransportInv'
         /\ \/ completed' = completed /\ Len(sent') = Len(sent)
            \/ completed' = completed /\ Len(sent') = Len(sent) + 1 /\ Len(sent) < MaxFrames
            \/ /\ Len(sent') = Len(sent)
               /\ \E i \in 1 .. Len(sent) :
                    completed[i] = 0 /\ completed' = [completed EXCEPT ![i] = 1]
<1>1. CASE \E key \in BOOLEAN, count \in 1 .. MaxFragments : SendFrame(key, count)
  BY <1>1, SendStep
<1>2. CASE AnswerNack
  BY <1>2, AnswerStep
<1>3. CASE \E f \in net : Receive(f)
  BY <1>3, ReceiveStep
<1>4. CASE NackTick
  BY <1>4, TickStep
<1>5. CASE TakeLost \/ Clock \/ (\E r \in Rtts : RttChange(r)) \/ UNCHANGED vars
  <2>1. /\ sent' = sent /\ net' = net /\ partial' = partial
        /\ newest_completed' = newest_completed /\ completed' = completed
        /\ now' = now \/ now' = now + 1
    BY <1>5 DEF TakeLost, Clock, RttChange, vars
  <2>2. SenderInv'
    BY <2>1 DEF TransportInv, SenderInv
  <2> QED
    BY <2>1, <2>2 DEF TransportInv, PendingInv, WatermarkInv, Pending
<1> QED
  BY <1>1, <1>2, <1>3, <1>4, <1>5 DEF Next

(* The transport is a frame delivery service: only frames that were sent,  *)
(* each at most once, although fragments are repeated by NACK answers, the *)
(* watermark compares wrapped numbers and frames expire and come back      *)
(* (Reassembler::push, tick; RetransmitBuffer).                            *)
THEOREM TransportRefinesDelivery == Spec => DeliversFrames
<1>1. Init => Delivery!Init
  BY DEF Init, Delivery!Init
<1>2. TransportInv /\ [Next]_vars => [Delivery!Next]_(Delivery!dvars)
  <2> SUFFICES ASSUME TransportInv, [Next]_vars PROVE [Delivery!Next]_(Delivery!dvars)
    OBVIOUS
  <2> USE DEF Delivery!Next, Delivery!dvars
  <2>1. CASE completed' = completed /\ Len(sent') = Len(sent)
    BY <2>1
  <2>2. CASE completed' = completed /\ Len(sent') = Len(sent) + 1 /\ Len(sent) < MaxFrames
    BY <2>2 DEF Delivery!Offer
  <2>3. CASE /\ Len(sent') = Len(sent)
             /\ \E i \in 1 .. Len(sent) :
                  completed[i] = 0 /\ completed' = [completed EXCEPT ![i] = 1]
    BY <2>3 DEF Delivery!HandOver
  <2> QED
    BY <2>1, <2>2, <2>3, TransportStep
<1>3. TransportInv /\ [Next]_vars => TransportInv'
  BY TransportStep
<1> QED
  BY <1>1, <1>2, <1>3, TransportInit, PTL DEF Spec, DeliversFrames, Delivery!Spec

(* Newer frames completing never cut off a frame under repair: while it is *)
(* pending, push takes every fragment it misses (reassemble.rs push).      *)
THEOREM RepairIsNotCutOff == Spec => RepairGoesOn
<1> DEFINE Taken == \A f \in net :
             f \notin net' /\ Number(f) \in Pending =>
               \/ completed'[f[1]] > completed[f[1]]
               \/ f[2] \in partial'[Number(f)].got
<1>1. TransportInv /\ [Next]_vars => [Taken]_vars
  <2> SUFFICES ASSUME TransportInv, Next, NEW f \in net, f \notin net', Number(f) \in Pending
               PROVE  \/ completed'[f[1]] > completed[f[1]]
                      \/ f[2] \in partial'[Number(f)].got
    OBVIOUS
  <2>1. PICK g \in net : Receive(g)
    BY SendStep, AnswerStep, TickStep DEF Next, TakeLost, Clock, RttChange
  <2>2. g = f
    BY <2>1 DEF Receive
  <2>3. ~Stale(Number(f))
    BY DEF Stale
  <2>4. Accept(f) /\ UNCHANGED <<now, sent>> /\ net' = net \ {f}
    BY <2>1, <2>2, <2>3 DEF Receive
  <2> QED
    BY <2>3, <2>4, AcceptStep
<1>2. TransportInv /\ [Next]_vars => TransportInv'
  BY TransportStep
<1> QED
  BY <1>1, <1>2, TransportInit, PTL DEF Spec, RepairGoesOn
=============================================================================
