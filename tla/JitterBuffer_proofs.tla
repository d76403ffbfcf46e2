------------------------ MODULE JitterBuffer_proofs ------------------------
(***************************************************************************)
(* Proofs about the jitter buffer, for every modulus, delay and depth:     *)
(* its types, the playout base pop relies on, that the decoder is never    *)
(* handed a delta frame whose reference it does not hold, that the queue   *)
(* is in the order of the stream and that no frame goes uncounted.         *)
(***************************************************************************)
EXTENDS JitterBuffer, SequenceTheorems, TLAPS

-----------------------------------------------------------------------------

(* The wrapping comparison of frame numbers, for every modulus: it is the  *)
(* order of the unwrapped counters as long as these are less than half the *)
(* range apart.                                                            *)

(* Division with remainder by the modulus. *)
LEMMA Division ==
  ASSUME NEW x \in Int
  PROVE  /\ x % FrameModulus \in FrameNumber
         /\ x \div FrameModulus \in Int
         /\ x = FrameModulus * (x \div FrameModulus) + (x % FrameModulus)
BY FrameModulusAssumption DEF FrameNumber

(* The remainder is the only number of the range that differs from x by a  *)
(* multiple of the modulus.                                                *)
LEMMA RemainderUnique ==
  ASSUME NEW x \in Int, NEW q \in Int, NEW r \in FrameNumber,
         x = FrameModulus * q + r
  PROVE  x % FrameModulus = r
BY FrameModulusAssumption DEF FrameNumber

(* Half the range is less than half the modulus. *)
LEMMA HalfRangeBound == HalfRange \in Nat /\ 2 * HalfRange < FrameModulus
BY FrameModulusAssumption DEF HalfRange

(* The distance of two wrapped counters is their distance, modulo. *)
LEMMA WrappedDistance ==
  ASSUME NEW x \in Int, NEW y \in Int
  PROVE  ((x % FrameModulus) - (y % FrameModulus)) % FrameModulus = (x - y) % FrameModulus
<1> DEFINE m == FrameModulus
           qx == x \div m
           qy == y \div m
           rx == x % m
           ry == y % m
           d == (x - y) \div m
           r == (x - y) % m
<1>1. m \in Nat /\ qx \in Int /\ qy \in Int /\ rx \in Int /\ ry \in Int /\ d \in Int /\ r \in FrameNumber
  BY Division, FrameModulusAssumption DEF FrameNumber
<1>2. x = m * qx + rx /\ y = m * qy + ry /\ x - y = m * d + r
  BY Division
<1> HIDE DEF m, qx, qy, rx, ry, d, r
<1>3. r \in Int
  BY <1>1, FrameModulusAssumption DEF FrameNumber
<1>4. rx - ry = m * (d - qx + qy) + r
  <2>1. rx - ry = m * d + r - m * qx + m * qy
    BY <1>1, <1>2, <1>3
  <2>2. m * (d - qx + qy) = m * d - m * qx + m * qy
    BY <1>1
  <2> QED
    BY <2>1, <2>2, <1>1, <1>3
<1>5. rx - ry \in Int /\ d - qx + qy \in Int
  BY <1>1
<1>6. (rx - ry) % FrameModulus = r
  BY <1>1, <1>4, <1>5, RemainderUnique DEF m
<1> QED
  BY <1>6 DEF rx, ry, r, m

(* frame_newer_or_eq on the wrapped numbers of two counters less than half *)
(* the range apart is the order of the counters.                           *)
THEOREM NewerIsLater ==
  ASSUME NEW x \in Int, NEW y \in Int, x - y < HalfRange, y - x < HalfRange
  PROVE  NewerOrEq(x % FrameModulus, y % FrameModulus) <=> x >= y
<1>1. HalfRange \in Nat /\ 2 * HalfRange < FrameModulus /\ FrameModulus \in Nat
  BY HalfRangeBound, FrameModulusAssumption
<1>2. CASE x >= y
  <2>1. x - y \in FrameNumber /\ x - y = FrameModulus * 0 + (x - y)
    BY <1>1, <1>2 DEF FrameNumber
  <2>2. (x - y) % FrameModulus = x - y
    BY <2>1, RemainderUnique
  <2> QED
    BY <1>2, <2>2, WrappedDistance DEF NewerOrEq
<1>3. CASE x < y
  <2>1. /\ x - y + FrameModulus \in FrameNumber
        /\ x - y = FrameModulus * (-1) + (x - y + FrameModulus)
    BY <1>1, <1>3 DEF FrameNumber
  <2>2. (x - y) % FrameModulus = x - y + FrameModulus
    BY <2>1, RemainderUnique
  <2>3. ~(x - y + FrameModulus < HalfRange)
    BY <1>1
  <2> QED
    BY <1>3, <2>2, <2>3, WrappedDistance DEF NewerOrEq
<1> QED
  BY <1>2, <1>3

(* Counters less than half the range apart have different numbers. *)
LEMMA DifferentNumbers ==
  ASSUME NEW x \in Int, NEW y \in Int, x - y < HalfRange, y - x < HalfRange,
         x % FrameModulus = y % FrameModulus
  PROVE  x = y
<1>1. NewerOrEq(x % FrameModulus, y % FrameModulus) <=> x >= y
  BY NewerIsLater
<1>2. NewerOrEq(y % FrameModulus, x % FrameModulus) <=> y >= x
  BY NewerIsLater
<1> QED
  BY <1>1, <1>2
-----------------------------------------------------------------------------

(* A frame number produced by the sender's counter is a frame number. *)
LEMMA StreamNumberType ==
  ASSUME NEW i \in Nat, i > 0
  PROVE  StreamNumber(i) \in FrameNumber
BY FrameModulusAssumption, JitterAssumption DEF StreamNumber, FrameNumber

(* Inserting a frame into the queue, at any position, adds at most it. *)
LEMMA QueuedType ==
  ASSUME frames \in Seq(Frame), NEW f \in Frame, NEW p \in 1 .. (Len(frames) + 1)
  PROVE  Queued(f, p) \in Seq(Frame)
<1>1. SubSeq(frames, 1, p - 1) \in Seq(Frame)
  OBVIOUS
<1>2. SubSeq(frames, p, Len(frames)) \in Seq(Frame)
  OBVIOUS
<1>3. <<f>> \in Seq(Frame)
  OBVIOUS
<1> QED
  BY <1>1, <1>2, <1>3 DEF Queued

(* What take does to the queue, the counters and the decoder's frame. *)
LEMMA TakeType ==
  ASSUME TypeOK, NEW k \in 1 .. Len(frames), Take(k)
  PROVE  /\ frames' \in Seq(Frame)
         /\ dropped' \in Nat
         /\ last_popped' \in FrameNumber
         /\ gap_since' = None
         /\ out' \in Frame
         /\ account' \in Int
         /\ out'.num = last_popped'
         /\ frames' # <<>> => frames # <<>>
<1>1. frames[k] \in Frame
  BY DEF TypeOK
<1>2. frames[k].num \in FrameNumber
  BY <1>1 DEF Frame
<1>3. frames' \in Seq(Frame) /\ frames # <<>>
  BY DEF TypeOK, Take
<1> QED
  BY <1>1, <1>2, <1>3 DEF TypeOK, Take

(* trim_waiting only shortens the queue. *)
LEMMA TrimType ==
  ASSUME TypeOK, TrimWaiting
  PROVE  frames' \in Seq(Frame) /\ dropped' \in Nat /\ (frames' # <<>> => frames # <<>>)
<1> DEFINE excess == IF Len(frames) > WaitMaxDepth THEN Len(frames) - WaitMaxDepth ELSE 0
<1>1. excess \in Nat
  BY JitterAssumption DEF TypeOK
<1>2. frames' = SubSeq(frames, excess + 1, Len(frames)) /\ dropped' = dropped + excess
  BY DEF TrimWaiting
<1> HIDE DEF excess
<1> QED
  BY <1>1, <1>2 DEF TypeOK

(* Every way pop can go keeps the types of what it writes. *)
LEMMA PopType ==
  ASSUME TypeOK, Pop
  PROVE  TypeOK'
<1> USE DEF TypeOK
<1>1. CASE PopFirstKeyframe
  BY <1>1, TakeType DEF PopFirstKeyframe, NewestKeyframe, Take
<1>2. CASE PopHold
  BY <1>2, TrimType DEF PopHold, Hand
<1>3. CASE PopGapJump
  BY <1>3, TakeType DEF PopGapJump, NewestKeyframe, Take
<1>4. CASE PopGapWait
  BY <1>4, TrimType DEF PopGapWait, Hand, GapStart
<1>5. CASE PopGapGiveUp
  BY <1>5 DEF PopGapGiveUp, Hand, GapStart, GiveUpOnGop
<1>6. CASE PopGame
  <2>1. CASE \E k \in 1 .. Len(frames) : Take(k) /\ UNCHANGED need_keyframe
    BY <2>1, TakeType DEF Take
  <2>2. CASE GiveUpOnGop /\ UNCHANGED gap_since /\ UNCHANGED Hand
    BY <2>2 DEF GiveUpOnGop, Hand
  <2> QED
    BY <1>6, <2>1, <2>2 DEF PopGame, InOrder
<1>7. CASE PopQuality
  <2>1. CASE \E k \in 1 .. Len(frames) : Take(k) /\ UNCHANGED need_keyframe
    BY <2>1, TakeType DEF Take
  <2>2. CASE GiveUpOnGop /\ UNCHANGED gap_since /\ UNCHANGED Hand
    BY <2>2 DEF GiveUpOnGop, Hand
  <2> QED
    BY <1>7, <2>1, <2>2 DEF PopQuality, InOrder
<1> QED
  BY <1>1, <1>2, <1>3, <1>4, <1>5, <1>6, <1>7 DEF Pop

(* The buffer's fields keep their types under every interleaving of the    *)
(* network task, the decode thread and the stats tick (jitter.rs).         *)
THEOREM TypeCorrect == Spec => []TypeOK
<1>1. Init => TypeOK
  BY DEF Init, TypeOK, Mode
<1>2. TypeOK /\ [Next]_vars => TypeOK'
  <2> SUFFICES ASSUME TypeOK, [Next]_vars PROVE TypeOK'
    OBVIOUS
  <2>1. ASSUME NEW key \in BOOLEAN, Encode(key) PROVE TypeOK'
    <3>1. [num |-> StreamNumber(Len(sent) + 1), ts |-> now, key |-> key] \in Frame
      BY StreamNumberType DEF TypeOK, Frame
    <3> QED
      BY <2>1, <3>1 DEF Encode, TypeOK
  <2>2. ASSUME NEW i \in inflight, Arrive(i) PROVE TypeOK'
    <3>1. sent[i] \in Frame
      BY DEF TypeOK
    <3>2. sent[i].ts \in Nat
      BY <3>1 DEF Frame
    <3>3. frames' \in Seq(Frame)
      BY <2>2, <3>1, QueuedType DEF Arrive, Push, TypeOK
    <3>4. dropped' \in Nat /\ base_us' \in Int \cup {None}
      BY <2>2, <3>2, JitterAssumption DEF Arrive, Push, TypeOK
    <3> QED
      BY <2>2, <3>3, <3>4 DEF Arrive, TypeOK
  <2>3. ASSUME Pop PROVE TypeOK'
    BY <2>3, PopType
  <2>4. ASSUME RequireKeyframe PROVE TypeOK'
    BY <2>4 DEF RequireKeyframe, TypeOK
  <2>5. ASSUME Flush PROVE TypeOK'
    BY <2>5 DEF Flush, Cleared, TypeOK
  <2>6. ASSUME NEW m \in Mode, SetMode(m) PROVE TypeOK'
    BY <2>6 DEF SetMode, Cleared, TypeOK
  <2>7. ASSUME NEW m \in Mode, StartStream(m) PROVE TypeOK'
    BY <2>7 DEF StartStream, Fresh, TypeOK
  <2>8. ASSUME TakeDropped PROVE TypeOK'
    BY <2>8 DEF TakeDropped, TypeOK
  <2>9. ASSUME Tick PROVE TypeOK'
    BY <2>9 DEF Tick, TypeOK
  <2>10. ASSUME UNCHANGED vars PROVE TypeOK'
    BY <2>10 DEF vars, TypeOK
  <2> QED
    BY <2>1, <2>2, <2>3, <2>4, <2>5, <2>6, <2>7, <2>8, <2>9, <2>10 DEF Next
<1> QED
  BY <1>1, <1>2, PTL DEF Spec

(* The playout base is known when a frame is queued, and a buffer that     *)
(* does not wait for a keyframe remembers the frame the decoder holds.     *)
THEOREM AlwaysReadyToPlay == Spec => []ReadyToPlay
<1>1. Init => ReadyToPlay
  BY DEF Init, ReadyToPlay
<1>2. TypeOK /\ ReadyToPlay /\ [Next]_vars => ReadyToPlay'
  <2> SUFFICES ASSUME TypeOK, ReadyToPlay, [Next]_vars PROVE ReadyToPlay'
    OBVIOUS
  <2>1. ASSUME NEW key \in BOOLEAN, Encode(key) PROVE ReadyToPlay'
    BY <2>1 DEF Encode, ReadyToPlay
  <2>2. ASSUME NEW i \in inflight, Arrive(i) PROVE ReadyToPlay'
    <3> sent[i] \in Frame
      BY DEF TypeOK
    <3>1. sent[i].ts \in Nat
      BY DEF Frame
    <3>2. frames' # <<>> => base_us' # None
      BY <2>2, <3>1, JitterAssumption DEF Arrive, Push, TypeOK, ReadyToPlay
    <3> QED
      BY <2>2, <3>2 DEF Arrive, ReadyToPlay
  <2>3. ASSUME Pop PROVE ReadyToPlay'
    <3>1. ASSUME NEW k \in 1 .. Len(frames), Take(k) PROVE ReadyToPlay'
      <4>1. last_popped' # None /\ out' # None
        BY <3>1, TakeType, JitterAssumption DEF FrameNumber
      <4>2. frames # <<>>
        BY <3>1
      <4> QED
        BY <3>1, <4>1, <4>2, TakeType DEF Take, ReadyToPlay
    <3>2. ASSUME TrimWaiting, UNCHANGED need_keyframe, UNCHANGED Hand PROVE ReadyToPlay'
      BY <3>2, TrimType DEF Hand, ReadyToPlay
    <3>3. ASSUME GiveUpOnGop PROVE ReadyToPlay'
      BY <3>3 DEF GiveUpOnGop, ReadyToPlay
    <3> QED
      BY <2>3, <3>1, <3>2, <3>3 DEF Pop, PopFirstKeyframe, PopHold, PopGapJump, PopGapWait,
         PopGapGiveUp, PopGame, PopQuality, NewestKeyframe, InOrder
  <2>4. ASSUME RequireKeyframe PROVE ReadyToPlay'
    BY <2>4 DEF RequireKeyframe, ReadyToPlay
  <2>5. ASSUME Flush PROVE ReadyToPlay'
    BY <2>5 DEF Flush, Cleared, ReadyToPlay
  <2>6. ASSUME NEW m \in Mode, SetMode(m) PROVE ReadyToPlay'
    BY <2>6 DEF SetMode, Cleared, ReadyToPlay
  <2>7. ASSUME NEW m \in Mode, StartStream(m) PROVE ReadyToPlay'
    BY <2>7 DEF StartStream, Fresh, ReadyToPlay
  <2>8. ASSUME TakeDropped PROVE ReadyToPlay'
    BY <2>8 DEF TakeDropped, ReadyToPlay
  <2>9. ASSUME Tick PROVE ReadyToPlay'
    BY <2>9 DEF Tick, ReadyToPlay
  <2>10. ASSUME UNCHANGED vars PROVE ReadyToPlay'
    BY <2>10 DEF vars, ReadyToPlay
  <2> QED
    BY <2>1, <2>2, <2>3, <2>4, <2>5, <2>6, <2>7, <2>8, <2>9, <2>10 DEF Next
<1> QED
  BY <1>1, <1>2, TypeCorrect, PTL DEF Spec

(* The decoder gets a delta frame only directly after the frame it refers  *)
(* to: every other way out of pop hands over a keyframe.                   *)
THEOREM DeltaSafe == Spec => DeltaFollowsItsReference
<1> DEFINE Safe == out' # out /\ ~out'.key => out # None /\ out'.num = NextNumber(out.num)
<1>1. TypeOK /\ ReadyToPlay /\ [Next]_vars => [Safe]_vars
  <2> SUFFICES ASSUME TypeOK, ReadyToPlay, Next, out' # out, ~out'.key
               PROVE  out # None /\ out'.num = NextNumber(out.num)
    BY DEF vars
  <2>1. Pop
    BY DEF Next, Encode, Arrive, RequireKeyframe, Flush, SetMode, StartStream, TakeDropped, Tick
  <2>2. PICK k \in 1 .. Len(frames) : Take(k) /\ (NewestKeyframe(k, k) \/ (k = 1 /\ InOrder))
    BY <2>1 DEF Pop, PopFirstKeyframe, PopHold, PopGapJump, PopGapWait,
       PopGapGiveUp, PopGame, PopQuality, NewestKeyframe, InOrder, Hand
  <2>3. out' = frames[k]
    BY <2>2 DEF Take
  <2>4. k = 1 /\ InOrder
    BY <2>2, <2>3 DEF NewestKeyframe
  <2>5. out # None /\ out.num = last_popped /\ last_popped # None
    BY <2>4 DEF InOrder, ReadyToPlay
  <2>6. frames[1].num = NextNumber(last_popped)
    BY <2>3, <2>4, <2>5 DEF InOrder, Gap
  <2> QED
    BY <2>3, <2>4, <2>5, <2>6
<1> QED
  BY <1>1, TypeCorrect, AlwaysReadyToPlay, PTL DEF Spec, DeltaFollowsItsReference
-----------------------------------------------------------------------------
(* The position in the stream that a frame number belongs to. *)
Index(n) == CHOOSE i \in 1 .. MaxFrames : n = StreamNumber(i)

(* Within one stream a number names one position, and the wrapping         *)
(* comparison of two numbers is the order of their positions.              *)
LEMMA IndexOfNumber ==
  ASSUME NEW i \in 1 .. MaxFrames
  PROVE  Index(StreamNumber(i)) = i
<1>1. ASSUME NEW j \in 1 .. MaxFrames, StreamNumber(i) = StreamNumber(j) PROVE i = j
  <2> DEFINE x == FirstNumber + i - 1
             y == FirstNumber + j - 1
  <2>1. x \in Int /\ y \in Int /\ x - y < HalfRange /\ y - x < HalfRange
    BY JitterAssumption, StreamAssumption, HalfRangeBound DEF FrameNumber
  <2>2. x % FrameModulus = y % FrameModulus
    BY <1>1 DEF StreamNumber
  <2> HIDE DEF x, y
  <2>3. x = y
    BY <2>1, <2>2, DifferentNumbers
  <2> QED
    BY <2>3, JitterAssumption, StreamAssumption DEF x, y, FrameNumber
<1> QED
  BY <1>1 DEF Index

(* push compares two frames of one stream by their positions. *)
LEMMA NewerIsLaterInStream ==
  ASSUME NEW i \in 1 .. MaxFrames, NEW j \in 1 .. MaxFrames
  PROVE  NewerOrEq(StreamNumber(i), StreamNumber(j)) <=> i >= j
<1> DEFINE x == FirstNumber + i - 1
           y == FirstNumber + j - 1
<1>1. /\ x \in Int /\ y \in Int /\ x - y < HalfRange /\ y - x < HalfRange
      /\ x >= y <=> i >= j
  BY JitterAssumption, StreamAssumption, HalfRangeBound DEF FrameNumber
<1> HIDE DEF x, y
<1>2. NewerOrEq(x % FrameModulus, y % FrameModulus) <=> x >= y
  BY <1>1, NewerIsLater
<1> QED
  BY <1>1, <1>2 DEF x, y, StreamNumber

(* The number of a frame that was sent and is no longer under way. *)
Arrived(n) == \E i \in DOMAIN sent \ inflight : n = StreamNumber(i)

(* The sender numbers its frames by position; what the buffer holds or has *)
(* handed out has arrived, so that push never meets a number twice; the    *)
(* queue is in the order of the stream and after the last frame out.       *)
StreamInv ==
  /\ Len(sent) <= MaxFrames
  /\ \A i \in DOMAIN sent : sent[i].num = StreamNumber(i)
  /\ \A q \in DOMAIN frames : Arrived(frames[q].num)
  /\ last_popped # None => Arrived(last_popped)
  /\ \A q, r \in DOMAIN frames : q < r => Index(frames[q].num) < Index(frames[r].num)
  /\ last_popped # None =>
       \A q \in DOMAIN frames : Index(last_popped) < Index(frames[q].num)

(* A step that drops the front of the queue, as trim_waiting, give_up and  *)
(* flush do, and sends nothing keeps the queue in order.                   *)
LEMMA FrontDropped ==
  ASSUME TypeOK, StreamInv, NEW k \in 1 .. (Len(frames) + 1),
         frames' = SubSeq(frames, k, Len(frames)),
         UNCHANGED <<last_popped, sent, inflight>>
  PROVE  StreamInv'
<1>1. Len(frames) \in Nat
  BY DEF TypeOK
<1>2. Len(frames') = Len(frames) - k + 1 /\ DOMAIN frames' = 1 .. (Len(frames) - k + 1)
  BY <1>1 DEF TypeOK
<1>3. \A q \in DOMAIN frames' : q + k - 1 \in DOMAIN frames /\ frames'[q] = frames[q + k - 1]
  BY <1>1, <1>2 DEF TypeOK
<1>4. last_popped' = last_popped /\ sent' = sent /\ inflight' = inflight
  OBVIOUS
<1>5. (\A q \in DOMAIN frames : Arrived(frames[q].num))'
  <2>1. \A q \in DOMAIN frames' : Arrived(frames'[q].num)
    BY <1>3 DEF StreamInv
  <2> QED
    BY <1>4, <2>1 DEF Arrived
<1>6. (last_popped # None => Arrived(last_popped))'
  BY <1>4 DEF StreamInv, Arrived
<1>7. \A q, r \in DOMAIN frames' : q < r => q + k - 1 < r + k - 1
  BY <1>1, <1>2
<1>8. \A q, r \in DOMAIN frames' : q < r => Index(frames'[q].num) < Index(frames'[r].num)
  BY <1>3, <1>7 DEF StreamInv
<1> QED
  BY <1>3, <1>4, <1>5, <1>6, <1>8 DEF StreamInv

(* take hands out the frame before the rest of the queue. *)
LEMMA TakeInOrder ==
  ASSUME TypeOK, StreamInv, NEW k \in 1 .. Len(frames), Take(k)
  PROVE  StreamInv'
<1>1. Len(frames) \in Nat /\ DOMAIN frames = 1 .. Len(frames)
  BY DEF TypeOK
<1>2. frames' = SubSeq(frames, k + 1, Len(frames))
  BY DEF Take
<1>3. DOMAIN frames' = 1 .. (Len(frames) - k)
  BY <1>1, <1>2 DEF TypeOK
<1>4. \A q \in DOMAIN frames' : q + k \in DOMAIN frames /\ frames'[q] = frames[q + k] /\ k < q + k
  BY <1>1, <1>2, <1>3 DEF TypeOK
<1>5. last_popped' = frames[k].num /\ k \in DOMAIN frames /\ UNCHANGED <<sent, inflight>>
  BY <1>1 DEF Take
<1>6. \A q, r \in DOMAIN frames' : q < r => q + k < r + k
  BY <1>1, <1>3
<1>7. (\A q \in DOMAIN frames : Arrived(frames[q].num))'
  BY <1>4, <1>5 DEF StreamInv, Arrived
<1>8. Arrived(last_popped)'
  BY <1>5 DEF StreamInv, Arrived
<1> QED
  BY <1>4, <1>5, <1>6, <1>7, <1>8 DEF StreamInv

(* The sequence s with e inserted in front of its p-th element. *)
Inserted(s, e, p) == SubSeq(s, 1, p - 1) \o <<e>> \o SubSeq(s, p, Len(s))

(* What an element inserted at p does to a sequence. *)
LEMMA InsertedAt ==
  ASSUME NEW S, NEW s \in Seq(S), NEW e \in S, NEW p \in 1 .. (Len(s) + 1)
  PROVE  /\ Inserted(s, e, p) \in Seq(S)
         /\ Len(Inserted(s, e, p)) = Len(s) + 1
         /\ \A q \in 1 .. (p - 1) : Inserted(s, e, p)[q] = s[q]
         /\ Inserted(s, e, p)[p] = e
         /\ \A q \in (p + 1) .. (Len(s) + 1) : Inserted(s, e, p)[q] = s[q - 1]
<1> DEFINE n == Len(s)
           front == SubSeq(s, 1, p - 1)
           back == SubSeq(s, p, n)
           head == front \o <<e>>
           r == head \o back
<1>1. n \in Nat /\ DOMAIN s = 1 .. n /\ \A i \in 1 .. n : s[i] \in S
  BY LenProperties, ElementOfSeq
<1>2. p \in Int /\ p >= 1 /\ p <= n + 1
  BY <1>1
<1>4. /\ front \in Seq(S) /\ Len(front) = p - 1
      /\ \A i \in 1 .. (p - 1) : front[i] = s[i]
  <2>1. \A i \in 1 .. (p - 1) : s[i] \in S
    BY <1>1, <1>2
  <2>2. /\ front \in Seq(S)
        /\ Len(front) = IF 1 <= p - 1 THEN (p - 1) - 1 + 1 ELSE 0
        /\ \A i \in 1 .. ((p - 1) - 1 + 1) : front[i] = s[1 + i - 1]
    BY <1>2, <2>1, SubSeqProperties
  <2> HIDE DEF front
  <2> QED
    BY <1>2, <2>2
<1>5. /\ back \in Seq(S) /\ Len(back) = n - p + 1
      /\ \A i \in 1 .. (n - p + 1) : back[i] = s[p + i - 1]
  <2>1. \A i \in p .. n : s[i] \in S
    BY <1>1, <1>2
  <2>2. /\ back \in Seq(S)
        /\ Len(back) = IF p <= n THEN n - p + 1 ELSE 0
        /\ \A i \in 1 .. (n - p + 1) : back[i] = s[p + i - 1]
    BY <1>1, <1>2, <2>1, SubSeqProperties
  <2> HIDE DEF back
  <2> QED
    BY <1>1, <1>2, <2>2
<1> HIDE DEF n, front, back
<1>6. /\ head \in Seq(S) /\ Len(head) = p /\ head[p] = e
      /\ \A i \in 1 .. (p - 1) : head[i] = s[i]
  <2>1. head = Append(front, e)
    BY <1>4, AppendIsConcat
  <2>2. /\ head \in Seq(S) /\ Len(head) = Len(front) + 1
        /\ \A i \in 1 .. Len(front) : head[i] = front[i]
        /\ head[Len(front) + 1] = e
    BY <1>4, <2>1, AppendProperties
  <2> HIDE DEF head
  <2>3. Len(front) = p - 1 /\ Len(front) + 1 = p
    BY <1>2, <1>4
  <2>4. head[p] = e /\ Len(head) = p
    BY <2>2, <2>3
  <2> QED
    BY <1>4, <2>2, <2>3, <2>4
<1> HIDE DEF head
<1>7. /\ r \in Seq(S)
      /\ Len(r) = Len(head) + Len(back)
      /\ \A i \in 1 .. (Len(head) + Len(back)) :
           r[i] = IF i <= Len(head) THEN head[i] ELSE back[i - Len(head)]
  BY <1>5, <1>6, ConcatProperties
<1> HIDE DEF r
<1>8. Len(head) = p /\ Len(head) + Len(back) = n + 1
  BY <1>1, <1>2, <1>5, <1>6
<1>9. \A q \in 1 .. (p - 1) : r[q] = s[q]
  <2> SUFFICES ASSUME NEW q \in 1 .. (p - 1) PROVE r[q] = s[q]
    OBVIOUS
  <2>1. q \in 1 .. (Len(head) + Len(back)) /\ q <= Len(head)
    BY <1>1, <1>2, <1>8
  <2> QED
    BY <1>6, <1>7, <2>1
<1>10. r[p] = e
  <2>1. p \in 1 .. (Len(head) + Len(back)) /\ p <= Len(head)
    BY <1>1, <1>2, <1>8
  <2> QED
    BY <1>6, <1>7, <2>1
<1>11. \A q \in (p + 1) .. (n + 1) : r[q] = s[q - 1]
  <2> SUFFICES ASSUME NEW q \in (p + 1) .. (n + 1) PROVE r[q] = s[q - 1]
    OBVIOUS
  <2>1. q \in 1 .. (Len(head) + Len(back)) /\ ~(q <= Len(head))
    BY <1>1, <1>2, <1>8
  <2>2. r[q] = back[q - p]
    BY <1>7, <1>8, <2>1
  <2>3. q - p \in 1 .. (n - p + 1) /\ p + (q - p) - 1 = q - 1
    BY <1>1, <1>2
  <2>4. back[q - p] = s[p + (q - p) - 1]
    BY <1>5, <2>3
  <2> QED
    BY <2>2, <2>3, <2>4
<1>12. Len(r) = n + 1
  BY <1>7, <1>8
<1> QED
  BY <1>7, <1>9, <1>10, <1>11, <1>12 DEF Inserted, r, head, front, back, n

(* A frame under way is new to the buffer: no queued frame has its number, *)
(* and the comparison in push puts every queued frame on the right side.   *)
LEMMA ArrivingIsNew ==
  ASSUME TypeOK, StreamInv, NEW i \in inflight, NEW n, Arrived(n)
  PROVE  /\ Index(n) \in 1 .. MaxFrames
         /\ Index(sent[i].num) = i /\ i \in 1 .. MaxFrames
         /\ Index(n) # i
         /\ NewerOrEq(n, sent[i].num) <=> Index(n) > i
         /\ NewerOrEq(sent[i].num, n) <=> i > Index(n)
<1>1. DOMAIN sent \subseteq 1 .. MaxFrames /\ i \in DOMAIN sent
  BY StreamAssumption DEF TypeOK, StreamInv
<1>2. PICK j \in DOMAIN sent \ inflight : n = StreamNumber(j)
  BY DEF Arrived
<1>3. Index(n) = j /\ j # i /\ j \in 1 .. MaxFrames
  BY <1>1, <1>2, IndexOfNumber
<1>4. sent[i].num = StreamNumber(i) /\ i \in 1 .. MaxFrames
  BY <1>1 DEF StreamInv
<1> QED
  BY <1>2, <1>3, <1>4, IndexOfNumber, NewerIsLaterInStream

(* push puts a frame where the stream's order wants it, and a frame it     *)
(* accepts is one more in the queue.                                       *)
LEMMA ArriveInOrder ==
  ASSUME TypeOK, StreamInv, NEW i \in inflight, Arrive(i)
  PROVE  /\ StreamInv'
         /\ Len(frames') + dropped' = Len(frames) + dropped + 1
<1> DEFINE f == sent[i]
<1>1. /\ f \in Frame /\ i \in DOMAIN sent /\ f.num = StreamNumber(i)
      /\ Len(frames) \in Nat /\ DOMAIN frames = 1 .. Len(frames)
  BY DEF TypeOK, StreamInv
<1>2. sent' = sent /\ inflight' = inflight \ {i} /\ last_popped' = last_popped
  BY DEF Arrive
<1>3. \A n : Arrived(n) => Arrived(n)'
  BY <1>2 DEF Arrived
<1>4. Arrived(f.num)'
  BY <1>1, <1>2 DEF Arrived
<1>5. (last_popped # None => Arrived(last_popped))'
  BY <1>2, <1>3 DEF StreamInv
<1>6. CASE TooOld(f)
  <2>1. frames' = frames /\ dropped' = dropped + 1
    BY <1>6 DEF Arrive, Push
  <2>2. (\A q \in DOMAIN frames : Arrived(frames[q].num))'
    BY <2>1, <1>3 DEF StreamInv
  <2> QED
    BY <1>2, <1>5, <2>1, <2>2 DEF StreamInv, TypeOK
<1>7. CASE ~TooOld(f)
  <2>1. PICK p \in 1 .. (Len(frames) + 1) : InsertAt(f, p) /\ frames' = Queued(f, p)
    BY <1>7 DEF Arrive, Push
  <2>2. dropped' = dropped
    BY <1>7 DEF Arrive, Push
  <2>3. \A q \in DOMAIN frames : Arrived(frames[q].num)
    BY DEF StreamInv
  <2>4. /\ Index(f.num) = i
        /\ \A q \in DOMAIN frames :
             /\ Index(frames[q].num) \in 1 .. MaxFrames
             /\ frames[q].num # f.num
             /\ NewerOrEq(frames[q].num, f.num) <=> Index(frames[q].num) > i
    <3>1. Index(f.num) = i
      BY <1>1, IndexOfNumber, StreamAssumption DEF TypeOK, StreamInv
    <3> QED
      BY <2>3, <3>1, ArrivingIsNew
  <2>5. frames' = Inserted(frames, f, p)
    <3>1. ~(p <= Len(frames) /\ frames[p].num = f.num)
      <4>1. p <= Len(frames) => p \in DOMAIN frames
        BY <1>1
      <4> QED
        BY <4>1, <2>4
    <3> QED
      BY <2>1, <3>1 DEF Queued, Inserted
  <2>6. /\ frames' \in Seq(Frame)
        /\ Len(frames') = Len(frames) + 1
        /\ \A q \in 1 .. (p - 1) : frames'[q] = frames[q]
        /\ frames'[p] = f
        /\ \A q \in (p + 1) .. (Len(frames) + 1) : frames'[q] = frames[q - 1]
    <3>1. frames \in Seq(Frame)
      BY DEF TypeOK
    <3> HIDE DEF f
    <3>2. p \in 1 .. (Len(frames) + 1) /\ f \in Frame
      BY <1>1
    <3>3. /\ Inserted(frames, f, p) \in Seq(Frame)
          /\ Len(Inserted(frames, f, p)) = Len(frames) + 1
          /\ \A q \in 1 .. (p - 1) : Inserted(frames, f, p)[q] = frames[q]
          /\ Inserted(frames, f, p)[p] = f
          /\ \A q \in (p + 1) .. (Len(frames) + 1) : Inserted(frames, f, p)[q] = frames[q - 1]
      BY <3>1, <3>2, InsertedAt
    <3> QED
      BY <2>5, <3>3
  <2>20. p \in Int /\ 1 <= p /\ p <= Len(frames) + 1 /\ DOMAIN frames' = 1 .. (Len(frames) + 1)
    BY <1>1, <2>6, LenProperties
  <2>21. \A q \in DOMAIN frames' : q < p => frames'[q] = frames[q] /\ q \in DOMAIN frames
    BY <1>1, <2>6, <2>20
  <2>22. p \in DOMAIN frames' /\ frames'[p] = f
    BY <1>1, <2>6, <2>20
  <2>23. \A q \in DOMAIN frames' :
           q > p => frames'[q] = frames[q - 1] /\ q - 1 \in DOMAIN frames /\ q - 1 >= p
    BY <1>1, <2>6, <2>20
  <2>7. i \in Int /\ \A q \in DOMAIN frames : Index(frames[q].num) \in Int
    <3>1. i \in Int
      BY <1>1 DEF TypeOK
    <3>2. \A q \in DOMAIN frames : Index(frames[q].num) \in 1 .. MaxFrames
      BY <2>4
    <3> QED
      BY <3>1, <3>2, StreamAssumption
  <2>8. \A q \in DOMAIN frames :
          (q < p => Index(frames[q].num) < i) /\ (q >= p => Index(frames[q].num) > i)
    <3>1. \A q \in 1 .. (p - 1) : q \in DOMAIN frames => Index(frames[q].num) < i
      <4>1. \A q \in 1 .. (p - 1) : q \in DOMAIN frames => Index(frames[q].num) <= i
        BY <2>1, <2>4, <2>7 DEF InsertAt
      <4> QED
        BY <4>1, <2>3, <2>7, ArrivingIsNew
    <3>2. p \in DOMAIN frames => Index(frames[p].num) > i
      BY <1>1, <2>1, <2>4 DEF InsertAt
    <3>3. \A q \in DOMAIN frames : q > p => p \in DOMAIN frames /\ Index(frames[q].num) > Index(frames[p].num)
      BY <1>1 DEF StreamInv
    <3>4. \A q \in DOMAIN frames : q > p => Index(frames[q].num) > i
      BY <3>2, <3>3, <2>7
    <3> QED
      BY <1>1, <3>1, <3>2, <3>4
  <2>9. (\A q \in DOMAIN frames : Arrived(frames[q].num))'
    <3>1. \A q \in DOMAIN frames' : frames'[q] = f \/ \E s \in DOMAIN frames : frames'[q] = frames[s]
      BY <2>20, <2>21, <2>22, <2>23
    <3>2. ASSUME NEW q \in DOMAIN frames' PROVE \E j \in DOMAIN sent' \ inflight' : frames'[q].num = StreamNumber(j)
      <4>1. CASE frames'[q] = f
        BY <4>1, <1>1, <1>2
      <4>2. CASE \E s \in DOMAIN frames : frames'[q] = frames[s]
        BY <4>2, <1>2, <2>3 DEF Arrived
      <4> QED
        BY <3>1, <4>1, <4>2
    <3> QED
      BY <3>2 DEF Arrived
  <2>10. \A q, r \in DOMAIN frames' : q < r => Index(frames'[q].num) < Index(frames'[r].num)
    <3> SUFFICES ASSUME NEW q \in DOMAIN frames', NEW r \in DOMAIN frames', q < r
                 PROVE  Index(frames'[q].num) < Index(frames'[r].num)
      OBVIOUS
    <3>1. q \in Int /\ r \in Int
      BY <1>1, <2>20
    <3>2. \A a, b \in DOMAIN frames : a < b => Index(frames[a].num) < Index(frames[b].num)
      BY DEF StreamInv
    <3>3. CASE r < p
      <4>1. q < p
        BY <3>1, <3>3, <2>20
      <4> QED
        BY <3>2, <3>3, <4>1, <2>21
    <3>4. CASE r = p
      <4>1. frames'[q] = frames[q] /\ q \in DOMAIN frames /\ q < p /\ frames'[r] = f
        BY <3>4, <2>21, <2>22
      <4>2. Index(f.num) = i
        BY <2>4
      <4>3. Index(frames[q].num) < i
        BY <4>1, <2>8
      <4> HIDE DEF f
      <4> QED
        BY <4>1, <4>2, <4>3
    <3>5. CASE r > p
      <4>1. frames'[r] = frames[r - 1] /\ r - 1 \in DOMAIN frames /\ r - 1 >= p
        BY <3>5, <2>23
      <4>2. CASE q < p
        <5>1. frames'[q] = frames[q] /\ q \in DOMAIN frames /\ q < r - 1
          BY <4>1, <4>2, <2>20, <2>21, <3>1
        <5> QED
          BY <5>1, <4>1, <3>2
      <4>3. CASE q = p
        <5>1. frames'[q] = f /\ Index(frames[r - 1].num) > i
          BY <4>1, <4>3, <2>8, <2>22
        <5>2. Index(frames[r - 1].num) \in Int
          BY <4>1, <2>7
        <5> QED
          BY <5>1, <5>2, <4>1, <2>4, <2>7
      <4>4. CASE q > p
        <5>1. frames'[q] = frames[q - 1] /\ q - 1 \in DOMAIN frames /\ q - 1 < r - 1
          BY <4>4, <2>23, <3>1
        <5> QED
          BY <5>1, <4>1, <3>2
      <4> QED
        BY <2>20, <3>1, <4>2, <4>3, <4>4
    <3> QED
      BY <2>20, <3>1, <3>3, <3>4, <3>5
  <2>11. last_popped # None => Index(last_popped) < i
    <3> SUFFICES ASSUME last_popped # None PROVE Index(last_popped) < i
      OBVIOUS
    <3>1. Arrived(last_popped)
      BY DEF StreamInv
    <3>2. NewerOrEq(f.num, last_popped)
      BY <1>7 DEF TooOld
    <3> QED
      BY <3>1, <3>2, ArrivingIsNew
  <2>12. last_popped # None => \A q \in DOMAIN frames' : Index(last_popped) < Index(frames'[q].num)
    <3> SUFFICES ASSUME last_popped # None, NEW q \in DOMAIN frames'
                 PROVE  Index(last_popped) < Index(frames'[q].num)
      OBVIOUS
    <3>1. \A s \in DOMAIN frames : Index(last_popped) < Index(frames[s].num)
      BY DEF StreamInv
    <3>2. q < p \/ q = p \/ q > p
      BY <1>1, <2>6, <2>20
    <3> QED
      BY <3>1, <3>2, <2>4, <2>11, <2>21, <2>22, <2>23
  <2> QED
    BY <1>2, <1>5, <2>2, <2>6, <2>9, <2>10, <2>12 DEF StreamInv, TypeOK
<1> QED
  BY <1>6, <1>7

(* A queue that is replaced by an empty one is in order. *)
LEMMA EmptiedInOrder ==
  ASSUME StreamInv, frames' = <<>>, UNCHANGED <<sent, inflight>>,
         last_popped' = last_popped \/ last_popped' = None
  PROVE  StreamInv'
<1>1. DOMAIN frames' = {} /\ sent' = sent /\ inflight' = inflight
  OBVIOUS
<1>2. (last_popped # None => Arrived(last_popped))'
  BY <1>1 DEF StreamInv, Arrived
<1> QED
  BY <1>1, <1>2 DEF StreamInv

(* Every way pop can go keeps the queue in order and the books balanced:   *)
(* what leaves the queue is handed out or counted.                         *)
LEMMA PopInOrder ==
  ASSUME TypeOK, StreamInv, FramesAccountedFor, Pop
  PROVE  StreamInv' /\ FramesAccountedFor'
<1>1. Len(frames) \in Nat /\ dropped \in Nat /\ frames \in Seq(Frame) /\ account = Len(frames) + dropped
  BY DEF TypeOK, FramesAccountedFor
<1>2. ASSUME NEW k \in 1 .. Len(frames), Take(k) PROVE StreamInv' /\ FramesAccountedFor'
  <2>1. Len(frames') = Len(frames) - k /\ dropped' = dropped + (k - 1) /\ account' = account - 1
    BY <1>1, <1>2 DEF Take
  <2> QED
    BY <1>1, <1>2, <2>1, TakeInOrder DEF FramesAccountedFor
<1>3. ASSUME TrimWaiting, UNCHANGED Hand PROVE StreamInv' /\ FramesAccountedFor'
  <2> DEFINE excess == IF Len(frames) > WaitMaxDepth THEN Len(frames) - WaitMaxDepth ELSE 0
  <2>1. excess + 1 \in 1 .. (Len(frames) + 1) /\ excess \in Nat /\ excess <= Len(frames)
    BY <1>1, JitterAssumption
  <2>2. frames' = SubSeq(frames, excess + 1, Len(frames)) /\ dropped' = dropped + excess
    BY <1>3 DEF TrimWaiting
  <2>3. UNCHANGED <<last_popped, sent, inflight>> /\ account' = account
    BY <1>3 DEF Hand
  <2> HIDE DEF excess
  <2>4. StreamInv'
    BY <2>1, <2>2, <2>3, FrontDropped
  <2>5. Len(frames') = Len(frames) - excess
    BY <1>1, <2>1, <2>2
  <2>6. dropped' = dropped + excess /\ account' = account
    BY <2>2, <2>3
  <2>7. account' = Len(frames') + dropped'
    BY <1>1, <2>1, <2>5, <2>6
  <2> QED
    BY <2>4, <2>7 DEF FramesAccountedFor
<1>4. ASSUME GiveUpOnGop, UNCHANGED Hand PROVE StreamInv' /\ FramesAccountedFor'
  <2>1. frames' = <<>> /\ dropped' = dropped + Len(frames) /\ UNCHANGED <<sent, inflight>>
        /\ last_popped' = last_popped /\ account' = account
    BY <1>4 DEF GiveUpOnGop, Hand
  <2> QED
    BY <1>1, <2>1, EmptiedInOrder DEF FramesAccountedFor
<1> QED
  BY <1>2, <1>3, <1>4 DEF Pop, PopFirstKeyframe, PopHold, PopGapJump, PopGapWait,
     PopGapGiveUp, PopGame, PopQuality, NewestKeyframe, InOrder

(* A frame the sender encodes is numbered by its position. *)
LEMMA EncodeInOrder ==
  ASSUME TypeOK, StreamInv, NEW key \in BOOLEAN, Encode(key)
  PROVE  StreamInv'
<1> DEFINE f == [num |-> StreamNumber(Len(sent) + 1), ts |-> now, key |-> key]
<1>1. /\ sent \in Seq(Frame) /\ Len(sent) \in Nat /\ f \in Frame
      /\ Len(sent) < MaxFrames /\ sent' = Append(sent, f)
      /\ inflight' = inflight \cup {Len(sent) + 1} /\ inflight \subseteq DOMAIN sent
      /\ UNCHANGED <<frames, last_popped>>
  BY StreamNumberType DEF TypeOK, Frame, Encode
<1>2. f.num = StreamNumber(Len(sent) + 1)
  OBVIOUS
<1> HIDE DEF f
<1>3. /\ Len(sent') = Len(sent) + 1 /\ DOMAIN sent = 1 .. Len(sent) /\ DOMAIN sent' = 1 .. (Len(sent) + 1)
      /\ \A i \in DOMAIN sent : sent'[i] = sent[i]
      /\ sent'[Len(sent) + 1] = f
  BY <1>1, AppendProperties, LenProperties
<1>4. DOMAIN sent \ inflight \subseteq DOMAIN sent' \ inflight'
  BY <1>1, <1>3
<1>5. \A n : Arrived(n) => Arrived(n)'
  BY <1>4 DEF Arrived
<1>6. \A i \in DOMAIN sent' : sent'[i].num = StreamNumber(i)
  <2>1. \A i \in DOMAIN sent' : i \in DOMAIN sent \/ i = Len(sent) + 1
    BY <1>1, <1>3
  <2> QED
    BY <1>2, <1>3, <2>1 DEF StreamInv
<1>7. Len(sent') <= MaxFrames
  BY <1>1, <1>3, StreamAssumption
<1>8. frames' = frames /\ last_popped' = last_popped
  BY <1>1
<1>9. (\A q \in DOMAIN frames : Arrived(frames[q].num))'
  <2>1. \A q \in DOMAIN frames' : Arrived(frames'[q].num)
    BY <1>8 DEF StreamInv
  <2> QED
    BY <1>4, <2>1 DEF Arrived
<1>10. (last_popped # None => Arrived(last_popped))'
  <2>1. last_popped' # None => Arrived(last_popped')
    BY <1>8 DEF StreamInv
  <2> QED
    BY <1>4, <2>1 DEF Arrived
<1> QED
  BY <1>6, <1>7, <1>8, <1>9, <1>10 DEF StreamInv

(* The jitter buffer's queue, its last frame out and its counters under    *)
(* every interleaving of the network task, the decode thread, the stats    *)
(* tick and the transport.                                                 *)
THEOREM StreamInvariant == Spec => [](StreamInv /\ FramesAccountedFor)
<1>1. Init => StreamInv /\ FramesAccountedFor
  <2> SUFFICES ASSUME Init PROVE StreamInv /\ FramesAccountedFor
    OBVIOUS
  <2>1. frames = <<>> /\ sent = <<>> /\ last_popped = None /\ account = 0 /\ dropped = 0
    BY DEF Init
  <2> QED
    BY <2>1, StreamAssumption DEF StreamInv, FramesAccountedFor
<1>2. TypeOK /\ StreamInv /\ FramesAccountedFor /\ [Next]_vars => (StreamInv /\ FramesAccountedFor)'
  <2> SUFFICES ASSUME TypeOK, StreamInv, FramesAccountedFor, [Next]_vars
               PROVE  StreamInv' /\ FramesAccountedFor'
    OBVIOUS
  <2>0. Len(frames) \in Nat /\ dropped \in Nat /\ account = Len(frames) + dropped
    BY DEF TypeOK, FramesAccountedFor
  <2> DEFINE Kept == StreamInv' /\ FramesAccountedFor'
  <2>1. ASSUME NEW key \in BOOLEAN, Encode(key) PROVE Kept
    <3>1. FramesAccountedFor'
      BY <2>1 DEF Encode, FramesAccountedFor
    <3> QED
      BY <2>1, <3>1, EncodeInOrder
  <2>2. ASSUME NEW i \in inflight, Arrive(i) PROVE Kept
    <3>1. account' = account + 1
      BY <2>2 DEF Arrive
    <3> QED
      BY <2>0, <2>2, <3>1, ArriveInOrder DEF FramesAccountedFor
  <2>3. ASSUME Pop PROVE Kept
    BY <2>3, PopInOrder
  <2>4. ASSUME UNCHANGED <<frames, last_popped, sent, inflight, dropped, account>> PROVE Kept
    <3>1. frames' = frames /\ last_popped' = last_popped /\ sent' = sent /\ inflight' = inflight
          /\ dropped' = dropped /\ account' = account
      BY <2>4
    <3> QED
      BY <3>1 DEF StreamInv, Arrived, FramesAccountedFor
  <2>5. ASSUME Cleared, UNCHANGED <<sent, inflight>> PROVE Kept
    <3>1. frames' = <<>> /\ last_popped' = last_popped /\ dropped' = dropped /\ account' = account - Len(frames)
      BY <2>5 DEF Cleared
    <3> QED
      BY <2>0, <2>5, <3>1, EmptiedInOrder DEF FramesAccountedFor
  <2>6. ASSUME NEW m \in Mode, StartStream(m) PROVE Kept
    <3>1. frames' = <<>> /\ last_popped' = None /\ dropped' = 0 /\ account' = 0 /\ UNCHANGED <<sent, inflight>>
      BY <2>6 DEF StartStream, Fresh
    <3> QED
      BY <3>1, EmptiedInOrder DEF FramesAccountedFor
  <2>7. ASSUME TakeDropped PROVE Kept
    <3>1. /\ frames' = frames /\ last_popped' = last_popped /\ sent' = sent /\ inflight' = inflight
          /\ dropped' = 0 /\ account' = account - dropped
      BY <2>7 DEF TakeDropped
    <3> QED
      BY <2>0, <3>1 DEF StreamInv, Arrived, FramesAccountedFor
  <2> QED
    BY <2>1, <2>2, <2>3, <2>4, <2>5, <2>6, <2>7
    DEF Next, RequireKeyframe, Flush, SetMode, Tick, vars
<1> QED
  BY <1>1, <1>2, TypeCorrect, PTL DEF Spec

(* Every frame pushed is handed out, still queued, flushed, or counted in  *)
(* the dropped counter that the stats message reports (jitter.rs).         *)
THEOREM EveryFrameIsAccountedFor == Spec => []FramesAccountedFor
BY StreamInvariant, PTL

(* The queue is in stream order, without duplicates, and newer than the    *)
(* last frame out, across the wrap of the frame numbers (jitter.rs push).  *)
THEOREM QueueIsOrdered == Spec => []QueueInStreamOrder
<1>1. TypeOK /\ StreamInv => QueueInStreamOrder
  <2> SUFFICES ASSUME TypeOK, StreamInv PROVE QueueInStreamOrder
    OBVIOUS
  <2>1. ASSUME NEW n, Arrived(n) PROVE Position(n) = Index(n)
    <3>1. PICK i \in DOMAIN sent \ inflight : n = StreamNumber(i)
      BY <2>1 DEF Arrived
    <3>2. DOMAIN sent \subseteq 1 .. MaxFrames
      BY StreamAssumption DEF TypeOK, StreamInv
    <3>3. Index(n) = i
      BY <3>1, <3>2, IndexOfNumber
    <3>4. \A j \in DOMAIN sent : sent[j].num = n <=> j = i
      <4>1. \A j \in DOMAIN sent : sent[j].num = StreamNumber(j) /\ Index(StreamNumber(j)) = j
        BY <3>2, IndexOfNumber DEF StreamInv
      <4> QED
        BY <4>1, <3>1
    <3>5. i \in DOMAIN sent
      BY <3>1
    <3> QED
      BY <3>3, <3>4, <3>5 DEF Position
  <2>2. \A q \in DOMAIN frames : Position(frames[q].num) = Index(frames[q].num)
    BY <2>1 DEF StreamInv
  <2>3. last_popped # None => Position(last_popped) = Index(last_popped)
    BY <2>1 DEF StreamInv
  <2> QED
    BY <2>2, <2>3 DEF StreamInv, QueueInStreamOrder
<1> QED
  BY <1>1, TypeCorrect, StreamInvariant, PTL
=============================================================================
