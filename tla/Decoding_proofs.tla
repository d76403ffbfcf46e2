--------------------------- MODULE Decoding_proofs ---------------------------
(***************************************************************************)
(* Proofs about the decode thread and its V4L2 decoder, for every number   *)
(* of buffers, every limit and any driver that behaves like the model's:   *)
(* each buffer has one owner, and the pictures reach the screen in stream  *)
(* order, at the geometry they were decoded at, none of them thrown away   *)
(* by a reconfiguration that could still have collected it.                *)
(***************************************************************************)
EXTENDS Decoding, FiniteSetTheorems, FunctionTheorems, SequenceTheorems,
        NaturalsInduction, WellFoundedInduction, TLAPS

-----------------------------------------------------------------------------
(* Types *)

AnyFormat == Formats \cup {DefaultFormat}
Decoder == [outq : SUBSET Slots, ready : Seq(Picture), unanswered : Nat,
            finished : BOOLEAN, saw_last : BOOLEAN, cap : Capture \cup {None}]
Driver == [jobs : Seq(Job), freed : SUBSET Slots, held : SUBSET Buffers,
           done : Seq(Filled), fmt : AnyFormat, paused : BOOLEAN,
           ended : BOOLEAN, on : BOOLEAN, unreported : BOOLEAN,
           events : Seq({"eos", "change"}), broken : BOOLEAN]
Place == {"open", "reopen", "quit", "pop", "fail", "wait", "waiting", "put",
          "after", "poll", "polling", "drain", "rebuild"}
Locals == [call : {"none", "decode", "tail", "idle"},
           frame : Frame \cup {None}, budget : Nat, rounds : 0..DrainRounds,
           ret : {"none", "waiting", "polling", "after"},
           progressed : BOOLEAN, waited : Nat, total : Nat]

(* The types of the variables. *)
TypeOK ==
  /\ dec \in Decoder /\ hw \in Driver
  /\ kind \in {"hw", "sw", "none"} /\ pc \in Place /\ loc \in Locals
  /\ errors \in Nat /\ faults \in Nat
  /\ last \in Frame \cup {None}
  /\ shown \in Picture \cup {None}

-----------------------------------------------------------------------------
(* The inductive invariant *)

JobSlots(h) == {h.jobs[i].slot : i \in DOMAIN h.jobs}
DoneSlots(h) == {h.done[i].slot : i \in DOMAIN h.done} \ {None}
DoneIdx(h) == {h.done[i].idx : i \in DOMAIN h.done}

(* Each OUTPUT buffer the decoder has queued is in one place: behind one   *)
(* job, behind one filled CAPTURE buffer, or free to be dequeued.          *)
SlotsOwned(d, h) ==
  /\ d.outq = JobSlots(h) \cup DoneSlots(h) \cup h.freed
  /\ JobSlots(h) \cap DoneSlots(h) = {}
  /\ (JobSlots(h) \cup DoneSlots(h)) \cap h.freed = {}
  /\ \A i, j \in DOMAIN h.jobs : h.jobs[i].slot = h.jobs[j].slot => i = j
  /\ \A i, j \in DOMAIN h.done :
       h.done[i].slot = h.done[j].slot /\ h.done[i].slot # None => i = j

(* A CAPTURE buffer is empty in the driver or filled once, and flagged     *)
(* queued in both cases.                                                   *)
BuffersOwned(d, h) ==
  /\ d.cap # None => d.cap.queued = h.held \cup DoneIdx(h)
  /\ h.held \cap DoneIdx(h) = {}
  /\ \A i, j \in DOMAIN h.done : h.done[i].idx = h.done[j].idx => i = j

(* The frame numbers a picture or a job stands for, stage by stage. *)
ReadyNums(d) == {d.ready[i].frame.num : i \in DOMAIN d.ready}
DoneNums(h) == {h.done[i].frame.num : i \in {j \in DOMAIN h.done : h.done[j].frame # None}}
JobNums(h) == {h.jobs[i].frame.num : i \in DOMAIN h.jobs}
Below(S, T) == \A s \in S, t \in T : s < t

(* Frames stay in stream order from the jobs to the ready pictures. *)
StreamOrder(d, h) ==
  /\ Below(ReadyNums(d), DoneNums(h))
  /\ Below(ReadyNums(d), JobNums(h))
  /\ Below(DoneNums(h), JobNums(h))
  /\ \A i, j \in DOMAIN d.ready : i < j => d.ready[i].frame.num < d.ready[j].frame.num
  /\ \A i, j \in DOMAIN h.jobs : i < j => h.jobs[i].frame.num < h.jobs[j].frame.num
  /\ \A i, j \in DOMAIN h.done :
       i < j /\ h.done[i].frame # None /\ h.done[j].frame # None
         => h.done[i].frame.num < h.done[j].frame.num

(* What is copied out has the geometry it was decoded at; the driver       *)
(* decodes into a queue brought up at its geometry, and pauses from a new  *)
(* geometry, whose last buffer is the last one, to the restart.            *)
Final(d) == d.cap # None /\ ~d.cap.provisional
Geometry(d, h) ==
  /\ \A i \in DOMAIN d.ready : d.ready[i].fmt = d.ready[i].frame.fmt
  /\ Final(d) => /\ h.fmt \in Formats
                 /\ h.paused \/ d.cap.fmt = h.fmt
                 /\ \A i \in DOMAIN h.done :
                      h.done[i].frame # None => h.done[i].frame.fmt = d.cap.fmt
  /\ h.ended => h.paused
  /\ \A i \in DOMAIN h.done : h.done[i].last => h.paused /\ i = Len(h.done)
  /\ h.unreported \/ (\E i \in DOMAIN h.events : h.events[i] = "change")
       => h.fmt \in Formats

PairInv(d, h) ==
  SlotsOwned(d, h) /\ BuffersOwned(d, h) /\ StreamOrder(d, h) /\ Geometry(d, h)

(* The last frame and the last picture, as numbers of the stream. *)
LastNum == IF last = None THEN 0 ELSE last.num
ShownNum == IF shown = None THEN 0 ELSE shown.frame.num
InFlight(d, h) == ReadyNums(d) \cup DoneNums(h) \cup JobNums(h)

(* decode has a frame that is not in an OUTPUT buffer yet. *)
ToPut == \/ pc \in {"wait", "waiting", "put"}
         \/ pc \in {"drain", "rebuild"} /\ loc.ret = "waiting"

(* Nothing in flight has been shown or is newer than the frame handed out. *)
ThreadOrder ==
  /\ ShownNum <= LastNum
  /\ \A n \in InFlight(dec, hw) : ShownNum < n /\ n <= LastNum
  /\ ToPut => /\ last # None /\ loc.frame = last
              /\ ShownNum < LastNum
              /\ \A n \in InFlight(dec, hw) : n < LastNum
  /\ kind = "sw" => dec.ready = <<>> /\ hw.jobs = <<>> /\ hw.done = <<>>

(* What a reconfiguration may throw away. *)
Drained ==
  /\ pc \in {"drain", "rebuild"} => hw.fmt \in Formats /\ loc.ret # "none"
  /\ pc = "drain" => ~dec.saw_last
  /\ pc = "rebuild" /\ Final(dec) =>
       \/ hw.paused /\ \A i \in DOMAIN hw.done : hw.done[i].frame = None
       \/ loc.rounds = DrainRounds
       \/ Refuses(dec, hw)

(* There is a slot to put the frame into. *)
Room == pc = "put" => Cardinality(dec.outq) < MaxInFlight

IInv == TypeOK /\ PairInv(dec, hw) /\ ThreadOrder /\ Drained /\ Room
-----------------------------------------------------------------------------
(* Natural numbers, recursion and finite sets *)

(* A set of natural numbers that is not empty has a least member.  This is *)
(* how what a recursive function computes is proved below: from the least  *)
(* argument at which it would go wrong.                                    *)
LEMMA Least ==
  ASSUME NEW T, T \subseteq Nat, T # {}
  PROVE  \E x \in T : \A y \in T : x <= y
<1> DEFINE R == OpToRel(<, Nat)
<1>1. IsWellFoundedOn(R, Nat)
  BY NatLessThanWellFounded
<1>2. \A y, x \in Nat : <<y, x>> \in R <=> y < x
  BY DEF OpToRel
<1> HIDE DEF R
<1>3. PICK x \in T : \A y \in T : <<y, x>> \notin R
  BY <1>1, WFMin
<1>4. \A y \in T : x \in Nat /\ y \in Nat /\ ~(y < x)
  BY <1>2, <1>3
<1>5. \A y \in T : x <= y
  BY <1>4
<1> QED
  BY <1>3, <1>5

(* The parts of the assumption on the constants the proofs use. *)
LEMMA Constants ==
  /\ OutputBuffers \in Nat /\ MaxInFlight \in Nat /\ CaptureBuffers \in Nat
  /\ MaxInFlight > 0 /\ MaxInFlight < OutputBuffers
  /\ DrainRounds \in Nat /\ StallTime \in Nat /\ MaxWait \in Nat /\ StallInputs \in Nat
  /\ ErrorLimit \in Nat /\ MaxFaults \in Nat /\ MaxFrames \in Nat
  /\ DefaultFormat \notin Formats /\ AnyFormat \subseteq Nat
  /\ None \notin Slots /\ None \notin Frame /\ None \notin Capture /\ None \notin Picture
BY DecodingAssumption DEF AnyFormat

(* The queued OUTPUT buffers and the empty CAPTURE buffers are finite sets *)
(* of numbers.                                                             *)
LEMMA SlotsFinite == IsFiniteSet(Slots) /\ Cardinality(Slots) = OutputBuffers
BY FS_Interval, Constants DEF Slots

(* With fewer than MaxInFlight buffers queued one is free, and there is a  *)
(* first one.                                                              *)
LEMMA FreeSlot ==
  ASSUME NEW outq \in SUBSET Slots, Cardinality(outq) < MaxInFlight
  PROVE  \E s \in Slots \ outq : \A t \in Slots \ outq : s <= t
<1>1. IsFiniteSet(outq) /\ Cardinality(outq) \in Nat
  BY SlotsFinite, FS_Subset, FS_CardinalityType
<1>2. Slots \ outq # {}
  <2>1. SUFFICES ASSUME Slots \ outq = {} PROVE FALSE
    OBVIOUS
  <2>2. outq = Slots
    BY <2>1
  <2> QED
    BY <1>1, <2>2, SlotsFinite, Constants
<1>3. Slots \ outq \subseteq Nat
  BY DEF Slots
<1> QED
  BY <1>2, <1>3, Least

(* So has a set of CAPTURE buffers the driver chooses from. *)
LEMMA FirstBuffer ==
  ASSUME NEW S \in SUBSET Buffers, S # {}
  PROVE  LET b == CHOOSE x \in S : \A y \in S : x <= y IN b \in S
<1>0. S \subseteq Nat
  BY Constants DEF Buffers
<1>1. \E x \in S : \A y \in S : x <= y
  BY <1>0, Least
<1> QED
  BY <1>1
-----------------------------------------------------------------------------
(* collect_capture *)

(* Taken stops at the first buffer that ends the sequence, at the limit or *)
(* at the end of what the driver has filled.                               *)
LEMMA TakenUpTo ==
  ASSUME NEW d \in Decoder, NEW h \in Driver, NEW limit \in Nat
  PROVE  /\ Taken(d, h, limit) \in 0 .. Len(h.done)
         /\ Taken(d, h, limit) <= limit
         /\ d.saw_last \/ d.cap = None => Taken(d, h, limit) = 0
         /\ ~(d.saw_last \/ d.cap = None) =>
              /\ \A i \in 1 .. (Taken(d, h, limit) - 1) : ~Ends(d, h, i)
              /\ \/ Taken(d, h, limit) = limit
                 \/ Taken(d, h, limit) = Len(h.done)
                 \/ Taken(d, h, limit) > 0 /\ Ends(d, h, Taken(d, h, limit))
<1> DEFINE m == Len(h.done)
           Stop(n) == n = limit \/ n = m \/ (n > 0 /\ Ends(d, h, n))
           T == {n \in 0 .. m : Stop(n)}
<1>0. m \in Nat
  BY DEF Driver
<1>1. CASE d.saw_last \/ d.cap = None
  BY <1>0, <1>1 DEF Taken
<1>2. CASE ~(d.saw_last \/ d.cap = None)
  <2>1. T \subseteq Nat /\ T # {}
    <3>1. m \in T
      BY <1>0
    <3> QED
      BY <3>1
  <2>2. PICK x \in T : \A y \in T : x <= y
    BY <2>1, Least
  <2>3. x \in 0 .. m /\ Stop(x)
    OBVIOUS
  <2>4. x <= limit
    <3>1. CASE limit \in 0 .. m
      <4>1. limit \in T
        BY <3>1
      <4> QED
        BY <4>1, <2>2
    <3>2. CASE limit \notin 0 .. m
      BY <3>2, <2>3, <1>0
    <3> QED
      BY <3>1, <3>2
  <2>5. ASSUME NEW i \in 1 .. (x - 1)
        PROVE  ~Ends(d, h, i)
    <3>1. SUFFICES ASSUME Ends(d, h, i) PROVE FALSE
      OBVIOUS
    <3>2. i \in 0 .. m /\ i > 0 /\ i < x
      BY <2>3, <1>0
    <3>3. i \in T
      BY <3>1, <3>2
    <3> QED
      BY <3>2, <3>3, <2>2, <2>3
  <2> DEFINE Fit(n) == /\ n <= limit
                       /\ \A i \in 1 .. (n - 1) : ~Ends(d, h, i)
                       /\ n = limit \/ n = m \/ (n > 0 /\ Ends(d, h, n))
  <2>6. x \in 0 .. m /\ Fit(x)
    BY <2>3, <2>4, <2>5
  <2>7. Taken(d, h, limit) = CHOOSE n \in 0 .. m : Fit(n)
    BY <1>2 DEF Taken
  <2> HIDE DEF Fit
  <2>8. Taken(d, h, limit) \in 0 .. m /\ Fit(Taken(d, h, limit))
    BY <2>6, <2>7
  <2> QED
    BY <2>8, <1>2 DEF Fit
<1> QED
  BY <1>1, <1>2

(* The recursion of Readied, as the values of one function. *)
LEMMA ReadiedSteps ==
  ASSUME NEW d \in Decoder, NEW h \in Driver, NEW n \in Nat
  PROVE  \E r : /\ Readied(d, h, n) = r[n]
                /\ r[0] = d.ready
                /\ \A i \in 1 .. n : r[i] = IF HasPicture(d, h, i)
                                            THEN Append(r[i - 1], PictureOf(d, h, i))
                                            ELSE r[i - 1]
<1> DEFINE Body(r, i) == IF i = 0 THEN d.ready
                         ELSE IF HasPicture(d, h, i)
                              THEN Append(r[i - 1], PictureOf(d, h, i))
                              ELSE r[i - 1]
           Steps(r, m) == r = [i \in 0 .. m |-> Body(r, i)]
           R == CHOOSE r : Steps(r, n)
           T == {m \in Nat : ~ \E r : Steps(r, m)}
<1>1. T = {}
  <2>1. SUFFICES ASSUME T # {} PROVE FALSE
    OBVIOUS
  <2>2. PICK m \in T : \A y \in T : m <= y
    <3>1. T \subseteq Nat
      OBVIOUS
    <3> QED
      BY <2>1, <3>1, Least
  <2>3. m \in Nat /\ ~ \E r : Steps(r, m)
    OBVIOUS
  <2>4. CASE m = 0
    <3> DEFINE r == [i \in 0 .. 0 |-> d.ready]
    <3>1. Steps(r, 0)
      OBVIOUS
    <3> QED
      BY <2>3, <2>4, <3>1
  <2>5. CASE m > 0
    <3>0. m - 1 \in Nat /\ ~(m <= m - 1)
      BY <2>3, <2>5
    <3> HIDE DEF T
    <3>1. m - 1 \in Nat /\ m - 1 \notin T
      BY <2>2, <3>0
    <3> USE DEF T
    <3>2. PICK q : Steps(q, m - 1)
      BY <3>1
    <3> DEFINE r == [i \in 0 .. m |-> IF i = m THEN Body(q, m) ELSE q[i]]
    <3>3. ASSUME NEW i \in 0 .. m
          PROVE  r[i] = Body(r, i)
      <4>1. CASE i = m
        <5>1. m - 1 \in 0 .. m /\ m - 1 # m
          BY <2>3, <2>5
        <5>2. r[m - 1] = q[m - 1]
          BY <5>1
        <5> QED
          BY <4>1, <5>2, <2>3, <2>5
      <4>2. CASE i # m
        <5>1. i \in 0 .. (m - 1)
          BY <4>2, <2>3
        <5>2. r[i] = q[i] /\ q[i] = Body(q, i)
          BY <4>2, <5>1, <3>2
        <5>3. i = 0 \/ (i - 1 \in 0 .. m /\ i - 1 # m)
          BY <5>1, <2>3
        <5>4. i # 0 => r[i - 1] = q[i - 1]
          BY <5>3
        <5> QED
          BY <5>2, <5>4
      <4> QED
        BY <4>1, <4>2
    <3>4. Steps(r, m)
      BY <3>3
    <3> QED
      BY <2>3, <3>4
  <2> QED
    BY <2>3, <2>4, <2>5
<1>2. Steps(R, n)
  BY <1>1
<1>3. Readied(d, h, n) = R[n]
  BY DEF Readied
<1> HIDE DEF R
<1>4. R[0] = d.ready
  <2>1. 0 \in 0 .. n
    OBVIOUS
  <2> QED
    BY <1>2, <2>1
<1>5. ASSUME NEW i \in 1 .. n
      PROVE  R[i] = IF HasPicture(d, h, i)
                    THEN Append(R[i - 1], PictureOf(d, h, i)) ELSE R[i - 1]
  <2>1. i \in 0 .. n /\ i # 0
    OBVIOUS
  <2>2. R[i] = Body(R, i)
    BY <1>2, <2>1
  <2> QED
    BY <2>1, <2>2
<1> QED
  BY <1>3, <1>4, <1>5

(* The pictures Readied returns: those that were ready, and behind them    *)
(* one for each of the first n buffers that has a picture; in the order of *)
(* the stream and at the geometry they were decoded at if the queues were. *)
LEMMA ReadiedInOrder ==
  ASSUME NEW d \in Decoder, NEW h \in Driver, NEW n \in 0 .. Len(h.done),
         n > 0 => d.cap # None,
         StreamOrder(d, h), Geometry(d, h)
  PROVE  LET s == Readied(d, h, n)
         IN /\ s \in Seq(Picture)
            /\ \A j \in DOMAIN s : s[j].fmt = s[j].frame.fmt
            /\ \A j \in DOMAIN s :
                 \/ s[j].frame.num \in ReadyNums(d)
                 \/ \E k \in 1 .. n : h.done[k].frame # None /\ s[j].frame.num = h.done[k].frame.num
            /\ \A j, k \in DOMAIN s : j < k => s[j].frame.num < s[k].frame.num
<1>1. PICK r : /\ Readied(d, h, n) = r[n]
               /\ r[0] = d.ready
               /\ \A i \in 1 .. n : r[i] = IF HasPicture(d, h, i)
                                           THEN Append(r[i - 1], PictureOf(d, h, i))
                                           ELSE r[i - 1]
  BY ReadiedSteps
<1>0. /\ n \in Nat /\ d.ready \in Seq(Picture) /\ h.done \in Seq(Filled)
      /\ Len(h.done) \in Nat /\ n <= Len(h.done) /\ DOMAIN h.done = 1 .. Len(h.done)
  BY DEF Decoder, Driver
<1> DEFINE Typed(s) == s \in Seq(Picture)
           Copied(s) == \A j \in DOMAIN s : s[j].fmt = s[j].frame.fmt
           From(s, i) == \A j \in DOMAIN s :
                           \/ s[j].frame.num \in ReadyNums(d)
                           \/ \E k \in 1 .. i : /\ h.done[k].frame # None
                                                /\ s[j].frame.num = h.done[k].frame.num
           Rising(s) == \A j, k \in DOMAIN s : j < k => s[j].frame.num < s[k].frame.num
           Good(s, i) == Typed(s) /\ Copied(s) /\ From(s, i) /\ Rising(s)
           T == {i \in 0 .. n : ~Good(r[i], i)}
<1>2. Good(r[0], 0)
  BY <1>0, <1>1 DEF StreamOrder, Geometry, ReadyNums
<1>3. ASSUME NEW i \in 1 .. n, Good(r[i - 1], i - 1)
      PROVE  Good(r[i], i)
  <2> DEFINE s == r[i - 1]
             p == PictureOf(d, h, i)
             t == Append(s, p)
  <2>0. i \in 1 .. Len(h.done) /\ i \in DOMAIN h.done /\ i - 1 \in Nat /\ n # 0
    BY <1>0
  <2>1. Good(s, i)
    <3>1. \A k \in 1 .. (i - 1) : k \in 1 .. i
      BY <2>0
    <3>2. From(s, i)
      BY <1>3, <3>1
    <3> QED
      BY <1>3, <3>2
  <2>2. CASE ~HasPicture(d, h, i)
    BY <1>1, <2>1, <2>2
  <2>3. CASE HasPicture(d, h, i)
    <3>1. r[i] = t
      BY <1>1, <2>3
    <3>2. h.done[i].frame # None /\ h.done[i] \in Filled /\ Final(d)
      BY <2>0, <1>0, <2>3 DEF HasPicture, Final
    <3>3. p.frame = h.done[i].frame /\ p.fmt = d.cap.fmt
      BY DEF PictureOf
    <3>4. d.cap \in Capture /\ d.cap.fmt \in AnyFormat /\ p.frame \in Frame
      BY <3>2, <3>3 DEF Decoder, Final, Filled, Capture, AnyFormat
    <3>5. p \in Picture
      BY <3>4 DEF PictureOf, Picture, AnyFormat
    <3>6. p.fmt = p.frame.fmt
      BY <2>0, <3>2, <3>3 DEF Geometry
    <3> HIDE DEF p, s
    <3>7. /\ t \in Seq(Picture) /\ DOMAIN t = 1 .. (Len(s) + 1) /\ Len(s) \in Nat
          /\ DOMAIN s = 1 .. Len(s)
          /\ \A j \in DOMAIN s : t[j] = s[j]
          /\ t[Len(s) + 1] = p
      BY <2>1, <3>5
    <3>8. \A j \in DOMAIN t : j \in DOMAIN s \/ j = Len(s) + 1
      BY <3>7
    <3>9. Copied(t)
      BY <2>1, <3>6, <3>7, <3>8
    <3>10. From(t, i)
      <4>1. i \in 1 .. i
        BY <2>0
      <4> QED
        BY <2>1, <3>2, <3>3, <3>7, <3>8, <4>1
    <3>11. \A j \in DOMAIN s : s[j].frame.num < p.frame.num
      <4>1. TAKE j \in DOMAIN s
      <4>2. CASE s[j].frame.num \in ReadyNums(d)
        <5>1. p.frame.num \in DoneNums(h)
          BY <2>0, <3>2, <3>3 DEF DoneNums
        <5> QED
          BY <4>2, <5>1 DEF StreamOrder, Below
      <4>3. CASE \E k \in 1 .. (i - 1) : h.done[k].frame # None /\ s[j].frame.num = h.done[k].frame.num
        <5>1. PICK k \in 1 .. (i - 1) : h.done[k].frame # None /\ s[j].frame.num = h.done[k].frame.num
          BY <4>3
        <5>2. k \in DOMAIN h.done /\ k < i
          BY <2>0, <1>0
        <5> QED
          BY <2>0, <3>2, <3>3, <5>1, <5>2 DEF StreamOrder
      <4> QED
        BY <1>3, <4>2, <4>3 DEF s
    <3>12. Rising(t)
      <4>1. TAKE j, k \in DOMAIN t
      <4>2. HAVE j < k
      <4>3. j \in DOMAIN s
        BY <3>7, <4>2
      <4> QED
        BY <2>1, <3>7, <3>8, <3>11, <4>2, <4>3
    <3> HIDE DEF Copied, From, Rising, t
    <3> QED
      BY <3>1, <3>7, <3>9, <3>10, <3>12
  <2> QED
    BY <2>2, <2>3
<1>4. T = {}
  <2> HIDE DEF Good
  <2>1. SUFFICES ASSUME T # {} PROVE FALSE
    OBVIOUS
  <2>2. T \subseteq Nat
    BY <1>0
  <2>3. PICK m \in T : \A y \in T : m <= y
    BY <2>1, <2>2, Least
  <2>4. m \in 1 .. n /\ ~Good(r[m], m)
    BY <1>2, <2>3, <1>0
  <2>5. m - 1 \in 0 .. n /\ ~(m <= m - 1)
    BY <2>4, <1>0
  <2>6. Good(r[m - 1], m - 1)
    BY <2>3, <2>5
  <2> QED
    BY <1>3, <2>4, <2>6
<1>5. Good(r[n], n)
  <2> HIDE DEF Good
  <2> QED
    BY <1>4, <1>0
<1> QED
  BY <1>1, <1>5

(* What collect_capture does to the decoder and the driver when it takes n *)
(* buffers, the last of which may end the sequence.                        *)
Harvested(d, h, n, c) ==
  /\ n \in 0 .. Len(h.done)
  /\ c.d.outq = d.outq
  /\ c.d.cap = [d.cap EXCEPT !.queued = @ \ {h.done[i].idx : i \in {j \in 1 .. n : Ends(d, h, j)}}]
  /\ c.d.ready = Readied(d, h, n)
  /\ c.d.saw_last => \/ n > 0 /\ Ends(d, h, n)
                     \/ n = Len(h.done) /\ h.ended
  /\ c.d = [outq |-> c.d.outq, ready |-> c.d.ready, unanswered |-> c.d.unanswered,
            finished |-> d.finished, saw_last |-> c.d.saw_last, cap |-> c.d.cap]
  /\ c.d.unanswered \in Nat /\ c.d.saw_last \in BOOLEAN
  /\ c.h = [h EXCEPT
              !.done = SubSeq(h.done, n + 1, Len(h.done)),
              !.held = h.held \cup {h.done[i].idx : i \in {j \in 1 .. n : ~Ends(d, h, j)}},
              !.freed = h.freed \cup ({h.done[i].slot : i \in 1 .. n} \ {None}),
              !.ended = h.ended \/ (n > 0 /\ h.done[n].last)]

(* Collected is that, with as many buffers as Taken says. *)
LEMMA CollectedFields ==
  ASSUME NEW d \in Decoder, NEW h \in Driver, NEW limit \in Nat,
         ~d.saw_last, d.cap # None,
         NEW c, c = Collected(d, h, limit), NEW n, n = Taken(d, h, limit)
  PROVE  Harvested(d, h, n, c)
<1> DEFINE over == n > 0 /\ Ends(d, h, n)
           epipe == n < limit /\ h.done = SubSeq(h.done, 1, n) /\ h.ended
           back == {h.done[i].idx : i \in {j \in 1 .. n : ~Ends(d, h, j)}}
           kept == {h.done[i].idx : i \in {j \in 1 .. n : Ends(d, h, j)}}
           any == \E i \in 1 .. n : HasPicture(d, h, i)
           saw == d.saw_last \/ over \/ epipe
           left == d.cap.queued \ kept
           un == IF any THEN 0 ELSE d.unanswered
           e == [d EXCEPT !.saw_last = saw, !.cap.queued = left,
                          !.ready = Readied(d, h, n), !.unanswered = un]
           g == [h EXCEPT !.done = SubSeq(@, n + 1, Len(@)),
                          !.held = @ \cup back,
                          !.freed = @ \cup ({h.done[i].slot : i \in 1 .. n} \ {None}),
                          !.ended = @ \/ (n > 0 /\ h.done[n].last)]
<1>1. c = [d |-> e, h |-> g, any |-> n > 0]
  BY DEF Collected
<1>2. c.d = e /\ c.h = g
  BY <1>1
<1>3. n \in 0 .. Len(h.done)
  BY TakenUpTo
<1>4. epipe => n = Len(h.done)
  <2>1. h.done \in Seq(Filled) /\ n \in 0 .. Len(h.done)
    BY <1>3 DEF Driver
  <2>2. Len(SubSeq(h.done, 1, n)) = n
    BY <2>1
  <2> QED
    BY <2>2
<1> HIDE DEF over, epipe, kept, back, any, saw, left, un
<1>5. e = [outq |-> d.outq, ready |-> Readied(d, h, n), unanswered |-> un,
           finished |-> d.finished, saw_last |-> saw,
           cap |-> [d.cap EXCEPT !.queued = left]]
  <2> DEFINE cap == [d.cap EXCEPT !.queued = left]
  <2>1. d = [outq |-> d.outq, ready |-> d.ready, unanswered |-> d.unanswered,
             finished |-> d.finished, saw_last |-> d.saw_last, cap |-> d.cap]
    BY DEF Decoder
  <2>2. e = [d EXCEPT !.saw_last = saw, !.cap = cap, !.ready = Readied(d, h, n),
                      !.unanswered = un]
    BY Zenon
  <2> HIDE DEF e, cap
  <2>3. e = [outq |-> d.outq, ready |-> Readied(d, h, n), unanswered |-> un,
             finished |-> d.finished, saw_last |-> saw, cap |-> cap]
    BY <2>1, <2>2
  <2> QED
    BY <2>3 DEF cap
<1>6. g = [h EXCEPT !.done = SubSeq(h.done, n + 1, Len(h.done)),
                    !.held = h.held \cup back,
                    !.freed = h.freed \cup ({h.done[i].slot : i \in 1 .. n} \ {None}),
                    !.ended = h.ended \/ (n > 0 /\ h.done[n].last)]
  BY DEF Driver
<1> HIDE DEF e, g
<1>7. /\ c.d.outq = d.outq /\ c.d.ready = Readied(d, h, n)
      /\ c.d.cap = [d.cap EXCEPT !.queued = @ \ kept]
      /\ c.d.saw_last = saw /\ c.d.unanswered = un
      /\ c.d = [outq |-> c.d.outq, ready |-> c.d.ready, unanswered |-> c.d.unanswered,
                finished |-> d.finished, saw_last |-> c.d.saw_last, cap |-> c.d.cap]
  BY <1>2, <1>5 DEF left
<1>8. d.unanswered \in Nat /\ d.saw_last \in BOOLEAN
  BY DEF Decoder
<1>9. c.d.unanswered \in Nat /\ c.d.saw_last \in BOOLEAN
  BY <1>7, <1>8 DEF un, saw
<1>10. c.d.saw_last => over \/ (n = Len(h.done) /\ h.ended)
  BY <1>4, <1>7 DEF epipe, saw
<1>11. c.h = [h EXCEPT !.done = SubSeq(h.done, n + 1, Len(h.done)),
                       !.held = h.held \cup back,
                       !.freed = h.freed \cup ({h.done[i].slot : i \in 1 .. n} \ {None}),
                       !.ended = h.ended \/ (n > 0 /\ h.done[n].last)]
  BY <1>2, <1>6
<1> QED
  BY Zenon, <1>3, <1>7, <1>9, <1>10, <1>11 DEF over, back, kept, Harvested
-----------------------------------------------------------------------------
(* The first filled CAPTURE buffers leave the driver: taken by collect,    *)
(* lost by an error, or dropped by STREAMOFF.                              *)

Without(h, g, n) ==
  /\ n \in 0 .. Len(h.done)
  /\ g = [h EXCEPT !.done = SubSeq(h.done, n + 1, Len(h.done)),
                   !.held = g.held,
                   !.freed = h.freed \cup ({h.done[i].slot : i \in 1 .. n} \ {None}),
                   !.ended = g.ended, !.on = g.on]

(* What is filled afterwards is the rest of what was. *)
LEMMA Rest ==
  ASSUME NEW h \in Driver, NEW g, NEW n, Without(h, g, n)
  PROVE  /\ n \in Nat /\ n <= Len(h.done) /\ Len(h.done) \in Nat
         /\ h.done \in Seq(Filled) /\ DOMAIN h.done = 1 .. Len(h.done)
         /\ g.done \in Seq(Filled)
         /\ Len(g.done) = Len(h.done) - n
         /\ DOMAIN g.done = 1 .. (Len(h.done) - n)
         /\ \A i \in DOMAIN g.done : n + i \in DOMAIN h.done /\ n + i > n /\ g.done[i] = h.done[n + i]
         /\ \A k \in DOMAIN h.done : k > n => k - n \in DOMAIN g.done /\ g.done[k - n] = h.done[k]
         /\ g.jobs = h.jobs /\ g.fmt = h.fmt /\ g.paused = h.paused
         /\ g.unreported = h.unreported /\ g.events = h.events /\ g.broken = h.broken
         /\ g.freed = h.freed \cup ({h.done[i].slot : i \in 1 .. n} \ {None})
<1>1. /\ n \in Nat /\ n <= Len(h.done) /\ Len(h.done) \in Nat
      /\ h.done \in Seq(Filled) /\ DOMAIN h.done = 1 .. Len(h.done)
  BY DEF Driver, Without
<1> DEFINE rest == SubSeq(h.done, n + 1, Len(h.done))
<1>2. /\ g.done = rest
      /\ g.jobs = h.jobs /\ g.fmt = h.fmt /\ g.paused = h.paused
      /\ g.unreported = h.unreported /\ g.events = h.events /\ g.broken = h.broken
      /\ g.freed = h.freed \cup ({h.done[i].slot : i \in 1 .. n} \ {None})
  <2> HIDE DEF rest
  <2> QED
    BY DEF Driver, Without, rest
<1>3. /\ rest \in Seq(Filled)
      /\ Len(rest) = Len(h.done) - n
      /\ DOMAIN rest = 1 .. (Len(h.done) - n)
      /\ \A i \in DOMAIN rest : rest[i] = h.done[n + i]
  BY <1>1
<1> HIDE DEF rest
<1>4. /\ \A i \in DOMAIN rest : n + i \in DOMAIN h.done /\ n + i > n
      /\ \A k \in DOMAIN h.done : k > n => k - n \in DOMAIN rest /\ n + (k - n) = k
  BY <1>1, <1>3
<1> QED
  BY <1>1, <1>2, <1>3, <1>4

(* The OUTPUT buffers behind them become free to be dequeued. *)
LEMMA WithoutKeepsSlots ==
  ASSUME NEW d \in Decoder, NEW h \in Driver, NEW e, NEW g, NEW n,
         Without(h, g, n), e.outq = d.outq, SlotsOwned(d, h)
  PROVE  SlotsOwned(e, g)
<1> DEFINE F == {h.done[i].slot : i \in 1 .. n} \ {None}
<1>1. JobSlots(g) = JobSlots(h) /\ g.freed = h.freed \cup F
  BY Rest DEF JobSlots
<1>2. \A i \in 1 .. n : i \in DOMAIN h.done
  BY Rest
<1>3. DoneSlots(h) = DoneSlots(g) \cup F
  <2>1. ASSUME NEW i \in DOMAIN h.done, h.done[i].slot # None
        PROVE  h.done[i].slot \in DoneSlots(g) \cup F
    <3>1. CASE i <= n
      <4>1. i \in 1 .. n
        BY Rest, <3>1
      <4> QED
        BY <2>1, <4>1
    <3>2. CASE i > n
      <4>1. i - n \in DOMAIN g.done /\ g.done[i - n] = h.done[i]
        BY Rest, <3>2
      <4> QED
        BY <2>1, <4>1 DEF DoneSlots
    <3> QED
      BY Rest, <3>1, <3>2
  <2>2. DoneSlots(g) \subseteq DoneSlots(h)
    BY Rest DEF DoneSlots
  <2>3. F \subseteq DoneSlots(h)
    BY <1>2 DEF DoneSlots
  <2>4. DoneSlots(h) \subseteq DoneSlots(g) \cup F
    BY <2>1 DEF DoneSlots
  <2> QED
    BY <2>2, <2>3, <2>4
<1>4. DoneSlots(g) \cap F = {}
  <2>1. SUFFICES ASSUME NEW x, x \in DoneSlots(g), x \in F PROVE FALSE
    OBVIOUS
  <2>2. PICK i \in DOMAIN g.done : x = g.done[i].slot
    BY <2>1 DEF DoneSlots
  <2>3. PICK k \in 1 .. n : x = h.done[k].slot /\ x # None
    BY <2>1
  <2>4. n + i \in DOMAIN h.done /\ x = h.done[n + i].slot /\ k \in DOMAIN h.done
    BY Rest, <1>2, <2>2
  <2>5. n + i = k
    BY <2>3, <2>4 DEF SlotsOwned
  <2> QED
    BY <2>5, <2>2, <2>3, Rest
<1>5. ASSUME NEW i \in DOMAIN g.done, NEW j \in DOMAIN g.done,
             g.done[i].slot = g.done[j].slot, g.done[i].slot # None
      PROVE  i = j
  <2>1. /\ n + i \in DOMAIN h.done /\ g.done[i] = h.done[n + i]
        /\ n + j \in DOMAIN h.done /\ g.done[j] = h.done[n + j]
    BY Rest
  <2>2. h.done[n + i].slot = h.done[n + j].slot /\ h.done[n + i].slot # None
    BY <1>5, <2>1
  <2>3. n + i = n + j
    BY <2>1, <2>2 DEF SlotsOwned
  <2> QED
    BY Rest, <2>3
<1>6. \A i, j \in DOMAIN g.jobs : g.jobs[i].slot = g.jobs[j].slot => i = j
  BY Rest DEF SlotsOwned
<1>7. /\ e.outq = JobSlots(h) \cup DoneSlots(h) \cup h.freed
      /\ JobSlots(h) \cap DoneSlots(h) = {}
      /\ (JobSlots(h) \cup DoneSlots(h)) \cap h.freed = {}
  BY DEF SlotsOwned
<1> HIDE DEF F
<1>8. /\ e.outq = JobSlots(g) \cup DoneSlots(g) \cup g.freed
      /\ JobSlots(g) \cap DoneSlots(g) = {}
      /\ (JobSlots(g) \cup DoneSlots(g)) \cap g.freed = {}
  BY <1>1, <1>3, <1>4, <1>7
<1> QED
  BY <1>5, <1>6, <1>8 DEF SlotsOwned

(* A CAPTURE buffer given back is empty in the driver and flagged queued;  *)
(* one that is kept is neither.                                            *)
LEMMA WithoutKeepsBuffers ==
  ASSUME NEW d \in Decoder, NEW h \in Driver, NEW e, NEW g, NEW n, NEW B,
         Without(h, g, n), B \subseteq 1 .. n, d.cap # None,
         e.cap = [d.cap EXCEPT !.queued = @ \ {h.done[i].idx : i \in (1 .. n) \ B}],
         g.held = h.held \cup {h.done[i].idx : i \in B},
         BuffersOwned(d, h)
  PROVE  BuffersOwned(e, g)
<1> DEFINE back == {h.done[i].idx : i \in B}
           kept == {h.done[i].idx : i \in (1 .. n) \ B}
<1>1. \A i \in 1 .. n : i \in DOMAIN h.done
  BY Rest
<1>2. \A i, j \in DOMAIN h.done : h.done[i].idx = h.done[j].idx => i = j
  BY DEF BuffersOwned
<1>3. DoneIdx(h) = DoneIdx(g) \cup back \cup kept
  <2>1. ASSUME NEW i \in DOMAIN h.done
        PROVE  h.done[i].idx \in DoneIdx(g) \cup back \cup kept
    <3>1. CASE i <= n
      <4>1. i \in B \/ i \in (1 .. n) \ B
        BY Rest, <3>1
      <4> QED
        BY <4>1
    <3>2. CASE i > n
      <4>1. i - n \in DOMAIN g.done /\ g.done[i - n] = h.done[i]
        BY Rest, <3>2
      <4> QED
        BY <4>1 DEF DoneIdx
    <3> QED
      BY Rest, <3>1, <3>2
  <2>2. DoneIdx(g) \subseteq DoneIdx(h)
    BY Rest DEF DoneIdx
  <2>3. back \subseteq DoneIdx(h) /\ kept \subseteq DoneIdx(h)
    BY <1>1 DEF DoneIdx
  <2>4. DoneIdx(h) \subseteq DoneIdx(g) \cup back \cup kept
    BY <2>1 DEF DoneIdx
  <2> QED
    BY <2>2, <2>3, <2>4
<1>4. back \cap kept = {}
  BY <1>1, <1>2
<1>5. DoneIdx(g) \cap (back \cup kept) = {}
  <2>1. SUFFICES ASSUME NEW x, x \in DoneIdx(g), x \in back \cup kept PROVE FALSE
    OBVIOUS
  <2>2. PICK i \in DOMAIN g.done : x = g.done[i].idx
    BY <2>1 DEF DoneIdx
  <2>3. PICK k \in 1 .. n : x = h.done[k].idx
    BY <2>1
  <2>4. n + i \in DOMAIN h.done /\ x = h.done[n + i].idx /\ k \in DOMAIN h.done
    BY Rest, <1>1, <2>2
  <2>5. n + i = k
    BY <1>2, <2>3, <2>4
  <2> QED
    BY <2>5, <2>2, <2>3, Rest
<1>6. ASSUME NEW i \in DOMAIN g.done, NEW j \in DOMAIN g.done,
             g.done[i].idx = g.done[j].idx
      PROVE  i = j
  <2>1. /\ n + i \in DOMAIN h.done /\ g.done[i] = h.done[n + i]
        /\ n + j \in DOMAIN h.done /\ g.done[j] = h.done[n + j]
    BY Rest
  <2>2. h.done[n + i].idx = h.done[n + j].idx
    BY <1>6, <2>1
  <2>3. n + i = n + j
    BY <1>2, <2>1, <2>2
  <2> QED
    BY Rest, <2>3
<1>7. d.cap.queued = h.held \cup DoneIdx(h) /\ h.held \cap DoneIdx(h) = {}
  BY DEF BuffersOwned
<1>8. e.cap.queued = d.cap.queued \ kept
  BY DEF Decoder, Capture
<1>9. g.held = h.held \cup back
  OBVIOUS
<1> HIDE DEF back, kept
<1>10. e.cap.queued = g.held \cup DoneIdx(g) /\ g.held \cap DoneIdx(g) = {}
  BY <1>3, <1>4, <1>5, <1>7, <1>8, <1>9
<1> QED
  BY <1>6, <1>10 DEF BuffersOwned

(* Pictures move from the filled buffers to the ready ones, or are lost;   *)
(* either way the rest stays in order.                                     *)
LEMMA WithoutKeepsOrder ==
  ASSUME NEW d \in Decoder, NEW h \in Driver, NEW e, NEW g, NEW n,
         Without(h, g, n), StreamOrder(d, h),
         \A j \in DOMAIN e.ready :
           \/ e.ready[j].frame.num \in ReadyNums(d)
           \/ \E k \in 1 .. n : h.done[k].frame # None /\ e.ready[j].frame.num = h.done[k].frame.num,
         \A j, k \in DOMAIN e.ready : j < k => e.ready[j].frame.num < e.ready[k].frame.num
  PROVE  StreamOrder(e, g) /\ InFlight(e, g) \subseteq InFlight(d, h)
<1>1. JobNums(g) = JobNums(h)
  BY Rest DEF JobNums
<1>2. DoneNums(g) \subseteq DoneNums(h)
  BY Rest DEF DoneNums
<1>3. \A k \in 1 .. n : k \in DOMAIN h.done
  BY Rest
<1>4. ReadyNums(e) \subseteq ReadyNums(d) \cup DoneNums(h)
  BY <1>3 DEF ReadyNums, DoneNums
<1>5. Below(ReadyNums(e), DoneNums(g))
  <2>1. ASSUME NEW x \in ReadyNums(e), NEW y \in DoneNums(g)
        PROVE  x < y
    <3>1. PICK j \in DOMAIN e.ready : x = e.ready[j].frame.num
      BY DEF ReadyNums
    <3>2. PICK i \in DOMAIN g.done : y = g.done[i].frame.num /\ g.done[i].frame # None
      BY DEF DoneNums
    <3>3. CASE x \in ReadyNums(d)
      BY <1>2, <3>3 DEF StreamOrder, Below
    <3>4. CASE \E k \in 1 .. n : h.done[k].frame # None /\ x = h.done[k].frame.num
      <4>1. PICK k \in 1 .. n : h.done[k].frame # None /\ x = h.done[k].frame.num
        BY <3>4
      <4>2. /\ n + i \in DOMAIN h.done /\ g.done[i] = h.done[n + i]
            /\ k \in DOMAIN h.done /\ k < n + i
        BY Rest, <1>3
      <4> QED
        BY <3>2, <4>1, <4>2 DEF StreamOrder
    <3> QED
      BY <3>1, <3>3, <3>4
  <2> QED
    BY <2>1 DEF Below
<1>6. Below(ReadyNums(e), JobNums(g)) /\ Below(DoneNums(g), JobNums(g))
  BY <1>1, <1>2, <1>4 DEF StreamOrder, Below
<1>7. ASSUME NEW i \in DOMAIN g.done, NEW j \in DOMAIN g.done,
             i < j, g.done[i].frame # None, g.done[j].frame # None
      PROVE  g.done[i].frame.num < g.done[j].frame.num
  <2>1. /\ n + i \in DOMAIN h.done /\ g.done[i] = h.done[n + i]
        /\ n + j \in DOMAIN h.done /\ g.done[j] = h.done[n + j]
        /\ n + i < n + j
    BY Rest, <1>7
  <2> QED
    BY <1>7, <2>1 DEF StreamOrder
<1>8. \A i, j \in DOMAIN g.jobs : i < j => g.jobs[i].frame.num < g.jobs[j].frame.num
  BY Rest DEF StreamOrder
<1>9. StreamOrder(e, g)
  BY <1>5, <1>6, <1>7, <1>8 DEF StreamOrder
<1> QED
  BY <1>1, <1>2, <1>4, <1>9 DEF InFlight

(* Taking filled buffers away disturbs neither the geometry of the others  *)
(* nor the end of the sequence.                                            *)
LEMMA WithoutKeepsGeometry ==
  ASSUME NEW d \in Decoder, NEW h \in Driver, NEW e, NEW g, NEW n,
         Without(h, g, n), Geometry(d, h),
         \A j \in DOMAIN e.ready : e.ready[j].fmt = e.ready[j].frame.fmt,
         Final(e) => Final(d) /\ e.cap.fmt = d.cap.fmt,
         g.ended => h.ended \/ \E i \in 1 .. n : h.done[i].last
  PROVE  Geometry(e, g)
<1>1. Final(e) => /\ g.fmt \in Formats
                  /\ g.paused \/ e.cap.fmt = g.fmt
                  /\ \A i \in DOMAIN g.done :
                       g.done[i].frame # None => g.done[i].frame.fmt = e.cap.fmt
  BY Rest DEF Geometry
<1>2. \A i \in 1 .. n : i \in DOMAIN h.done
  BY Rest
<1>3. g.ended => g.paused
  BY <1>2, Rest DEF Geometry
<1>4. ASSUME NEW i \in DOMAIN g.done, g.done[i].last
      PROVE  g.paused /\ i = Len(g.done)
  <2>1. n + i \in DOMAIN h.done /\ h.done[n + i].last
    BY Rest, <1>4
  <2>2. h.paused /\ n + i = Len(h.done)
    BY <2>1 DEF Geometry
  <2>3. /\ i \in Int /\ n \in Int /\ Len(h.done) \in Int
        /\ Len(g.done) = Len(h.done) - n /\ g.paused = h.paused
    BY Rest
  <2> QED
    BY <2>2, <2>3
<1>5. g.unreported \/ (\E i \in DOMAIN g.events : g.events[i] = "change")
        => g.fmt \in Formats
  BY Rest DEF Geometry
<1> QED
  BY <1>1, <1>3, <1>4, <1>5 DEF Geometry

(* dequeue on the OUTPUT queue takes what is free, and nothing else.       *)
LEMMA DrainKeeps ==
  ASSUME NEW d \in Decoder, NEW h \in Driver, PairInv(d, h)
  PROVE  LET e == DrainedOutput(d, h)
             g == [h EXCEPT !.freed = {}]
         IN /\ e \in Decoder /\ g \in Driver
            /\ PairInv(e, g)
            /\ InFlight(e, g) = InFlight(d, h)
            /\ e.ready = d.ready /\ e.cap = d.cap /\ e.saw_last = d.saw_last
            /\ g.jobs = h.jobs /\ g.done = h.done /\ g.fmt = h.fmt /\ g.paused = h.paused
            /\ g.ended = h.ended
<1> DEFINE e == DrainedOutput(d, h)
           g == [h EXCEPT !.freed = {}]
<1>1. /\ e \in Decoder /\ e.outq = d.outq \ h.freed
      /\ e.ready = d.ready /\ e.cap = d.cap /\ e.saw_last = d.saw_last
  BY DEF Decoder, DrainedOutput
<1>2. /\ g \in Driver /\ g.jobs = h.jobs /\ g.done = h.done /\ g.freed = {}
      /\ g.held = h.held /\ g.fmt = h.fmt /\ g.paused = h.paused /\ g.ended = h.ended
      /\ g.unreported = h.unreported /\ g.events = h.events
  BY DEF Driver
<1> HIDE DEF e, g
<1>3. SlotsOwned(e, g)
  <2>1. JobSlots(g) = JobSlots(h) /\ DoneSlots(g) = DoneSlots(h)
    BY <1>2 DEF JobSlots, DoneSlots
  <2>2. /\ e.outq = JobSlots(g) \cup DoneSlots(g) \cup g.freed
        /\ JobSlots(g) \cap DoneSlots(g) = {}
        /\ (JobSlots(g) \cup DoneSlots(g)) \cap g.freed = {}
    BY <1>1, <1>2, <2>1 DEF PairInv, SlotsOwned
  <2> QED
    BY <1>2, <2>2 DEF PairInv, SlotsOwned
<1>4. BuffersOwned(e, g)
  BY <1>1, <1>2 DEF PairInv, BuffersOwned, DoneIdx
<1>5. ReadyNums(e) = ReadyNums(d) /\ DoneNums(g) = DoneNums(h) /\ JobNums(g) = JobNums(h)
  BY <1>1, <1>2 DEF ReadyNums, DoneNums, JobNums
<1>6. StreamOrder(e, g)
  BY <1>1, <1>2, <1>5 DEF PairInv, StreamOrder
<1>7. Geometry(e, g)
  BY <1>1, <1>2 DEF PairInv, Geometry, Final
<1> QED
  BY <1>1, <1>2, <1>3, <1>4, <1>5, <1>6, <1>7 DEF PairInv, InFlight, e, g

(* collect_capture, with any limit, keeps all of it; when it has seen the  *)
(* end of the sequence, nothing is left behind that it could have taken.   *)
LEMMA CollectKeeps ==
  ASSUME NEW d \in Decoder, NEW h \in Driver, NEW limit \in Nat, PairInv(d, h)
  PROVE  LET c == Collected(d, h, limit)
         IN /\ c.d \in Decoder /\ c.h \in Driver
            /\ PairInv(c.d, c.h)
            /\ InFlight(c.d, c.h) \subseteq InFlight(d, h)
            /\ c.d.outq = d.outq /\ c.h.fmt = h.fmt /\ c.h.paused = h.paused
            /\ c.h.jobs = h.jobs /\ c.h.events = h.events
            /\ h.done = <<>> => c.d.ready = d.ready /\ c.h.done = <<>>
            /\ Final(c.d) /\ c.d.saw_last /\ ~d.saw_last =>
                 \/ c.h.paused /\ \A i \in DOMAIN c.h.done : c.h.done[i].frame = None
                 \/ Refuses(c.d, c.h)
<1> DEFINE c == Collected(d, h, limit)
           n == Taken(d, h, limit)
<1>1. CASE d.saw_last \/ d.cap = None
  <2>1. c.d = d /\ c.h = h
    BY <1>1 DEF Collected
  <2>2. Final(d) /\ ~d.saw_last => FALSE
    BY <1>1 DEF Final
  <2> HIDE DEF c
  <2> QED
    BY <2>1, <2>2 DEF c
<1>2. CASE ~(d.saw_last \/ d.cap = None)
  <2> DEFINE B == {j \in 1 .. n : ~Ends(d, h, j)}
             E == {j \in 1 .. n : Ends(d, h, j)}
             back == {h.done[i].idx : i \in B}
             kept == {h.done[i].idx : i \in E}
             freed == h.freed \cup ({h.done[i].slot : i \in 1 .. n} \ {None})
  <2>1. /\ n \in 0 .. Len(h.done)
        /\ c.d.outq = d.outq
        /\ c.d.cap = [d.cap EXCEPT !.queued = @ \ kept]
        /\ c.d.ready = Readied(d, h, n)
        /\ c.d.saw_last => (n > 0 /\ Ends(d, h, n)) \/ (n = Len(h.done) /\ h.ended)
        /\ c.d = [outq |-> c.d.outq, ready |-> c.d.ready, unanswered |-> c.d.unanswered,
                  finished |-> d.finished, saw_last |-> c.d.saw_last, cap |-> c.d.cap]
        /\ c.d.unanswered \in Nat /\ c.d.saw_last \in BOOLEAN
        /\ c.h = [h EXCEPT !.done = SubSeq(h.done, n + 1, Len(h.done)),
                           !.held = h.held \cup back, !.freed = freed,
                           !.ended = h.ended \/ (n > 0 /\ h.done[n].last)]
    <3>1. ~d.saw_last /\ d.cap # None /\ c = Collected(d, h, limit) /\ n = Taken(d, h, limit)
      BY <1>2
    <3> HIDE DEF c, n
    <3>2. Harvested(d, h, n, c)
      BY <3>1, CollectedFields
    <3> QED
      BY Zenon, <3>2 DEF Harvested
  <2> HIDE DEF c, n
  <2>2. /\ \A i \in 1 .. n : i \in DOMAIN h.done /\ h.done[i] \in Filled
        /\ n \in Nat /\ h.done \in Seq(Filled) /\ Len(h.done) \in Nat
    BY <2>1 DEF Driver
  <2> DEFINE ended == h.ended \/ (n > 0 /\ h.done[n].last)
  <2>3. ended \in BOOLEAN /\ (ended => h.ended \/ \E i \in 1 .. n : h.done[i].last)
    <3>1. h.ended \in BOOLEAN /\ (n > 0 => n \in 1 .. n /\ h.done[n].last \in BOOLEAN)
      BY <2>2 DEF Driver, Filled
    <3> QED
      BY <3>1
  <2>4. back \subseteq Buffers /\ freed \subseteq Slots
    BY <2>2 DEF Driver, Filled
  <2> HIDE DEF back, freed, ended
  <2>5. /\ c.h.held = h.held \cup back /\ c.h.freed = freed /\ c.h.ended = ended
        /\ c.h.on = h.on
        /\ c.h = [h EXCEPT !.done = SubSeq(h.done, n + 1, Len(h.done)),
                           !.held = c.h.held, !.freed = freed,
                           !.ended = c.h.ended, !.on = c.h.on]
    <3> DEFINE rest == SubSeq(h.done, n + 1, Len(h.done))
               held == h.held \cup back
    <3>1. c.h = [h EXCEPT !.done = rest, !.held = held, !.freed = freed, !.ended = ended]
      BY Zenon, <2>1 DEF ended
    <3> HIDE DEF rest, held
    <3>2. c.h.held = held /\ c.h.freed = freed /\ c.h.ended = ended /\ c.h.on = h.on
      BY <3>1 DEF Driver
    <3>3. c.h = [h EXCEPT !.done = rest, !.held = c.h.held, !.freed = freed,
                          !.ended = c.h.ended, !.on = c.h.on]
      BY <3>1, <3>2 DEF Driver
    <3> QED
      BY <3>2, <3>3 DEF rest, held
  <2>6. Without(h, c.h, n)
    BY <2>1, <2>5 DEF Without, freed
  <2>7. d.cap \in Capture
    BY <1>2 DEF Decoder
  <2>8. /\ c.d.cap \in Capture /\ c.d.cap # None
        /\ c.d.cap.fmt = d.cap.fmt /\ c.d.cap.provisional = d.cap.provisional
    <3> HIDE DEF kept
    <3>1. /\ c.d.cap \in Capture
          /\ c.d.cap.fmt = d.cap.fmt /\ c.d.cap.provisional = d.cap.provisional
      BY <2>1, <2>7 DEF Capture
    <3> QED
      BY <3>1, Constants
  <2>9. n > 0 => d.cap # None
    BY <1>2
  <2>10. StreamOrder(d, h) /\ Geometry(d, h) /\ SlotsOwned(d, h) /\ BuffersOwned(d, h)
    BY DEF PairInv
  <2> DEFINE s == Readied(d, h, n)
  <2>11. /\ c.d.ready \in Seq(Picture)
         /\ \A j \in DOMAIN c.d.ready : c.d.ready[j].fmt = c.d.ready[j].frame.fmt
         /\ \A j \in DOMAIN c.d.ready :
              \/ c.d.ready[j].frame.num \in ReadyNums(d)
              \/ \E k \in 1 .. n : /\ h.done[k].frame # None
                                   /\ c.d.ready[j].frame.num = h.done[k].frame.num
         /\ \A j, k \in DOMAIN c.d.ready :
              j < k => c.d.ready[j].frame.num < c.d.ready[k].frame.num
    <3>1. /\ s \in Seq(Picture)
          /\ \A j \in DOMAIN s : s[j].fmt = s[j].frame.fmt
          /\ \A j \in DOMAIN s :
               \/ s[j].frame.num \in ReadyNums(d)
               \/ \E k \in 1 .. n : h.done[k].frame # None /\ s[j].frame.num = h.done[k].frame.num
          /\ \A j, k \in DOMAIN s : j < k => s[j].frame.num < s[k].frame.num
      BY <2>1, <2>9, <2>10, ReadiedInOrder
    <3>2. c.d.ready = s
      BY <2>1
    <3> HIDE DEF s
    <3> QED
      BY <3>1, <3>2
  <2>12. SlotsOwned(c.d, c.h)
    BY <2>1, <2>6, <2>10, WithoutKeepsSlots
  <2>13. BuffersOwned(c.d, c.h)
    <3>1. (1 .. n) \ B = E /\ B \subseteq 1 .. n
      OBVIOUS
    <3>2. c.d.cap = [d.cap EXCEPT !.queued = @ \ {h.done[i].idx : i \in (1 .. n) \ B}]
      BY <2>1, <3>1
    <3>3. c.h.held = h.held \cup {h.done[i].idx : i \in B}
      BY <2>5 DEF back
    <3> HIDE DEF B
    <3> QED
      BY <1>2, <2>6, <2>10, <3>1, <3>2, <3>3, WithoutKeepsBuffers
  <2>14. StreamOrder(c.d, c.h) /\ InFlight(c.d, c.h) \subseteq InFlight(d, h)
    BY <2>6, <2>10, <2>11, WithoutKeepsOrder
  <2>15. Final(c.d) => Final(d) /\ c.d.cap.fmt = d.cap.fmt
    BY <1>2, <2>8 DEF Final
  <2>16. Geometry(c.d, c.h)
    BY <2>3, <2>5, <2>6, <2>10, <2>11, <2>15, WithoutKeepsGeometry
  <2>17. c.d \in Decoder
    <3>1. d.outq \in SUBSET Slots /\ d.finished \in BOOLEAN
      BY DEF Decoder
    <3> QED
      BY <2>1, <2>8, <2>11, <3>1 DEF Decoder
  <2>18. c.h \in Driver
    <3> DEFINE rest == SubSeq(h.done, n + 1, Len(h.done))
    <3>1. rest \in Seq(Filled)
      BY <2>1, <2>2
    <3> HIDE DEF rest
    <3> DEFINE held == h.held \cup back
               g == [h EXCEPT !.done = rest, !.held = held]
    <3>2. c.h = [g EXCEPT !.freed = freed, !.ended = ended]
      BY <2>1 DEF rest, ended
    <3>3. held \in SUBSET Buffers
      BY <2>4 DEF Driver
    <3> HIDE DEF held
    <3>4. g \in Driver
      BY <3>1, <3>3 DEF Driver
    <3> HIDE DEF g
    <3> QED
      BY <2>3, <2>4, <3>2, <3>4 DEF Driver
  <2>19. /\ c.h.fmt = h.fmt /\ c.h.paused = h.paused /\ c.h.jobs = h.jobs
         /\ c.h.events = h.events
         /\ Len(c.h.done) = Len(h.done) - n /\ DOMAIN c.h.done = 1 .. (Len(h.done) - n)
    BY <2>6, Rest
  <2>20. ASSUME h.done = <<>>
         PROVE  c.d.ready = d.ready /\ c.h.done = <<>>
    <3>1. n = 0
      BY <2>1, <2>20
    <3>2. c.d.ready = d.ready
      BY <2>1, <3>1, ReadiedSteps
    <3>3. c.h.done = <<>>
      BY <2>18, <2>19, <2>20, <3>1 DEF Driver
    <3> QED
      BY <3>2, <3>3
  <2>21. ASSUME Final(c.d), c.d.saw_last
         PROVE  \/ c.h.paused /\ \A i \in DOMAIN c.h.done : c.h.done[i].frame = None
                \/ Refuses(c.d, c.h)
    <3>1. CASE n > 0 /\ Ends(d, h, n)
      <4>1. CASE Refuses(d, h)
        BY <4>1, <2>8, <2>19 DEF Refuses
      <4>2. CASE h.done[n].last
        <5>1. n \in DOMAIN h.done
          BY <2>2, <3>1
        <5>2. h.paused /\ n = Len(h.done)
          BY <2>10, <4>2, <5>1 DEF Geometry
        <5>3. DOMAIN c.h.done = {}
          BY <2>19, <2>2, <5>2
        <5> QED
          BY <5>2, <5>3, <2>19
      <4> QED
        BY <3>1, <4>1, <4>2 DEF Ends
    <3>2. CASE n = Len(h.done) /\ h.ended
      <4>1. h.paused
        BY <2>10, <3>2 DEF Geometry
      <4>2. DOMAIN c.h.done = {}
        BY <2>19, <2>2, <3>2
      <4> QED
        BY <4>1, <4>2, <2>19
    <3> QED
      BY <2>1, <2>21, <3>1, <3>2
  <2>22. PairInv(c.d, c.h)
    BY <2>12, <2>13, <2>14, <2>16 DEF PairInv
  <2> QED
    BY <2>1, <2>14, <2>17, <2>18, <2>19, <2>20, <2>21, <2>22 DEF c
<1> QED
  BY <1>1, <1>2

(* An error out of take_capture loses the picture, never the buffers.      *)
LEMMA CollectErrorKeeps ==
  ASSUME NEW d \in Decoder, NEW h \in Driver, NEW back \in BOOLEAN, PairInv(d, h)
  PROVE  LET c == CollectError(d, h, back)
         IN /\ c.d \in Decoder /\ c.h \in Driver
            /\ PairInv(c.d, c.h)
            /\ InFlight(c.d, c.h) \subseteq InFlight(d, h)
            /\ h.done = <<>> => c.d.ready = d.ready /\ c.h.done = <<>>
            /\ c.h.jobs = h.jobs
<1> DEFINE c == CollectError(d, h, back)
<1>1. CASE d.saw_last \/ d.cap = None \/ h.done = <<>>
  <2>1. c.d = d /\ c.h = h
    BY <1>1 DEF CollectError
  <2> HIDE DEF c
  <2> QED
    BY <2>1 DEF c
<1>2. CASE ~(d.saw_last \/ d.cap = None \/ h.done = <<>>)
  <2> DEFINE b == Head(h.done)
             left == IF back THEN d.cap.queued ELSE d.cap.queued \ {b.idx}
             held == IF back THEN h.held \cup {b.idx} ELSE h.held
             freed == h.freed \cup ({b.slot} \ {None})
             ended == h.ended \/ b.last
             B == IF back THEN {1} ELSE {}
             e == [d EXCEPT !.cap.queued = left]
             g == [h EXCEPT !.done = Tail(@), !.held = held, !.freed = freed, !.ended = ended]
  <2>1. c = [d |-> e, h |-> g]
    BY <1>2 DEF CollectError
  <2>2. c.d = e /\ c.h = g
    BY <2>1
  <2>3. /\ h.done \in Seq(Filled) /\ Len(h.done) \in Nat /\ Len(h.done) >= 1
        /\ b = h.done[1] /\ 1 \in DOMAIN h.done /\ b \in Filled
        /\ Tail(h.done) = SubSeq(h.done, 2, Len(h.done))
        /\ Tail(h.done) \in Seq(Filled)
    BY <1>2 DEF Driver
  <2>4. b.idx \in Buffers /\ b.slot \in Slots \cup {None} /\ b.last \in BOOLEAN
    BY <2>3 DEF Filled
  <2>5. d.cap \in Capture /\ d.cap.queued \subseteq Buffers
    BY <1>2 DEF Decoder, Capture
  <2>6. left \subseteq Buffers /\ held \subseteq Buffers /\ freed \subseteq Slots /\ ended \in BOOLEAN
    BY <2>4, <2>5 DEF Driver
  <2> DEFINE cap == [d.cap EXCEPT !.queued = left]
             rest == Tail(h.done)
  <2> HIDE DEF b, c
  <2>7. ended => h.ended \/ \E i \in 1 .. 1 : h.done[i].last
    BY <2>3
  <2>8. /\ 1 .. 1 = {1} /\ freed = h.freed \cup ({h.done[i].slot : i \in 1 .. 1} \ {None})
        /\ B \subseteq 1 .. 1
        /\ held = h.held \cup {h.done[i].idx : i \in B}
        /\ left = d.cap.queued \ {h.done[i].idx : i \in (1 .. 1) \ B}
    <3>1. 1 .. 1 = {1}
      OBVIOUS
    <3>2. {h.done[i].slot : i \in {1}} = {b.slot}
      BY <2>3
    <3>3. CASE back
      BY <2>3, <3>1, <3>2, <3>3
    <3>4. CASE ~back
      BY <2>3, <3>1, <3>2, <3>4
    <3> QED
      BY <3>3, <3>4
  <2>9. e = [d EXCEPT !.cap = cap]
    BY Zenon
  <2>10. cap \in Capture /\ cap # None /\ cap.fmt = d.cap.fmt /\ cap.provisional = d.cap.provisional
    <3> HIDE DEF left
    <3> QED
      BY <2>5, <2>6, Constants DEF Capture
  <2> HIDE DEF left, held, freed, ended, B, e, cap, rest
  <2>11. /\ e \in Decoder /\ e.outq = d.outq /\ e.ready = d.ready /\ e.cap = cap
    BY <2>9, <2>10 DEF Decoder
  <2>12. /\ g \in Driver /\ g.done = rest /\ g.held = held /\ g.freed = freed
         /\ g.ended = ended /\ g.on = h.on /\ g.jobs = h.jobs
         /\ g = [h EXCEPT !.done = rest, !.held = g.held, !.freed = freed, !.ended = g.ended,
                          !.on = g.on]
    <3>1. g = [h EXCEPT !.done = rest, !.held = held, !.freed = freed, !.ended = ended]
      BY DEF rest
    <3>2. rest \in Seq(Filled)
      BY <2>3 DEF rest
    <3>3. h.held \subseteq Buffers /\ h.freed \subseteq Slots
      BY DEF Driver
    <3> HIDE DEF g
    <3>4. g \in Driver /\ g.done = rest /\ g.held = held /\ g.freed = freed
          /\ g.ended = ended /\ g.on = h.on /\ g.jobs = h.jobs
      BY <2>6, <3>1, <3>2, <3>3 DEF Driver
    <3>5. g = [h EXCEPT !.done = rest, !.held = g.held, !.freed = freed, !.ended = g.ended,
                        !.on = g.on]
      BY <3>1, <3>4 DEF Driver
    <3> QED
      BY <3>4, <3>5
  <2> HIDE DEF g
  <2>13. Without(h, g, 1)
    <3>1. rest = SubSeq(h.done, 1 + 1, Len(h.done)) /\ 1 \in 0 .. Len(h.done)
      BY <2>3 DEF rest
    <3> QED
      BY <3>1, <2>8, <2>12 DEF Without
  <2>14. StreamOrder(d, h) /\ Geometry(d, h) /\ SlotsOwned(d, h) /\ BuffersOwned(d, h)
    BY DEF PairInv
  <2>15. SlotsOwned(e, g)
    BY <2>11, <2>13, <2>14, WithoutKeepsSlots
  <2>16. BuffersOwned(e, g)
    <3>1. e.cap = [d.cap EXCEPT !.queued = @ \ {h.done[i].idx : i \in (1 .. 1) \ B}]
      BY <2>8, <2>11 DEF cap
    <3>2. g.held = h.held \cup {h.done[i].idx : i \in B}
      BY <2>8, <2>12
    <3> QED
      BY <1>2, <2>8, <2>13, <2>14, <3>1, <3>2, WithoutKeepsBuffers
  <2>17. StreamOrder(e, g) /\ InFlight(e, g) \subseteq InFlight(d, h)
    <3>1. \A j \in DOMAIN e.ready : e.ready[j].frame.num \in ReadyNums(d)
      BY <2>11 DEF ReadyNums
    <3>2. \A j, k \in DOMAIN e.ready : j < k => e.ready[j].frame.num < e.ready[k].frame.num
      BY <2>11, <2>14 DEF StreamOrder
    <3> QED
      BY <2>13, <2>14, <3>1, <3>2, WithoutKeepsOrder
  <2>18. Geometry(e, g)
    <3>1. \A j \in DOMAIN e.ready : e.ready[j].fmt = e.ready[j].frame.fmt
      BY <2>11, <2>14 DEF Geometry
    <3>2. Final(e) => Final(d) /\ e.cap.fmt = d.cap.fmt
      BY <1>2, <2>10, <2>11 DEF Final
    <3>3. g.ended => h.ended \/ \E i \in 1 .. 1 : h.done[i].last
      BY <2>7, <2>12
    <3> QED
      BY <2>13, <2>14, <3>1, <3>2, <3>3, WithoutKeepsGeometry
  <2> QED
    BY <1>2, <2>2, <2>11, <2>12, <2>15, <2>16, <2>17, <2>18 DEF PairInv, c
<1> QED
  BY <1>1, <1>2
-----------------------------------------------------------------------------
(* reconfigure_capture *)

(* Without its CAPTURE queue the decoder still accounts for its OUTPUT     *)
(* buffers.                                                                *)
LEMMA LostCaptureKeeps ==
  ASSUME NEW d \in Decoder, NEW h \in Driver, PairInv(d, h)
  PROVE  LET e == [d EXCEPT !.cap = None]
         IN /\ e \in Decoder /\ PairInv(e, h)
            /\ InFlight(e, h) = InFlight(d, h)
            /\ e.ready = d.ready /\ e.cap = None
<1> DEFINE e == [d EXCEPT !.cap = None]
<1>1. e \in Decoder /\ e.outq = d.outq /\ e.ready = d.ready /\ e.cap = None
  BY DEF Decoder
<1> HIDE DEF e
<1>2. SlotsOwned(e, h) /\ BuffersOwned(e, h)
  BY <1>1 DEF PairInv, SlotsOwned, BuffersOwned
<1>3. ReadyNums(e) = ReadyNums(d)
  BY <1>1 DEF ReadyNums
<1>4. StreamOrder(e, h)
  BY <1>1, <1>3 DEF PairInv, StreamOrder
<1>5. Geometry(e, h)
  BY <1>1 DEF PairInv, Geometry, Final
<1> QED
  BY <1>1, <1>2, <1>3, <1>4, <1>5 DEF PairInv, InFlight, e

(* STREAMOFF, once the decoder has given its CAPTURE queue up.             *)
LEMMA StreamedOffKeeps ==
  ASSUME NEW d \in Decoder, NEW h \in Driver, PairInv(d, h), d.cap = None
  PROVE  LET g == StreamedOff(h)
         IN /\ g \in Driver /\ PairInv(d, g)
            /\ InFlight(d, g) \subseteq InFlight(d, h)
            /\ g.fmt = h.fmt /\ g.jobs = h.jobs /\ g.done = <<>> /\ ~g.ended
<1> DEFINE g == StreamedOff(h)
           n == Len(h.done)
           freed == h.freed \cup ({h.done[i].slot : i \in DOMAIN h.done} \ {None})
<1>1. /\ h.done \in Seq(Filled) /\ n \in Nat /\ DOMAIN h.done = 1 .. n
      /\ SubSeq(h.done, n + 1, n) = <<>>
  BY DEF Driver
<1>2. freed \subseteq Slots
  <2>1. \A i \in DOMAIN h.done : h.done[i] \in Filled
    BY <1>1
  <2>2. \A i \in DOMAIN h.done : h.done[i].slot \in Slots \cup {None}
    BY <2>1 DEF Filled
  <2> QED
    BY <2>2 DEF Driver
<1>3. freed = h.freed \cup ({h.done[i].slot : i \in 1 .. n} \ {None})
  BY <1>1
<1>4. g = [h EXCEPT !.held = {}, !.done = <<>>, !.ended = FALSE, !.on = FALSE, !.freed = freed]
  BY DEF StreamedOff
<1> HIDE DEF freed, g
<1>5. /\ g \in Driver /\ g.held = {} /\ g.done = <<>> /\ g.ended = FALSE /\ g.on = FALSE
      /\ g.freed = freed /\ g.fmt = h.fmt /\ g.jobs = h.jobs
  <2>1. <<>> \in Seq(Filled)
    OBVIOUS
  <2> QED
    BY <1>2, <1>4, <2>1 DEF Driver
<1>6. g = [h EXCEPT !.done = SubSeq(h.done, n + 1, n), !.held = g.held, !.freed = freed,
                    !.ended = g.ended, !.on = g.on]
  BY <1>1, <1>4, <1>5 DEF Driver
<1>7. Without(h, g, n)
  BY <1>1, <1>3, <1>6 DEF Without
<1>8. StreamOrder(d, h) /\ Geometry(d, h) /\ SlotsOwned(d, h) /\ BuffersOwned(d, h)
  BY DEF PairInv
<1>9. SlotsOwned(d, g)
  BY <1>7, <1>8, WithoutKeepsSlots
<1>10. BuffersOwned(d, g)
  BY <1>5 DEF BuffersOwned, DoneIdx
<1>11. StreamOrder(d, g) /\ InFlight(d, g) \subseteq InFlight(d, h)
  <2>1. \A j \in DOMAIN d.ready : d.ready[j].frame.num \in ReadyNums(d)
    BY DEF ReadyNums
  <2>2. \A j, k \in DOMAIN d.ready : j < k => d.ready[j].frame.num < d.ready[k].frame.num
    BY <1>8 DEF StreamOrder
  <2> HIDE DEF n
  <2> QED
    BY <1>7, <1>8, <2>1, <2>2, WithoutKeepsOrder
<1>12. Geometry(d, g)
  <2>1. \A j \in DOMAIN d.ready : d.ready[j].fmt = d.ready[j].frame.fmt
    BY <1>8 DEF Geometry
  <2>2. ~Final(d) /\ ~g.ended
    BY <1>5 DEF Final
  <2> HIDE DEF n
  <2> QED
    BY <1>7, <1>8, <2>1, <2>2, WithoutKeepsGeometry
<1> QED
  BY <1>5, <1>9, <1>10, <1>11, <1>12 DEF PairInv, g

(* New CAPTURE buffers, all queued, at the driver's new geometry.          *)
LEMMA StartedKeeps ==
  ASSUME NEW d \in Decoder, NEW h \in Driver, PairInv(d, h), d.cap = None,
         h.done = <<>>, ~h.ended, h.fmt \in Formats
  PROVE  LET e == [d EXCEPT !.cap = NewCapture(h.fmt, FALSE), !.saw_last = FALSE]
             g == Started(h)
         IN /\ e \in Decoder /\ g \in Driver /\ PairInv(e, g)
            /\ InFlight(e, g) = InFlight(d, h)
            /\ g.fmt = h.fmt /\ e.ready = d.ready /\ g.jobs = h.jobs /\ g.done = h.done
<1> DEFINE cap == NewCapture(h.fmt, FALSE)
           e == [d EXCEPT !.cap = cap, !.saw_last = FALSE]
           g == Started(h)
<1>1. cap \in Capture /\ cap.queued = Buffers /\ cap.fmt = h.fmt
  BY DEF NewCapture, Capture
<1> HIDE DEF cap
<1>2. e \in Decoder /\ e.outq = d.outq /\ e.ready = d.ready /\ e.cap = cap
  BY <1>1 DEF Decoder
<1>3. /\ g \in Driver /\ g.jobs = h.jobs /\ g.freed = h.freed /\ g.held = Buffers
      /\ g.done = h.done /\ g.fmt = h.fmt /\ g.ended = h.ended
      /\ g.unreported = h.unreported /\ g.events = h.events
  BY DEF Driver, Started
<1> HIDE DEF e, g
<1>4. SlotsOwned(e, g)
  <2>1. JobSlots(g) = JobSlots(h) /\ DoneSlots(g) = DoneSlots(h)
    BY <1>3 DEF JobSlots, DoneSlots
  <2> QED
    BY <1>2, <1>3, <2>1 DEF PairInv, SlotsOwned
<1>5. BuffersOwned(e, g)
  BY <1>1, <1>2, <1>3 DEF BuffersOwned, DoneIdx
<1>6. ReadyNums(e) = ReadyNums(d) /\ DoneNums(g) = DoneNums(h) /\ JobNums(g) = JobNums(h)
  BY <1>2, <1>3 DEF ReadyNums, DoneNums, JobNums
<1>7. StreamOrder(e, g)
  BY <1>2, <1>3, <1>6 DEF PairInv, StreamOrder
<1>8. Geometry(e, g)
  BY <1>1, <1>2, <1>3 DEF PairInv, Geometry, Final
<1> QED
  BY <1>2, <1>3, <1>4, <1>5, <1>6, <1>7, <1>8 DEF PairInv, InFlight, e, g, cap
-----------------------------------------------------------------------------
(* The thread: a frame in, a picture out *)

(* The caller gets the first ready picture, the oldest in flight.          *)
LEMMA SendKeeps ==
  ASSUME NEW d \in Decoder, NEW h \in Driver, PairInv(d, h), Send(d)
  PROVE  /\ dec' \in Decoder /\ PairInv(dec', h)
         /\ dec'.outq = d.outq /\ dec'.cap = d.cap /\ dec'.saw_last = d.saw_last
         /\ InFlight(dec', h) \subseteq InFlight(d, h)
         /\ \/ shown' = shown
            \/ /\ shown' \in Picture /\ shown'.fmt = shown'.frame.fmt
               /\ shown'.frame.num \in InFlight(d, h)
               /\ \A n \in InFlight(dec', h) : shown'.frame.num < n
               /\ d.ready # <<>>
<1>1. CASE d.ready = <<>>
  BY <1>1 DEF Send
<1>2. CASE d.ready # <<>>
  <2> DEFINE rest == Tail(d.ready)
             p == Head(d.ready)
  <2>1. /\ d.ready \in Seq(Picture) /\ Len(d.ready) \in Nat /\ Len(d.ready) >= 1
        /\ DOMAIN d.ready = 1 .. Len(d.ready)
        /\ p = d.ready[1] /\ 1 \in DOMAIN d.ready /\ p \in Picture
        /\ rest \in Seq(Picture) /\ DOMAIN rest = 1 .. (Len(d.ready) - 1)
        /\ \A i \in DOMAIN rest : i + 1 \in DOMAIN d.ready /\ rest[i] = d.ready[i + 1] /\ i + 1 > 1
    BY <1>2 DEF Decoder
  <2>2. dec' = [d EXCEPT !.ready = rest] /\ shown' = p
    BY <1>2 DEF Send
  <2> HIDE DEF rest, p
  <2>3. /\ dec' \in Decoder /\ dec'.outq = d.outq /\ dec'.ready = rest /\ dec'.cap = d.cap
        /\ dec'.saw_last = d.saw_last
    BY <2>1, <2>2 DEF Decoder
  <2>4. ReadyNums(dec') \subseteq ReadyNums(d) /\ p.frame.num \in ReadyNums(d)
    <3>1. p.frame.num \in ReadyNums(d)
      BY <2>1 DEF ReadyNums
    <3>2. ASSUME NEW i \in DOMAIN rest PROVE rest[i].frame.num \in ReadyNums(d)
      BY <2>1 DEF ReadyNums
    <3> QED
      BY <2>3, <3>1, <3>2 DEF ReadyNums
  <2>5. \A x \in ReadyNums(dec') : p.frame.num < x
    BY <2>1, <2>3 DEF ReadyNums, PairInv, StreamOrder
  <2>6. \A x \in DoneNums(h) \cup JobNums(h) : p.frame.num < x
    BY <2>4 DEF PairInv, StreamOrder, Below
  <2>7. StreamOrder(dec', h)
    <3>1. \A i, j \in DOMAIN rest : i < j => rest[i].frame.num < rest[j].frame.num
      <4>1. TAKE i, j \in DOMAIN rest
      <4>2. HAVE i < j
      <4>3. i + 1 < j + 1 /\ i + 1 \in DOMAIN d.ready /\ j + 1 \in DOMAIN d.ready
        BY <2>1, <4>2
      <4> QED
        BY <2>1, <4>3 DEF PairInv, StreamOrder
    <3> QED
      BY <2>3, <2>4, <3>1 DEF PairInv, StreamOrder, Below
  <2>8. SlotsOwned(dec', h) /\ BuffersOwned(dec', h)
    BY <2>3 DEF PairInv, SlotsOwned, BuffersOwned
  <2>9. Geometry(dec', h)
    BY <2>1, <2>3 DEF PairInv, Geometry, Final
  <2>10. p.fmt = p.frame.fmt
    BY <2>1 DEF PairInv, Geometry
  <2> QED
    BY <1>2, <2>1, <2>2, <2>3, <2>4, <2>5, <2>6, <2>7, <2>8, <2>9, <2>10 DEF PairInv, InFlight
<1> QED
  BY <1>1, <1>2

(* A frame goes into a slot nothing else is in, behind all the others.     *)
LEMMA PutKeeps ==
  ASSUME NEW d \in Decoder, NEW h \in Driver, NEW f \in Frame, NEW s \in Slots \ d.outq,
         NEW u \in Nat, PairInv(d, h), \A n \in InFlight(d, h) : n < f.num
  PROVE  LET e == [d EXCEPT !.outq = @ \cup {s}, !.unanswered = u]
             g == [h EXCEPT !.jobs = Append(@, [slot |-> s, frame |-> f])]
         IN /\ e \in Decoder /\ g \in Driver /\ PairInv(e, g)
            /\ InFlight(e, g) \subseteq InFlight(d, h) \cup {f.num}
            /\ e.cap = d.cap
<1> DEFINE e == [d EXCEPT !.outq = @ \cup {s}, !.unanswered = u]
           j0 == [slot |-> s, frame |-> f]
           jobs == Append(h.jobs, j0)
           g == [h EXCEPT !.jobs = jobs]
           m == Len(h.jobs)
<1>1. /\ h.jobs \in Seq(Job) /\ m \in Nat /\ DOMAIN h.jobs = 1 .. m
      /\ j0 \in Job /\ j0.slot = s /\ j0.frame = f
  BY DEF Driver, Job
<1> HIDE DEF j0
<1>2. /\ jobs \in Seq(Job) /\ DOMAIN jobs = 1 .. (m + 1)
      /\ \A i \in DOMAIN h.jobs : i \in DOMAIN jobs /\ jobs[i] = h.jobs[i]
      /\ m + 1 \in DOMAIN jobs /\ jobs[m + 1] = j0
      /\ \A i \in DOMAIN jobs : i \in DOMAIN h.jobs \/ i = m + 1
      /\ \A i \in DOMAIN h.jobs : i < m + 1 /\ i # m + 1
  BY <1>1
<1> HIDE DEF jobs
<1>3. /\ e \in Decoder /\ e.outq = d.outq \cup {s} /\ e.ready = d.ready /\ e.cap = d.cap
  BY DEF Decoder
<1>4. /\ g \in Driver /\ g.jobs = jobs /\ g.freed = h.freed /\ g.held = h.held
      /\ g.done = h.done /\ g.fmt = h.fmt /\ g.paused = h.paused /\ g.ended = h.ended
      /\ g.unreported = h.unreported /\ g.events = h.events
  BY <1>2 DEF Driver
<1> HIDE DEF e, g, m
<1>5. JobSlots(g) = JobSlots(h) \cup {s} /\ DoneSlots(g) = DoneSlots(h)
  BY <1>1, <1>2, <1>4 DEF JobSlots, DoneSlots
<1>6. SlotsOwned(e, g)
  <2>1. s \notin JobSlots(h) \cup DoneSlots(h) \cup h.freed
    BY DEF PairInv, SlotsOwned
  <2>2. ASSUME NEW i \in DOMAIN jobs, NEW k \in DOMAIN jobs, jobs[i].slot = jobs[k].slot
        PROVE  i = k
    <3>1. \A x \in DOMAIN h.jobs : jobs[x].slot # s
      BY <1>2, <2>1 DEF JobSlots
    <3>2. CASE i \in DOMAIN h.jobs /\ k \in DOMAIN h.jobs
      BY <1>2, <2>2, <3>2 DEF PairInv, SlotsOwned
    <3> QED
      BY <1>1, <1>2, <2>2, <3>1, <3>2
  <2>3. /\ e.outq = JobSlots(g) \cup DoneSlots(g) \cup g.freed
        /\ JobSlots(g) \cap DoneSlots(g) = {}
        /\ (JobSlots(g) \cup DoneSlots(g)) \cap g.freed = {}
    BY <1>3, <1>4, <1>5, <2>1 DEF PairInv, SlotsOwned
  <2> QED
    BY <1>4, <2>2, <2>3 DEF PairInv, SlotsOwned
<1>7. BuffersOwned(e, g)
  BY <1>3, <1>4 DEF PairInv, BuffersOwned, DoneIdx
<1>8. /\ ReadyNums(e) = ReadyNums(d) /\ DoneNums(g) = DoneNums(h)
      /\ JobNums(g) = JobNums(h) \cup {f.num}
  BY <1>1, <1>2, <1>3, <1>4 DEF ReadyNums, DoneNums, JobNums
<1>9. StreamOrder(e, g)
  <2>1. \A n \in JobNums(h) : n < f.num
    BY DEF InFlight
  <2>2. \A i, k \in DOMAIN jobs : i < k => jobs[i].frame.num < jobs[k].frame.num
    <3>1. TAKE i, k \in DOMAIN jobs
    <3>2. HAVE i < k
    <3>3. CASE k \in DOMAIN h.jobs
      <4>1. i \in DOMAIN h.jobs
        BY <1>1, <1>2, <3>2, <3>3
      <4> QED
        BY <1>2, <3>2, <3>3, <4>1 DEF PairInv, StreamOrder
    <3>4. CASE k = m + 1
      <4>1. i \in DOMAIN h.jobs
        BY <1>1, <1>2, <3>2, <3>4
      <4>2. jobs[i].frame.num \in JobNums(h)
        BY <1>2, <4>1 DEF JobNums
      <4> QED
        BY <1>1, <1>2, <2>1, <3>4, <4>2
    <3> QED
      BY <1>2, <3>3, <3>4
  <2>3. /\ Below(ReadyNums(e), DoneNums(g)) /\ Below(ReadyNums(e), JobNums(g))
        /\ Below(DoneNums(g), JobNums(g))
    BY <1>8 DEF PairInv, StreamOrder, Below, InFlight
  <2> QED
    BY <1>3, <1>4, <2>2, <2>3 DEF PairInv, StreamOrder
<1>10. Geometry(e, g)
  BY <1>3, <1>4 DEF PairInv, Geometry, Final
<1> QED
  BY <1>3, <1>4, <1>6, <1>7, <1>8, <1>9, <1>10 DEF PairInv, InFlight, e, g, jobs, j0
-----------------------------------------------------------------------------
(* The driver *)

(* The queues after the driver has taken its first job.                    *)
LEMMA JobTaken ==
  ASSUME NEW h \in Driver, h.jobs # <<>>
  PROVE  /\ Head(h.jobs) \in Job /\ Tail(h.jobs) \in Seq(Job)
         /\ Head(h.jobs) = h.jobs[1] /\ 1 \in DOMAIN h.jobs
         /\ \A i \in DOMAIN Tail(h.jobs) : /\ i \in Int /\ i + 1 \in DOMAIN h.jobs /\ i + 1 > 1
                                           /\ Tail(h.jobs)[i] = h.jobs[i + 1]
         /\ \A i \in DOMAIN h.jobs : \/ i = 1
                                     \/ i - 1 \in DOMAIN Tail(h.jobs) /\ Tail(h.jobs)[i - 1] = h.jobs[i]
<1> DEFINE m == Len(h.jobs)
<1>1. h.jobs \in Seq(Job) /\ m \in Nat /\ m >= 1 /\ DOMAIN h.jobs = 1 .. m
  BY DEF Driver
<1>2. /\ Tail(h.jobs) \in Seq(Job) /\ DOMAIN Tail(h.jobs) = 1 .. (m - 1)
      /\ \A i \in 1 .. (m - 1) : Tail(h.jobs)[i] = h.jobs[i + 1]
      /\ Head(h.jobs) = h.jobs[1] /\ Head(h.jobs) \in Job
  BY <1>1
<1> HIDE DEF m
<1> QED
  BY <1>1, <1>2

(* The filled buffers after the driver has filled one more.                *)
LEMMA OneMoreFilled ==
  ASSUME NEW h \in Driver, NEW x \in Filled
  PROVE  LET done == Append(h.done, x)
             m == Len(h.done) + 1
         IN /\ done \in Seq(Filled) /\ m \in Nat /\ Len(done) = m
            /\ m \in DOMAIN done /\ done[m] = x
            /\ \A i \in DOMAIN h.done : i \in DOMAIN done /\ done[i] = h.done[i] /\ i < m /\ i # m
            /\ \A i \in DOMAIN done : i \in Nat /\ (i \in DOMAIN h.done \/ i = m)
<1>1. h.done \in Seq(Filled)
  BY DEF Driver
<1> QED
  BY <1>1

(* A buffer the driver had empty it now has filled. *)
LEMMA FilledKeepsBuffers ==
  ASSUME NEW d \in Decoder, NEW h \in Driver, NEW g, NEW x \in Filled,
         g.done = Append(h.done, x), x.idx \in h.held, g.held = h.held \ {x.idx},
         BuffersOwned(d, h)
  PROVE  BuffersOwned(d, g)
<1> DEFINE done == Append(h.done, x)
           m == Len(h.done) + 1
<1>1. /\ m \in Nat /\ m \in DOMAIN done /\ done[m] = x
      /\ \A i \in DOMAIN h.done : i \in DOMAIN done /\ done[i] = h.done[i] /\ i # m
      /\ \A i \in DOMAIN done : i \in DOMAIN h.done \/ i = m
  BY OneMoreFilled
<1>2. g.done = done
  OBVIOUS
<1> HIDE DEF done, m
<1>3. DoneIdx(g) = DoneIdx(h) \cup {x.idx}
  BY <1>1, <1>2 DEF DoneIdx
<1>4. x.idx \notin DoneIdx(h)
  BY DEF BuffersOwned
<1>5. \A i \in DOMAIN h.done : done[i].idx # x.idx
  BY <1>1, <1>4 DEF DoneIdx
<1>6. \A i, j \in DOMAIN done : done[i].idx = done[j].idx => i = j
  BY <1>1, <1>5 DEF BuffersOwned
<1> QED
  BY <1>2, <1>3, <1>4, <1>6 DEF BuffersOwned

(* The driver decodes its first job into buffer b. *)
DecodedInto(h, b) ==
  [h EXCEPT !.jobs = Tail(@), !.held = @ \ {b},
            !.done = Append(@, [idx |-> b, slot |-> Head(h.jobs).slot,
                                frame |-> Head(h.jobs).frame, last |-> FALSE])]

(* A job becomes a picture, in the first empty buffer.                     *)
LEMMA DecodesKeeps ==
  ASSUME NEW d \in Decoder, NEW h \in Driver, PairInv(d, h), NEW b \in h.held,
         h.jobs # <<>>, ~h.paused, h.fmt \in {DefaultFormat, Head(h.jobs).frame.fmt}
  PROVE  LET g == DecodedInto(h, b)
         IN /\ g \in Driver /\ PairInv(d, g)
            /\ InFlight(d, g) = InFlight(d, h)
            /\ g.fmt = h.fmt
<1> DEFINE j == Head(h.jobs)
           rest == Tail(h.jobs)
           x == [idx |-> b, slot |-> j.slot, frame |-> j.frame, last |-> FALSE]
           done == Append(h.done, x)
           m == Len(h.done) + 1
           g == [h EXCEPT !.jobs = rest, !.held = @ \ {b}, !.done = done]
<1>1. /\ j \in Job /\ rest \in Seq(Job) /\ j = h.jobs[1] /\ 1 \in DOMAIN h.jobs
      /\ \A i \in DOMAIN rest : i \in Int /\ i + 1 \in DOMAIN h.jobs /\ i + 1 > 1 /\ rest[i] = h.jobs[i + 1]
      /\ \A i \in DOMAIN h.jobs : i = 1 \/ (i - 1 \in DOMAIN rest /\ rest[i - 1] = h.jobs[i])
  BY JobTaken
<1> HIDE DEF j, rest
<1>2. /\ x \in Filled /\ x.slot = j.slot /\ x.frame = j.frame /\ x.idx = b /\ x.last = FALSE
      /\ x.slot # None /\ x.frame # None /\ x.frame \in Frame /\ x.slot \in Slots
  <2>1. j.slot \in Slots /\ j.frame \in Frame /\ b \in Buffers
    BY <1>1 DEF Job, Driver
  <2> QED
    BY <2>1, Constants DEF Filled
<1> HIDE DEF x
<1>3. /\ done \in Seq(Filled) /\ m \in DOMAIN done /\ done[m] = x /\ m \in Nat /\ Len(done) = m
      /\ \A i \in DOMAIN h.done : i \in DOMAIN done /\ done[i] = h.done[i] /\ i < m /\ i # m
      /\ \A i \in DOMAIN done : i \in Nat /\ (i \in DOMAIN h.done \/ i = m)
  BY <1>2, OneMoreFilled
<1>4. g.done = Append(h.done, x) /\ g.held = h.held \ {b}
  BY DEF Driver
<1> HIDE DEF done, m
<1>5. /\ g \in Driver /\ g.jobs = rest /\ g.done = done /\ g.freed = h.freed /\ g.fmt = h.fmt
      /\ g.paused = h.paused /\ g.ended = h.ended /\ g.unreported = h.unreported
      /\ g.events = h.events
  <2>1. h.held \ {b} \subseteq Buffers
    BY DEF Driver
  <2> QED
    BY <1>1, <1>3, <2>1 DEF Driver
<1> HIDE DEF g
<1>6. /\ JobSlots(h) = JobSlots(g) \cup {x.slot} /\ x.slot \notin JobSlots(g)
      /\ DoneSlots(g) = DoneSlots(h) \cup {x.slot}
  <2>1. JobSlots(h) = JobSlots(g) \cup {x.slot}
    BY <1>1, <1>2, <1>5 DEF JobSlots
  <2>2. ASSUME NEW i \in DOMAIN rest
        PROVE  rest[i].slot # x.slot
    <3>1. i + 1 \in DOMAIN h.jobs /\ i + 1 # 1 /\ rest[i] = h.jobs[i + 1]
      BY <1>1
    <3>2. h.jobs[i + 1].slot # h.jobs[1].slot
      BY <1>1, <3>1 DEF PairInv, SlotsOwned
    <3> QED
      BY <1>1, <1>2, <3>1, <3>2
  <2>3. x.slot \notin JobSlots(g)
    BY <1>5, <2>2 DEF JobSlots
  <2>4. DoneSlots(g) = DoneSlots(h) \cup {x.slot}
    BY <1>2, <1>3, <1>5 DEF DoneSlots
  <2> QED
    BY <2>1, <2>3, <2>4
<1>7. SlotsOwned(d, g)
  <2>1. /\ d.outq = JobSlots(g) \cup DoneSlots(g) \cup g.freed
        /\ JobSlots(g) \cap DoneSlots(g) = {}
        /\ (JobSlots(g) \cup DoneSlots(g)) \cap g.freed = {}
    BY <1>5, <1>6 DEF PairInv, SlotsOwned
  <2>2. ASSUME NEW i \in DOMAIN rest, NEW k \in DOMAIN rest, rest[i].slot = rest[k].slot
        PROVE  i = k
    <3>1. i + 1 = k + 1
      BY <1>1, <2>2 DEF PairInv, SlotsOwned
    <3> QED
      BY <1>1, <3>1
  <2>3. \A i \in DOMAIN h.done : done[i].slot # x.slot
    <3>1. x.slot \notin DoneSlots(h)
      BY <1>6 DEF PairInv, SlotsOwned
    <3> QED
      BY <1>2, <1>3, <3>1 DEF DoneSlots
  <2>4. \A i, k \in DOMAIN done : done[i].slot = done[k].slot /\ done[i].slot # None => i = k
    BY <1>3, <2>3 DEF PairInv, SlotsOwned
  <2> QED
    BY <1>5, <2>1, <2>2, <2>4 DEF SlotsOwned
<1>8. BuffersOwned(d, g)
  BY <1>2, <1>4, FilledKeepsBuffers DEF PairInv
<1>9. /\ JobNums(h) = JobNums(g) \cup {x.frame.num}
      /\ DoneNums(g) = DoneNums(h) \cup {x.frame.num}
  <2>1. JobNums(h) = JobNums(g) \cup {x.frame.num}
    <3>1. JobNums(g) \cup {x.frame.num} \subseteq JobNums(h)
      BY <1>1, <1>2, <1>5 DEF JobNums
    <3>2. JobNums(h) \subseteq JobNums(g) \cup {x.frame.num}
      BY <1>1, <1>2, <1>5 DEF JobNums
    <3> QED
      BY <3>1, <3>2
  <2>2. DoneNums(g) = DoneNums(h) \cup {x.frame.num}
    BY <1>2, <1>3, <1>5 DEF DoneNums
  <2> QED
    BY <2>1, <2>2
<1>10. StreamOrder(d, g)
  <2>1. \A n \in JobNums(g) : x.frame.num < n
    BY <1>1, <1>2, <1>5 DEF PairInv, StreamOrder, JobNums
  <2>2. /\ Below(ReadyNums(d), DoneNums(g)) /\ Below(ReadyNums(d), JobNums(g))
        /\ Below(DoneNums(g), JobNums(g))
    BY <1>9, <2>1 DEF PairInv, StreamOrder, Below
  <2>3. \A i, k \in DOMAIN rest : i < k => rest[i].frame.num < rest[k].frame.num
    <3>1. TAKE i, k \in DOMAIN rest
    <3>2. HAVE i < k
    <3>3. i + 1 < k + 1 /\ i + 1 \in DOMAIN h.jobs /\ k + 1 \in DOMAIN h.jobs
      BY <1>1, <3>2
    <3> QED
      BY <1>1, <3>3 DEF PairInv, StreamOrder
  <2>4. \A i \in DOMAIN h.done : h.done[i].frame # None => h.done[i].frame.num < x.frame.num
    BY <1>9 DEF PairInv, StreamOrder, Below, DoneNums
  <2>5. \A i, k \in DOMAIN done : i < k /\ done[i].frame # None /\ done[k].frame # None
                                    => done[i].frame.num < done[k].frame.num
    <3>1. TAKE i, k \in DOMAIN done
    <3>2. HAVE i < k /\ done[i].frame # None /\ done[k].frame # None
    <3>3. CASE k \in DOMAIN h.done
      <4>1. i \in DOMAIN h.done
        BY <1>3, <3>2, <3>3
      <4> QED
        BY <1>3, <3>2, <3>3, <4>1 DEF PairInv, StreamOrder
    <3>4. CASE k = m
      <4>1. i \in DOMAIN h.done
        BY <1>3, <3>2, <3>4
      <4> QED
        BY <1>3, <2>4, <3>2, <3>4, <4>1
    <3> QED
      BY <1>3, <3>3, <3>4
  <2> QED
    BY <1>5, <2>2, <2>3, <2>5 DEF PairInv, StreamOrder
<1>11. Geometry(d, g)
  <2>1. Final(d) => x.frame.fmt = d.cap.fmt
    <3>1. h.fmt \in Formats => h.fmt = x.frame.fmt
      BY <1>2, Constants DEF j
    <3> QED
      BY <3>1 DEF PairInv, Geometry
  <2>2. \A i \in DOMAIN done : done[i].frame # None /\ Final(d) => done[i].frame.fmt = d.cap.fmt
    BY <1>3, <2>1 DEF PairInv, Geometry
  <2>3. \A i \in DOMAIN done : ~done[i].last
    BY <1>2, <1>3 DEF PairInv, Geometry
  <2> QED
    BY <1>5, <2>2, <2>3 DEF PairInv, Geometry
<1>12. InFlight(d, g) = InFlight(d, h)
  BY <1>9 DEF InFlight
<1>13. g = DecodedInto(h, b)
  BY DEF DecodedInto, g, j, rest, x, done
<1> QED
  BY <1>5, <1>7, <1>8, <1>10, <1>11, <1>12, <1>13 DEF PairInv

(* An access unit that decodes to nothing frees its OUTPUT buffer. *)
LEMMA SkipsKeeps ==
  ASSUME NEW d \in Decoder, NEW h \in Driver, PairInv(d, h), h.jobs # <<>>
  PROVE  LET g == [h EXCEPT !.jobs = Tail(@), !.freed = @ \cup {Head(h.jobs).slot}]
         IN /\ g \in Driver /\ PairInv(d, g)
            /\ InFlight(d, g) \subseteq InFlight(d, h)
            /\ g.fmt = h.fmt /\ g.paused = h.paused /\ g.done = h.done
<1> DEFINE s == Head(h.jobs).slot
           rest == Tail(h.jobs)
           g == [h EXCEPT !.jobs = rest, !.freed = @ \cup {s}]
<1>1. /\ Head(h.jobs) \in Job /\ rest \in Seq(Job) /\ s = h.jobs[1].slot /\ 1 \in DOMAIN h.jobs
      /\ \A i \in DOMAIN rest : i \in Int /\ i + 1 \in DOMAIN h.jobs /\ i + 1 > 1 /\ rest[i] = h.jobs[i + 1]
      /\ \A i \in DOMAIN h.jobs : i = 1 \/ (i - 1 \in DOMAIN rest /\ rest[i - 1] = h.jobs[i])
  BY JobTaken
<1>2. s \in Slots
  BY <1>1 DEF Job
<1> HIDE DEF s, rest
<1>3. /\ g \in Driver /\ g.jobs = rest /\ g.done = h.done /\ g.freed = h.freed \cup {s}
      /\ g.fmt = h.fmt /\ g.held = h.held
      /\ g.paused = h.paused /\ g.ended = h.ended /\ g.unreported = h.unreported
      /\ g.events = h.events
  BY <1>1, <1>2 DEF Driver
<1> HIDE DEF g
<1>4. ASSUME NEW i \in DOMAIN rest
      PROVE  rest[i].slot # s
  <2>1. i + 1 \in DOMAIN h.jobs /\ i + 1 # 1 /\ rest[i] = h.jobs[i + 1]
    BY <1>1
  <2>2. h.jobs[i + 1].slot # h.jobs[1].slot
    BY <1>1, <2>1 DEF PairInv, SlotsOwned
  <2> QED
    BY <1>1, <2>1, <2>2
<1>5. /\ JobSlots(h) = JobSlots(g) \cup {s} /\ s \notin JobSlots(g)
      /\ DoneSlots(g) = DoneSlots(h)
  BY <1>1, <1>3, <1>4 DEF JobSlots, DoneSlots
<1>6. SlotsOwned(d, g)
  <2>1. /\ d.outq = JobSlots(g) \cup DoneSlots(g) \cup g.freed
        /\ JobSlots(g) \cap DoneSlots(g) = {}
        /\ (JobSlots(g) \cup DoneSlots(g)) \cap g.freed = {}
    BY <1>3, <1>5 DEF PairInv, SlotsOwned
  <2>2. ASSUME NEW i \in DOMAIN rest, NEW k \in DOMAIN rest, rest[i].slot = rest[k].slot
        PROVE  i = k
    <3>1. i + 1 = k + 1
      BY <1>1, <2>2 DEF PairInv, SlotsOwned
    <3> QED
      BY <1>1, <3>1
  <2> QED
    BY <1>3, <2>1, <2>2 DEF PairInv, SlotsOwned
<1>7. BuffersOwned(d, g)
  BY <1>3 DEF PairInv, BuffersOwned, DoneIdx
<1>8. JobNums(g) \subseteq JobNums(h) /\ DoneNums(g) = DoneNums(h)
  BY <1>1, <1>3 DEF JobNums, DoneNums
<1>9. StreamOrder(d, g)
  <2>1. \A i, k \in DOMAIN rest : i < k => rest[i].frame.num < rest[k].frame.num
    <3>1. TAKE i, k \in DOMAIN rest
    <3>2. HAVE i < k
    <3>3. i + 1 < k + 1 /\ i + 1 \in DOMAIN h.jobs /\ k + 1 \in DOMAIN h.jobs
      BY <1>1, <3>2
    <3> QED
      BY <1>1, <3>3 DEF PairInv, StreamOrder
  <2> QED
    BY <1>3, <1>8, <2>1 DEF PairInv, StreamOrder, Below
<1>10. Geometry(d, g)
  BY <1>3 DEF PairInv, Geometry
<1> QED
  BY <1>3, <1>6, <1>7, <1>8, <1>9, <1>10 DEF PairInv, InFlight, g, s, rest

(* The driver hands buffer b back with nothing in it, flagged LAST or not. *)
HandedBack(h, b, l) ==
  [h EXCEPT !.held = @ \ {b},
            !.done = Append(@, [idx |-> b, slot |-> None, frame |-> None, last |-> l])]

(* A buffer comes back with no picture in it; if it is flagged LAST the    *)
(* driver pauses, and no other is.                                         *)
LEMMA EmptyKeeps ==
  ASSUME NEW d \in Decoder, NEW h \in Driver, PairInv(d, h), NEW b \in h.held,
         NEW l \in BOOLEAN, l => h.paused, \A i \in DOMAIN h.done : ~h.done[i].last
  PROVE  LET g == HandedBack(h, b, l)
         IN /\ g \in Driver /\ PairInv(d, g)
            /\ InFlight(d, g) = InFlight(d, h)
            /\ g.fmt = h.fmt
<1> DEFINE x == [idx |-> b, slot |-> None, frame |-> None, last |-> l]
           done == Append(h.done, x)
           m == Len(h.done) + 1
           g == [h EXCEPT !.held = @ \ {b}, !.done = done]
<1>1. x \in Filled /\ x.slot = None /\ x.frame = None /\ x.idx = b /\ x.last = l
  BY DEF Filled, Driver
<1> HIDE DEF x
<1>2. /\ done \in Seq(Filled) /\ m \in DOMAIN done /\ done[m] = x /\ m \in Nat /\ Len(done) = m
      /\ \A i \in DOMAIN h.done : i \in DOMAIN done /\ done[i] = h.done[i] /\ i < m /\ i # m
      /\ \A i \in DOMAIN done : i \in Nat /\ (i \in DOMAIN h.done \/ i = m)
  BY <1>1, OneMoreFilled
<1>3. g.done = Append(h.done, x) /\ g.held = h.held \ {b}
  BY DEF Driver
<1> HIDE DEF done, m
<1>4. /\ g \in Driver /\ g.jobs = h.jobs /\ g.done = done /\ g.freed = h.freed /\ g.fmt = h.fmt
      /\ g.paused = h.paused /\ g.ended = h.ended /\ g.unreported = h.unreported
      /\ g.events = h.events
  <2>1. h.held \ {b} \subseteq Buffers
    BY DEF Driver
  <2> QED
    BY <1>2, <2>1 DEF Driver
<1> HIDE DEF g
<1>5. /\ JobSlots(g) = JobSlots(h) /\ JobNums(g) = JobNums(h)
      /\ DoneSlots(g) = DoneSlots(h)
  BY <1>1, <1>2, <1>4 DEF JobSlots, JobNums, DoneSlots
<1>6. DoneNums(g) = DoneNums(h)
  BY <1>1, <1>2, <1>4 DEF DoneNums
<1>7. SlotsOwned(d, g)
  <2>1. \A i, k \in DOMAIN done : done[i].slot = done[k].slot /\ done[i].slot # None => i = k
    BY <1>1, <1>2 DEF PairInv, SlotsOwned
  <2> QED
    BY <1>4, <1>5, <2>1 DEF PairInv, SlotsOwned
<1>8. BuffersOwned(d, g)
  BY <1>1, <1>3, FilledKeepsBuffers DEF PairInv
<1>9. StreamOrder(d, g)
  <2>1. \A i, k \in DOMAIN done : i < k /\ done[i].frame # None /\ done[k].frame # None
                                    => done[i].frame.num < done[k].frame.num
    BY <1>1, <1>2 DEF PairInv, StreamOrder
  <2> QED
    BY <1>4, <1>5, <1>6, <2>1 DEF PairInv, StreamOrder
<1>10. Geometry(d, g)
  <2>1. \A i \in DOMAIN done : done[i].frame # None /\ Final(d) => done[i].frame.fmt = d.cap.fmt
    BY <1>1, <1>2 DEF PairInv, Geometry
  <2>2. \A i \in DOMAIN done : done[i].last => h.paused /\ i = Len(done)
    BY <1>1, <1>2
  <2> QED
    BY <1>4, <2>1, <2>2 DEF PairInv, Geometry
<1>11. g = HandedBack(h, b, l)
  BY DEF HandedBack, g, x, done
<1> QED
  BY <1>4, <1>5, <1>6, <1>7, <1>8, <1>9, <1>10, <1>11 DEF PairInv, InFlight

(* DriverReformats without a LAST buffer. *)
Paused(h, f) == [h EXCEPT !.fmt = f, !.paused = TRUE, !.unreported = TRUE]

(* A new geometry pauses the driver until the event it owes is handled.    *)
LEMMA PausedKeeps ==
  ASSUME NEW d \in Decoder, NEW h \in Driver, PairInv(d, h), NEW f \in Formats, ~h.paused,
         NEW g, g = Paused(h, f)
  PROVE  /\ g \in Driver /\ PairInv(d, g)
         /\ InFlight(d, g) = InFlight(d, h)
         /\ g.fmt = f /\ g.paused /\ g.done = h.done /\ g.held = h.held
         /\ \A i \in DOMAIN g.done : ~g.done[i].last
<1>1. /\ g \in Driver /\ g.jobs = h.jobs /\ g.done = h.done /\ g.freed = h.freed /\ g.fmt = f
      /\ g.paused = TRUE /\ g.ended = h.ended /\ g.unreported = TRUE
      /\ g.events = h.events /\ g.held = h.held
  BY DEF Paused, Driver, AnyFormat
<1>2. /\ JobSlots(g) = JobSlots(h) /\ JobNums(g) = JobNums(h)
      /\ DoneSlots(g) = DoneSlots(h) /\ DoneNums(g) = DoneNums(h) /\ DoneIdx(g) = DoneIdx(h)
  BY <1>1 DEF JobSlots, JobNums, DoneSlots, DoneNums, DoneIdx
<1>3. SlotsOwned(d, g) /\ BuffersOwned(d, g)
  BY <1>1, <1>2 DEF PairInv, SlotsOwned, BuffersOwned
<1>4. StreamOrder(d, g)
  BY <1>1, <1>2 DEF PairInv, StreamOrder
<1>5. \A i \in DOMAIN g.done : ~g.done[i].last
  BY <1>1 DEF PairInv, Geometry
<1>6. Geometry(d, g)
  BY <1>1, <1>5 DEF PairInv, Geometry
<1> QED
  BY <1>1, <1>2, <1>3, <1>4, <1>5, <1>6 DEF PairInv, InFlight

(* The last of n filled buffers, flagged. *)
Marked(h, n) == [h EXCEPT !.done[n].last = TRUE]

(* The last filled buffer is flagged LAST after the fact. *)
LEMMA MarkedKeeps ==
  ASSUME NEW d \in Decoder, NEW h \in Driver, PairInv(d, h), h.paused,
         \A i \in DOMAIN h.done : ~h.done[i].last, NEW n, n = Len(h.done), n > 0,
         NEW g, g = Marked(h, n)
  PROVE  /\ g \in Driver /\ PairInv(d, g)
         /\ InFlight(d, g) = InFlight(d, h)
         /\ g.fmt = h.fmt /\ g.paused
<1> DEFINE y == [h.done[n] EXCEPT !.last = TRUE]
           done == [h.done EXCEPT ![n] = y]
<1>1. /\ h.done \in Seq(Filled) /\ n \in Nat /\ DOMAIN h.done = 1 .. n /\ n \in DOMAIN h.done
      /\ h.done[n] \in Filled
  BY DEF Driver
<1>2. /\ y \in Filled /\ y.slot = h.done[n].slot /\ y.idx = h.done[n].idx
      /\ y.frame = h.done[n].frame /\ y.last = TRUE
  BY <1>1 DEF Filled
<1>3. g = [h EXCEPT !.done = done]
  BY Zenon DEF Marked
<1> HIDE DEF y
<1>4. /\ done \in Seq(Filled) /\ DOMAIN done = DOMAIN h.done /\ Len(done) = n
      /\ done[n] = y /\ \A i \in DOMAIN done : i # n => done[i] = h.done[i]
  BY <1>1, <1>2
<1> HIDE DEF done
<1>5. \A i \in DOMAIN done : /\ done[i].slot = h.done[i].slot /\ done[i].idx = h.done[i].idx
                             /\ done[i].frame = h.done[i].frame
                             /\ done[i].last => i = n
  BY <1>1, <1>2, <1>4
<1>6. /\ g \in Driver /\ g.jobs = h.jobs /\ g.done = done /\ g.freed = h.freed /\ g.fmt = h.fmt
      /\ g.paused = h.paused /\ g.ended = h.ended /\ g.unreported = h.unreported
      /\ g.events = h.events /\ g.held = h.held
  BY <1>3, <1>4 DEF Driver
<1>7. /\ JobSlots(g) = JobSlots(h) /\ JobNums(g) = JobNums(h)
      /\ DoneSlots(g) = DoneSlots(h) /\ DoneIdx(g) = DoneIdx(h)
  BY <1>4, <1>5, <1>6 DEF JobSlots, JobNums, DoneSlots, DoneIdx
<1>8. DoneNums(g) = DoneNums(h)
  BY <1>4, <1>5, <1>6 DEF DoneNums
<1>9. SlotsOwned(d, g)
  BY <1>4, <1>5, <1>6, <1>7 DEF PairInv, SlotsOwned
<1>10. BuffersOwned(d, g)
  BY <1>4, <1>5, <1>6, <1>7 DEF PairInv, BuffersOwned
<1>11. StreamOrder(d, g)
  BY <1>4, <1>5, <1>6, <1>7, <1>8 DEF PairInv, StreamOrder
<1>12. Geometry(d, g)
  BY <1>1, <1>4, <1>5, <1>6 DEF PairInv, Geometry
<1> QED
  BY <1>6, <1>7, <1>8, <1>9, <1>10, <1>11, <1>12 DEF PairInv, InFlight

(* The event of a new geometry comes after the geometry; the end of the    *)
(* stream and a dead device change no buffer.                              *)
LEMMA EventKeeps ==
  ASSUME NEW d \in Decoder, NEW h \in Driver, PairInv(d, h), NEW g \in Driver,
         g.jobs = h.jobs, g.done = h.done, g.freed = h.freed, g.held = h.held,
         g.fmt = h.fmt, g.paused = h.paused, g.ended = h.ended,
         (g.unreported \/ \E i \in DOMAIN g.events : g.events[i] = "change")
           => (h.unreported \/ \E i \in DOMAIN h.events : h.events[i] = "change")
  PROVE  PairInv(d, g) /\ InFlight(d, g) = InFlight(d, h)
<1>1. /\ JobSlots(g) = JobSlots(h) /\ JobNums(g) = JobNums(h)
      /\ DoneSlots(g) = DoneSlots(h) /\ DoneNums(g) = DoneNums(h) /\ DoneIdx(g) = DoneIdx(h)
  BY DEF JobSlots, JobNums, DoneSlots, DoneNums, DoneIdx
<1>2. SlotsOwned(d, g) /\ BuffersOwned(d, g)
  BY <1>1 DEF PairInv, SlotsOwned, BuffersOwned
<1>3. StreamOrder(d, g)
  BY <1>1 DEF PairInv, StreamOrder
<1>4. Geometry(d, g)
  BY DEF PairInv, Geometry
<1> QED
  BY <1>1, <1>2, <1>3, <1>4 DEF PairInv, InFlight
-----------------------------------------------------------------------------
(* The steps of the thread *)

(* The locals of a method that has not been entered, and of one that has.  *)
LEMMA LocalsTyped ==
  /\ NoLocals \in Locals
  /\ \A c \in {"none", "decode", "tail", "idle"} : [NoLocals EXCEPT !.call = c] \in Locals
  /\ \A f \in Frame :
       LET l == [NoLocals EXCEPT !.call = "decode", !.frame = f, !.budget = 1]
       IN l \in Locals /\ l.frame = f
<1>1. 0 \in 0 .. DrainRounds
  BY Constants
<1>2. NoLocals \in Locals
  BY <1>1 DEF NoLocals, Locals
<1> QED
  BY <1>2 DEF Locals

(* What an error leaves the thread with.                                   *)
LEMMA FailEnds ==
  ASSUME TypeOK, Fail
  PROVE  /\ pc' \in {"pop", "reopen"} /\ loc' \in Locals /\ errors' \in Nat
         /\ ~ToPut'
<1>1. NoLocals \in Locals
  BY LocalsTyped
<1>2. loc' = NoLocals /\ pc' \in {"pop", "reopen"} /\ errors' \in Nat
  BY DEF Fail, TypeOK, Recorded
<1> QED
  BY <1>1, <1>2 DEF ToPut

(* Most steps hand out no frame and show no picture.  The order between    *)
(* the thread and the queues then only needs nothing to join them.         *)
LEMMA NoNewFrame ==
  ASSUME ThreadOrder, InFlight(dec', hw') \subseteq InFlight(dec, hw),
         UNCHANGED <<last, shown, kind>>,
         kind = "sw" => dec'.ready = <<>> /\ hw'.jobs = <<>> /\ hw'.done = <<>>,
         ToPut' => ToPut /\ loc'.frame = loc.frame
  PROVE  ThreadOrder'
<1>1. LastNum' = LastNum /\ ShownNum' = ShownNum
  BY DEF LastNum, ShownNum
<1> QED
  BY <1>1 DEF ThreadOrder

(* Where the thread neither waits for a slot with a frame nor restarts the *)
(* CAPTURE queue, nothing more is asked.                                   *)
LEMMA Elsewhere ==
  ASSUME pc' \notin {"put", "drain", "rebuild"}
  PROVE  Drained' /\ Room'
BY DEF Drained, Room

(* A decoder and a driver just opened hold nothing.                        *)
LEMMA NewPair ==
  /\ NewDecoder \in Decoder /\ NewDriver \in Driver
  /\ PairInv(NewDecoder, NewDriver)
  /\ InFlight(NewDecoder, NewDriver) = {}
  /\ NewDecoder.ready = <<>> /\ NewDriver.jobs = <<>> /\ NewDriver.done = <<>>
<1> DEFINE cap == NewCapture(DefaultFormat, TRUE)
<1>1. cap \in Capture /\ cap.queued = Buffers /\ cap.provisional = TRUE
  BY DEF NewCapture, Capture
<1> HIDE DEF cap
<1>2. NewDecoder = [outq |-> {}, ready |-> <<>>, unanswered |-> 0, finished |-> FALSE,
                    saw_last |-> FALSE, cap |-> cap]
  BY DEF NewDecoder, cap
<1>3. /\ NewDecoder \in Decoder /\ NewDecoder.outq = {} /\ NewDecoder.ready = <<>>
      /\ NewDecoder.cap = cap
  <2>1. <<>> \in Seq(Picture)
    OBVIOUS
  <2> QED
    BY <1>1, <1>2, <2>1 DEF Decoder
<1>4. /\ NewDriver \in Driver /\ NewDriver.jobs = <<>> /\ NewDriver.done = <<>>
      /\ NewDriver.freed = {} /\ NewDriver.held = Buffers /\ NewDriver.ended = FALSE
      /\ NewDriver.unreported = FALSE /\ NewDriver.events = <<>>
  <2>1. <<>> \in Seq(Job) /\ <<>> \in Seq(Filled) /\ <<>> \in Seq({"eos", "change"})
    OBVIOUS
  <2> QED
    BY <2>1 DEF NewDriver, Driver, AnyFormat
<1>5. /\ JobSlots(NewDriver) = {} /\ JobNums(NewDriver) = {}
      /\ DoneSlots(NewDriver) = {} /\ DoneNums(NewDriver) = {} /\ DoneIdx(NewDriver) = {}
      /\ ReadyNums(NewDecoder) = {}
  BY <1>3, <1>4 DEF JobSlots, JobNums, DoneSlots, DoneNums, DoneIdx, ReadyNums
<1>6. SlotsOwned(NewDecoder, NewDriver) /\ BuffersOwned(NewDecoder, NewDriver)
  BY <1>1, <1>3, <1>4, <1>5 DEF SlotsOwned, BuffersOwned
<1>7. StreamOrder(NewDecoder, NewDriver)
  BY <1>3, <1>4, <1>5 DEF StreamOrder, Below
<1>8. Geometry(NewDecoder, NewDriver)
  BY <1>1, <1>3, <1>4 DEF Geometry, Final
<1> QED
  BY <1>3, <1>4, <1>5, <1>6, <1>7, <1>8 DEF PairInv, InFlight

(* The inductive invariant holds when the receiver starts.                 *)
LEMMA InitInv == Init => IInv
<1> SUFFICES ASSUME Init PROVE IInv
  OBVIOUS
<1>1. TypeOK
  <2>1. NoLocals \in Locals
    BY LocalsTyped
  <2> QED
    BY <2>1, NewPair, Constants DEF Init, TypeOK, Place
<1>2. PairInv(dec, hw)
  BY NewPair DEF Init
<1>3. ThreadOrder
  BY NewPair DEF Init, ThreadOrder, ToPut, LastNum, ShownNum
<1>4. Drained /\ Room
  BY DEF Init, Drained, Room
<1> QED
  BY <1>1, <1>2, <1>3, <1>4 DEF IInv

(* Opening a decoder, at the start and after repeated errors.              *)
LEMMA OpenKeeps == IInv /\ Open => IInv'
<1> SUFFICES ASSUME IInv, Open PROVE IInv'
  OBVIOUS
<1>1. /\ dec' = NewDecoder /\ hw' = NewDriver /\ pc' \in {"pop", "quit"}
      /\ kind' \in {"hw", "sw", "none"} /\ faults' \in Nat
      /\ loc' = loc /\ errors' = errors /\ last' = last /\ shown' = shown
  <2>1. PICK hwOk \in Outcome, swOk \in Outcome :
          LET hard == choice \in {"Auto", "V4l2"} /\ hwOk
              soft == /\ ~hard /\ swOk
                      /\ choice = "V4l2" => pc = "reopen"
          IN /\ kind' = CASE hard -> "hw" [] soft -> "sw" [] OTHER -> "none"
             /\ choice' = NextChoice(hwOk)
             /\ pc' = IF hard \/ soft THEN "pop" ELSE "quit"
             /\ Spend(hwOk /\ swOk)
    BY Zenon DEF Open
  <2>2. faults' \in Nat
    <3>1. hwOk \in BOOLEAN /\ swOk \in BOOLEAN /\ (faults > 0 \/ (hwOk /\ swOk))
      BY DEF Outcome
    <3> QED
      BY <2>1, <3>1 DEF Spend, IInv, TypeOK
  <2>3. kind' \in {"hw", "sw", "none"} /\ pc' \in {"pop", "quit"}
    BY <2>1
  <2> QED
    BY <2>2, <2>3 DEF Open
<1>2. TypeOK'
  BY <1>1, NewPair DEF IInv, TypeOK, Place
<1>3. PairInv(dec', hw')
  BY <1>1, NewPair
<1>4. ThreadOrder'
  BY <1>1, NewPair DEF IInv, ThreadOrder, ToPut, LastNum, ShownNum
<1>5. Drained' /\ Room'
  BY <1>1, Elsewhere
<1> QED
  BY <1>2, <1>3, <1>4, <1>5 DEF IInv

(* The next frame is newer than everything in flight.                      *)
LEMMA PopKeeps == IInv /\ Pop => IInv'
<1> SUFFICES ASSUME IInv, Pop PROVE IInv'
  OBVIOUS
<1>1. PICK f \in NextFrames :
        /\ last' = f
        /\ loc' = [NoLocals EXCEPT !.call = "decode", !.frame = f, !.budget = 1]
        /\ pc' = IF dec.finished THEN "fail" ELSE "wait"
  BY DEF Pop
<1>2. UNCHANGED <<dec, hw, kind, choice, errors, faults, shown>>
  BY DEF Pop
<1>3. f \in Frame /\ f # None /\ f.num = LastNum + 1 /\ f.num \in Nat /\ LastNum \in Nat
  BY Constants DEF NextFrames, LastNum, Frame, IInv, TypeOK
<1>4. loc' \in Locals /\ loc'.frame = f
  BY <1>1, <1>3, LocalsTyped
<1>5. TypeOK'
  BY <1>1, <1>2, <1>3, <1>4 DEF IInv, TypeOK, Place
<1>6. ThreadOrder'
  <2>1. LastNum' = LastNum + 1 /\ ShownNum' = ShownNum
    BY <1>1, <1>2, <1>3 DEF LastNum, ShownNum
  <2>2. ShownNum \in Nat /\ InFlight(dec, hw) \subseteq Int
    <3>1. ShownNum \in Nat
      BY DEF ShownNum, IInv, TypeOK, Picture, Frame
    <3>2. ReadyNums(dec) \subseteq Int
      <4>1. \A i \in DOMAIN dec.ready : dec.ready[i] \in Picture
        BY DEF IInv, TypeOK, Decoder
      <4> QED
        BY <4>1 DEF ReadyNums, Picture, Frame
    <3>3. DoneNums(hw) \subseteq Int
      <4>1. \A i \in DOMAIN hw.done : hw.done[i] \in Filled
        BY DEF IInv, TypeOK, Driver
      <4> QED
        BY <4>1 DEF DoneNums, Filled, Frame
    <3>4. JobNums(hw) \subseteq Int
      <4>1. \A i \in DOMAIN hw.jobs : hw.jobs[i] \in Job
        BY DEF IInv, TypeOK, Driver
      <4> QED
        BY <4>1 DEF JobNums, Job, Frame
    <3> QED
      BY <3>1, <3>2, <3>3, <3>4 DEF InFlight
  <2>3. /\ ShownNum <= LastNum
        /\ \A n \in InFlight(dec, hw) : n \in Int /\ ShownNum < n /\ n <= LastNum
        /\ kind = "sw" => dec.ready = <<>> /\ hw.jobs = <<>> /\ hw.done = <<>>
    BY <2>2 DEF IInv, ThreadOrder
  <2>4. InFlight(dec', hw') = InFlight(dec, hw)
    BY <1>2
  <2>5. last' # None /\ loc'.frame = last'
    BY <1>1, <1>3, <1>4
  <2>6. /\ ShownNum' <= LastNum' /\ ShownNum' < LastNum'
        /\ \A n \in InFlight(dec', hw') : ShownNum' < n /\ n <= LastNum' /\ n < LastNum'
    BY <1>3, <2>1, <2>2, <2>3, <2>4
  <2>7. kind' = "sw" => dec'.ready = <<>> /\ hw'.jobs = <<>> /\ hw'.done = <<>>
    BY <1>2, <2>3
  <2> QED
    BY <2>5, <2>6, <2>7 DEF ThreadOrder
<1>7. Drained' /\ Room'
  BY <1>1, Elsewhere
<1>8. PairInv(dec', hw')
  BY <1>2 DEF IInv
<1> QED
  BY <1>5, <1>6, <1>7, <1>8 DEF IInv

(* decode refusing a finished decoder, and a poll that finds the device    *)
(* dead or waits.                                                          *)
LEMMA PollKeeps == IInv /\ (DecodeError \/ Poll \/ PollIdle) => IInv'
<1> SUFFICES ASSUME IInv, DecodeError \/ Poll \/ PollIdle PROVE IInv'
  OBVIOUS
<1>1. /\ UNCHANGED <<dec, hw, kind, last, faults, shown>>
      /\ \/ Fail
         \/ pc = "wait" /\ GoOn("waiting", loc)
         \/ pc = "poll" /\ GoOn("polling", loc)
         \/ GoOn("poll", [NoLocals EXCEPT !.call = "idle"])
  BY DEF DecodeError, Poll, PollIdle
<1>2. /\ pc' \in {"pop", "reopen", "waiting", "polling", "poll"} /\ loc' \in Locals
      /\ errors' \in Nat /\ (ToPut' => ToPut /\ loc'.frame = loc.frame)
  <2>1. CASE Fail
    BY <2>1, FailEnds DEF IInv
  <2>2. CASE ~Fail
    <3>1. [NoLocals EXCEPT !.call = "idle"] \in Locals
      BY LocalsTyped
    <3> QED
      BY <1>1, <2>2, <3>1 DEF GoOn, IInv, TypeOK, ToPut
  <2> QED
    BY <2>1, <2>2
<1>3. TypeOK'
  BY <1>1, <1>2 DEF IInv, TypeOK, Place
<1>4. ThreadOrder'
  BY <1>1, <1>2, NoNewFrame DEF IInv, ThreadOrder
<1>5. Drained' /\ Room'
  BY <1>2, Elsewhere
<1>6. PairInv(dec', hw')
  BY <1>1 DEF IInv
<1> QED
  BY <1>3, <1>4, <1>5, <1>6 DEF IInv

(* The software decoder shows the frame it was just given.                 *)
LEMMA SwDecodeKeeps == IInv /\ SwDecode => IInv'
<1> SUFFICES ASSUME IInv, SwDecode PROVE IInv'
  OBVIOUS
<1>1. /\ UNCHANGED <<dec, hw, kind, last>> /\ kind = "sw" /\ pc = "wait"
      /\ faults' \in Nat
      /\ \/ shown' = shown /\ Fail
         \/ shown' = shown /\ GoOn("pop", NoLocals)
         \/ shown' = [frame |-> loc.frame, fmt |-> loc.frame.fmt] /\ GoOn("pop", NoLocals)
  BY DEF SwDecode, IInv, TypeOK
<1>2. pc' \in {"pop", "reopen"} /\ loc' \in Locals /\ errors' \in Nat /\ ~ToPut'
  <2>1. NoLocals \in Locals
    BY LocalsTyped
  <2>2. CASE Fail
    BY <2>2, FailEnds DEF IInv
  <2>3. CASE GoOn("pop", NoLocals)
    BY <2>1, <2>3 DEF GoOn, IInv, TypeOK, ToPut
  <2> QED
    BY <1>1, <2>2, <2>3
<1>3. /\ InFlight(dec, hw) = {} /\ last # None /\ loc.frame = last /\ last \in Frame
      /\ dec.ready = <<>> /\ hw.jobs = <<>> /\ hw.done = <<>>
  <2>1. dec.ready = <<>> /\ hw.jobs = <<>> /\ hw.done = <<>>
    BY <1>1 DEF IInv, ThreadOrder
  <2>2. ReadyNums(dec) = {} /\ DoneNums(hw) = {} /\ JobNums(hw) = {}
    BY <2>1 DEF ReadyNums, DoneNums, JobNums
  <2> QED
    BY <1>1, <2>1, <2>2 DEF IInv, ThreadOrder, ToPut, InFlight, TypeOK
<1>4. shown' \in Picture \cup {None} /\ ShownNum' <= LastNum
  <2>1. CASE shown' = shown
    BY <2>1 DEF IInv, TypeOK, ThreadOrder, ShownNum
  <2>2. CASE shown' = [frame |-> loc.frame, fmt |-> loc.frame.fmt]
    <3>1. shown' \in Picture /\ shown'.frame = last
      BY <1>3, <2>2 DEF Picture, Frame
    <3> QED
      BY <1>3, <3>1, Constants DEF ShownNum, LastNum, Frame
  <2> QED
    BY <1>1, <2>1, <2>2
<1>5. TypeOK'
  BY <1>1, <1>2, <1>4 DEF IInv, TypeOK, Place
<1>6. ThreadOrder'
  <2>1. LastNum' = LastNum /\ InFlight(dec', hw') = {}
    BY <1>1, <1>3 DEF LastNum
  <2> QED
    BY <1>1, <1>2, <1>3, <1>4, <2>1 DEF ThreadOrder
<1>7. Drained' /\ Room'
  BY <1>2, Elsewhere
<1>8. PairInv(dec', hw')
  BY <1>1 DEF IInv
<1> QED
  BY <1>5, <1>6, <1>7, <1>8 DEF IInv

(* Only the queues and what is in them matter to the invariant.            *)
LEMMA FlagsKeep ==
  ASSUME NEW d \in Decoder, NEW h \in Driver, PairInv(d, h), NEW e,
         e.outq = d.outq, e.ready = d.ready, e.cap = d.cap
  PROVE  PairInv(e, h) /\ InFlight(e, h) = InFlight(d, h)
<1>1. SlotsOwned(e, h) /\ BuffersOwned(e, h)
  BY DEF PairInv, SlotsOwned, BuffersOwned
<1>2. ReadyNums(e) = ReadyNums(d)
  BY DEF ReadyNums
<1>3. StreamOrder(e, h)
  BY <1>2 DEF PairInv, StreamOrder
<1>4. Geometry(e, h)
  BY DEF PairInv, Geometry, Final
<1> QED
  BY <1>1, <1>2, <1>3, <1>4 DEF PairInv, InFlight

(* An event is dequeued; a change of geometry that is not the first drains *)
(* the CAPTURE queue before it is rebuilt.                                 *)
LEMMA HandleEventKeeps == IInv /\ HandleEvent => IInv'
<1> SUFFICES ASSUME IInv, HandleEvent PROVE IInv'
  OBVIOUS
<1> DEFINE e == Head(hw.events)
           rest == Tail(hw.events)
<1>1. /\ hw.events \in Seq({"eos", "change"}) /\ 1 \in DOMAIN hw.events
      /\ e = hw.events[1] /\ e \in {"eos", "change"} /\ rest \in Seq({"eos", "change"})
      /\ \A i \in DOMAIN rest : i + 1 \in DOMAIN hw.events /\ rest[i] = hw.events[i + 1]
  BY DEF HandleEvent, IInv, TypeOK, Driver
<1>2. /\ hw' = [hw EXCEPT !.events = rest]
      /\ pc \in {"waiting", "polling", "after"}
      /\ UNCHANGED <<kind, last, faults, shown>>
      /\ errors' = errors
      /\ \/ /\ dec' = [dec EXCEPT !.finished = TRUE] /\ pc' = pc
            /\ loc' = [loc EXCEPT !.progressed = TRUE]
         \/ /\ e # "eos" /\ Provisional(dec) /\ dec' = dec /\ pc' = "rebuild"
            /\ loc' = [loc EXCEPT !.progressed = TRUE, !.ret = pc, !.rounds = 0]
         \/ /\ e # "eos" /\ ~Provisional(dec) /\ dec' = [dec EXCEPT !.saw_last = FALSE]
            /\ pc' = "drain"
            /\ loc' = [loc EXCEPT !.progressed = TRUE, !.ret = pc, !.rounds = 0]
  BY DEF HandleEvent, GoOn
<1> HIDE DEF e, rest
<1>3. /\ hw' \in Driver /\ hw'.jobs = hw.jobs /\ hw'.done = hw.done /\ hw'.freed = hw.freed
      /\ hw'.held = hw.held /\ hw'.fmt = hw.fmt /\ hw'.paused = hw.paused
      /\ hw'.ended = hw.ended /\ hw'.unreported = hw.unreported /\ hw'.events = rest
  BY <1>1, <1>2 DEF IInv, TypeOK, Driver
<1>4. PairInv(dec, hw') /\ InFlight(dec, hw') = InFlight(dec, hw)
  <2>1. (\E i \in DOMAIN rest : rest[i] = "change")
          => \E i \in DOMAIN hw.events : hw.events[i] = "change"
    BY <1>1
  <2> QED
    BY <1>3, <2>1, EventKeeps DEF IInv, TypeOK
<1>5. dec' \in Decoder /\ dec'.outq = dec.outq /\ dec'.ready = dec.ready /\ dec'.cap = dec.cap
  BY <1>2 DEF IInv, TypeOK, Decoder
<1>6. PairInv(dec', hw') /\ InFlight(dec', hw') = InFlight(dec, hw)
  BY <1>3, <1>4, <1>5, FlagsKeep DEF IInv, TypeOK
<1>7. /\ loc' \in Locals /\ loc'.frame = loc.frame
      /\ pc' \in {"drain", "rebuild"} => loc'.ret = pc /\ loc'.ret # "none"
  <2>1. 0 \in 0 .. DrainRounds
    BY Constants
  <2> QED
    BY <1>2, <2>1 DEF IInv, TypeOK, Locals
<1>8. TypeOK'
  BY <1>2, <1>3, <1>5, <1>7 DEF IInv, TypeOK, Place
<1>9. ThreadOrder'
  <2>1. ToPut' => ToPut
    BY <1>2, <1>7 DEF ToPut
  <2> QED
    BY <1>2, <1>3, <1>5, <1>6, <1>7, <2>1, NoNewFrame DEF IInv, ThreadOrder
<1>10. Drained'
  <2>1. pc' \in {"drain", "rebuild"} => hw'.fmt \in Formats /\ loc'.ret # "none"
    BY <1>1, <1>2, <1>3, <1>7 DEF IInv, PairInv, Geometry
  <2>2. pc' = "drain" => ~dec'.saw_last
    BY <1>2 DEF IInv, TypeOK, Decoder
  <2>3. pc' = "rebuild" => ~Final(dec')
    BY <1>2 DEF Final, Provisional
  <2> QED
    BY <2>1, <2>2, <2>3 DEF Drained
<1>11. Room'
  BY <1>2 DEF Room
<1> QED
  BY <1>6, <1>8, <1>9, <1>10, <1>11 DEF IInv

(* A round of drain_to_last collects without a limit.                      *)
LEMMA DrainRoundKeeps == IInv /\ DrainRound => IInv'
<1> SUFFICES ASSUME IInv, DrainRound PROVE IInv'
  OBVIOUS
<1> DEFINE limit == Len(hw.done) + 1
           c == Collected(dec, hw, limit)
           more == ~c.d.saw_last /\ loc.rounds < DrainRounds
<1>0. dec \in Decoder /\ hw \in Driver /\ limit \in Nat /\ PairInv(dec, hw)
  BY DEF IInv, TypeOK, Driver
<1>1. /\ c.d \in Decoder /\ c.h \in Driver /\ PairInv(c.d, c.h)
      /\ InFlight(c.d, c.h) \subseteq InFlight(dec, hw)
      /\ c.h.fmt = hw.fmt /\ c.h.jobs = hw.jobs
      /\ hw.done = <<>> => c.d.ready = dec.ready /\ c.h.done = <<>>
      /\ Final(c.d) /\ c.d.saw_last /\ ~dec.saw_last =>
           \/ c.h.paused /\ \A i \in DOMAIN c.h.done : c.h.done[i].frame = None
           \/ Refuses(c.d, c.h)
  BY <1>0, CollectKeeps
<1>2. /\ pc = "drain"
      /\ hw' = [c.h EXCEPT !.freed = IF more THEN {} ELSE @]
      /\ dec' = IF more THEN DrainedOutput(c.d, c.h) ELSE c.d
      /\ CASE more /\ hw.broken -> Fail
           [] more /\ ~hw.broken -> GoOn("drain", [loc EXCEPT !.rounds = @ + 1])
           [] OTHER -> GoOn("rebuild", loc)
      /\ UNCHANGED <<kind, last, faults, shown>>
  BY Zenon DEF DrainRound
<1> HIDE DEF c, limit
<1>3. CASE more
  <2>1. hw' = [c.h EXCEPT !.freed = {}] /\ dec' = DrainedOutput(c.d, c.h)
    BY <1>2, <1>3
  <2>2. /\ dec' \in Decoder /\ hw' \in Driver /\ PairInv(dec', hw')
        /\ InFlight(dec', hw') \subseteq InFlight(dec, hw)
        /\ dec'.ready = c.d.ready /\ dec'.saw_last = c.d.saw_last
        /\ hw'.jobs = c.h.jobs /\ hw'.done = c.h.done /\ hw'.fmt = c.h.fmt
    <3> DEFINE g == [c.h EXCEPT !.freed = {}]
               e == DrainedOutput(c.d, c.h)
    <3>1. /\ e \in Decoder /\ g \in Driver /\ PairInv(e, g)
          /\ InFlight(e, g) = InFlight(c.d, c.h)
          /\ e.ready = c.d.ready /\ e.saw_last = c.d.saw_last
          /\ g.jobs = c.h.jobs /\ g.done = c.h.done /\ g.fmt = c.h.fmt
      BY <1>1, DrainKeeps
    <3> HIDE DEF g, e
    <3> QED
      BY <1>1, <2>1, <3>1 DEF g, e
  <2>3. loc.rounds + 1 \in 0 .. DrainRounds
    BY <1>3, Constants DEF IInv, TypeOK, Locals
  <2>4. /\ pc' \in {"pop", "reopen", "drain"} /\ loc' \in Locals /\ errors' \in Nat
        /\ pc' = "drain" => loc'.ret = loc.ret
        /\ ToPut' => ToPut /\ loc'.frame = loc.frame
    <3>1. CASE Fail
      BY <3>1, FailEnds DEF IInv
    <3>2. CASE GoOn("drain", [loc EXCEPT !.rounds = @ + 1])
      <4>1. /\ pc' = "drain" /\ errors' = errors
            /\ loc' = [loc EXCEPT !.rounds = loc.rounds + 1] /\ loc \in Locals
        BY <3>2 DEF GoOn, IInv, TypeOK
      <4>2. loc' \in Locals /\ loc'.frame = loc.frame /\ loc'.ret = loc.ret
        BY <2>3, <4>1 DEF Locals
      <4> QED
        BY <1>2, <4>1, <4>2 DEF ToPut, IInv, TypeOK
    <3> QED
      BY <1>2, <1>3, <3>1, <3>2
  <2>5. TypeOK'
    BY <1>2, <2>2, <2>4 DEF IInv, TypeOK, Place
  <2>6. ThreadOrder'
    BY <1>1, <1>2, <2>2, <2>4, NoNewFrame DEF IInv, ThreadOrder
  <2>7. Drained' /\ Room'
    BY <1>1, <1>2, <1>3, <2>2, <2>4 DEF IInv, Drained, Room
  <2> QED
    BY <2>2, <2>5, <2>6, <2>7 DEF IInv
<1>4. CASE ~more
  <2>1. hw' = c.h /\ dec' = c.d
    <3>1. hw' = [c.h EXCEPT !.freed = c.h.freed]
      BY <1>2, <1>4
    <3>2. hw' = c.h
      BY <1>1, <3>1 DEF Driver
    <3> QED
      BY <1>2, <1>4, <3>2
  <2>2. pc' = "rebuild" /\ loc' = loc /\ errors' = errors
    BY <1>2, <1>4 DEF GoOn
  <2>3. TypeOK'
    BY <1>1, <1>2, <2>1, <2>2 DEF IInv, TypeOK, Place
  <2>4. ThreadOrder'
    <3>1. ToPut' => ToPut /\ loc'.frame = loc.frame
      BY <1>2, <2>2 DEF ToPut
    <3>2. InFlight(dec', hw') \subseteq InFlight(dec, hw)
      BY <1>1, <2>1
    <3> QED
      BY <1>1, <1>2, <2>1, <3>1, <3>2, NoNewFrame DEF IInv, ThreadOrder
  <2>5. Drained'
    <3>1. hw'.fmt \in Formats /\ loc.ret # "none" /\ ~dec.saw_last
      BY <1>1, <1>2, <2>1 DEF IInv, Drained
    <3>2. c.d.saw_last \/ loc.rounds = DrainRounds
      BY <1>4, Constants DEF IInv, TypeOK, Locals
    <3> QED
      BY <1>1, <2>1, <2>2, <3>1, <3>2 DEF Drained
  <2>6. Room'
    BY <2>2 DEF Room
  <2>7. PairInv(dec', hw')
    BY <1>1, <2>1
  <2> QED
    BY <2>3, <2>4, <2>5, <2>6, <2>7 DEF IInv
<1> QED
  BY <1>3, <1>4

(* The CAPTURE queue is rebuilt, or lost.                                  *)
LEMMA RebuildKeeps == IInv /\ Rebuild => IInv'
<1> SUFFICES ASSUME IInv, Rebuild PROVE IInv'
  OBVIOUS
<1>0. dec \in Decoder /\ hw \in Driver /\ PairInv(dec, hw) /\ pc = "rebuild"
      /\ hw.fmt \in Formats /\ loc.ret # "none"
  BY DEF IInv, TypeOK, Drained, Rebuild
<1> DEFINE e == [dec EXCEPT !.cap = None]
           h == StreamedOff(hw)
<1>1. /\ e \in Decoder /\ PairInv(e, hw) /\ InFlight(e, hw) = InFlight(dec, hw)
      /\ e.ready = dec.ready /\ e.cap = None
  BY <1>0, LostCaptureKeeps
<1>2. /\ h \in Driver /\ PairInv(e, h) /\ InFlight(e, h) \subseteq InFlight(dec, hw)
      /\ h.fmt = hw.fmt /\ h.jobs = hw.jobs /\ h.done = <<>> /\ ~h.ended
  <2> HIDE DEF e
  <2> QED
    BY <1>0, <1>1, StreamedOffKeeps
<1> DEFINE e2 == [e EXCEPT !.cap = NewCapture(h.fmt, FALSE), !.saw_last = FALSE]
           h2 == Started(h)
<1>3. /\ e2 \in Decoder /\ h2 \in Driver /\ PairInv(e2, h2)
      /\ InFlight(e2, h2) \subseteq InFlight(dec, hw)
      /\ h2.fmt = h.fmt /\ e2.ready = dec.ready /\ h2.jobs = hw.jobs /\ h2.done = <<>>
  <2> HIDE DEF e, h
  <2> QED
    BY <1>0, <1>1, <1>2, StartedKeeps
<1>4. e2 = [dec EXCEPT !.cap = NewCapture(hw.fmt, FALSE), !.saw_last = FALSE]
  <2> DEFINE cap == NewCapture(hw.fmt, FALSE)
  <2> HIDE DEF h, cap
  <2>1. e2 = [e EXCEPT !.cap = cap, !.saw_last = FALSE]
    BY <1>2 DEF cap
  <2>2. [e EXCEPT !.cap = cap, !.saw_last = FALSE] = [dec EXCEPT !.cap = cap, !.saw_last = FALSE]
    BY <1>0 DEF Decoder
  <2> HIDE DEF e2, e
  <2> QED
    BY <2>1, <2>2 DEF cap
<1>5. /\ UNCHANGED <<kind, last, shown>> /\ faults' \in Nat
      /\ \/ Fail /\ dec' = dec /\ hw' = hw
         \/ Fail /\ dec' = e /\ hw' = h
         \/ Fail /\ dec' = e /\ hw' = hw
         \/ dec' = e2 /\ hw' = h2 /\ GoOn(loc.ret, [loc EXCEPT !.rounds = 0, !.ret = "none"])
  <2> HIDE DEF e2
  <2>1. CASE dec.cap = None
    BY <2>1 DEF Rebuild, IInv, TypeOK
  <2>2. CASE dec.cap # None
    <3>1. PICK off \in Outcome, up \in Outcome :
            /\ Spend(off /\ up)
            /\ IF off /\ up
               THEN /\ hw' = h2
                    /\ dec' = [dec EXCEPT !.cap = NewCapture(hw.fmt, FALSE), !.saw_last = FALSE]
                    /\ GoOn(loc.ret, [loc EXCEPT !.rounds = 0, !.ret = "none"])
               ELSE /\ hw' = IF off THEN h ELSE hw
                    /\ dec' = e
                    /\ Fail
      BY <2>2 DEF Rebuild
    <3>2. off \in BOOLEAN /\ up \in BOOLEAN /\ (faults > 0 \/ (off /\ up))
      BY DEF Outcome
    <3>3. faults' \in Nat
      BY <3>1, <3>2 DEF Spend, IInv, TypeOK
    <3>4. UNCHANGED <<kind, last, shown>>
      BY DEF Rebuild
    <3> HIDE DEF e, h, h2
    <3> QED
      BY <3>1, <3>3, <3>4, <1>4
  <2> QED
    BY <2>1, <2>2
<1> HIDE DEF e, h, e2, h2
<1>6. /\ dec' \in Decoder /\ hw' \in Driver /\ PairInv(dec', hw')
      /\ InFlight(dec', hw') \subseteq InFlight(dec, hw)
      /\ dec'.ready = dec.ready /\ hw'.jobs = hw.jobs
      /\ hw'.done = hw.done \/ hw'.done = <<>>
  BY <1>0, <1>1, <1>2, <1>3, <1>5
<1>7. /\ pc' \in {"pop", "reopen", "waiting", "polling", "after"} /\ loc' \in Locals
      /\ errors' \in Nat
      /\ ToPut' => ToPut /\ loc'.frame = loc.frame
  <2>1. CASE Fail
    BY <2>1, FailEnds DEF IInv
  <2>2. CASE GoOn(loc.ret, [loc EXCEPT !.rounds = 0, !.ret = "none"])
    <3>1. 0 \in 0 .. DrainRounds
      BY Constants
    <3>2. pc' = loc.ret /\ errors' = errors /\ loc' = [loc EXCEPT !.rounds = 0, !.ret = "none"]
          /\ loc \in Locals
      BY <2>2 DEF GoOn, IInv, TypeOK
    <3>3. loc' \in Locals /\ loc'.frame = loc.frame /\ loc'.ret = "none"
          /\ loc.ret \in {"none", "waiting", "polling", "after"}
      BY <3>1, <3>2 DEF Locals
    <3> QED
      BY <1>0, <3>2, <3>3 DEF ToPut, IInv, TypeOK
  <2> QED
    BY <1>5, <2>1, <2>2
<1>8. TypeOK'
  BY <1>5, <1>6, <1>7 DEF IInv, TypeOK, Place
<1>9. ThreadOrder'
  BY <1>5, <1>6, <1>7, NoNewFrame DEF IInv, ThreadOrder
<1>10. Drained' /\ Room'
  BY <1>7, Elsewhere
<1> QED
  BY <1>6, <1>8, <1>9, <1>10 DEF IInv

(* A round of wait_for_slot: a slot is free, or one buffer is collected to *)
(* free one.                                                               *)
LEMMA WaitRestKeeps == IInv /\ WaitRest => IInv'
<1> SUFFICES ASSUME IInv, WaitRest PROVE IInv'
  OBVIOUS
<1>0. dec \in Decoder /\ hw \in Driver /\ PairInv(dec, hw) /\ 1 \in Nat /\ pc = "waiting"
      /\ loc \in Locals
  BY DEF IInv, TypeOK, WaitRest
<1> DEFINE d0 == DrainedOutput(dec, hw)
           h0 == [hw EXCEPT !.freed = {}]
           c == Collected(d0, h0, 1)
           d1 == DrainedOutput(c.d, c.h)
           h1 == [c.h EXCEPT !.freed = {}]
           got == loc.progressed \/ d0.outq # dec.outq \/ c.any
           next == [loc EXCEPT !.progressed = FALSE, !.budget = IF c.any THEN 0 ELSE @,
                               !.waited = IF got THEN 0 ELSE @]
<1>1. /\ d0 \in Decoder /\ h0 \in Driver /\ PairInv(d0, h0)
      /\ InFlight(d0, h0) = InFlight(dec, hw)
      /\ d0.ready = dec.ready /\ h0.jobs = hw.jobs /\ h0.done = hw.done
  BY <1>0, DrainKeeps
<1>2. /\ c.d \in Decoder /\ c.h \in Driver /\ PairInv(c.d, c.h)
      /\ InFlight(c.d, c.h) \subseteq InFlight(dec, hw)
      /\ c.h.jobs = hw.jobs
      /\ hw.done = <<>> => c.d.ready = dec.ready /\ c.h.done = <<>>
  <2> HIDE DEF d0, h0
  <2> QED
    BY <1>0, <1>1, CollectKeeps
<1>3. /\ d1 \in Decoder /\ h1 \in Driver /\ PairInv(d1, h1)
      /\ InFlight(d1, h1) \subseteq InFlight(dec, hw)
      /\ h1.jobs = hw.jobs
      /\ hw.done = <<>> => d1.ready = dec.ready /\ h1.done = <<>>
  <2> HIDE DEF c
  <2> QED
    BY <1>2, DrainKeeps
<1>4. /\ UNCHANGED <<kind, last, faults, shown>>
      /\ IF Cardinality(d0.outq) < MaxInFlight
         THEN dec' = d0 /\ hw' = h0 /\ GoOn("put", loc)
         ELSE /\ dec' = IF c.any THEN d1 ELSE c.d
              /\ hw' = IF c.any THEN h1 ELSE c.h
              /\ IF Late(loc, got) THEN Fail ELSE GoOn("wait", next)
  BY Zenon DEF WaitRest
<1>5. next \in Locals /\ next.frame = loc.frame
  <2> HIDE DEF c, got
  <2> QED
    BY <1>0 DEF Locals
<1> HIDE DEF d0, h0, c, d1, h1, got, next
<1>6. /\ dec' \in Decoder /\ hw' \in Driver /\ PairInv(dec', hw')
      /\ InFlight(dec', hw') \subseteq InFlight(dec, hw)
      /\ hw'.jobs = hw.jobs
      /\ hw.done = <<>> => dec'.ready = dec.ready /\ hw'.done = <<>>
  BY <1>1, <1>2, <1>3, <1>4
<1>7. /\ pc' \in {"put", "wait", "pop", "reopen"} /\ loc' \in Locals /\ errors' \in Nat
      /\ ToPut' => ToPut /\ loc'.frame = loc.frame
      /\ pc' = "put" => Cardinality(dec'.outq) < MaxInFlight
  <2>1. ToPut
    BY <1>0 DEF ToPut
  <2>2. CASE Fail
    BY <2>2, FailEnds DEF IInv
  <2>3. CASE ~Fail
    BY <1>0, <1>4, <1>5, <2>1, <2>3 DEF GoOn, IInv, TypeOK
  <2> QED
    BY <2>2, <2>3
<1>8. TypeOK'
  BY <1>4, <1>6, <1>7 DEF IInv, TypeOK, Place
<1>9. ThreadOrder'
  BY <1>4, <1>6, <1>7, NoNewFrame DEF IInv, ThreadOrder
<1>10. Drained' /\ Room'
  BY <1>7 DEF Drained, Room
<1> QED
  BY <1>6, <1>8, <1>9, <1>10 DEF IInv

(* The frame handed out joins the jobs, in a slot that is free.            *)
LEMMA PutStepKeeps == IInv /\ Put => IInv'
<1> SUFFICES ASSUME IInv, Put PROVE IInv'
  OBVIOUS
<1> DEFINE s == CHOOSE s \in Slots \ dec.outq : \A t \in Slots \ dec.outq : s <= t
           u == IF dec.unanswered < StallInputs THEN dec.unanswered + 1 ELSE dec.unanswered
           f == loc.frame
           e == [dec EXCEPT !.outq = @ \cup {s}, !.unanswered = u]
           h == [hw EXCEPT !.jobs = Append(@, [slot |-> s, frame |-> f])]
           l == [loc EXCEPT !.waited = 0, !.total = 0, !.progressed = FALSE]
<1>0. /\ dec \in Decoder /\ hw \in Driver /\ PairInv(dec, hw) /\ loc \in Locals
      /\ kind = "hw" /\ ToPut /\ pc # "rebuild" /\ pc # "drain"
      /\ UNCHANGED <<kind, last, shown>>
  BY DEF IInv, TypeOK, Put, ToPut
<1>1. Cardinality(dec.outq) < MaxInFlight
  BY DEF Put, IInv, Room
<1>2. s \in Slots \ dec.outq
  <2>1. dec.outq \in SUBSET Slots
    BY <1>0 DEF Decoder
  <2> QED
    BY <1>1, <2>1, FreeSlot
<1>3. u \in Nat
  BY <1>0 DEF Decoder
<1>4. f \in Frame /\ f = last /\ f.num = LastNum /\ f.num \in Nat
      /\ \A n \in InFlight(dec, hw) : n < f.num
  <2>1. last # None /\ f = last /\ \A n \in InFlight(dec, hw) : n < LastNum
    BY <1>0 DEF IInv, ThreadOrder
  <2>2. last \in Frame
    BY <2>1 DEF IInv, TypeOK
  <2> QED
    BY <2>1, <2>2 DEF LastNum, Frame
<1>5. \/ /\ Fail /\ UNCHANGED <<dec, hw>> /\ faults' \in Nat
      \/ /\ dec' = e /\ hw' = h /\ pc' = "after" /\ loc' = l /\ errors' = errors
         /\ faults' \in Nat
  <2>1. PICK ok \in Outcome :
          /\ Spend(ok)
          /\ IF ok
             THEN /\ dec' = e /\ hw' = h /\ GoOn("after", l)
             ELSE UNCHANGED <<dec, hw>> /\ Fail
    BY DEF Put
  <2>2. ok \in BOOLEAN /\ (faults > 0 \/ ok)
    BY DEF Outcome
  <2>3. faults' \in Nat
    BY <2>1, <2>2 DEF Spend, IInv, TypeOK
  <2> HIDE DEF e, h, l
  <2> QED
    BY <2>1, <2>2, <2>3 DEF GoOn
<1> HIDE DEF s, u, f
<1>6. /\ e \in Decoder /\ h \in Driver /\ PairInv(e, h)
      /\ InFlight(e, h) \subseteq InFlight(dec, hw) \cup {f.num}
  BY <1>0, <1>2, <1>3, <1>4, PutKeeps
<1>7. l \in Locals
  BY <1>0 DEF Locals
<1> HIDE DEF e, h, l
<1>8. /\ pc' \in {"pop", "reopen", "after"} /\ loc' \in Locals /\ errors' \in Nat /\ ~ToPut'
  <2>1. CASE Fail
    BY <2>1, FailEnds DEF IInv
  <2>2. CASE ~Fail
    BY <1>5, <1>7, <2>2 DEF ToPut, IInv, TypeOK
  <2> QED
    BY <2>1, <2>2
<1>9. /\ dec' \in Decoder /\ hw' \in Driver /\ PairInv(dec', hw')
      /\ InFlight(dec', hw') \subseteq InFlight(dec, hw) \cup {f.num}
  BY <1>0, <1>5, <1>6
<1>10. TypeOK'
  BY <1>0, <1>5, <1>8, <1>9 DEF IInv, TypeOK, Place
<1>11. ThreadOrder'
  <2>1. LastNum' = LastNum /\ ShownNum' = ShownNum /\ kind' # "sw"
    BY <1>0 DEF LastNum, ShownNum
  <2>2. ShownNum < LastNum /\ \A n \in InFlight(dec, hw) : ShownNum < n /\ n <= LastNum
    BY <1>0 DEF IInv, ThreadOrder
  <2>3. ShownNum <= LastNum
    BY DEF IInv, ThreadOrder
  <2>4. \A n \in InFlight(dec', hw') : ShownNum < n /\ n <= LastNum
    BY <1>4, <1>9, <2>2
  <2> QED
    BY <1>8, <2>1, <2>3, <2>4 DEF ThreadOrder
<1>12. Drained' /\ Room'
  BY <1>8, Elsewhere
<1> QED
  BY <1>9, <1>10, <1>11, <1>12 DEF IInv

(* A picture goes to the screen: it is newer than the one before it and    *)
(* older than all that are left.                                           *)
LEMMA SendOrder ==
  ASSUME IInv, NEW d \in Decoder, hw' \in Driver, PairInv(d, hw'),
         InFlight(d, hw') \subseteq InFlight(dec, hw), Send(d),
         UNCHANGED <<last, kind>>, ~ToPut',
         kind = "sw" => d.ready = <<>> /\ hw'.jobs = <<>> /\ hw'.done = <<>>
  PROVE  /\ dec' \in Decoder /\ PairInv(dec', hw') /\ ThreadOrder'
         /\ shown' \in Picture \cup {None}
<1>1. /\ dec' \in Decoder /\ PairInv(dec', hw')
      /\ InFlight(dec', hw') \subseteq InFlight(d, hw')
      /\ \/ shown' = shown
         \/ /\ shown' \in Picture /\ shown'.frame.num \in InFlight(d, hw')
            /\ \A n \in InFlight(dec', hw') : shown'.frame.num < n
  BY SendKeeps
<1>2. kind = "sw" => dec'.ready = <<>>
  BY DEF Send
<1>3. LastNum' = LastNum
  BY DEF LastNum
<1>4. /\ ShownNum <= LastNum
      /\ \A n \in InFlight(dec, hw) : ShownNum < n /\ n <= LastNum
  BY DEF IInv, ThreadOrder
<1>5. CASE shown' = shown
  <2>1. ShownNum' = ShownNum
    BY <1>5 DEF ShownNum
  <2> QED
    BY <1>1, <1>2, <1>3, <1>4, <1>5, <2>1 DEF ThreadOrder, IInv, TypeOK
<1>6. CASE shown' # shown
  <2>1. ShownNum' = shown'.frame.num
    BY <1>1, <1>6, Constants DEF ShownNum
  <2>2. ShownNum' <= LastNum'
    BY <1>1, <1>3, <1>4, <1>6, <2>1
  <2>3. \A n \in InFlight(dec', hw') : ShownNum' < n /\ n <= LastNum'
    BY <1>1, <1>3, <1>4, <1>6, <2>1
  <2> QED
    BY <1>1, <1>2, <1>6, <2>2, <2>3 DEF ThreadOrder
<1> QED
  BY <1>5, <1>6

(* decode and poll_frame returning.                                        *)
LEMMA ReturnKeeps == IInv /\ (Return \/ PollReady \/ PollRest) => IInv'
<1> SUFFICES ASSUME IInv, Return \/ PollReady \/ PollRest PROVE IInv'
  OBVIOUS
<1>0. dec \in Decoder /\ hw \in Driver /\ PairInv(dec, hw) /\ 1 \in Nat /\ loc.budget \in Nat
  BY DEF IInv, TypeOK, Locals
<1>1. ASSUME NEW d \in Decoder, NEW h \in Driver, PairInv(d, h),
             InFlight(d, h) \subseteq InFlight(dec, hw),
             h.jobs = hw.jobs, hw.done = <<>> => d.ready = dec.ready /\ h.done = <<>>,
             hw' = h, UNCHANGED <<kind, last, faults>>,
             \/ dec' = d /\ shown' = shown /\ Fail
             \/ /\ Send(d) /\ errors' = errors
                /\ pc' \in {"poll", "pop"} /\ loc' \in Locals
      PROVE  IInv'
  <2>1. kind = "sw" => d.ready = <<>> /\ hw'.jobs = <<>> /\ hw'.done = <<>>
    BY <1>1 DEF IInv, ThreadOrder
  <2>2. CASE Fail /\ dec' = d /\ shown' = shown
    <3>1. pc' \in {"pop", "reopen"} /\ loc' \in Locals /\ errors' \in Nat /\ ~ToPut'
      BY <2>2, FailEnds DEF IInv
    <3>2. TypeOK'
      BY <1>1, <2>2, <3>1 DEF IInv, TypeOK, Place
    <3>3. ThreadOrder'
      BY <1>1, <2>1, <2>2, <3>1, NoNewFrame DEF IInv
    <3> QED
      BY <1>1, <2>2, <3>1, <3>2, <3>3, Elsewhere DEF IInv
  <2>3. CASE /\ Send(d) /\ errors' = errors
             /\ pc' \in {"poll", "pop"} /\ loc' \in Locals
    <3>1. ~ToPut'
      BY <2>3 DEF ToPut
    <3>2. dec' \in Decoder /\ PairInv(dec', hw') /\ ThreadOrder' /\ shown' \in Picture \cup {None}
      BY <1>1, <2>1, <2>3, <3>1, SendOrder
    <3>3. TypeOK'
      BY <1>1, <2>3, <3>2 DEF IInv, TypeOK, Place
    <3> QED
      BY <2>3, <3>2, <3>3, Elsewhere DEF IInv
  <2> QED
    BY <1>1, <2>2, <2>3
<1>2. /\ [NoLocals EXCEPT !.call = "tail"] \in Locals /\ NoLocals \in Locals
      /\ \A some \in BOOLEAN : Polled(some) =>
           pc' \in {"poll", "pop"} /\ loc' \in Locals /\ errors' = errors
  BY LocalsTyped DEF Polled, GoOn
<1>3. CASE Return
  <2> DEFINE c == Collected(dec, hw, loc.budget)
  <2>1. /\ c.d \in Decoder /\ c.h \in Driver /\ PairInv(c.d, c.h)
        /\ InFlight(c.d, c.h) \subseteq InFlight(dec, hw)
        /\ c.h.jobs = hw.jobs
        /\ hw.done = <<>> => c.d.ready = dec.ready /\ c.h.done = <<>>
    BY <1>0, CollectKeeps
  <2>2. /\ hw' = c.h /\ UNCHANGED <<kind, last, faults>>
        /\ \/ dec' = c.d /\ shown' = shown /\ Fail
           \/ Send(c.d) /\ GoOn("poll", [NoLocals EXCEPT !.call = "tail"])
    BY <1>3, Zenon DEF Return
  <2> HIDE DEF c
  <2> QED
    BY <1>1, <1>2, <2>1, <2>2 DEF GoOn
<1>4. CASE PollReady
  <2>1. /\ hw' = hw /\ UNCHANGED <<kind, last, faults>> /\ Send(dec) /\ Polled(TRUE)
    BY <1>4 DEF PollReady
  <2> QED
    BY <1>0, <1>1, <1>2, <2>1
<1>5. CASE PollRest
  <2> DEFINE d0 == DrainedOutput(dec, hw)
             h0 == [hw EXCEPT !.freed = {}]
             c == Collected(d0, h0, 1)
  <2>1. /\ d0 \in Decoder /\ h0 \in Driver /\ PairInv(d0, h0)
        /\ InFlight(d0, h0) = InFlight(dec, hw)
        /\ d0.ready = dec.ready /\ h0.jobs = hw.jobs /\ h0.done = hw.done
    BY <1>0, DrainKeeps
  <2>2. /\ c.d \in Decoder /\ c.h \in Driver /\ PairInv(c.d, c.h)
        /\ InFlight(c.d, c.h) \subseteq InFlight(dec, hw)
        /\ c.h.jobs = hw.jobs
        /\ hw.done = <<>> => c.d.ready = dec.ready /\ c.h.done = <<>>
    <3> HIDE DEF d0, h0
    <3> QED
      BY <1>0, <2>1, CollectKeeps
  <2>3. /\ hw' = c.h /\ UNCHANGED <<kind, last, faults>>
        /\ Send(c.d) /\ Polled(c.d.ready # <<>>)
    BY <1>5, Zenon DEF PollRest
  <2> HIDE DEF c
  <2>4. (c.d.ready # <<>>) \in BOOLEAN
    OBVIOUS
  <2>5. pc' \in {"poll", "pop"} /\ loc' \in Locals /\ errors' = errors
    BY <1>2, <2>3, <2>4
  <2> QED
    BY <1>1, <2>2, <2>3, <2>5
<1> QED
  BY <1>3, <1>4, <1>5
(* While the driver is decoding, a reconfiguration that is about to        *)
(* restart CAPTURE has used up the rounds of drain_to_last.                *)
LEMMA RoundsUsed ==
  ASSUME TypeOK, PairInv(dec, hw), Drained, ~hw.paused, pc = "rebuild", Final(dec)
  PROVE  loc.rounds = DrainRounds
<1>1. dec.cap.fmt = hw.fmt
  BY DEF PairInv, Geometry
<1>2. hw.fmt \in Nat
  BY Constants DEF TypeOK, Driver
<1>3. ~(dec.cap.fmt < hw.fmt)
  BY <1>1, <1>2
<1> QED
  BY <1>3 DEF Drained, Refuses

(* A step of the driver alone keeps the invariant when it keeps the order  *)
(* of the stream and the owners, and touches a paused queue in nothing     *)
(* a reconfiguration waits for.                                            *)
LEMMA DriverKeeps ==
  ASSUME IInv, Keep, kind = "hw", hw' \in Driver, PairInv(dec, hw'),
         InFlight(dec, hw') \subseteq InFlight(dec, hw), faults' \in Nat,
         hw'.fmt = hw.fmt \/ hw'.fmt \in Formats,
         ~hw.paused \/ (hw'.paused = hw.paused /\ hw'.done = hw.done /\ hw'.fmt = hw.fmt)
  PROVE  IInv'
<1>1. TypeOK'
  BY DEF IInv, TypeOK, Keep
<1>2. dec' = dec /\ pc' = pc /\ loc' = loc /\ kind' = "hw"
  BY DEF Keep
<1>3. PairInv(dec', hw')
  BY <1>2
<1>4. ThreadOrder'
  <2>1. InFlight(dec', hw') \subseteq InFlight(dec, hw)
    BY <1>2
  <2>2. ToPut' => ToPut /\ loc'.frame = loc.frame
    BY <1>2 DEF ToPut
  <2> QED
    BY <1>2, <2>1, <2>2, NoNewFrame DEF IInv, Keep
<1>5. Drained'
  <2>1. CASE ~hw.paused
    <3>1. pc = "rebuild" /\ Final(dec) => loc.rounds = DrainRounds
      BY <2>1, RoundsUsed DEF IInv
    <3> QED
      BY <3>1, <1>2 DEF IInv, Drained
  <2>2. CASE hw'.paused = hw.paused /\ hw'.done = hw.done /\ hw'.fmt = hw.fmt
    <3>1. Refuses(dec, hw) => Refuses(dec', hw')
      BY <2>2, <1>2 DEF Refuses
    <3> QED
      BY <2>2, <3>1, <1>2 DEF IInv, Drained
  <2> QED
    BY <2>1, <2>2
<1>6. Room'
  BY <1>2 DEF IInv, Room
<1> QED
  BY <1>1, <1>3, <1>4, <1>5, <1>6 DEF IInv

(* The driver decodes a job, or skips one.                                 *)
LEMMA DriverDecodesKeeps == IInv /\ (DriverDecodes \/ DriverSkips) => IInv'
<1> SUFFICES ASSUME IInv, DriverDecodes \/ DriverSkips PROVE IInv'
  OBVIOUS
<1>0. dec \in Decoder /\ hw \in Driver /\ PairInv(dec, hw) /\ faults \in Nat
  BY DEF IInv, TypeOK
<1>1. CASE DriverDecodes
  <2> DEFINE b == CHOOSE x \in hw.held : \A y \in hw.held : x <= y
             g == DecodedInto(hw, b)
  <2>1. /\ hw.jobs # <<>> /\ ~hw.paused /\ hw.held # {} /\ kind = "hw"
        /\ hw.fmt \in {DefaultFormat, Head(hw.jobs).frame.fmt}
        /\ hw' = g /\ faults' = faults /\ Keep
    BY <1>1 DEF DriverDecodes, Active, DecodedInto
  <2>2. hw.held \in SUBSET Buffers
    BY <1>0 DEF Driver
  <2>3. b \in hw.held
    BY <2>1, <2>2, FirstBuffer
  <2> HIDE DEF b
  <2>4. g \in Driver /\ PairInv(dec, g) /\ InFlight(dec, g) = InFlight(dec, hw) /\ g.fmt = hw.fmt
    BY <1>0, <2>1, <2>3, DecodesKeeps
  <2> HIDE DEF g
  <2> QED
    BY <1>0, <2>1, <2>4, DriverKeeps
<1>2. CASE DriverSkips
  <2> DEFINE g == [hw EXCEPT !.jobs = Tail(@), !.freed = @ \cup {Head(hw.jobs).slot}]
  <2>1. hw.jobs # <<>> /\ ~hw.paused /\ kind = "hw" /\ hw' = g /\ faults' = faults /\ Keep
    BY <1>2 DEF DriverSkips, Active
  <2>2. /\ g \in Driver /\ PairInv(dec, g) /\ InFlight(dec, g) \subseteq InFlight(dec, hw)
        /\ g.fmt = hw.fmt
    BY <1>0, <2>1, SkipsKeeps
  <2> HIDE DEF g
  <2> QED
    BY <1>0, <2>1, <2>2, DriverKeeps
<1> QED
  BY <1>1, <1>2

(* The driver hands back buffers with nothing in them.                     *)
LEMMA DriverBabblesKeeps == IInv /\ DriverBabbles => IInv'
<1> SUFFICES ASSUME IInv, DriverBabbles PROVE IInv'
  OBVIOUS
<1> DEFINE b == CHOOSE x \in hw.held : \A y \in hw.held : x <= y
           g == HandedBack(hw, b, FALSE)
<1>0. dec \in Decoder /\ hw \in Driver /\ PairInv(dec, hw) /\ faults \in Nat
  BY DEF IInv, TypeOK
<1>1. /\ kind = "hw" /\ ~hw.paused /\ hw.held # {} /\ hw.done = <<>>
      /\ hw' = g /\ faults' = faults /\ Keep
  BY DEF DriverBabbles, HandedBack
<1>2. hw.held \in SUBSET Buffers
  BY <1>0 DEF Driver
<1>3. b \in hw.held
  BY <1>1, <1>2, FirstBuffer
<1>4. \A i \in DOMAIN hw.done : ~hw.done[i].last
  BY <1>1
<1> HIDE DEF b
<1>5. g \in Driver /\ PairInv(dec, g) /\ InFlight(dec, g) = InFlight(dec, hw) /\ g.fmt = hw.fmt
  BY <1>0, <1>3, <1>4, EmptyKeeps
<1> HIDE DEF g
<1> QED
  BY <1>0, <1>1, <1>5, DriverKeeps

(* The driver re-formats CAPTURE for a new geometry, with or without a     *)
(* buffer flagged LAST.                                                    *)
LEMMA DriverReformatsKeeps == IInv /\ DriverReformats => IInv'
<1> SUFFICES ASSUME IInv, DriverReformats PROVE IInv'
  OBVIOUS
<1> DEFINE b == CHOOSE x \in hw.held : \A y \in hw.held : x <= y
           n == Len(hw.done)
           f == Head(hw.jobs).frame.fmt
           h == [hw EXCEPT !.fmt = f, !.paused = TRUE, !.unreported = TRUE]
           g == HandedBack(h, b, TRUE)
           k == Marked(h, n)
<1>0. dec \in Decoder /\ hw \in Driver /\ PairInv(dec, hw) /\ faults \in Nat
  BY DEF IInv, TypeOK
<1>1. kind = "hw" /\ ~hw.paused /\ hw.jobs # <<>> /\ faults' = faults /\ Keep
  BY DEF DriverReformats, Active
<1>2. PICK mark \in BOOLEAN :
        hw' = CASE ~mark -> h
                [] mark /\ hw.held # {} -> g
                [] mark /\ hw.held = {} /\ n > 0 -> k
                [] OTHER -> h
  BY Zenon DEF DriverReformats, HandedBack, Marked
<1>3. f \in Formats
  <2>1. hw.jobs \in Seq(Job)
    BY <1>0 DEF Driver
  <2>2. Head(hw.jobs) \in Job
    BY <1>1, <2>1
  <2> QED
    BY <2>2 DEF Job, Frame
<1> HIDE DEF f
<1>4. /\ h \in Driver /\ PairInv(dec, h) /\ InFlight(dec, h) = InFlight(dec, hw)
      /\ h.fmt = f /\ h.paused /\ h.done = hw.done /\ h.held = hw.held
      /\ \A i \in DOMAIN h.done : ~h.done[i].last
  <2>1. h = Paused(hw, f)
    BY DEF Paused
  <2> HIDE DEF h
  <2> QED
    BY <1>0, <1>1, <1>3, <2>1, PausedKeeps
<1>5. hw.held \in SUBSET Buffers
  BY <1>0 DEF Driver
<1> HIDE DEF h
<1>6. CASE hw' = h
  BY <1>0, <1>1, <1>3, <1>4, <1>6, DriverKeeps
<1>7. CASE hw.held # {} /\ hw' = g
  <2>1. b \in hw.held
    BY <1>5, <1>7, FirstBuffer
  <2> HIDE DEF b
  <2>2. b \in h.held
    BY <2>1, <1>4
  <2>3. /\ g \in Driver /\ PairInv(dec, g) /\ InFlight(dec, g) = InFlight(dec, h)
        /\ g.fmt = h.fmt
    BY <1>0, <1>4, <2>2, EmptyKeeps
  <2> HIDE DEF g
  <2> QED
    BY <1>0, <1>1, <1>3, <1>4, <1>7, <2>3, DriverKeeps
<1>8. CASE n > 0 /\ hw' = k
  <2>1. n = Len(h.done)
    BY <1>4
  <2> HIDE DEF n
  <2>2. /\ k \in Driver /\ PairInv(dec, k) /\ InFlight(dec, k) = InFlight(dec, h)
        /\ k.fmt = h.fmt
    BY <1>0, <1>4, <1>8, <2>1, MarkedKeeps
  <2> HIDE DEF k
  <2> QED
    BY <1>0, <1>1, <1>3, <1>4, <1>8, <2>2, DriverKeeps
<1> HIDE DEF g, k, n
<1> QED
  BY <1>2, <1>6, <1>7, <1>8

(* The driver reports the new geometry, or fails.                          *)
LEMMA DriverEventsKeep == IInv /\ (DriverReports \/ DriverFails) => IInv'
<1> SUFFICES ASSUME IInv, DriverReports \/ DriverFails PROVE IInv'
  OBVIOUS
<1> DEFINE r == [hw EXCEPT !.unreported = FALSE, !.events = Append(@, "change")]
           k == [hw EXCEPT !.broken = TRUE]
           e == [hw EXCEPT !.events = Append(@, "eos")]
<1>0. dec \in Decoder /\ hw \in Driver /\ PairInv(dec, hw) /\ faults \in Nat
  BY DEF IInv, TypeOK
<1>1. hw.events \in Seq({"eos", "change"})
  BY <1>0 DEF Driver
<1>2. kind = "hw" /\ Keep /\ faults' \in Nat
  BY <1>0 DEF DriverReports, DriverFails
<1>3. \/ hw.unreported /\ hw' = r
      \/ hw' = k
      \/ hw' = e
  BY DEF DriverReports, DriverFails
<1>4. hw' \in Driver
  <2>1. Append(hw.events, "change") \in Seq({"eos", "change"})
    BY <1>1
  <2>2. Append(hw.events, "eos") \in Seq({"eos", "change"})
    BY <1>1
  <2> QED
    BY <1>0, <1>3, <2>1, <2>2 DEF Driver
<1>5. /\ hw'.jobs = hw.jobs /\ hw'.done = hw.done /\ hw'.freed = hw.freed
      /\ hw'.held = hw.held /\ hw'.fmt = hw.fmt /\ hw'.paused = hw.paused
      /\ hw'.ended = hw.ended
  BY <1>0, <1>3 DEF Driver
<1>6. (hw'.unreported \/ \E i \in DOMAIN hw'.events : hw'.events[i] = "change")
        => (hw.unreported \/ \E i \in DOMAIN hw.events : hw.events[i] = "change")
  <2>1. CASE hw.unreported
    BY <2>1
  <2>2. CASE hw' = k
    <3>1. hw'.unreported = hw.unreported /\ hw'.events = hw.events
      BY <1>0, <2>2 DEF Driver
    <3> QED
      BY <3>1
  <2>3. CASE hw' = e
    <3>1. hw'.unreported = hw.unreported /\ hw'.events = Append(hw.events, "eos")
      BY <1>0, <2>3 DEF Driver
    <3>2. ASSUME NEW i \in DOMAIN hw'.events, hw'.events[i] = "change"
          PROVE  i \in DOMAIN hw.events /\ hw.events[i] = "change"
      BY <1>1, <3>1, <3>2
    <3> QED
      BY <3>1, <3>2
  <2> QED
    BY <1>3, <2>1, <2>2, <2>3
<1>7. PairInv(dec, hw') /\ InFlight(dec, hw') = InFlight(dec, hw)
  BY <1>0, <1>4, <1>5, <1>6, EventKeeps
<1> QED
  BY <1>2, <1>4, <1>5, <1>7, DriverKeeps

(* Time passes in wait_for_slot.                                           *)
LEMMA TickKeeps == IInv /\ Tick => IInv'
<1> SUFFICES ASSUME IInv, Tick PROVE IInv'
  OBVIOUS
<1>1. /\ UNCHANGED <<dec, hw, kind, pc, errors, last, faults, shown>>
      /\ \E w, t : loc' = [loc EXCEPT !.waited = w, !.total = t] /\ w \in Nat /\ t \in Nat
  <2> DEFINE up(t, limit) == IF t < limit THEN t + 1 ELSE t
  <2>1. loc' = [loc EXCEPT !.waited = up(@, StallTime), !.total = up(@, MaxWait)]
    BY DEF Tick
  <2>2. loc.waited \in Nat /\ loc.total \in Nat
    BY DEF IInv, TypeOK, Locals
  <2>3. up(loc.waited, StallTime) \in Nat /\ up(loc.total, MaxWait) \in Nat
    BY <2>2
  <2>4. loc' = [loc EXCEPT !.waited = up(loc.waited, StallTime), !.total = up(loc.total, MaxWait)]
    BY <2>1
  <2> HIDE DEF up
  <2> QED
    BY <2>3, <2>4 DEF Tick
<1>2. /\ loc' \in Locals /\ loc'.frame = loc.frame /\ loc'.rounds = loc.rounds
      /\ loc'.ret = loc.ret
  BY <1>1 DEF IInv, TypeOK, Locals
<1>3. TypeOK'
  BY <1>1, <1>2 DEF IInv, TypeOK
<1>4. ThreadOrder'
  <2>1. ToPut' => ToPut /\ loc'.frame = loc.frame
    BY <1>1, <1>2 DEF ToPut
  <2>2. InFlight(dec', hw') \subseteq InFlight(dec, hw)
    BY <1>1
  <2> QED
    BY <1>1, <2>1, <2>2, NoNewFrame DEF IInv, ThreadOrder
<1>5. Drained' /\ Room'
  BY <1>1, <1>2 DEF IInv, Drained, Room
<1> QED
  BY <1>1, <1>3, <1>4, <1>5 DEF IInv

(* A step that changes nothing keeps the invariant.                        *)
LEMMA StutterKeeps == IInv /\ UNCHANGED vars => IInv'
BY DEF IInv, vars, TypeOK, ThreadOrder, LastNum, ShownNum, ToPut, Drained, Room

(* An error out of take_capture ends the method; a picture it lost is not  *)
(* in flight any more.                                                     *)
LEMMA TakeFailsKeeps == IInv /\ TakeFails => IInv'
<1> SUFFICES ASSUME IInv, TakeFails PROVE IInv'
  OBVIOUS
<1>0. dec \in Decoder /\ hw \in Driver /\ PairInv(dec, hw) /\ faults \in Nat
  BY DEF IInv, TypeOK
<1>1. PICK back \in BOOLEAN :
        dec' = CollectError(dec, hw, back).d /\ hw' = CollectError(dec, hw, back).h
  BY DEF TakeFails
<1>2. /\ dec' \in Decoder /\ hw' \in Driver /\ PairInv(dec', hw')
      /\ InFlight(dec', hw') \subseteq InFlight(dec, hw)
      /\ hw.done = <<>> => dec'.ready = dec.ready /\ hw'.done = <<>>
      /\ hw'.jobs = hw.jobs
  BY <1>0, <1>1, CollectErrorKeeps, Zenon
<1>3. /\ faults > 0 /\ faults' = faults - 1 /\ Fail
      /\ UNCHANGED <<kind, choice, last, shown>>
  BY DEF TakeFails
<1>4. /\ pc' \in {"pop", "reopen"} /\ loc' \in Locals /\ errors' \in Nat /\ ~ToPut'
  BY <1>3, FailEnds DEF IInv
<1>5. faults' \in Nat
  BY <1>0, <1>3
<1>6. TypeOK'
  BY <1>2, <1>3, <1>4, <1>5 DEF IInv, TypeOK, Place
<1>7. ThreadOrder'
  <2>1. kind = "sw" => dec'.ready = <<>> /\ hw'.jobs = <<>> /\ hw'.done = <<>>
    BY <1>2 DEF IInv, ThreadOrder
  <2> QED
    BY <1>2, <1>3, <1>4, <2>1, NoNewFrame DEF IInv
<1>8. Drained' /\ Room'
  BY <1>4, Elsewhere
<1> QED
  BY <1>2, <1>6, <1>7, <1>8 DEF IInv

(* Every step keeps the invariant.                                         *)
LEMMA NextKeeps == IInv /\ [Next]_vars => IInv'
<1> SUFFICES ASSUME IInv, [Next]_vars PROVE IInv'
  OBVIOUS
<1>1. CASE Open
  BY <1>1, OpenKeeps
<1>2. CASE Pop
  BY <1>2, PopKeeps
<1>3. CASE DecodeError \/ Poll \/ PollIdle
  BY <1>3, PollKeeps
<1>4. CASE SwDecode
  BY <1>4, SwDecodeKeeps
<1>5. CASE HandleEvent
  BY <1>5, HandleEventKeeps
<1>6. CASE DrainRound
  BY <1>6, DrainRoundKeeps
<1>7. CASE Rebuild
  BY <1>7, RebuildKeeps
<1>8. CASE WaitRest
  BY <1>8, WaitRestKeeps
<1>9. CASE Put
  BY <1>9, PutStepKeeps
<1>10. CASE Return \/ PollReady \/ PollRest
  BY <1>10, ReturnKeeps
<1>11. CASE TakeFails
  BY <1>11, TakeFailsKeeps
<1>12. CASE DriverDecodes \/ DriverSkips
  BY <1>12, DriverDecodesKeeps
<1>13. CASE DriverBabbles
  BY <1>13, DriverBabblesKeeps
<1>14. CASE DriverReformats
  BY <1>14, DriverReformatsKeeps
<1>15. CASE DriverReports \/ DriverFails
  BY <1>15, DriverEventsKeep
<1>16. CASE Tick
  BY <1>16, TickKeeps
<1>17. CASE UNCHANGED vars
  BY <1>17, StutterKeeps
<1> QED
  BY <1>1, <1>2, <1>3, <1>4, <1>5, <1>6, <1>7, <1>8, <1>9, <1>10, <1>11, <1>12, <1>13,
     <1>14, <1>15, <1>16, <1>17 DEF Next, ThreadStep

(* The decoder, its driver and the thread stay consistent: the types, the  *)
(* owners, the order of the stream through every stage, and what a         *)
(* reconfiguration may assume, hold in every reachable state.              *)
THEOREM DecoderStaysConsistent == Spec => []IInv
BY InitInv, NextKeeps, PTL DEF Spec
-----------------------------------------------------------------------------
(* The owners of the buffers *)

(* What is at the first n places of s. *)
Images(s, n) == {s[i] : i \in 1 .. n}

(* Without a repetition there are n of them. *)
LEMMA AsManyAsPlaces ==
  ASSUME NEW n \in Nat, NEW s, \A i, j \in 1 .. n : s[i] = s[j] => i = j
  PROVE  Cardinality(Images(s, n)) = n
<1> DEFINE S == Images(s, n)
           f == [i \in 1 .. n |-> s[i]]
<1>1. f \in Bijection(1 .. n, S)
  BY DEF Bijection, Injection, Surjection, IsInjective, Images
<1> HIDE DEF f, S
<1>2. IsFiniteSet(1 .. n) /\ Cardinality(1 .. n) = n
  BY FS_Interval
<1>3. ExistsBijection(1 .. n, S)
  BY <1>1 DEF ExistsBijection
<1> QED
  BY <1>2, <1>3, FS_Bijection DEF S

(* The owners add up to the buffers queued.                                *)
LEMMA OwnersAddUp == TypeOK /\ PairInv(dec, hw) => BuffersHaveOneOwner
<1> SUFFICES ASSUME TypeOK, PairInv(dec, hw) PROVE BuffersHaveOneOwner
  OBVIOUS
<1> DEFINE J == JobSlots(hw)
           D == DoneSlots(hw)
           X == DoneIdx(hw)
<1>0. /\ SlotsOwned(dec, hw) /\ BuffersOwned(dec, hw)
      /\ hw.jobs \in Seq(Job) /\ hw.done \in Seq(Filled) /\ hw.freed \in SUBSET Slots
  BY DEF TypeOK, PairInv, Driver
<1>1. Cardinality(J) = Len(hw.jobs)
  <2> DEFINE n == Len(hw.jobs)
             s == [i \in 1 .. n |-> hw.jobs[i].slot]
  <2>1. n \in Nat /\ DOMAIN hw.jobs = 1 .. n
    BY <1>0
  <2>2. \A i, j \in 1 .. n : s[i] = s[j] => i = j
    BY <1>0, <2>1 DEF SlotsOwned
  <2>3. J = Images(s, n)
    BY <2>1 DEF JobSlots, Images
  <2> HIDE DEF s, J
  <2> QED
    BY <2>1, <2>2, <2>3, AsManyAsPlaces
<1>2. Cardinality(X) = Len(hw.done)
  <2> DEFINE n == Len(hw.done)
             s == [i \in 1 .. n |-> hw.done[i].idx]
  <2>1. n \in Nat /\ DOMAIN hw.done = 1 .. n
    BY <1>0
  <2>2. \A i, j \in 1 .. n : s[i] = s[j] => i = j
    BY <1>0, <2>1 DEF BuffersOwned
  <2>3. X = Images(s, n)
    BY <2>1 DEF DoneIdx, Images
  <2> HIDE DEF s, X
  <2> QED
    BY <2>1, <2>2, <2>3, AsManyAsPlaces
<1>3. J \subseteq Slots /\ D \subseteq Slots
  <2>1. ASSUME NEW i \in DOMAIN hw.jobs PROVE hw.jobs[i].slot \in Slots
    <3>1. hw.jobs[i] \in Job
      BY <1>0
    <3> QED
      BY <3>1 DEF Job
  <2>2. ASSUME NEW i \in DOMAIN hw.done PROVE hw.done[i].slot \in Slots \cup {None}
    <3>1. hw.done[i] \in Filled
      BY <1>0
    <3> QED
      BY <3>1 DEF Filled
  <2> QED
    BY <2>1, <2>2 DEF JobSlots, DoneSlots
<1>4. /\ dec.outq = (J \cup D) \cup hw.freed
      /\ J \cap D = {} /\ (J \cup D) \cap hw.freed = {}
  BY <1>0 DEF SlotsOwned
<1> HIDE DEF J, D, X
<1>5. IsFiniteSet(J) /\ IsFiniteSet(D) /\ IsFiniteSet(hw.freed) /\ IsFiniteSet(J \cup D)
  BY <1>0, <1>3, SlotsFinite, FS_Subset
<1>6. /\ Cardinality(J) \in Nat /\ Cardinality(D) \in Nat /\ Cardinality(hw.freed) \in Nat
      /\ Cardinality({}) = 0
  BY <1>5, FS_CardinalityType, FS_EmptySet
<1>7. Cardinality(J \cup D) = Cardinality(J) + Cardinality(D) - Cardinality(J \cap D)
  BY <1>5, FS_Union
<1>8. Cardinality(dec.outq) = Cardinality(J \cup D) + Cardinality(hw.freed)
                                - Cardinality((J \cup D) \cap hw.freed)
  BY <1>4, <1>5, FS_Union
<1>9. Cardinality(dec.outq) = Len(hw.jobs) + Cardinality(D) + Cardinality(hw.freed)
  <2>1. Cardinality(J \cap D) = 0 /\ Cardinality((J \cup D) \cap hw.freed) = 0
    BY <1>4, <1>6
  <2> QED
    BY <1>1, <1>6, <1>7, <1>8, <2>1
<1>10. dec.cap # None => dec.cap.queued = hw.held \cup X /\ hw.held \cap X = {}
  BY <1>0 DEF BuffersOwned, X
<1> QED
  BY <1>2, <1>4, <1>9, <1>10 DEF BuffersHaveOneOwner, J, D, X, JobSlots, DoneSlots, DoneIdx

(* A buffer is flagged queued exactly while the driver has it, and the     *)
(* driver has it in one place: Queue's bookkeeping (queue.rs) through      *)
(* requeues that fail, LAST buffers and restarts.                          *)
THEOREM EachBufferHasOneOwner == Spec => []BuffersHaveOneOwner
<1>1. IInv => BuffersHaveOneOwner
  BY OwnersAddUp DEF IInv
<1> QED
  BY DecoderStaysConsistent, <1>1, PTL
-----------------------------------------------------------------------------
(* The order of the pictures *)

(* A picture is shown after those before it, at the geometry it was        *)
(* decoded at.                                                             *)
InOrderStep ==
  shown' # shown =>
    /\ shown'.fmt = shown'.frame.fmt
    /\ shown # None => shown.frame.num < shown'.frame.num

(* The head of ready, sent to the UI, is newer than the last one shown.    *)
LEMMA SentInOrder ==
  ASSUME IInv, NEW d \in Decoder, hw' \in Driver, PairInv(d, hw'),
         InFlight(d, hw') \subseteq InFlight(dec, hw), Send(d)
  PROVE  InOrderStep
<1>1. \/ shown' = shown
      \/ /\ shown'.fmt = shown'.frame.fmt
         /\ shown'.frame.num \in InFlight(d, hw')
  BY SendKeeps
<1>2. \A n \in InFlight(dec, hw) : ShownNum < n
  BY DEF IInv, ThreadOrder
<1>3. shown # None => ShownNum = shown.frame.num
  BY DEF ShownNum
<1> QED
  BY <1>1, <1>2, <1>3 DEF InOrderStep

(* A step shows nothing, or the next picture at its own geometry.          *)
LEMMA StepsShowInOrder == IInv /\ [Next]_vars => InOrderStep
<1> SUFFICES ASSUME IInv, [Next]_vars PROVE InOrderStep
  OBVIOUS
<1>0. /\ dec \in Decoder /\ hw \in Driver /\ PairInv(dec, hw)
      /\ 1 \in Nat /\ loc.budget \in Nat
  BY DEF IInv, TypeOK, Locals
<1>1. CASE SwDecode
  <2>1. ToPut
    BY <1>1 DEF SwDecode, ToPut
  <2>2. ShownNum < LastNum /\ last # None /\ loc.frame = last
    BY <2>1 DEF IInv, ThreadOrder
  <2>3. \/ shown' = shown
        \/ shown' = [frame |-> loc.frame, fmt |-> loc.frame.fmt]
    BY <1>1 DEF SwDecode
  <2> QED
    BY <2>2, <2>3 DEF InOrderStep, ShownNum, LastNum
<1>2. CASE Return
  <2> DEFINE c == Collected(dec, hw, loc.budget)
  <2>1. /\ c.d \in Decoder /\ c.h \in Driver /\ PairInv(c.d, c.h)
        /\ InFlight(c.d, c.h) \subseteq InFlight(dec, hw)
    BY <1>0, CollectKeeps
  <2>2. hw' = c.h /\ (shown' = shown \/ Send(c.d))
    BY <1>2, Zenon DEF Return
  <2> HIDE DEF c
  <2>3. CASE shown' = shown
    BY <2>3 DEF InOrderStep
  <2>4. CASE Send(c.d)
    BY <2>1, <2>2, <2>4, SentInOrder
  <2> QED
    BY <2>2, <2>3, <2>4
<1>3. CASE PollReady
  <2>1. hw' = hw /\ Send(dec)
    BY <1>3 DEF PollReady
  <2> QED
    BY <1>0, <2>1, SentInOrder
<1>4. CASE PollRest
  <2> DEFINE d0 == DrainedOutput(dec, hw)
             h0 == [hw EXCEPT !.freed = {}]
             c == Collected(d0, h0, 1)
  <2>1. /\ d0 \in Decoder /\ h0 \in Driver /\ PairInv(d0, h0)
        /\ InFlight(d0, h0) = InFlight(dec, hw)
    BY <1>0, DrainKeeps
  <2>2. /\ c.d \in Decoder /\ c.h \in Driver /\ PairInv(c.d, c.h)
        /\ InFlight(c.d, c.h) \subseteq InFlight(dec, hw)
    <3> HIDE DEF d0, h0
    <3> QED
      BY <1>0, <2>1, CollectKeeps
  <2>3. hw' = c.h /\ Send(c.d)
    BY <1>4, Zenon DEF PollRest
  <2> HIDE DEF c
  <2> QED
    BY <2>2, <2>3, SentInOrder
<1>5. CASE \/ Open \/ Pop \/ DecodeError \/ Poll \/ PollIdle \/ HandleEvent
           \/ DrainRound \/ Rebuild \/ WaitRest \/ Put \/ TakeFails
  <2>1. shown' = shown
    BY <1>5 DEF Open, Pop, DecodeError, Poll, PollIdle, HandleEvent, DrainRound, Rebuild,
                WaitRest, Put, TakeFails
  <2> QED
    BY <2>1 DEF InOrderStep
<1>6. CASE \/ DriverDecodes \/ DriverSkips \/ DriverBabbles \/ DriverReformats
           \/ DriverReports \/ DriverFails \/ Tick \/ UNCHANGED vars
  <2>1. shown' = shown
    BY <1>6 DEF DriverDecodes, DriverSkips, DriverBabbles, DriverReformats, DriverReports,
                DriverFails, Keep, Tick, vars
  <2> QED
    BY <2>1 DEF InOrderStep
<1> QED
  BY <1>1, <1>2, <1>3, <1>4, <1>5, <1>6 DEF Next, ThreadStep

(* The UI is sent each picture once, in stream order and at the geometry   *)
(* it was decoded at; a reconfiguration (reconfigure_capture, decoder.rs)  *)
(* throws no decoded picture away unless the driver never ended the        *)
(* sequence or refused a buffer during the drain.                          *)
THEOREM PicturesStayInOrder == Spec => PicturesInOrder
<1> DEFINE Kept == pc = "rebuild" /\ dec.cap # None /\ ~dec.cap.provisional
                     => \/ \A i \in DOMAIN hw.done : hw.done[i].frame = None
                        \/ loc.rounds = DrainRounds
                        \/ Refuses(dec, hw)
<1>1. IInv => Kept
  BY DEF IInv, Drained, Final
<1>2. IInv /\ [Next]_vars => [InOrderStep]_vars
  BY StepsShowInOrder
<1>3. Spec => []Kept
  BY DecoderStaysConsistent, <1>1, PTL
<1>4. Spec => [][InOrderStep]_vars
  BY DecoderStaysConsistent, <1>2, PTL DEF Spec
<1> QED
  BY <1>3, <1>4 DEF PicturesInOrder, InOrderStep
=============================================================================
