------------------------ MODULE MiracastRtsp_proofs ------------------------
(***************************************************************************)
(* For any displays, casts, time limits and faults of the link: when the   *)
(* source plays, the session is settled at both ends; a session whose link *)
(* has not stalled is not ended while the user shares the screen; and what *)
(* is proposed to a display is within its means and the user's.            *)
(***************************************************************************)
EXTENDS MiracastRtsp, SequenceTheorems, WellFoundedInduction, TLAPS

(* What is on its way in one direction. *)
Queue(q) == q \in Seq(Range(q))
Is(m, t, k) == m.type = t /\ m.of = k
Occurs(q, t, k) == \E i \in DOMAIN q : Is(q[i], t, k)
Once(q, t, k) == \A i, j \in DOMAIN q : Is(q[i], t, k) /\ Is(q[j], t, k) => i = j
Selects(q, c) == \A i \in DOMAIN q : Is(q[i], "request", "M4") => q[i].selection = c
SetupFirst(q, port) ==
  \A i \in DOMAIN q : Is(q[i], "request", "PLAY") =>
    port \/ \E j \in DOMAIN q : j < i /\ Is(q[j], "request", "SETUP")

RtspType ==
  /\ Queue(toSink) /\ Queue(toSource)
  /\ DOMAIN source = {"state", "asked_caps", "m1_answered", "pending", "chosen", "port", "last_heard",
                      "last_keepalive", "want_idr", "want_kbps", "rate"}
  /\ DOMAIN sink = {"state", "chosen", "peer_session", "playing", "last_heard", "last_keepalive",
                    "last_media", "last_idr", "rung", "sampled"}
  /\ DOMAIN ended = {"source", "sink"}

(* The source has not got the capabilities of the display. *)
Early == source.state = "AwaitingCaps"

(* M3 is asked once: by M2 or by the grace period, never by both.          *)
AskedOnce ==
  /\ Once(toSink, "request", "M3") /\ Once(toSource, "response", "M3")
  /\ ~(Occurs(toSink, "request", "M3") /\ Occurs(toSource, "response", "M3"))
  /\ Occurs(toSink, "request", "M3") \/ Occurs(toSource, "response", "M3") => source.asked_caps /\ Early
  /\ ~source.asked_caps => Early

(* Before the capabilities came, nothing that builds on them is under way. *)
NothingEarly ==
  Early =>
    /\ ~Occurs(toSink, "request", "M4") /\ ~Occurs(toSink, "request", "M5")
    /\ ~Occurs(toSource, "response", "M4")
    /\ ~Occurs(toSource, "request", "SETUP") /\ ~Occurs(toSource, "request", "PLAY")
    /\ SinkHere => sink.state \notin {"Ready", "Playing"}

(* How far the sink has come, and what it has sent, tells which mode it    *)
(* has; PLAY is on its way only behind SETUP.                              *)
SinkFollows ==
  SinkHere =>
    /\ Occurs(toSource, "response", "M4") \/ Occurs(toSink, "request", "M5") => sink.chosen = source.chosen
    /\ sink.state \in {"Ready", "Playing"} =>
         sink.chosen = source.chosen /\ (source.port \/ Occurs(toSource, "request", "SETUP"))
    /\ Occurs(toSource, "request", "PLAY") => sink.chosen = source.chosen /\ sink.peer_session

(* The exchange, state and messages together; a source that has gone does  *)
(* not play.                                                               *)
HandshakeInv ==
  /\ SourceHere =>
       /\ AskedOnce /\ NothingEarly /\ SinkFollows
       /\ Selects(toSink, source.chosen) /\ SetupFirst(toSource, source.port)
  /\ ~SourceHere => source.state # "Playing"

(* The invariant proved by induction.                                      *)
RtspInv == RtspType /\ HandshakeInv /\ PlayIsSettled

(* What the exchange turns on is as it was, apart from what is on its way. *)
Kept ==
  /\ source'.state = source.state /\ source'.asked_caps = source.asked_caps
  /\ source'.chosen = source.chosen /\ source'.port = source.port
  /\ sink'.state = sink.state /\ sink'.chosen = sink.chosen
  /\ sink'.peer_session = sink.peer_session
  /\ DOMAIN source' = DOMAIN source /\ DOMAIN sink' = DOMAIN sink
  /\ ended' = ended

(* The requests of the exchange on their way to the sink are the same, and *)
(* so are those of the sink and the answers it gives.                      *)
SameToSink(r, q) ==
  /\ Queue(r)
  /\ \A k \in {"M3", "M4", "M5"} : Occurs(r, "request", k) <=> Occurs(q, "request", k)
  /\ Once(q, "request", "M3") => Once(r, "request", "M3")
  /\ \A c : Selects(q, c) => Selects(r, c)
SameToSource(r, q) ==
  /\ Queue(r)
  /\ \A k \in {"M3", "M4"} : Occurs(r, "response", k) <=> Occurs(q, "response", k)
  /\ \A k \in {"SETUP", "PLAY"} : Occurs(r, "request", k) <=> Occurs(q, "request", k)
  /\ Once(q, "response", "M3") => Once(r, "response", "M3")
  /\ \A p : SetupFirst(q, p) => SetupFirst(r, p)
------------------------------------------------------------------------------
(* Messages on their way *)

(* A queue behind another: places and messages. *)
LEMMA Joined ==
  ASSUME NEW q, Queue(q), NEW r, Queue(r)
  PROVE  /\ Queue(q \o r)
         /\ Len(q) \in Nat /\ Len(r) \in Nat
         /\ DOMAIN q = 1 .. Len(q) /\ DOMAIN r = 1 .. Len(r)
         /\ DOMAIN (q \o r) = 1 .. (Len(q) + Len(r))
         /\ \A i \in 1 .. Len(q) : (q \o r)[i] = q[i]
         /\ \A i \in 1 .. Len(r) : (q \o r)[Len(q) + i] = r[i]
<1> DEFINE S == Range(q) \union Range(r)
<1>1. q \in Seq(S) /\ r \in Seq(S)
  BY SeqMonotonic DEF Queue
<1> HIDE DEF S
<1>2. /\ Len(q) \in Nat /\ Len(r) \in Nat
      /\ DOMAIN q = 1 .. Len(q) /\ DOMAIN r = 1 .. Len(r)
  BY <1>1, LenProperties
<1>3. /\ q \o r \in Seq(S) /\ Len(q \o r) = Len(q) + Len(r)
      /\ \A i \in 1 .. Len(q) + Len(r) : (q \o r)[i] = IF i <= Len(q) THEN q[i] ELSE r[i - Len(q)]
  BY <1>1, ConcatProperties
<1>4. q \o r \in Seq(Range(q \o r)) /\ DOMAIN (q \o r) = 1 .. (Len(q) + Len(r))
  BY <1>3, SeqOfRange, LenProperties
<1>5. \A i \in 1 .. Len(q) : (q \o r)[i] = q[i]
  BY <1>2, <1>3
<1>6. ASSUME NEW i \in 1 .. Len(r)
      PROVE  (q \o r)[Len(q) + i] = r[i]
  <2>1. Len(q) + i \in 1 .. Len(q) + Len(r) /\ ~(Len(q) + i <= Len(q)) /\ (Len(q) + i) - Len(q) = i
    BY <1>2
  <2> QED
    BY <1>3, <2>1
<1> QED
  BY <1>2, <1>4, <1>5, <1>6 DEF Queue

(* What is on its way in both. *)
LEMMA JoinFacts ==
  ASSUME NEW q, Queue(q), NEW r, Queue(r)
  PROVE  /\ Queue(q \o r)
         /\ \A t, k : Occurs(q \o r, t, k) <=> Occurs(q, t, k) \/ Occurs(r, t, k)
         /\ \A t, k : Once(q, t, k) /\ Once(r, t, k) /\ ~(Occurs(q, t, k) /\ Occurs(r, t, k))
                        => Once(q \o r, t, k)
         /\ \A c : Selects(q, c) /\ Selects(r, c) => Selects(q \o r, c)
         /\ \A p : /\ SetupFirst(q, p)
                   /\ ~Occurs(r, "request", "PLAY") \/ p \/ Occurs(q, "request", "SETUP")
                   => SetupFirst(q \o r, p)
<1>1. /\ Queue(q \o r) /\ Len(q) \in Nat /\ Len(r) \in Nat
      /\ DOMAIN q = 1 .. Len(q) /\ DOMAIN r = 1 .. Len(r)
      /\ DOMAIN (q \o r) = 1 .. (Len(q) + Len(r))
      /\ \A i \in 1 .. Len(q) : (q \o r)[i] = q[i]
      /\ \A i \in 1 .. Len(r) : (q \o r)[Len(q) + i] = r[i]
  BY Joined
<1>2. /\ \A i \in DOMAIN q : i \in DOMAIN (q \o r) /\ (q \o r)[i] = q[i]
      /\ \A i \in DOMAIN r : Len(q) + i \in DOMAIN (q \o r) /\ (q \o r)[Len(q) + i] = r[i]
  BY <1>1
<1>3. ASSUME NEW i \in DOMAIN (q \o r)
      PROVE  \/ i \in DOMAIN q /\ (q \o r)[i] = q[i]
             \/ i - Len(q) \in DOMAIN r /\ (q \o r)[i] = r[i - Len(q)] /\ i > Len(q)
  <2>1. CASE i <= Len(q)
    BY <1>1, <2>1
  <2>2. CASE i > Len(q)
    <3>1. i - Len(q) \in DOMAIN r /\ Len(q) + (i - Len(q)) = i
      BY <1>1, <2>2
    <3> QED
      BY <1>2, <2>2, <3>1
  <2> QED
    BY <1>1, <2>1, <2>2
<1>4. ASSUME NEW t, NEW k
      PROVE  Occurs(q \o r, t, k) <=> Occurs(q, t, k) \/ Occurs(r, t, k)
  BY <1>2, <1>3 DEF Occurs
<1>5. ASSUME NEW t, NEW k, Once(q, t, k), Once(r, t, k), ~(Occurs(q, t, k) /\ Occurs(r, t, k))
      PROVE  Once(q \o r, t, k)
  <2> SUFFICES ASSUME NEW i \in DOMAIN (q \o r), NEW j \in DOMAIN (q \o r),
                      Is((q \o r)[i], t, k), Is((q \o r)[j], t, k)
               PROVE  i = j
    BY DEF Once
  <2>1. CASE i \in DOMAIN q /\ (q \o r)[i] = q[i]
    <3>1. j \in DOMAIN q /\ (q \o r)[j] = q[j]
      BY <1>3, <1>5, <2>1 DEF Occurs
    <3> QED
      BY <1>5, <2>1, <3>1 DEF Once
  <2>2. CASE i - Len(q) \in DOMAIN r /\ (q \o r)[i] = r[i - Len(q)] /\ i > Len(q)
    <3>1. j - Len(q) \in DOMAIN r /\ (q \o r)[j] = r[j - Len(q)] /\ j > Len(q)
      BY <1>3, <1>5, <2>2 DEF Occurs
    <3>2. i - Len(q) = j - Len(q)
      BY <1>5, <2>2, <3>1 DEF Once
    <3> QED
      BY <1>1, <3>2
  <2> QED
    BY <1>3, <2>1, <2>2
<1>6. ASSUME NEW c, Selects(q, c), Selects(r, c)
      PROVE  Selects(q \o r, c)
  BY <1>3, <1>6 DEF Selects
<1>7. ASSUME NEW p, SetupFirst(q, p),
             ~Occurs(r, "request", "PLAY") \/ p \/ Occurs(q, "request", "SETUP")
      PROVE  SetupFirst(q \o r, p)
  <2> SUFFICES ASSUME NEW i \in DOMAIN (q \o r), Is((q \o r)[i], "request", "PLAY"), ~p
               PROVE  \E j \in DOMAIN (q \o r) : j < i /\ Is((q \o r)[j], "request", "SETUP")
    BY DEF SetupFirst
  <2>1. CASE i \in DOMAIN q /\ (q \o r)[i] = q[i]
    <3>1. PICK j \in DOMAIN q : j < i /\ Is(q[j], "request", "SETUP")
      BY <1>7, <2>1 DEF SetupFirst
    <3> QED
      BY <1>2, <3>1
  <2>2. CASE i - Len(q) \in DOMAIN r /\ (q \o r)[i] = r[i - Len(q)] /\ i > Len(q)
    <3>1. Occurs(q, "request", "SETUP")
      BY <1>7, <2>2 DEF Occurs
    <3>2. PICK j \in DOMAIN q : Is(q[j], "request", "SETUP")
      BY <3>1 DEF Occurs
    <3>3. j < i
      BY <1>1, <2>2, <3>2
    <3> QED
      BY <1>2, <3>2, <3>3
  <2> QED
    BY <1>3, <2>1, <2>2
<1> QED
  BY <1>1, <1>4, <1>5, <1>6, <1>7

(* What is on its way behind the first message. *)
LEMMA TailFacts ==
  ASSUME NEW q, Queue(q), q # <<>>
  PROVE  /\ Queue(Tail(q))
         /\ \A t, k : Occurs(q, t, k) <=> Is(Head(q), t, k) \/ Occurs(Tail(q), t, k)
         /\ \A t, k : Once(q, t, k) => /\ Once(Tail(q), t, k)
                                       /\ ~(Is(Head(q), t, k) /\ Occurs(Tail(q), t, k))
         /\ \A c : Selects(q, c) => /\ Selects(Tail(q), c)
                                    /\ Is(Head(q), "request", "M4") => Head(q).selection = c
         /\ \A p : SetupFirst(q, p) =>
              /\ \A n : p \/ Is(Head(q), "request", "SETUP") <=> n => SetupFirst(Tail(q), n)
              /\ Is(Head(q), "request", "PLAY") => p
<1>1. Len(q) \in Nat \ {0} /\ DOMAIN q = 1 .. Len(q) /\ Head(q) = q[1]
  BY EmptySeq, LenProperties DEF Queue
<1>2. /\ Tail(q) \in Seq(Range(q)) /\ Len(Tail(q)) = Len(q) - 1
      /\ \A i \in 1 .. Len(Tail(q)) : Tail(q)[i] = q[i + 1]
  BY HeadTailProperties DEF Queue
<1>3. DOMAIN Tail(q) = 1 .. (Len(q) - 1) /\ Tail(q) \in Seq(Range(Tail(q)))
  BY <1>2, LenProperties, SeqOfRange
<1>4. \A i \in DOMAIN Tail(q) : i + 1 \in DOMAIN q /\ i \in Nat /\ i + 1 # 1 /\ Tail(q)[i] = q[i + 1]
  BY <1>1, <1>2, <1>3
<1>5. \A j \in DOMAIN q : j # 1 => j - 1 \in DOMAIN Tail(q) /\ j \in Nat /\ Tail(q)[j - 1] = q[j]
  BY <1>1, <1>2, <1>3
<1>6. 1 \in DOMAIN q
  BY <1>1
<1>7. ASSUME NEW t, NEW k
      PROVE  Occurs(q, t, k) <=> Is(Head(q), t, k) \/ Occurs(Tail(q), t, k)
  BY <1>1, <1>4, <1>5, <1>6 DEF Occurs
<1>8. ASSUME NEW t, NEW k, Once(q, t, k)
      PROVE  Once(Tail(q), t, k) /\ ~(Is(Head(q), t, k) /\ Occurs(Tail(q), t, k))
  <2>1. Once(Tail(q), t, k)
    <3> SUFFICES ASSUME NEW i \in DOMAIN Tail(q), NEW j \in DOMAIN Tail(q),
                        Is(Tail(q)[i], t, k), Is(Tail(q)[j], t, k)
                 PROVE  i = j
      BY DEF Once
    <3>1. i + 1 = j + 1
      BY <1>4, <1>8 DEF Once
    <3> QED
      BY <1>4, <3>1
  <2>2. ~(Is(Head(q), t, k) /\ Occurs(Tail(q), t, k))
    BY <1>1, <1>4, <1>6, <1>8 DEF Once, Occurs
  <2> QED
    BY <2>1, <2>2
<1>9. ASSUME NEW c, Selects(q, c)
      PROVE  Selects(Tail(q), c) /\ (Is(Head(q), "request", "M4") => Head(q).selection = c)
  BY <1>1, <1>4, <1>6, <1>9 DEF Selects
<1>10. ASSUME NEW p, SetupFirst(q, p), NEW n, p \/ Is(Head(q), "request", "SETUP") <=> n
       PROVE  SetupFirst(Tail(q), n)
  <2> SUFFICES ASSUME NEW i \in DOMAIN Tail(q), Is(Tail(q)[i], "request", "PLAY"), ~n
               PROVE  \E j \in DOMAIN Tail(q) : j < i /\ Is(Tail(q)[j], "request", "SETUP")
    BY DEF SetupFirst
  <2>1. PICK j \in DOMAIN q : j < i + 1 /\ Is(q[j], "request", "SETUP")
    BY <1>4, <1>10 DEF SetupFirst
  <2>2. j # 1
    BY <1>1, <1>10, <2>1
  <2>3. j - 1 < i
    BY <1>4, <1>5, <2>1, <2>2
  <2> QED
    BY <1>5, <2>1, <2>2, <2>3
<1>11. ASSUME NEW p, SetupFirst(q, p), Is(Head(q), "request", "PLAY")
       PROVE  p
  <2>1. \A j \in DOMAIN q : ~(j < 1)
    BY <1>1
  <2> QED
    BY <1>1, <1>6, <1>11, <2>1 DEF SetupFirst
<1> QED
  BY <1>3, <1>7, <1>8, <1>9, <1>10, <1>11 DEF Queue

(* What is left of a queue whose writer has closed. *)
LEMMA LeftFacts ==
  ASSUME NEW q, Queue(q), NEW unread, NEW r \in Left(q, unread)
  PROVE  /\ Queue(r)
         /\ \A t, k : Occurs(r, t, k) => Occurs(q, t, k)
         /\ \A t, k : Once(q, t, k) => Once(r, t, k)
         /\ \A c : Selects(q, c) => Selects(r, c)
         /\ \A p : SetupFirst(q, p) => SetupFirst(r, p)
<1>1. CASE r = q
  BY <1>1
<1>2. ASSUME NEW n \in 0 .. Len(q), r = SubSeq(q, 1, n)
      PROVE  /\ Queue(r)
             /\ \A t, k : Occurs(r, t, k) => Occurs(q, t, k)
             /\ \A t, k : Once(q, t, k) => Once(r, t, k)
             /\ \A c : Selects(q, c) => Selects(r, c)
             /\ \A p : SetupFirst(q, p) => SetupFirst(r, p)
  <2>1. Len(q) \in Nat /\ DOMAIN q = 1 .. Len(q) /\ \A i \in 1 .. Len(q) : q[i] \in Range(q)
    BY LenProperties, ElementOfSeq DEF Queue
  <2>2. \A i \in 1 .. n : q[i] \in Range(q)
    BY <2>1
  <2>3. /\ r \in Seq(Range(q)) /\ Len(r) = n
        /\ \A i \in 1 .. n : r[i] = q[i]
    <3>1. /\ r \in Seq(Range(q)) /\ Len(r) = IF 1 <= n THEN n - 1 + 1 ELSE 0
          /\ \A i \in 1 .. n - 1 + 1 : r[i] = q[1 + i - 1]
      BY <1>2, <2>1, <2>2, SubSeqProperties
    <3>2. n \in Nat
      BY <2>1
    <3>3. \A i \in 1 .. n : i \in 1 .. n - 1 + 1 /\ 1 + i - 1 = i
      BY <3>2
    <3> QED
      BY <3>1, <3>2, <3>3
  <2>4. Queue(r) /\ DOMAIN r = 1 .. n
    BY <2>3, SeqOfRange, LenProperties DEF Queue
  <2>5. \A i \in DOMAIN r : i \in DOMAIN q /\ r[i] = q[i]
    BY <2>1, <2>3, <2>4
  <2>6. ASSUME NEW p, SetupFirst(q, p)
        PROVE  SetupFirst(r, p)
    <3> SUFFICES ASSUME NEW i \in DOMAIN r, Is(r[i], "request", "PLAY"), ~p
                 PROVE  \E j \in DOMAIN r : j < i /\ Is(r[j], "request", "SETUP")
      BY DEF SetupFirst
    <3>1. PICK j \in DOMAIN q : j < i /\ Is(q[j], "request", "SETUP")
      BY <2>5, <2>6 DEF SetupFirst
    <3>2. j \in DOMAIN r
      BY <2>1, <2>4, <3>1
    <3> QED
      BY <2>5, <3>1, <3>2
  <2> QED
    BY <2>4, <2>5, <2>6 DEF Occurs, Once, Selects
<1> QED
  BY <1>1, <1>2 DEF Left

(* Few messages. *)
LEMMA FewFacts ==
  /\ Queue(<<>>) /\ \A t, k : ~Occurs(<<>>, t, k) /\ Once(<<>>, t, k)
  /\ \A c : Selects(<<>>, c) /\ SetupFirst(<<>>, c)
  /\ \A m : /\ Queue(<<m>>) /\ \A t, k : Once(<<m>>, t, k) /\ (Occurs(<<m>>, t, k) <=> Is(m, t, k))
            /\ \A c : Selects(<<m>>, c) <=> (Is(m, "request", "M4") => m.selection = c)
  /\ \A m, n : /\ Queue(<<m, n>>)
               /\ \A t, k : Occurs(<<m, n>>, t, k) <=> Is(m, t, k) \/ Is(n, t, k)
               /\ \A t, k : ~(Is(m, t, k) /\ Is(n, t, k)) => Once(<<m, n>>, t, k)
<1>1. <<>> \in Seq(Range(<<>>)) /\ DOMAIN <<>> = {}
  <2>1. <<>> \in Seq({})
    BY EmptySeq
  <2> QED
    BY <2>1, SeqOfRange
<1>2. ASSUME NEW m
      PROVE  <<m>> \in Seq(Range(<<m>>)) /\ DOMAIN <<m>> = {1} /\ <<m>>[1] = m
  <2>1. <<m>> \in Seq({m}) /\ Len(<<m>>) = 1
    OBVIOUS
  <2>2. DOMAIN <<m>> = 1 .. 1 /\ <<m>> \in Seq(Range(<<m>>))
    BY <2>1, LenProperties, SeqOfRange
  <2>3. 1 .. 1 = {1} /\ <<m>>[1] = m
    OBVIOUS
  <2> QED
    BY <2>2, <2>3
<1>3. ASSUME NEW m, NEW n
      PROVE  /\ <<m, n>> \in Seq(Range(<<m, n>>)) /\ DOMAIN <<m, n>> = {1, 2}
             /\ <<m, n>>[1] = m /\ <<m, n>>[2] = n
  <2>1. <<m, n>> \in Seq({m, n}) /\ Len(<<m, n>>) = 2
    OBVIOUS
  <2>2. DOMAIN <<m, n>> = 1 .. 2 /\ <<m, n>> \in Seq(Range(<<m, n>>))
    BY <2>1, LenProperties, SeqOfRange
  <2>3. 1 .. 2 = {1, 2} /\ <<m, n>>[1] = m /\ <<m, n>>[2] = n
    OBVIOUS
  <2> QED
    BY <2>2, <2>3
<1>4. ASSUME NEW m
      PROVE  /\ Queue(<<m>>) /\ \A t, k : Once(<<m>>, t, k) /\ (Occurs(<<m>>, t, k) <=> Is(m, t, k))
             /\ \A c : Selects(<<m>>, c) <=> (Is(m, "request", "M4") => m.selection = c)
  BY <1>2 DEF Queue, Once, Occurs, Selects
<1>5. ASSUME NEW m, NEW n
      PROVE  /\ Queue(<<m, n>>)
             /\ \A t, k : Occurs(<<m, n>>, t, k) <=> Is(m, t, k) \/ Is(n, t, k)
             /\ \A t, k : ~(Is(m, t, k) /\ Is(n, t, k)) => Once(<<m, n>>, t, k)
  BY <1>3 DEF Queue, Once, Occurs
<1>6. /\ Queue(<<>>) /\ \A t, k : ~Occurs(<<>>, t, k) /\ Once(<<>>, t, k)
      /\ \A c : Selects(<<>>, c) /\ SetupFirst(<<>>, c)
  BY <1>1 DEF Queue, Once, Occurs, Selects, SetupFirst
<1> QED
  BY <1>4, <1>5, <1>6

(* Messages that the exchange does not turn on come and go.                *)
LEMMA OtherMessages ==
  ASSUME NEW q, Queue(q)
  PROVE  /\ SameToSink(q, q) /\ SameToSource(q, q)
         /\ \A r : /\ Queue(r)
                   /\ \A k \in {"M3", "M4", "M5"} : ~Occurs(r, "request", k)
                   => SameToSink(q \o r, q)
         /\ \A r : /\ Queue(r)
                   /\ \A k \in {"M3", "M4"} : ~Occurs(r, "response", k)
                   /\ \A k \in {"SETUP", "PLAY"} : ~Occurs(r, "request", k)
                   => SameToSource(q \o r, q)
         /\ q # <<>> /\ (\A k \in {"M3", "M4", "M5"} : ~Is(Head(q), "request", k))
              => SameToSink(Tail(q), q)
         /\ /\ q # <<>>
            /\ \A k \in {"M3", "M4"} : ~Is(Head(q), "response", k)
            /\ \A k \in {"SETUP", "PLAY"} : ~Is(Head(q), "request", k)
            => SameToSource(Tail(q), q)
<1>1. SameToSink(q, q) /\ SameToSource(q, q)
  BY DEF SameToSink, SameToSource
<1>2. ASSUME NEW r, Queue(r), \A k \in {"M3", "M4", "M5"} : ~Occurs(r, "request", k)
      PROVE  SameToSink(q \o r, q)
  <2>1. Once(r, "request", "M3") /\ \A c : Selects(r, c)
    BY <1>2 DEF Once, Occurs, Selects
  <2> QED
    BY <1>2, <2>1, JoinFacts DEF SameToSink
<1>3. ASSUME NEW r, Queue(r), \A k \in {"M3", "M4"} : ~Occurs(r, "response", k),
             \A k \in {"SETUP", "PLAY"} : ~Occurs(r, "request", k)
      PROVE  SameToSource(q \o r, q)
  <2>1. Once(r, "response", "M3")
    BY <1>3 DEF Once, Occurs
  <2> QED
    BY <1>3, <2>1, JoinFacts DEF SameToSource
<1>4. ASSUME q # <<>>, \A k \in {"M3", "M4", "M5"} : ~Is(Head(q), "request", k)
      PROVE  SameToSink(Tail(q), q)
  BY <1>4, TailFacts DEF SameToSink
<1>5. ASSUME q # <<>>, \A k \in {"M3", "M4"} : ~Is(Head(q), "response", k),
             \A k \in {"SETUP", "PLAY"} : ~Is(Head(q), "request", k)
      PROVE  SameToSource(Tail(q), q)
  <2>1. \A p : SetupFirst(q, p) => SetupFirst(Tail(q), p)
    BY <1>5, TailFacts
  <2> QED
    BY <1>5, <2>1, TailFacts DEF SameToSource
<1> QED
  BY <1>1, <1>2, <1>3, <1>4, <1>5
------------------------------------------------------------------------------
(* The steps *)

(* The exchange stays settled when nothing it turns on changes.            *)
LEMMA QuietStep ==
  ASSUME RtspInv, Kept, SameToSink(toSink', toSink), SameToSource(toSource', toSource)
  PROVE  RtspInv'
<1>1. RtspType'
  BY DEF RtspInv, RtspType, Kept, SameToSink, SameToSource
<1>2. PlayIsSettled'
  BY DEF RtspInv, PlayIsSettled, Kept, SinkHere
<1>3. HandshakeInv'
  <2>1. (SourceHere <=> SourceHere') /\ (SinkHere <=> SinkHere') /\ (Early <=> Early')
    BY DEF Kept, SourceHere, SinkHere, Early
  <2>2. CASE ~SourceHere
    BY <2>1, <2>2 DEF RtspInv, HandshakeInv, Kept
  <2>3. CASE SourceHere
    <3>1. AskedOnce'
      BY <2>1, <2>3 DEF RtspInv, HandshakeInv, AskedOnce, Kept, SameToSink, SameToSource
    <3>2. NothingEarly'
      BY <2>1, <2>3 DEF RtspInv, HandshakeInv, NothingEarly, Kept, SameToSink, SameToSource
    <3>3. SinkFollows'
      BY <2>1, <2>3 DEF RtspInv, HandshakeInv, SinkFollows, Kept, SameToSink, SameToSource
    <3>4. Selects(toSink', source'.chosen) /\ SetupFirst(toSource', source'.port)
      BY <2>3 DEF RtspInv, HandshakeInv, Kept, SameToSink, SameToSource
    <3> QED
      BY <2>1, <2>3, <3>1, <3>2, <3>3, <3>4 DEF HandshakeInv
  <2> QED
    BY <2>2, <2>3
<1> QED
  BY <1>1, <1>2, <1>3 DEF RtspInv

(* The sink goes away, whatever of its messages is lost.                   *)
LEMMA SinkEndsStep ==
  ASSUME RtspInv, source' = source, NEW unread, NEW why, why # None, SinkEnds(why, unread)
  PROVE  RtspInv'
<1>1. ~SinkHere' /\ (SourceHere <=> SourceHere') /\ (Early <=> Early') /\ DOMAIN ended' = DOMAIN ended
  BY DEF SinkEnds, SinkHere, SourceHere, Early, RtspInv, RtspType
<1>2. /\ Queue(toSource')
      /\ \A t, k : Occurs(toSource', t, k) => Occurs(toSource, t, k)
      /\ \A t, k : Once(toSource, t, k) => Once(toSource', t, k)
      /\ \A p : SetupFirst(toSource, p) => SetupFirst(toSource', p)
  BY LeftFacts DEF SinkEnds, RtspInv, RtspType
<1>3. /\ Queue(toSink') /\ \A t, k : ~Occurs(toSink', t, k) /\ Once(toSink', t, k)
      /\ \A c : Selects(toSink', c)
  BY FewFacts DEF SinkEnds
<1>4. RtspType'
  BY <1>1, <1>2, <1>3 DEF RtspInv, RtspType, SinkEnds, NewSink
<1>5. PlayIsSettled'
  BY <1>1 DEF RtspInv, PlayIsSettled
<1>6. HandshakeInv'
  <2>1. CASE ~SourceHere
    BY <1>1, <2>1 DEF RtspInv, HandshakeInv
  <2>2. CASE SourceHere
    <3>1. AskedOnce'
      BY <1>1, <1>2, <1>3, <2>2 DEF RtspInv, HandshakeInv, AskedOnce
    <3>2. NothingEarly'
      BY <1>1, <1>2, <1>3, <2>2 DEF RtspInv, HandshakeInv, NothingEarly
    <3>3. SinkFollows'
      BY <1>1 DEF SinkFollows
    <3>4. Selects(toSink', source'.chosen) /\ SetupFirst(toSource', source'.port)
      BY <1>2, <1>3, <2>2 DEF RtspInv, HandshakeInv
    <3> QED
      BY <1>1, <2>2, <3>1, <3>2, <3>3, <3>4 DEF HandshakeInv
  <2> QED
    BY <2>1, <2>2
<1> QED
  BY <1>4, <1>5, <1>6 DEF RtspInv

(* The source goes away, whatever of its messages is lost.                 *)
LEMMA SourceEndsStep ==
  ASSUME RtspInv, sink' = sink, NEW unread, NEW why, why # None, SourceEnds(why, unread)
  PROVE  RtspInv'
<1>1. ~SourceHere' /\ DOMAIN ended' = DOMAIN ended
  BY DEF SourceEnds, SourceHere, RtspInv, RtspType
<1>2. Queue(toSource') /\ Queue(<<>>)
  BY FewFacts DEF SourceEnds
<1>3. Queue(Append(toSink, Teardown))
  <2>1. toSink \o <<Teardown>> = Append(toSink, Teardown)
    <3>1. toSink \in Seq(Range(toSink) \union {Teardown})
      BY SeqMonotonic DEF RtspInv, RtspType, Queue
    <3> QED
      BY <3>1, AppendIsConcat
  <2>2. Queue(toSink) /\ Queue(<<Teardown>>)
    BY FewFacts DEF RtspInv, RtspType
  <2> QED
    BY <2>1, <2>2, JoinFacts
<1>4. Queue(toSink')
  BY <1>2, <1>3, LeftFacts DEF SourceEnds
<1>5. source'.state # "Playing" /\ DOMAIN source' = DOMAIN source
  BY DEF SourceEnds, NewSource, RtspInv, RtspType
<1>6. RtspType'
  BY <1>1, <1>2, <1>4, <1>5 DEF RtspInv, RtspType
<1>7. PlayIsSettled' /\ HandshakeInv'
  BY <1>1, <1>5 DEF PlayIsSettled, HandshakeInv
<1> QED
  BY <1>6, <1>7 DEF RtspInv

(* What the sink does with a request.                                      *)
LEMMA SinkRequestStep ==
  ASSUME RtspInv, SinkHere, toSink # <<>>, source' = source,
         Head(toSink).type = "request",
         SinkOnRequest(Head(toSink).of, [sink EXCEPT !.last_heard = 0])
  PROVE  RtspInv'
<1> DEFINE k == Head(toSink).of
           heard == [sink EXCEPT !.last_heard = 0]
<1>1. /\ Queue(toSink) /\ Queue(toSource) /\ Is(Head(toSink), "request", k)
      /\ \A j : Is(Head(toSink), "request", j) <=> j = k
      /\ heard.state = sink.state /\ heard.chosen = sink.chosen
      /\ heard.peer_session = sink.peer_session /\ DOMAIN heard = DOMAIN sink
  BY DEF RtspInv, RtspType, Is
<1> HIDE DEF heard
<1>2. CASE k = "M1" /\ SinkOnRequest(k, heard)
  <2>1. Kept
    BY <1>1, <1>2 DEF Kept, SinkOnRequest, SinkSend
  <2>2. SameToSink(toSink', toSink)
    BY <1>1, <1>2, OtherMessages DEF SinkOnRequest
  <2>3. SameToSource(toSource', toSource)
    <3>1. /\ Queue(<<Response("M1"), Request("M2")>>)
          /\ \A j \in {"M3", "M4"} : ~Occurs(<<Response("M1"), Request("M2")>>, "response", j)
          /\ \A j \in {"SETUP", "PLAY"} : ~Occurs(<<Response("M1"), Request("M2")>>, "request", j)
      BY FewFacts DEF Is, Response, Request
    <3>2. SameToSource(toSource \o <<Response("M1"), Request("M2")>>, toSource) /\ SameToSource(toSource, toSource)
      BY <1>1, <3>1, OtherMessages
    <3>3. toSource' = toSource \/ toSource' = toSource \o <<Response("M1"), Request("M2")>>
      BY <1>2 DEF SinkOnRequest, SinkSend, ToSource
    <3> QED
      BY <3>2, <3>3
  <2> QED
    BY <2>1, <2>2, <2>3, QuietStep
<1>3. CASE k = "Keepalive" /\ SinkOnRequest(k, heard)
  <2>1. Kept
    BY <1>1, <1>3 DEF Kept, SinkOnRequest, SinkSend
  <2>2. SameToSink(toSink', toSink)
    BY <1>1, <1>3, OtherMessages DEF SinkOnRequest
  <2>3. SameToSource(toSource', toSource)
    <3>1. /\ Queue(<<Response("Keepalive")>>)
          /\ \A j \in {"M3", "M4"} : ~Occurs(<<Response("Keepalive")>>, "response", j)
          /\ \A j \in {"SETUP", "PLAY"} : ~Occurs(<<Response("Keepalive")>>, "request", j)
      BY FewFacts DEF Is, Response
    <3>2. SameToSource(toSource \o <<Response("Keepalive")>>, toSource) /\ SameToSource(toSource, toSource)
      BY <1>1, <3>1, OtherMessages
    <3>3. toSource' = toSource \/ toSource' = toSource \o <<Response("Keepalive")>>
      BY <1>3 DEF SinkOnRequest, SinkSend, ToSource
    <3> QED
      BY <3>2, <3>3
  <2> QED
    BY <2>1, <2>2, <2>3, QuietStep
<1>4. CASE k = "TEARDOWN" /\ SinkOnRequest(k, heard)
  <2>1. SinkEnds("told", Tail(toSink))
    BY <1>4 DEF SinkOnRequest
  <2> QED
    BY <2>1, SinkEndsStep, RtspAssumption
(* The exchange itself.                                                    *)
<1>5. CASE k \in {"M3", "M4", "M5"} /\ SinkOnRequest(k, heard)
  <2> DEFINE answer == IF k = "M5" THEN <<Response("M5"), Request("SETUP")>> ELSE <<Response(k)>>
  <2>1. /\ ended' = ended
        /\ toSink' = Tail(toSink)
        /\ SourceHere => toSource' = toSource \o answer
        /\ ~SourceHere => toSource' = toSource
        /\ DOMAIN sink' = DOMAIN sink
        /\ sink'.peer_session = sink.peer_session
    <3>1. SinkSend(answer) /\ toSink' = Tail(toSink)
      BY <1>5 DEF SinkOnRequest
    <3>2. DOMAIN sink' = DOMAIN sink /\ sink'.peer_session = sink.peer_session
      BY <1>1, <1>5 DEF SinkOnRequest, RtspInv, RtspType
    <3> HIDE DEF answer
    <3> QED
      BY <3>1, <3>2 DEF SinkSend, ToSource
  <2>2. /\ k = "M3" => sink'.state = "Capabilities" /\ sink'.chosen = sink.chosen
        /\ k = "M4" => sink'.state = sink.state /\ sink'.chosen = Head(toSink).selection
        /\ k = "M5" => sink'.state = "Ready" /\ sink'.chosen = sink.chosen
    BY <1>1, <1>5 DEF SinkOnRequest, RtspInv, RtspType
  <2>3. (SourceHere <=> SourceHere') /\ SinkHere' /\ (Early <=> Early')
    BY <2>1 DEF SourceHere, SinkHere, Early
  <2>4. /\ Queue(answer)
        /\ \A j : Occurs(answer, "response", j) <=> j = k
        /\ \A j : Occurs(answer, "request", j) <=> j = "SETUP" /\ k = "M5"
        /\ Once(answer, "response", "M3")
    <3>1. CASE k = "M5"
      <4>1. ~(Is(Response("M5"), "response", "M3") /\ Is(Request("SETUP"), "response", "M3"))
        BY DEF Is, Request
      <4>2. Queue(answer) /\ Once(answer, "response", "M3")
        BY <3>1, <4>1, FewFacts
      <4>3. \A t, j : Occurs(answer, t, j) <=> Is(Response("M5"), t, j) \/ Is(Request("SETUP"), t, j)
        BY <3>1, FewFacts
      <4>4. /\ \A j : Is(Response("M5"), "response", j) <=> j = "M5"
            /\ \A j : ~Is(Response("M5"), "request", j) /\ ~Is(Request("SETUP"), "response", j)
            /\ \A j : Is(Request("SETUP"), "request", j) <=> j = "SETUP"
        BY DEF Is, Response, Request
      <4> QED
        BY <3>1, <4>2, <4>3, <4>4
    <3>2. CASE k # "M5"
      <4>1. /\ Queue(answer) /\ Once(answer, "response", "M3")
            /\ \A t, j : Occurs(answer, t, j) <=> Is(Response(k), t, j)
        BY <3>2, FewFacts
      <4>2. \A j : (Is(Response(k), "response", j) <=> j = k) /\ ~Is(Response(k), "request", j)
        BY DEF Is, Response
      <4> QED
        BY <3>2, <4>1, <4>2
    <3> QED
      BY <3>1, <3>2
  <2> HIDE DEF answer, k
  (* What is on its way to the sink now, and to the source.                *)
  <2>5. /\ Queue(toSink')
        /\ \A j : Occurs(toSink, "request", j) <=> j = k \/ Occurs(toSink', "request", j)
        /\ Once(toSink, "request", "M3") => /\ Once(toSink', "request", "M3")
                                            /\ ~(k = "M3" /\ Occurs(toSink', "request", "M3"))
        /\ \A c : Selects(toSink, c) => /\ Selects(toSink', c)
                                        /\ k = "M4" => Head(toSink).selection = c
    BY <1>1, <2>1, TailFacts
  <2>6. ASSUME SourceHere
        PROVE  /\ Queue(toSource')
               /\ \A j : Occurs(toSource', "response", j) <=> Occurs(toSource, "response", j) \/ j = k
               /\ \A j : Occurs(toSource', "request", j) <=>
                           Occurs(toSource, "request", j) \/ (j = "SETUP" /\ k = "M5")
               /\ /\ Once(toSource, "response", "M3")
                  /\ ~(k = "M3" /\ Occurs(toSource, "response", "M3"))
                  => Once(toSource', "response", "M3")
               /\ \A p : SetupFirst(toSource, p) => SetupFirst(toSource', p)
    <3> DEFINE both == toSource \o answer
    <3>1. /\ Queue(both)
          /\ \A t, j : Occurs(both, t, j) <=> Occurs(toSource, t, j) \/ Occurs(answer, t, j)
          /\ /\ Once(toSource, "response", "M3") /\ Once(answer, "response", "M3")
             /\ ~(Occurs(toSource, "response", "M3") /\ Occurs(answer, "response", "M3"))
             => Once(both, "response", "M3")
          /\ \A p : SetupFirst(toSource, p) /\ ~Occurs(answer, "request", "PLAY") => SetupFirst(both, p)
      BY <1>1, <2>4, JoinFacts
    <3>2. toSource' = both
      BY <2>1, <2>6
    <3> HIDE DEF both
    <3> QED
      BY <2>4, <3>1, <3>2
  <2>7. RtspType'
    BY <1>1, <2>1, <2>5, <2>6 DEF RtspInv, RtspType
  <2>8. CASE ~SourceHere
    BY <2>3, <2>7, <2>8 DEF RtspInv, HandshakeInv, PlayIsSettled
  <2>9. CASE SourceHere
    <3>1. /\ AskedOnce /\ NothingEarly /\ SinkFollows
          /\ Selects(toSink, source.chosen) /\ SetupFirst(toSource, source.port)
      BY <2>9 DEF RtspInv, HandshakeInv
    <3>2. AskedOnce'
      BY <2>3, <2>5, <2>6, <2>9, <3>1 DEF AskedOnce
    <3>3. NothingEarly'
      BY <1>5, <2>2, <2>3, <2>5, <2>6, <2>9, <3>1 DEF NothingEarly
    <3>4. SinkFollows'
      <4>1. k = "M3" => Early
        BY <2>5, <3>1 DEF AskedOnce
      <4>2. k # "M3" => sink'.chosen = source.chosen
        BY <1>5, <2>2, <2>5, <3>1 DEF SinkFollows
      <4>3. /\ Occurs(toSource', "response", "M4") \/ Occurs(toSink', "request", "M5")
                 => sink'.chosen = source.chosen
            /\ Occurs(toSource', "request", "PLAY")
                 => sink'.chosen = source.chosen /\ sink'.peer_session
        BY <1>5, <2>1, <2>2, <2>5, <2>6, <2>9, <3>1, <4>2 DEF SinkFollows
      <4>4. sink'.state \in {"Ready", "Playing"} =>
              sink'.chosen = source.chosen /\ (source.port \/ Occurs(toSource', "request", "SETUP"))
        BY <1>5, <2>2, <2>5, <2>6, <2>9, <3>1, <4>2 DEF SinkFollows
      <4> QED
        BY <4>3, <4>4 DEF SinkFollows
    <3>5. Selects(toSink', source'.chosen) /\ SetupFirst(toSource', source'.port)
      BY <2>5, <2>6, <2>9, <3>1
    <3>6. HandshakeInv'
      BY <2>3, <2>9, <3>2, <3>3, <3>4, <3>5 DEF HandshakeInv
    <3>7. PlayIsSettled'
      <4>1. k = "M3" => Early
        BY <2>5, <3>1 DEF AskedOnce
      <4>2. k # "M3" => sink'.chosen = source.chosen
        BY <1>5, <2>2, <2>5, <3>1 DEF SinkFollows
      <4> QED
        BY <2>1, <4>1, <4>2 DEF RtspInv, PlayIsSettled, Early
    <3> QED
      BY <2>7, <3>6, <3>7 DEF RtspInv
  <2> QED
    BY <2>8, <2>9
<1>6. /\ SinkOnRequest(k, heard)
      /\ k \in {"M1", "M3", "M4", "M5", "Keepalive", "TEARDOWN"}
  BY DEF SinkOnRequest, heard
<1> QED
  BY <1>2, <1>3, <1>4, <1>5, <1>6

(* What the sink does with an answer.                                      *)
LEMMA SinkResponseStep ==
  ASSUME RtspInv, SinkHere, toSink # <<>>, source' = source,
         NEW m, m = Head(toSink), m.type = "response",
         SinkOnResponse(m, [sink EXCEPT !.last_heard = 0])
  PROVE  RtspInv'
<1> DEFINE heard == [sink EXCEPT !.last_heard = 0]
<1>1. /\ Queue(toSink) /\ Queue(toSource) /\ \A j : ~Is(Head(toSink), "request", j)
      /\ heard.state = sink.state /\ heard.chosen = sink.chosen
      /\ heard.peer_session = sink.peer_session /\ DOMAIN heard = DOMAIN sink
  BY DEF RtspInv, RtspType, Is
<1>2. SameToSink(Tail(toSink), toSink)
  BY <1>1, OtherMessages
<1>3. SinkOnResponse(m, heard)
  OBVIOUS
<1> HIDE DEF heard
<1>4. ASSUME sink' = heard, toSink' = Tail(toSink), UNCHANGED <<toSource, ended>>
      PROVE  RtspInv'
  <2>1. Kept
    BY <1>1, <1>4 DEF Kept
  <2>2. SameToSource(toSource', toSource)
    BY <1>1, <1>4, OtherMessages
  <2> QED
    BY <1>2, <1>4, <2>1, <2>2, QuietStep
<1>5. ASSUME SinkEnds("no session", Tail(toSink))
      PROVE  RtspInv'
  BY <1>5, SinkEndsStep, RtspAssumption
(* The answer with a session, whatever it answers: PLAY.                   *)
<1>6. ASSUME sink.state = "Ready",
             sink' = [heard EXCEPT !.peer_session = TRUE, !.state = "Playing", !.playing = TRUE],
             SinkSend(<<Request("PLAY")>>), toSink' = Tail(toSink)
      PROVE  RtspInv'
  <2> DEFINE both == toSource \o <<Request("PLAY")>>
  <2>1. /\ sink'.state = "Playing" /\ sink'.chosen = sink.chosen /\ sink'.peer_session = TRUE
        /\ DOMAIN sink' = DOMAIN sink
    BY <1>1, <1>6 DEF RtspInv, RtspType
  <2>2. /\ ended' = ended /\ (SourceHere => toSource' = both)
        /\ (~SourceHere => toSource' = toSource)
    BY <1>6 DEF SinkSend, ToSource
  <2>3. (SourceHere <=> SourceHere') /\ SinkHere' /\ (Early <=> Early')
    BY <2>2 DEF SourceHere, SinkHere, Early
  <2>4. /\ Queue(<<Request("PLAY")>>)
        /\ \A t, j : Occurs(<<Request("PLAY")>>, t, j) <=> Is(Request("PLAY"), t, j)
        /\ \A t, j : Once(<<Request("PLAY")>>, t, j)
    BY FewFacts
  <2>5. \A t, j : Is(Request("PLAY"), t, j) <=> t = "request" /\ j = "PLAY"
    BY DEF Is, Request
  <2>6. /\ Queue(both)
        /\ \A t, j : Occurs(both, t, j) <=> Occurs(toSource, t, j) \/ (t = "request" /\ j = "PLAY")
        /\ Once(toSource, "response", "M3") => Once(both, "response", "M3")
        /\ \A p : /\ SetupFirst(toSource, p)
                  /\ p \/ Occurs(toSource, "request", "SETUP")
                  => SetupFirst(both, p)
    <3> DEFINE play == <<Request("PLAY")>>
    <3>1. Queue(play) /\ \A t, j : Occurs(play, t, j) <=> t = "request" /\ j = "PLAY"
      BY <2>4, <2>5
    <3>2. Once(play, "response", "M3")
      BY <2>4
    <3> HIDE DEF play
    <3>3. both = toSource \o play
      BY DEF play
    <3> HIDE DEF both
    <3> QED
      BY <1>1, <3>1, <3>2, <3>3, JoinFacts
  <2> HIDE DEF both
  <2>7. RtspType'
    BY <1>1, <1>2, <1>6, <2>1, <2>2, <2>6 DEF RtspInv, RtspType, SameToSink
  <2>8. CASE ~SourceHere
    BY <2>3, <2>7, <2>8 DEF RtspInv, HandshakeInv, PlayIsSettled
  <2>9. CASE SourceHere
    <3>1. /\ AskedOnce /\ NothingEarly /\ SinkFollows
          /\ Selects(toSink, source.chosen) /\ SetupFirst(toSource, source.port)
      BY <2>9 DEF RtspInv, HandshakeInv
    <3>2. ~Early /\ sink.chosen = source.chosen /\ (source.port \/ Occurs(toSource, "request", "SETUP"))
      BY <1>6, <3>1 DEF NothingEarly, SinkFollows
    <3>3. toSource' = both
      BY <2>2, <2>9
    <3>4. AskedOnce'
      BY <1>2, <1>6, <2>3, <2>6, <3>1, <3>3 DEF AskedOnce, SameToSink
    <3>5. NothingEarly'
      BY <2>3, <3>2 DEF NothingEarly
    <3>6. SinkFollows'
      BY <2>1, <2>6, <3>2, <3>3 DEF SinkFollows
    <3>7. Selects(toSink', source'.chosen) /\ SetupFirst(toSource', source'.port)
      BY <1>2, <1>6, <2>6, <3>1, <3>2, <3>3 DEF SameToSink
    <3>8. HandshakeInv'
      BY <2>3, <2>9, <3>4, <3>5, <3>6, <3>7 DEF HandshakeInv
    <3>9. PlayIsSettled'
      BY <2>1, <2>9, <3>2 DEF RtspInv, PlayIsSettled
    <3> QED
      BY <2>7, <3>8, <3>9 DEF RtspInv
  <2> QED
    BY <2>8, <2>9
<1> QED
  BY <1>3, <1>4, <1>5, <1>6 DEF SinkOnResponse

(* The source asks for the capabilities, having read some of its messages. *)
LEMMA AskStep ==
  ASSUME RtspInv, SourceHere, ~source.asked_caps, NEW others,
         sink' = sink, ended' = ended,
         SameToSource(toSource', toSource),
         SinkHere => toSink' = toSink \o others,
         ~SinkHere => toSink' = toSink,
         others = <<Request("M3")>> \/ others = <<Response("M2"), Request("M3")>>,
         source'.asked_caps = TRUE, DOMAIN source' = DOMAIN source,
         source'.state = source.state, source'.chosen = source.chosen, source'.port = source.port
  PROVE  RtspInv'
<1>1. /\ AskedOnce /\ NothingEarly /\ SinkFollows
      /\ Selects(toSink, source.chosen) /\ SetupFirst(toSource, source.port)
      /\ Queue(toSink) /\ Queue(toSource)
  BY DEF RtspInv, HandshakeInv, RtspType
<1>2. SourceHere' /\ (SinkHere <=> SinkHere') /\ Early /\ Early'
  BY <1>1 DEF SourceHere, SinkHere, Early, AskedOnce
<1>3. /\ Queue(others) /\ Once(others, "request", "M3") /\ Selects(others, source.chosen)
      /\ \A j : Occurs(others, "request", j) <=> j = "M3"
  <2>1. \A j : (Is(Request("M3"), "request", j) <=> j = "M3") /\ ~Is(Response("M2"), "request", j)
    BY DEF Is, Response, Request
  <2>2. CASE others = <<Request("M3")>>
    BY <2>1, <2>2, FewFacts
  <2>3. CASE others = <<Response("M2"), Request("M3")>>
    <3>1. Queue(others) /\ \A t, j : Occurs(others, t, j) <=> Is(Response("M2"), t, j) \/ Is(Request("M3"), t, j)
      BY <2>3, FewFacts
    <3>2. Once(others, "request", "M3")
      BY <2>1, <2>3, FewFacts
    <3>3. \A j : Occurs(others, "request", j) <=> j = "M3"
      BY <2>1, <3>1
    <3>4. Selects(others, source.chosen)
      BY <3>3 DEF Selects, Occurs
    <3> QED
      BY <3>1, <3>2, <3>3, <3>4
  <2> QED
    BY <2>2, <2>3
<1>4. ~Occurs(toSink, "request", "M3") /\ ~Occurs(toSource, "response", "M3")
  BY <1>1 DEF AskedOnce
<1>5. /\ Queue(toSink')
      /\ \A j : j # "M3" => (Occurs(toSink', "request", j) <=> Occurs(toSink, "request", j))
      /\ Once(toSink', "request", "M3") /\ Selects(toSink', source.chosen)
  <2>1. CASE ~SinkHere
    BY <1>1, <2>1 DEF AskedOnce
  <2>2. CASE SinkHere
    <3> DEFINE both == toSink \o others
    <3>1. /\ Queue(both)
          /\ \A j : j # "M3" => (Occurs(both, "request", j) <=> Occurs(toSink, "request", j))
          /\ Once(both, "request", "M3") /\ Selects(both, source.chosen)
      BY <1>1, <1>3, <1>4, JoinFacts DEF AskedOnce
    <3>2. toSink' = both
      BY <2>2
    <3> HIDE DEF both
    <3> QED
      BY <3>1, <3>2
  <2> QED
    BY <2>1, <2>2
<1>6. RtspType'
  BY <1>5 DEF RtspInv, RtspType, SameToSource
<1>7. AskedOnce'
  BY <1>1, <1>2, <1>4, <1>5 DEF AskedOnce, SameToSource
<1>8. NothingEarly'
  BY <1>1, <1>2, <1>5 DEF NothingEarly, SameToSource
<1>9. SinkFollows'
  BY <1>1, <1>2, <1>5 DEF SinkFollows, SameToSource
<1>10. HandshakeInv'
  BY <1>1, <1>2, <1>5, <1>7, <1>8, <1>9 DEF HandshakeInv, SameToSource
<1>11. PlayIsSettled'
  BY <1>2 DEF PlayIsSettled, Early
<1> QED
  BY <1>6, <1>10, <1>11 DEF RtspInv

(* The source takes a message in and answers, if that, without moving on.  *)
LEMMA SourceStaysStep ==
  ASSUME RtspInv, toSource # <<>>, sink' = sink,
         \A j \in {"M3", "M4"} : ~Is(Head(toSource), "response", j),
         \A j \in {"SETUP", "PLAY"} : ~Is(Head(toSource), "request", j),
         NEW s, NEW msgs, SourceSend(s, msgs),
         msgs = <<>> \/ \E m : msgs = <<m>> /\ m.type = "response",
         DOMAIN s = DOMAIN source, s.state = source.state, s.asked_caps = source.asked_caps,
         s.chosen = source.chosen, s.port = source.port
  PROVE  RtspInv'
<1>1. Queue(toSink) /\ Queue(toSource)
  BY DEF RtspInv, RtspType
<1>2. Kept
  BY DEF Kept, SourceSend
<1>3. SameToSource(Tail(toSource), toSource)
  BY <1>1, OtherMessages
<1>4. Queue(msgs) /\ \A j : ~Occurs(msgs, "request", j)
  <2>1. CASE msgs = <<>>
    BY <2>1, FewFacts
  <2>2. ASSUME NEW m, msgs = <<m>>, m.type = "response"
        PROVE  Queue(msgs) /\ \A j : ~Occurs(msgs, "request", j)
    <3>1. \A j : ~Is(m, "request", j)
      BY <2>2 DEF Is
    <3> QED
      BY <2>2, <3>1, FewFacts
  <2> QED
    BY <2>1, <2>2
<1>5. SameToSink(toSink \o msgs, toSink) /\ SameToSink(toSink, toSink)
  BY <1>1, <1>4, OtherMessages
<1>6. (toSink' = toSink \/ toSink' = toSink \o msgs) /\ toSource' = Tail(toSource)
  BY DEF SourceSend, ToSink
<1> QED
  BY <1>2, <1>3, <1>5, <1>6, QuietStep

(* What the source does with a request.                                    *)
LEMMA SourceRequestStep ==
  ASSUME RtspInv, SourceHere, toSource # <<>>, sink' = sink,
         Head(toSource).type = "request",
         SourceOnRequest(Head(toSource).of, [source EXCEPT !.last_heard = 0])
  PROVE  RtspInv'
<1> DEFINE k == Head(toSource).of
           heard == [source EXCEPT !.last_heard = 0]
<1>1. /\ Queue(toSink) /\ Queue(toSource)
      /\ \A j : Is(Head(toSource), "request", j) <=> j = k
      /\ \A j : ~Is(Head(toSource), "response", j)
      /\ heard.state = source.state /\ heard.asked_caps = source.asked_caps
      /\ heard.chosen = source.chosen /\ heard.port = source.port
      /\ DOMAIN heard = DOMAIN source
  BY DEF RtspInv, RtspType, Is
<1>2. SourceOnRequest(k, heard)
  OBVIOUS
<1>3. /\ AskedOnce /\ NothingEarly /\ SinkFollows
      /\ Selects(toSink, source.chosen) /\ SetupFirst(toSource, source.port)
  BY DEF RtspInv, HandshakeInv
<1>4. DOMAIN source = {"state", "asked_caps", "m1_answered", "pending", "chosen", "port", "last_heard",
                       "last_keepalive", "want_idr", "want_kbps", "rate"}
  BY DEF RtspInv, RtspType
<1> HIDE DEF heard, k
<1>5. \A j : ResponseWithSession(j).type = "response" /\ Response(j).type = "response"
  BY DEF ResponseWithSession, Response
<1>6. ASSUME k = "M2", ~source.asked_caps,
             SourceSend(Asking(heard), <<Response("M2"), Request("M3")>>)
      PROVE  RtspInv'
  <2>1. /\ source' = Asking(heard) /\ ended' = ended /\ toSource' = Tail(toSource)
        /\ SinkHere => toSink' = toSink \o <<Response("M2"), Request("M3")>>
        /\ ~SinkHere => toSink' = toSink
    BY <1>6 DEF SourceSend, ToSink
  <2>2. /\ source'.asked_caps = TRUE /\ DOMAIN source' = DOMAIN source
        /\ source'.state = source.state /\ source'.chosen = source.chosen
        /\ source'.port = source.port
    BY <1>1, <1>4, <2>1 DEF Asking
  <2>3. SameToSource(toSource', toSource)
    BY <1>1, <1>6, <2>1, OtherMessages
  <2> QED
    BY <1>6, <2>1, <2>2, <2>3, AskStep
<1>7. ASSUME k \in {"M2", "Idr", "Bitrate", "Keepalive"},
             NEW s, NEW m, SourceSend(s, <<m>>), m.type = "response",
             DOMAIN s = DOMAIN source, s.state = source.state, s.asked_caps = source.asked_caps,
             s.chosen = source.chosen, s.port = source.port
      PROVE  RtspInv'
  <2>1. /\ \A j \in {"M3", "M4"} : ~Is(Head(toSource), "response", j)
        /\ \A j \in {"SETUP", "PLAY"} : ~Is(Head(toSource), "request", j)
    BY <1>1, <1>7
  <2> DEFINE msgs == <<m>>
  <2>2. SourceSend(s, msgs) /\ \E n : msgs = <<n>> /\ n.type = "response"
    BY <1>7
  <2> HIDE DEF msgs
  <2> QED
    BY <1>7, <2>1, <2>2, SourceStaysStep
(* SETUP and PLAY.                                                         *)
<1>8. ASSUME k \in {"SETUP", "PLAY"}, NEW s, NEW m, SourceSend(s, <<m>>), m.type = "response",
             DOMAIN s = DOMAIN source, s.asked_caps = source.asked_caps, s.chosen = source.chosen,
             k = "SETUP" => s.port = TRUE /\ s.state = "AwaitingSetup",
             k = "PLAY" => s.port = source.port /\ s.state = "Playing"
      PROVE  RtspInv'
  <2>1. source' = s /\ toSource' = Tail(toSource) /\ ended' = ended
    BY <1>8 DEF SourceSend
  <2>2. SameToSink(toSink', toSink)
    <3>1. \A j : ~Is(m, "request", j)
      BY <1>8 DEF Is
    <3> DEFINE msgs == <<m>>
    <3>2. Queue(msgs) /\ \A j : ~Occurs(msgs, "request", j)
      BY <3>1, FewFacts
    <3>3. SourceSend(s, msgs)
      BY <1>8
    <3> HIDE DEF msgs
    <3>4. SameToSink(toSink \o msgs, toSink) /\ SameToSink(toSink, toSink)
      BY <1>1, <3>2, OtherMessages
    <3> QED
      BY <3>3, <3>4 DEF SourceSend, ToSink
  <2>3. SourceHere' /\ (SinkHere <=> SinkHere') /\ ~Early /\ ~Early' /\ source.asked_caps
    <3>1. Occurs(toSource, "request", k)
      BY <1>1, TailFacts
    <3>2. ~Early /\ ~Early'
      BY <1>3, <1>8, <2>1, <3>1 DEF NothingEarly, Early
    <3> QED
      BY <1>3, <2>1, <3>2 DEF SourceHere, SinkHere, AskedOnce
  <2>4. /\ Queue(toSource')
        /\ \A j : Occurs(toSource', "response", j) <=> Occurs(toSource, "response", j)
        /\ \A j : Occurs(toSource, "request", j) <=> j = k \/ Occurs(toSource', "request", j)
        /\ Once(toSource, "response", "M3") => Once(toSource', "response", "M3")
        /\ \A p : SetupFirst(toSource, p) =>
             /\ \A n : p \/ Is(Head(toSource), "request", "SETUP") <=> n => SetupFirst(toSource', n)
             /\ k = "PLAY" => p
    BY <1>1, <2>1, TailFacts
  <2>5. RtspType'
    BY <1>8, <2>1, <2>2, <2>4 DEF RtspInv, RtspType, SameToSink
  <2>6. AskedOnce'
    BY <1>3, <1>8, <2>1, <2>2, <2>3, <2>4 DEF AskedOnce, SameToSink
  <2>7. SinkFollows'
    BY <1>3, <1>8, <2>1, <2>2, <2>3, <2>4 DEF SinkFollows, SameToSink
  <2>8. Selects(toSink', source'.chosen) /\ SetupFirst(toSource', source'.port)
    <3>1. source.port \/ Is(Head(toSource), "request", "SETUP") <=> source'.port
      BY <1>1, <1>3, <1>8, <2>1, <2>4
    <3> QED
      BY <1>3, <1>8, <2>1, <2>2, <2>4, <3>1 DEF SameToSink
  <2>9. HandshakeInv'
    BY <2>3, <2>6, <2>7, <2>8 DEF HandshakeInv, NothingEarly
  <2>10. PlayIsSettled'
    <3>1. CASE k = "SETUP"
      BY <1>8, <2>1, <3>1 DEF PlayIsSettled
    <3>2. CASE k = "PLAY"
      <4>1. source.port /\ (SinkHere => sink.chosen = source.chosen /\ sink.peer_session)
        BY <1>3, <2>4, <3>2 DEF SinkFollows
      <4> QED
        BY <1>8, <2>1, <2>3, <3>2, <4>1 DEF PlayIsSettled
    <3> QED
      BY <1>8, <3>1, <3>2
  <2> QED
    BY <2>5, <2>9, <2>10 DEF RtspInv
<1>9. CASE k = "M2"
  <2>1. CASE ~source.asked_caps /\ source.m1_answered # None
    BY <1>2, <1>6, <1>9, <2>1 DEF SourceOnRequest
  <2>2. CASE ~(~source.asked_caps /\ source.m1_answered # None)
    <3>1. SourceSend(heard, <<Response("M2")>>)
      BY <1>2, <1>9, <2>2 DEF SourceOnRequest
    <3> QED
      BY <1>1, <1>5, <1>7, <1>9, <3>1
  <2> QED
    BY <2>1, <2>2
<1>10. CASE k = "SETUP"
  <2> DEFINE s == [heard EXCEPT !.port = TRUE, !.state = "AwaitingSetup"]
  <2>1. SourceSend(s, <<ResponseWithSession("SETUP")>>)
    BY <1>2, <1>10 DEF SourceOnRequest
  <2>2. /\ DOMAIN s = DOMAIN source /\ s.asked_caps = source.asked_caps /\ s.chosen = source.chosen
        /\ s.port = TRUE /\ s.state = "AwaitingSetup"
    BY <1>1, <1>4
  <2> HIDE DEF s
  <2> QED
    BY <1>5, <1>8, <1>10, <2>1, <2>2
<1>11. CASE k = "PLAY"
  <2> DEFINE s == StartMedia([heard EXCEPT !.state = "Playing"])
  <2>1. SourceSend(s, <<ResponseWithSession("PLAY")>>)
    BY <1>2, <1>11 DEF SourceOnRequest
  <2>2. /\ DOMAIN s = DOMAIN source /\ s.asked_caps = source.asked_caps /\ s.chosen = source.chosen
        /\ s.port = source.port /\ s.state = "Playing"
    BY <1>1, <1>4 DEF StartMedia
  <2> HIDE DEF s
  <2> QED
    BY <1>5, <1>8, <1>11, <2>1, <2>2
<1>12. CASE k \in {"Idr", "Bitrate", "Keepalive"}
  <2>1. PICK s : /\ SourceSend(s, <<ResponseWithSession(k)>>)
                 /\ \/ s = [heard EXCEPT !.want_idr = TRUE]
                    \/ s = [heard EXCEPT !.want_kbps = Head(toSource).kbps]
                    \/ s = heard
    BY <1>2, <1>12 DEF SourceOnRequest
  <2>2. /\ DOMAIN s = DOMAIN source /\ s.asked_caps = source.asked_caps /\ s.chosen = source.chosen
        /\ s.port = source.port /\ s.state = source.state
    BY <1>1, <1>4, <2>1
  <2> QED
    BY <1>5, <1>7, <1>12, <2>1, <2>2
<1> QED
  BY <1>2, <1>9, <1>10, <1>11, <1>12 DEF SourceOnRequest

(* What the source does with an answer.                                    *)
LEMMA SourceResponseStep ==
  ASSUME RtspInv, SourceHere, toSource # <<>>, sink' = sink,
         Head(toSource).type = "response",
         SourceOnResponse(Head(toSource).of, [source EXCEPT !.last_heard = 0])
  PROVE  RtspInv'
<1> DEFINE k == Head(toSource).of
           heard == [source EXCEPT !.last_heard = 0]
           s == [heard EXCEPT !.pending = @ \ {k}]
           refusal == Refusal(cast.display, cast.mode, cast.ceiling)
           ceiling == PictureCeiling(cast.display, cast.ceiling)
           chosen == Selection(cast.display, cast.mode, ceiling)
           configure == [s EXCEPT !.state = "Configuring", !.pending = @ \cup {"M4"}, !.chosen = chosen]
           m4 == [type |-> "request", of |-> "M4", selection |-> chosen]
           setup == [s EXCEPT !.state = "AwaitingSetup", !.pending = @ \cup {"M5"}]
<1>1. /\ Queue(toSink) /\ Queue(toSource)
      /\ \A j : Is(Head(toSource), "response", j) <=> j = k
      /\ \A j : ~Is(Head(toSource), "request", j)
  BY DEF RtspInv, RtspType, Is
<1>2. /\ AskedOnce /\ NothingEarly /\ SinkFollows
      /\ Selects(toSink, source.chosen) /\ SetupFirst(toSource, source.port)
  BY DEF RtspInv, HandshakeInv
<1>3. DOMAIN source = {"state", "asked_caps", "m1_answered", "pending", "chosen", "port", "last_heard",
                       "last_keepalive", "want_idr", "want_kbps", "rate"}
  BY DEF RtspInv, RtspType
<1>4. \/ k = "M1" /\ SourceSend([s EXCEPT !.m1_answered = 0], <<>>)
      \/ k = "M3" /\ refusal = None /\ SourceSend(configure, <<m4>>)
      \/ k = "M3" /\ refusal # None /\ SourceEnds(refusal, Tail(toSource))
      \/ k = "M4" /\ SourceSend(setup, <<Request("M5")>>)
      \/ k \in {"M5", "Keepalive"} /\ SourceSend(s, <<>>)
  BY DEF SourceOnResponse
<1>5. /\ s.state = source.state /\ s.asked_caps = source.asked_caps
      /\ s.chosen = source.chosen /\ s.port = source.port /\ DOMAIN s = DOMAIN source
  BY <1>3
<1> HIDE DEF s, heard, refusal, chosen, ceiling
<1>6. ASSUME k \in {"M1", "M5", "Keepalive"}, NEW t, SourceSend(t, <<>>),
             t = s \/ t = [s EXCEPT !.m1_answered = 0]
      PROVE  RtspInv'
  <2>1. /\ \A j \in {"M3", "M4"} : ~Is(Head(toSource), "response", j)
        /\ \A j \in {"SETUP", "PLAY"} : ~Is(Head(toSource), "request", j)
    BY <1>1, <1>6
  <2>2. /\ t.state = source.state /\ t.asked_caps = source.asked_caps
        /\ t.chosen = source.chosen /\ t.port = source.port /\ DOMAIN t = DOMAIN source
    BY <1>3, <1>5, <1>6
  <2> DEFINE msgs == <<>>
  <2>3. SourceSend(t, msgs) /\ msgs = <<>>
    BY <1>6
  <2> HIDE DEF msgs
  <2> QED
    BY <2>1, <2>2, <2>3, SourceStaysStep
<1>7. ASSUME refusal # None, SourceEnds(refusal, Tail(toSource))
      PROVE  RtspInv'
  BY <1>7, SourceEndsStep
(* The answer to M3 or M4, which the source follows with M4 or M5.         *)
<1>8. ASSUME NEW t, NEW m, SourceSend(t, <<m>>),
             DOMAIN t = DOMAIN source, t.asked_caps = source.asked_caps, t.port = source.port,
             \/ /\ k = "M3" /\ t.state = "Configuring"
                /\ \A j : Is(m, "request", j) <=> j = "M4"
                /\ m.selection = t.chosen
             \/ /\ k = "M4" /\ t.state = "AwaitingSetup" /\ t.chosen = source.chosen
                /\ \A j : Is(m, "request", j) <=> j = "M5"
      PROVE  RtspInv'
  <2> DEFINE msgs == <<m>>
             both == toSink \o msgs
  <2>1. /\ source' = t /\ toSource' = Tail(toSource) /\ ended' = ended
        /\ toSink' = IF SinkHere THEN both ELSE toSink
    BY <1>8 DEF SourceSend, ToSink
  <2>2. SourceHere' /\ (SinkHere <=> SinkHere') /\ ~Early' /\ (k = "M3" <=> Early) /\ source.asked_caps
    <3>1. Occurs(toSource, "response", k)
      BY <1>1, TailFacts
    <3>2. (k = "M3" <=> Early) /\ ~Early'
      BY <1>2, <1>8, <2>1, <3>1 DEF AskedOnce, NothingEarly, Early
    <3>3. source.asked_caps
      BY <1>2, <1>8, <3>1, <3>2 DEF AskedOnce, NothingEarly
    <3> QED
      BY <2>1, <3>2, <3>3 DEF SourceHere, SinkHere
  <2>3. /\ Queue(toSource')
        /\ \A j : Occurs(toSource, "response", j) <=> j = k \/ Occurs(toSource', "response", j)
        /\ \A j : Occurs(toSource', "request", j) <=> Occurs(toSource, "request", j)
        /\ Once(toSource, "response", "M3") =>
             /\ Once(toSource', "response", "M3")
             /\ ~(k = "M3" /\ Occurs(toSource', "response", "M3"))
        /\ SetupFirst(toSource', source.port)
    <3>1. SetupFirst(Tail(toSource), source.port)
      BY <1>1, <1>2, TailFacts
    <3> QED
      BY <1>1, <2>1, <3>1, TailFacts
  <2>4. /\ Queue(msgs) /\ \A j : Once(msgs, "request", j)
        /\ \A j : Occurs(msgs, "request", j) <=> Is(m, "request", j)
        /\ Selects(msgs, t.chosen)
    BY <1>8, FewFacts
  <2>5. Selects(toSink, t.chosen)
    <3>1. CASE k = "M3"
      BY <1>2, <2>2, <3>1 DEF NothingEarly, Selects, Occurs
    <3>2. CASE k = "M4"
      BY <1>2, <1>8, <3>2
    <3> QED
      BY <1>8, <3>1, <3>2
  <2>6. /\ Queue(both)
        /\ \A j : Occurs(both, "request", j) <=> Occurs(toSink, "request", j) \/ Is(m, "request", j)
        /\ Once(toSink, "request", "M3") => Once(both, "request", "M3")
        /\ Selects(both, t.chosen)
    <3>1. ~Is(m, "request", "M3")
      BY <1>8
    <3> HIDE DEF msgs
    <3> QED
      BY <1>1, <2>4, <2>5, <3>1, JoinFacts
  <2> HIDE DEF both, msgs
  <2>7. /\ Queue(toSink')
        /\ \A j : Occurs(toSink', "request", j) => Occurs(toSink, "request", j) \/ Is(m, "request", j)
        /\ Once(toSink, "request", "M3") => Once(toSink', "request", "M3")
        /\ Selects(toSink', t.chosen)
    BY <1>1, <2>1, <2>5, <2>6
  <2>8. RtspType'
    BY <1>8, <2>1, <2>3, <2>7 DEF RtspInv, RtspType
  <2>9. AskedOnce'
    <3>1. ~Occurs(toSink', "request", "M3") /\ ~Occurs(toSource', "response", "M3")
      BY <1>2, <1>8, <2>2, <2>3, <2>7 DEF AskedOnce
    <3> QED
      BY <1>2, <1>8, <2>1, <2>2, <2>3, <2>7, <3>1 DEF AskedOnce
  <2>10. SinkFollows'
    <3>1. CASE k = "M3"
      BY <1>2, <1>8, <2>2, <2>3, <2>7, <3>1 DEF SinkFollows, NothingEarly
    <3>2. CASE k = "M4"
      BY <1>2, <1>8, <2>1, <2>2, <2>3, <2>7, <3>2 DEF SinkFollows
    <3> QED
      BY <1>8, <3>1, <3>2
  <2>11. HandshakeInv'
    BY <1>8, <2>1, <2>2, <2>3, <2>7, <2>9, <2>10 DEF HandshakeInv, NothingEarly
  <2>12. PlayIsSettled'
    BY <1>8, <2>1 DEF PlayIsSettled
  <2> QED
    BY <2>8, <2>11, <2>12 DEF RtspInv
<1>9. CASE k = "M3" /\ SourceSend(configure, <<m4>>)
  <2>1. /\ DOMAIN configure = DOMAIN source /\ configure.asked_caps = source.asked_caps
        /\ configure.port = source.port /\ configure.state = "Configuring"
        /\ configure.chosen = chosen
    BY <1>3, <1>5
  <2>2. (\A j : Is(m4, "request", j) <=> j = "M4") /\ m4.selection = chosen
    BY DEF Is
  <2> HIDE DEF configure, m4
  <2> QED
    BY <1>8, <1>9, <2>1, <2>2
<1>10. CASE k = "M4" /\ SourceSend(setup, <<Request("M5")>>)
  <2>1. /\ DOMAIN setup = DOMAIN source /\ setup.asked_caps = source.asked_caps
        /\ setup.port = source.port /\ setup.state = "AwaitingSetup"
        /\ setup.chosen = source.chosen
    BY <1>3, <1>5
  <2>2. \A j : Is(Request("M5"), "request", j) <=> j = "M5"
    BY DEF Is, Request
  <2> HIDE DEF setup
  <2> QED
    BY <1>8, <1>10, <2>1, <2>2
<1> QED
  BY <1>4, <1>6, <1>7, <1>9, <1>10

(* What the sink says of its own accord is no part of the exchange.        *)
Chatter(r) ==
  /\ Queue(r)
  /\ \A k : ~Occurs(r, "response", k)
  /\ \A k \in {"M2", "SETUP", "PLAY"} : ~Occurs(r, "request", k)

LEMMA SinkChatter ==
  /\ Chatter(<<>>) /\ Chatter(IdrRequest)
  /\ \A rung : /\ Chatter(LadderRequest(rung)) /\ Chatter(Append(LadderRequest(rung), Request("Keepalive")))
               /\ Chatter((IF gap THEN IdrRequest ELSE <<>>) \o LadderRequest(rung))
<1>1. ASSUME NEW m, m.type = "request", m.of \notin {"M2", "SETUP", "PLAY"}
      PROVE  Chatter(<<m>>)
  BY <1>1, FewFacts DEF Chatter, Is
<1>2. ASSUME NEW m, NEW n, m.type = "request", m.of \notin {"M2", "SETUP", "PLAY"},
             n.type = "request", n.of \notin {"M2", "SETUP", "PLAY"}
      PROVE  Chatter(<<m, n>>)
  BY <1>2, FewFacts DEF Chatter, Is
<1>3. /\ Request("Idr").type = "request" /\ Request("Idr").of = "Idr"
      /\ Request("Keepalive").type = "request" /\ Request("Keepalive").of = "Keepalive"
      /\ \A rung : Bitrate(rung).type = "request" /\ Bitrate(rung).of = "Bitrate"
  BY DEF Request, Bitrate
<1>4. Chatter(<<>>)
  BY FewFacts DEF Chatter
<1>5. Chatter(IdrRequest)
  BY <1>1, <1>3, <1>4 DEF IdrRequest
<1>6. ASSUME NEW rung
      PROVE  /\ Chatter(LadderRequest(rung)) /\ Chatter(Append(LadderRequest(rung), Request("Keepalive")))
             /\ Chatter((IF gap THEN IdrRequest ELSE <<>>) \o LadderRequest(rung))
  <2>1. Chatter(LadderRequest(rung))
    BY <1>1, <1>3, <1>4 DEF LadderRequest
  <2>2. Chatter(Append(LadderRequest(rung), Request("Keepalive")))
    <3> DEFINE alive == Request("Keepalive")
               rate == LadderRequest(rung)
    <3>1. Chatter(<<alive>>) /\ Chatter(rate)
      BY <1>1, <1>3, <2>1
    <3> HIDE DEF alive, rate
    <3>2. Append(rate, alive) = rate \o <<alive>>
      <4>1. rate \in Seq(Range(rate) \union {alive})
        BY <3>1, SeqMonotonic DEF Chatter, Queue
      <4> QED
        BY <4>1, AppendIsConcat
    <3> DEFINE msgs == <<alive>>
    <3>3. Chatter(msgs)
      BY <3>1
    <3> HIDE DEF msgs
    <3>4. Chatter(rate \o msgs)
      BY <3>1, <3>3, JoinFacts DEF Chatter
    <3> QED
      BY <3>2, <3>4 DEF alive, rate, msgs
  <2>3. Chatter((IF gap THEN IdrRequest ELSE <<>>) \o LadderRequest(rung))
    <3> DEFINE idr == IF gap THEN IdrRequest ELSE <<>>
               rate == LadderRequest(rung)
    <3>1. Chatter(idr) /\ Chatter(rate)
      BY <1>4, <1>5, <2>1
    <3> HIDE DEF idr, rate
    <3>2. /\ Queue(idr \o rate)
          /\ \A t, k : Occurs(idr \o rate, t, k) <=> Occurs(idr, t, k) \/ Occurs(rate, t, k)
      <4>1. Queue(idr) /\ Queue(rate)
        BY <3>1 DEF Chatter
      <4> QED
        BY <4>1, JoinFacts
    <3>3. Chatter(idr \o rate)
      BY <3>1, <3>2 DEF Chatter
    <3> QED
      BY <3>3 DEF idr, rate
  <2> QED
    BY <2>1, <2>2, <2>3
<1> QED
  BY <1>4, <1>5, <1>6

(* The sink says something of its own accord, or nothing.                  *)
LEMMA ChatterStep ==
  ASSUME RtspInv, NEW msgs, Chatter(msgs), SinkSend(msgs), toSink' = toSink,
         source'.state = source.state, source'.asked_caps = source.asked_caps,
         source'.chosen = source.chosen, source'.port = source.port, DOMAIN source' = DOMAIN source,
         sink'.state = sink.state, sink'.chosen = sink.chosen,
         sink'.peer_session = sink.peer_session, DOMAIN sink' = DOMAIN sink
  PROVE  RtspInv'
<1>1. Kept
  BY DEF Kept, SinkSend
<1>2. Queue(toSink) /\ Queue(toSource)
  BY DEF RtspInv, RtspType
<1>3. SameToSink(toSink', toSink)
  BY <1>2, OtherMessages
<1>4. SameToSource(toSource \o msgs, toSource) /\ SameToSource(toSource, toSource)
  BY <1>2, OtherMessages DEF Chatter
<1>5. toSource' = toSource \/ toSource' = toSource \o msgs
  BY DEF SinkSend, ToSource
<1> QED
  BY <1>1, <1>3, <1>4, <1>5, QuietStep

(* Nothing is sent or read.                                                *)
LEMMA SilentStep ==
  ASSUME RtspInv, Kept, UNCHANGED <<toSink, toSource>>
  PROVE  RtspInv'
<1>1. Queue(toSink) /\ Queue(toSource)
  BY DEF RtspInv, RtspType
<1>2. SameToSink(toSink', toSink) /\ SameToSource(toSource', toSource)
  BY <1>1, OtherMessages
<1> QED
  BY <1>2, QuietStep

(* A session starts settled.                                               *)
LEMMA RtspInitInv == Init => RtspInv
<1> SUFFICES ASSUME Init
             PROVE  RtspInv
  OBVIOUS
<1>1. /\ Queue(toSink) /\ Queue(toSource)
      /\ \A t, k : ~Occurs(toSource, t, k) /\ Once(toSource, t, k) /\ Once(toSink, t, k)
      /\ \A c : SetupFirst(toSource, c)
      /\ \A t, k : Occurs(toSink, t, k) <=> Is(Request("M1"), t, k)
      /\ \A c : Selects(toSink, c) <=> (Is(Request("M1"), "request", "M4") => Request("M1").selection = c)
  BY FewFacts DEF Init
<1>2. \A k : Is(Request("M1"), "request", k) <=> k = "M1"
  BY DEF Is, Request
<1>3. RtspType
  BY <1>1 DEF Init, RtspType, NewSource, NewSink
<1>4. source.state = "AwaitingCaps" /\ sink.state = "Init"
  BY DEF Init, NewSource, NewSink
<1>5. AskedOnce
  BY <1>1, <1>2, <1>4 DEF AskedOnce, Early
<1>6. NothingEarly
  BY <1>1, <1>2, <1>4 DEF NothingEarly
<1>7. SinkFollows
  BY <1>1, <1>2, <1>4 DEF SinkFollows
<1>8. HandshakeInv
  BY <1>1, <1>2, <1>4, <1>5, <1>6, <1>7 DEF HandshakeInv
<1>9. PlayIsSettled
  BY <1>4 DEF PlayIsSettled
<1> QED
  BY <1>3, <1>8, <1>9 DEF RtspInv

(* Every step leaves it so.                                                *)
LEMMA RtspInvStep == RtspInv /\ [Next]_vars => RtspInv'
<1> SUFFICES ASSUME RtspInv, [Next]_vars
             PROVE  RtspInv'
  OBVIOUS
<1> USE RtspAssumption
<1>1. /\ DOMAIN source = {"state", "asked_caps", "m1_answered", "pending", "chosen", "port", "last_heard",
                          "last_keepalive", "want_idr", "want_kbps", "rate"}
      /\ DOMAIN sink = {"state", "chosen", "peer_session", "playing", "last_heard", "last_keepalive",
                        "last_media", "last_idr", "rung", "sampled"}
  BY DEF RtspInv, RtspType
<1>2. ASSUME SinkReceive
      PROVE  RtspInv'
  <2> DEFINE m == Head(toSink)
             heard == [sink EXCEPT !.last_heard = 0]
  <2>1. /\ SinkHere /\ toSink # <<>> /\ source' = source
        /\ \/ m.type = "request" /\ SinkOnRequest(m.of, heard)
           \/ m.type = "response" /\ SinkOnResponse(m, heard)
    BY <1>2 DEF SinkReceive
  <2>2. CASE m.type = "request" /\ SinkOnRequest(m.of, heard)
    BY <2>1, <2>2, SinkRequestStep
  <2>3. CASE m.type = "response" /\ SinkOnResponse(m, heard)
    BY <2>1, <2>3, SinkResponseStep
  <2> QED
    BY <2>1, <2>2, <2>3
<1>3. ASSUME SinkSeesClose \/ SinkSilence
      PROVE  RtspInv'
  <2>1. PICK why \in {"closed", "silence"} : SinkEnds(why, toSink) /\ source' = source
    BY <1>3 DEF SinkSeesClose, SinkSilence
  <2> QED
    BY <2>1, SinkEndsStep
<1>4. ASSUME SinkTick
      PROVE  RtspInv'
  <2>1. PICK rung : LET s == [sink EXCEPT !.rung = rung, !.sampled = @ \/ rung # sink.rung]
                    IN \/ SinkEnds("timeout", toSink)
                       \/ /\ sink' = [s EXCEPT !.last_keepalive = 0]
                          /\ SinkSend(Append(LadderRequest(rung), Request("Keepalive")))
                          /\ UNCHANGED toSink
                       \/ /\ sink' = s
                          /\ SinkSend(LadderRequest(rung))
                          /\ UNCHANGED toSink
    BY <1>4, Zenon DEF SinkTick
  <2> DEFINE s == [sink EXCEPT !.rung = rung, !.sampled = @ \/ rung # sink.rung]
  <2>2. source' = source
    BY <1>4 DEF SinkTick
  <2>3. CASE SinkEnds("timeout", toSink)
    BY <2>2, <2>3, SinkEndsStep
  <2>4. ASSUME NEW msgs, Chatter(msgs), SinkSend(msgs), toSink' = toSink,
               sink' = [s EXCEPT !.last_keepalive = 0] \/ sink' = s
        PROVE  RtspInv'
    <3>1. /\ sink'.state = sink.state /\ sink'.chosen = sink.chosen
          /\ sink'.peer_session = sink.peer_session /\ DOMAIN sink' = DOMAIN sink
      BY <1>1, <2>4
    <3> QED
      BY <2>2, <2>4, <3>1, ChatterStep
  <2> DEFINE alive == Append(LadderRequest(rung), Request("Keepalive"))
             rate == LadderRequest(rung)
  <2>5. /\ Chatter(alive) /\ Chatter(rate)
        /\ \/ SinkEnds("timeout", toSink)
           \/ /\ sink' = [s EXCEPT !.last_keepalive = 0] /\ SinkSend(alive) /\ toSink' = toSink
           \/ /\ sink' = s /\ SinkSend(rate) /\ toSink' = toSink
    BY <2>1, SinkChatter
  <2> HIDE DEF alive, rate, s
  <2> QED
    BY <2>3, <2>4, <2>5
<1>5. ASSUME DecodeError
      PROVE  RtspInv'
  <2>1. /\ sink'.state = sink.state /\ sink'.chosen = sink.chosen
        /\ sink'.peer_session = sink.peer_session /\ DOMAIN sink' = DOMAIN sink
    BY <1>1, <1>5 DEF DecodeError, IdrAsked
  <2>2. SinkSend(IdrRequest) /\ source' = source /\ toSink' = toSink /\ Chatter(IdrRequest)
    BY <1>5, SinkChatter DEF DecodeError
  <2> QED
    BY <2>1, <2>2, ChatterStep
<1>6. ASSUME source' \in Encoded
      PROVE  /\ source'.state = source.state /\ source'.asked_caps = source.asked_caps
             /\ source'.chosen = source.chosen /\ source'.port = source.port
             /\ DOMAIN source' = DOMAIN source
  <2>1. PICK r : source' = [source EXCEPT !.want_idr = FALSE, !.want_kbps = None, !.rate = r]
    BY <1>6 DEF Encoded
  <2> QED
    BY <1>1, <2>1
<1>7. ASSUME MediaArrives
      PROVE  RtspInv'
  <2>1. PICK rung : LET s == [sink EXCEPT !.last_media = 0, !.rung = rung, !.sampled = @ \/ rung # sink.rung]
                    IN /\ sink' = IF gap THEN IdrAsked(s) ELSE s
                       /\ SinkSend((IF gap THEN IdrRequest ELSE <<>>) \o LadderRequest(rung))
    BY <1>7, Zenon DEF MediaArrives
  <2>2. /\ sink'.state = sink.state /\ sink'.chosen = sink.chosen
        /\ sink'.peer_session = sink.peer_session /\ DOMAIN sink' = DOMAIN sink
    BY <1>1, <2>1 DEF IdrAsked
  <2> DEFINE msgs == (IF gap THEN IdrRequest ELSE <<>>) \o LadderRequest(rung)
  <2>3. Chatter(msgs) /\ SinkSend(msgs) /\ toSink' = toSink /\ source' \in Encoded
    BY <1>7, <2>1, SinkChatter DEF MediaArrives
  <2> HIDE DEF msgs
  <2> QED
    BY <1>6, <2>2, <2>3, ChatterStep
<1>8. ASSUME MediaLost
      PROVE  RtspInv'
  <2>1. Kept /\ UNCHANGED <<toSink, toSource>>
    BY <1>6, <1>8 DEF MediaLost, Kept
  <2> QED
    BY <2>1, SilentStep
<1>9. ASSUME SourceReceive
      PROVE  RtspInv'
  <2> DEFINE m == Head(toSource)
             heard == [source EXCEPT !.last_heard = 0]
  <2>1. /\ SourceHere /\ toSource # <<>> /\ sink' = sink
        /\ \/ m.type = "request" /\ SourceOnRequest(m.of, heard)
           \/ m.type = "response" /\ SourceOnResponse(m.of, heard)
    BY <1>9 DEF SourceReceive
  <2>2. CASE m.type = "request" /\ SourceOnRequest(m.of, heard)
    BY <2>1, <2>2, SourceRequestStep
  <2>3. CASE m.type = "response" /\ SourceOnResponse(m.of, heard)
    BY <2>1, <2>3, SourceResponseStep
  <2> QED
    BY <2>1, <2>2, <2>3
<1>10. ASSUME SourceSeesClose \/ Stop \/ MediaFails \/ SourceTimeout
       PROVE  RtspInv'
  <2>1. PICK why \in {"closed", "stopped", "media", "timeout"} : SourceEnds(why, toSource) /\ sink' = sink
    BY <1>10 DEF SourceSeesClose, Stop, MediaFails, SourceTimeout
  <2> QED
    BY <2>1, SourceEndsStep
<1>11. ASSUME AskAnyway
       PROVE  RtspInv'
  <2> DEFINE msgs == <<Request("M3")>>
  <2>1. /\ SourceHere /\ ~source.asked_caps /\ source' = Asking(source) /\ ToSink(msgs)
        /\ toSource' = toSource /\ sink' = sink /\ ended' = ended
    BY <1>11 DEF AskAnyway, GraceOver, SourceTicks
  <2>2. /\ source'.asked_caps = TRUE /\ DOMAIN source' = DOMAIN source
        /\ source'.state = source.state /\ source'.chosen = source.chosen
        /\ source'.port = source.port
    BY <1>1, <2>1 DEF Asking
  <2>3. SameToSource(toSource', toSource)
    BY <2>1, OtherMessages DEF RtspInv, RtspType
  <2>4. /\ SinkHere => toSink' = toSink \o msgs
        /\ ~SinkHere => toSink' = toSink
    BY <2>1 DEF ToSink
  <2> QED
    BY <2>1, <2>2, <2>3, <2>4, AskStep
<1>12. ASSUME SourceKeepalive
       PROVE  RtspInv'
  <2> DEFINE msgs == <<Request("Keepalive")>>
  <2>1. /\ source' = [source EXCEPT !.last_keepalive = 0, !.pending = @ \cup {"Keepalive"}]
        /\ ToSink(msgs) /\ toSource' = toSource /\ sink' = sink /\ ended' = ended
    BY <1>12 DEF SourceKeepalive, SourceTicks
  <2>2. Kept
    BY <1>1, <2>1 DEF Kept
  <2>3. Queue(toSink) /\ Queue(toSource) /\ Queue(msgs)
    BY FewFacts DEF RtspInv, RtspType
  <2>4. \A k \in {"M3", "M4", "M5"} : ~Occurs(msgs, "request", k)
    <3>1. \A k : Occurs(msgs, "request", k) <=> Is(Request("Keepalive"), "request", k)
      BY FewFacts
    <3>2. \A k : Is(Request("Keepalive"), "request", k) <=> k = "Keepalive"
      BY DEF Is, Request
    <3> QED
      BY <3>1, <3>2
  <2> HIDE DEF msgs
  <2>5. SameToSink(toSink \o msgs, toSink) /\ SameToSink(toSink, toSink) /\ SameToSource(toSource, toSource)
    BY <2>3, <2>4, OtherMessages
  <2>6. toSink' = toSink \/ toSink' = toSink \o msgs
    BY <2>1 DEF ToSink
  <2> QED
    BY <2>1, <2>2, <2>5, <2>6, QuietStep
<1>13. ASSUME Stall \/ Recover \/ UNCHANGED vars
       PROVE  RtspInv'
  <2>1. Kept /\ UNCHANGED <<toSink, toSource>>
    BY <1>13 DEF Stall, Recover, vars, Kept
  <2> QED
    BY <2>1, SilentStep
<1>14. ASSUME Clock
       PROVE  RtspInv'
  <2>1. /\ source' = [source EXCEPT !.m1_answered = Older(@, M2Grace),
                                    !.last_heard = Older(@, KeepaliveTimeout),
                                    !.last_keepalive = Older(@, KeepaliveEvery)]
        /\ sink' = [sink EXCEPT !.last_heard = Older(@, KeepaliveTimeout),
                                !.last_keepalive = Older(@, KeepaliveEvery),
                                !.last_media = Older(@, MediaSilence),
                                !.last_idr = Older(@, IdrMinInterval),
                                !.sampled = FALSE]
        /\ UNCHANGED <<toSink, toSource, ended>>
    BY <1>14 DEF Clock
  <2>2. Kept
    BY <1>1, <2>1 DEF Kept
  <2> QED
    BY <2>1, <2>2, SilentStep
<1> QED
  BY <1>2, <1>3, <1>4, <1>5, <1>7, <1>8, <1>9, <1>10, <1>11, <1>12, <1>13, <1>14
     DEF Next, SinkStep, SourceStep
------------------------------------------------------------------------------
(* For any displays, casts and limits, however the connection stalls or    *)
(* dies: when the source streams (SourceSession::on_request, PLAY), it     *)
(* knows the sink's port, and a sink that is there has taken the mode the  *)
(* source encodes for and has a session, although Negotiation::on_response *)
(* takes the first answer of any kind for the answer to SETUP.             *)
THEOREM PlayIsAlwaysSettled == Spec => []PlayIsSettled
<1>1. RtspInv => PlayIsSettled
  BY DEF RtspInv
<1> QED
  BY <1>1, RtspInitInv, RtspInvStep, PTL DEF Spec
------------------------------------------------------------------------------
(* A healthy link *)

(* Every message of one kind is in front of every one of another; every    *)
(* answer but that to M2 carries the session.                              *)
Ahead(q, t, k, u, l) == \A i, j \in DOMAIN q : Is(q[i], t, k) /\ Is(q[j], u, l) => i < j
Answers(q) == \A i \in DOMAIN q : q[i].type = "response" => q[i].of = "M2" \/ q[i].session

(* M1 is the first thing said, and nothing is asked before its answer.     *)
Greeting ==
  /\ Once(toSink, "request", "M1")
  /\ Occurs(toSink, "request", "M1") =>
       ~source.asked_caps /\ source.m1_answered = None /\ ~Occurs(toSource, "response", "M1")

(* M2 reaches the source before the capabilities do, so its answer, which  *)
(* has no session, is behind the sink when it waits for that of SETUP.     *)
Supported ==
  /\ Ahead(toSource, "request", "M2", "response", "M3")
  /\ Occurs(toSource, "request", "M2") => Early
  /\ Ahead(toSink, "response", "M2", "request", "M5")
  /\ sink.state \in {"Ready", "Playing"} => ~Occurs(toSink, "response", "M2")

(* M4, M5 and SETUP come once, in their own states of the source.          *)
SetUpOnce ==
  /\ Once(toSink, "request", "M4") /\ Once(toSource, "response", "M4")
  /\ ~(Occurs(toSink, "request", "M4") /\ Occurs(toSource, "response", "M4"))
  /\ Occurs(toSink, "request", "M4") \/ Occurs(toSource, "response", "M4")
       => source.state = "Configuring"
  /\ Once(toSink, "request", "M5") /\ Once(toSource, "request", "SETUP")
  /\ ~(Occurs(toSink, "request", "M5") /\ Occurs(toSource, "request", "SETUP"))
  /\ Occurs(toSink, "request", "M5") \/ Occurs(toSource, "request", "SETUP")
       => source.state = "AwaitingSetup" /\ ~source.port
  /\ source.port => source.state \in {"AwaitingSetup", "Playing"}

Orderly ==
  /\ Greeting /\ Supported /\ SetUpOnce
  /\ Answers(toSink) /\ ~Occurs(toSink, "request", "TEARDOWN")

(* A keep-alive or its answer is under way.                                *)
Probing(there, back) ==
  Occurs(there, "request", "Keepalive") \/ Occurs(back, "response", "Keepalive")

(* Each end has heard the other since its last keep-alive, or will; media  *)
(* flows from a source that plays.                                         *)
SourceOnTime ==
  source.state = "Playing" =>
    /\ source.last_heard # None /\ source.last_heard <= KeepaliveEvery
    /\ source.last_keepalive # None =>
         source.last_heard <= source.last_keepalive \/ Probing(toSink, toSource)
SinkOnTime ==
  sink.last_heard # None =>
    /\ sink.last_heard <= KeepaliveEvery
    /\ sink.last_keepalive # None =>
         sink.last_heard <= sink.last_keepalive \/ Probing(toSource, toSink)
MediaFlows ==
  sink.last_media # None =>
    source.state = "Playing" /\ sink.playing /\ sink.last_media <= MediaSilence

Healthy ==
  /\ link = "up"
  /\ SourceHere => SinkHere /\ Orderly /\ SourceOnTime /\ SinkOnTime /\ MediaFlows
  /\ ended.source \notin {"closed", "timeout"}

Age == Nat \cup {None}
Ages ==
  /\ source.last_heard \in Age /\ source.last_keepalive \in Age
  /\ sink.last_heard \in Age /\ sink.last_keepalive \in Age /\ sink.last_media \in Age

(* The invariant proved by induction, beside RtspInv.                      *)
HealthInv == RtspInv /\ stalls \in Nat /\ Ages /\ (stalls = 0 => Healthy)
------------------------------------------------------------------------------
(* The order of messages in a longer queue.                                *)
LEMMA JoinOrder ==
  ASSUME NEW q, Queue(q), NEW r, Queue(r)
  PROVE  /\ \A t, k, u, l : /\ Ahead(q, t, k, u, l) /\ Ahead(r, t, k, u, l)
                            /\ ~(Occurs(r, t, k) /\ Occurs(q, u, l))
                            => Ahead(q \o r, t, k, u, l)
         /\ Answers(q) /\ Answers(r) => Answers(q \o r)
<1>1. /\ Queue(q \o r) /\ Len(q) \in Nat /\ Len(r) \in Nat
      /\ DOMAIN q = 1 .. Len(q) /\ DOMAIN r = 1 .. Len(r)
      /\ DOMAIN (q \o r) = 1 .. (Len(q) + Len(r))
      /\ \A i \in 1 .. Len(q) : (q \o r)[i] = q[i]
      /\ \A i \in 1 .. Len(r) : (q \o r)[Len(q) + i] = r[i]
  BY Joined
<1>2. ASSUME NEW i \in DOMAIN (q \o r)
      PROVE  \/ i \in DOMAIN q /\ (q \o r)[i] = q[i]
             \/ i - Len(q) \in DOMAIN r /\ (q \o r)[i] = r[i - Len(q)] /\ i > Len(q)
  <2>1. CASE i <= Len(q)
    BY <1>1, <2>1
  <2>2. CASE i > Len(q)
    <3>1. i - Len(q) \in DOMAIN r /\ Len(q) + (i - Len(q)) = i
      BY <1>1, <2>2
    <3> QED
      BY <1>1, <2>2, <3>1
  <2> QED
    BY <1>1, <2>1, <2>2
<1>3. ASSUME NEW t, NEW k, NEW u, NEW l, Ahead(q, t, k, u, l), Ahead(r, t, k, u, l),
             ~(Occurs(r, t, k) /\ Occurs(q, u, l))
      PROVE  Ahead(q \o r, t, k, u, l)
  <2> SUFFICES ASSUME NEW i \in DOMAIN (q \o r), NEW j \in DOMAIN (q \o r),
                      Is((q \o r)[i], t, k), Is((q \o r)[j], u, l)
               PROVE  i < j
    BY DEF Ahead
  <2>1. CASE i \in DOMAIN q /\ (q \o r)[i] = q[i]
    <3>1. CASE j \in DOMAIN q /\ (q \o r)[j] = q[j]
      BY <1>3, <2>1, <3>1 DEF Ahead
    <3>2. CASE j > Len(q)
      BY <1>1, <2>1, <3>2
    <3> QED
      BY <1>2, <3>1, <3>2
  <2>2. CASE i - Len(q) \in DOMAIN r /\ (q \o r)[i] = r[i - Len(q)] /\ i > Len(q)
    <3>1. ~(j \in DOMAIN q /\ (q \o r)[j] = q[j])
      BY <1>3, <2>2 DEF Occurs
    <3>2. j - Len(q) \in DOMAIN r /\ (q \o r)[j] = r[j - Len(q)]
      BY <1>2, <3>1
    <3>3. i - Len(q) < j - Len(q)
      BY <1>3, <2>2, <3>2 DEF Ahead
    <3> QED
      BY <1>1, <3>3
  <2> QED
    BY <1>2, <2>1, <2>2
<1>4. ASSUME Answers(q), Answers(r)
      PROVE  Answers(q \o r)
  BY <1>2, <1>4 DEF Answers
<1> QED
  BY <1>3, <1>4

(* The order of messages behind the first.                                 *)
LEMMA TailOrder ==
  ASSUME NEW q, Queue(q), q # <<>>
  PROVE  /\ \A t, k, u, l : Ahead(q, t, k, u, l) =>
              /\ Ahead(Tail(q), t, k, u, l)
              /\ Is(Head(q), u, l) => ~Occurs(Tail(q), t, k)
         /\ Answers(q) => /\ Answers(Tail(q))
                          /\ Head(q).type = "response" => Head(q).of = "M2" \/ Head(q).session
<1>1. Len(q) \in Nat \ {0} /\ DOMAIN q = 1 .. Len(q) /\ Head(q) = q[1]
  BY EmptySeq, LenProperties DEF Queue
<1>2. /\ Tail(q) \in Seq(Range(q)) /\ Len(Tail(q)) = Len(q) - 1
      /\ \A i \in 1 .. Len(Tail(q)) : Tail(q)[i] = q[i + 1]
  BY HeadTailProperties DEF Queue
<1>3. DOMAIN Tail(q) = 1 .. (Len(q) - 1)
  BY <1>2, LenProperties
<1>4. \A i \in DOMAIN Tail(q) : i + 1 \in DOMAIN q /\ i \in Nat /\ Tail(q)[i] = q[i + 1]
  BY <1>1, <1>2, <1>3
<1>5. 1 \in DOMAIN q
  BY <1>1
<1>6. ASSUME NEW t, NEW k, NEW u, NEW l, Ahead(q, t, k, u, l)
      PROVE  /\ Ahead(Tail(q), t, k, u, l)
             /\ Is(Head(q), u, l) => ~Occurs(Tail(q), t, k)
  <2>1. ASSUME NEW i \in DOMAIN Tail(q), NEW j \in DOMAIN Tail(q),
               Is(Tail(q)[i], t, k), Is(Tail(q)[j], u, l)
        PROVE  i < j
    <3>1. i + 1 < j + 1
      BY <1>4, <1>6, <2>1 DEF Ahead
    <3> QED
      BY <1>4, <3>1
  <2>2. ASSUME Is(Head(q), u, l), NEW i \in DOMAIN Tail(q), Is(Tail(q)[i], t, k)
        PROVE  FALSE
    <3>1. i + 1 < 1
      BY <1>1, <1>4, <1>5, <1>6, <2>2 DEF Ahead
    <3> QED
      BY <1>4, <3>1
  <2> QED
    BY <2>1, <2>2 DEF Ahead, Occurs
<1>7. ASSUME Answers(q)
      PROVE  /\ Answers(Tail(q))
             /\ Head(q).type = "response" => Head(q).of = "M2" \/ Head(q).session
  BY <1>1, <1>4, <1>5, <1>7 DEF Answers
<1> QED
  BY <1>6, <1>7

(* Nothing the order turns on is on its way that was not before.           *)
CalmToSink(r, q) ==
  /\ \A k \in {"M1", "M4", "M5", "TEARDOWN"} : Occurs(r, "request", k) => Occurs(q, "request", k)
  /\ Occurs(r, "response", "M2") => Occurs(q, "response", "M2")
  /\ \A k \in {"M1", "M4", "M5"} : Once(q, "request", k) => Once(r, "request", k)
  /\ Ahead(q, "response", "M2", "request", "M5") => Ahead(r, "response", "M2", "request", "M5")
  /\ Answers(q) => Answers(r)
CalmToSource(r, q) ==
  /\ \A k \in {"M1", "M4"} : Occurs(r, "response", k) => Occurs(q, "response", k)
  /\ \A k \in {"M2", "SETUP"} : Occurs(r, "request", k) => Occurs(q, "request", k)
  /\ Once(q, "response", "M4") => Once(r, "response", "M4")
  /\ Once(q, "request", "SETUP") => Once(r, "request", "SETUP")
  /\ Ahead(q, "request", "M2", "response", "M3") => Ahead(r, "request", "M2", "response", "M3")

(* Messages that leave the order as it is.                                 *)
HushedToSink(r) ==
  /\ Queue(r) /\ Answers(r)
  /\ \A k \in {"M1", "M4", "M5", "TEARDOWN"} : ~Occurs(r, "request", k)
  /\ ~Occurs(r, "response", "M2")
HushedToSource(r) ==
  /\ Queue(r)
  /\ \A k \in {"M1", "M4"} : ~Occurs(r, "response", k)
  /\ \A k \in {"M2", "SETUP"} : ~Occurs(r, "request", k)

(* Reading a queue, and sending such messages, leaves the order as it is.  *)
LEMMA CalmQueues ==
  ASSUME NEW q, Queue(q)
  PROVE  /\ CalmToSink(q, q) /\ CalmToSource(q, q)
         /\ q # <<>> => CalmToSink(Tail(q), q) /\ CalmToSource(Tail(q), q)
         /\ \A r : HushedToSink(r) => CalmToSink(q \o r, q)
         /\ \A r : HushedToSource(r) => CalmToSource(q \o r, q)
<1>1. CalmToSink(q, q) /\ CalmToSource(q, q)
  BY DEF CalmToSink, CalmToSource
<1>2. ASSUME q # <<>>
      PROVE  CalmToSink(Tail(q), q) /\ CalmToSource(Tail(q), q)
  BY <1>2, TailFacts, TailOrder DEF CalmToSink, CalmToSource
<1>3. ASSUME NEW r, HushedToSink(r)
      PROVE  CalmToSink(q \o r, q)
  <2>1. /\ \A k \in {"M1", "M4", "M5"} : Once(r, "request", k)
        /\ Ahead(r, "response", "M2", "request", "M5")
    BY <1>3 DEF HushedToSink, Occurs, Once, Ahead
  <2>2. /\ Queue(r) /\ Answers(r) /\ ~Occurs(r, "response", "M2")
        /\ \A k \in {"M1", "M4", "M5", "TEARDOWN"} : ~Occurs(r, "request", k)
    BY <1>3 DEF HushedToSink
  <2> DEFINE both == q \o r
  <2>3. /\ \A t, k : Occurs(both, t, k) <=> Occurs(q, t, k) \/ Occurs(r, t, k)
        /\ \A t, k : Once(q, t, k) /\ Once(r, t, k) /\ ~(Occurs(q, t, k) /\ Occurs(r, t, k))
                       => Once(both, t, k)
    BY <2>2, JoinFacts
  <2>4. /\ Ahead(q, "response", "M2", "request", "M5") => Ahead(both, "response", "M2", "request", "M5")
        /\ Answers(q) => Answers(both)
    BY <2>1, <2>2, JoinOrder
  <2> HIDE DEF both
  <2>5. CalmToSink(both, q)
    BY <2>1, <2>2, <2>3, <2>4 DEF CalmToSink
  <2> QED
    BY <2>5 DEF both
<1>4. ASSUME NEW r, HushedToSource(r)
      PROVE  CalmToSource(q \o r, q)
  <2>1. /\ Once(r, "response", "M4") /\ Once(r, "request", "SETUP")
        /\ Ahead(r, "request", "M2", "response", "M3")
    BY <1>4 DEF HushedToSource, Occurs, Once, Ahead
  <2> QED
    BY <1>4, <2>1, JoinFacts, JoinOrder DEF CalmToSource, HushedToSource
<1> QED
  BY <1>1, <1>2, <1>3, <1>4

(* Which messages those are.                                               *)
LEMMA HushedMessages ==
  /\ HushedToSink(<<>>) /\ HushedToSource(<<>>)
  /\ \A r : Chatter(r) => HushedToSource(r)
  /\ \A k : k \notin {"M1", "M4", "M5", "TEARDOWN"} => HushedToSink(<<Request(k)>>)
  /\ \A k : k # "M2" => HushedToSink(<<ResponseWithSession(k)>>)
  /\ \A k : k \notin {"M1", "M4"} => HushedToSource(<<Response(k)>>)
  /\ HushedToSource(<<Request("PLAY")>>)
<1>1. ASSUME NEW m
      PROVE  Answers(<<m>>) <=> (m.type = "response" => m.of = "M2" \/ m.session)
  <2>1. DOMAIN <<m>> = {1} /\ <<m>>[1] = m
    OBVIOUS
  <2> QED
    BY <2>1 DEF Answers
<1>2. DOMAIN <<>> = {}
  OBVIOUS
<1>3. HushedToSink(<<>>) /\ HushedToSource(<<>>)
  BY <1>2, FewFacts DEF HushedToSink, HushedToSource, Answers
<1>4. ASSUME NEW r, Chatter(r)
      PROVE  HushedToSource(r)
  BY <1>4 DEF Chatter, HushedToSource
<1>5. ASSUME NEW m
      PROVE  Queue(<<m>>) /\ \A t, k : Occurs(<<m>>, t, k) <=> Is(m, t, k)
  BY FewFacts
<1>6. ASSUME NEW k
      PROVE  /\ Request(k).type = "request" /\ Request(k).of = k
             /\ Response(k).type = "response" /\ Response(k).of = k
             /\ ResponseWithSession(k).type = "response" /\ ResponseWithSession(k).of = k
             /\ ResponseWithSession(k).session = TRUE
  BY DEF Request, Response, ResponseWithSession
<1>7. ASSUME NEW m, m.type = "request", m.of \notin {"M1", "M4", "M5", "TEARDOWN"}
      PROVE  HushedToSink(<<m>>)
  BY <1>1, <1>7, FewFacts DEF HushedToSink, Is
<1>8. ASSUME NEW m, m.type = "response", m.of # "M2", m.session
      PROVE  HushedToSink(<<m>>)
  BY <1>1, <1>8, FewFacts DEF HushedToSink, Is
<1>9. ASSUME NEW m, m.type = "response", m.of \notin {"M1", "M4"}
      PROVE  HushedToSource(<<m>>)
  BY <1>9, FewFacts DEF HushedToSource, Is
<1>10. ASSUME NEW m, m.type = "request", m.of \notin {"M2", "SETUP"}
       PROVE  HushedToSource(<<m>>)
  BY <1>10, FewFacts DEF HushedToSource, Is
<1>11. ASSUME NEW k, k \notin {"M1", "M4", "M5", "TEARDOWN"}
       PROVE  HushedToSink(<<Request(k)>>)
  <2> DEFINE m == Request(k)
  <2>1. m.type = "request" /\ m.of = k
    BY <1>6, <1>11
  <2> HIDE DEF m
  <2>2. HushedToSink(<<m>>)
    BY <1>11, <2>1, <1>7
  <2> QED
    BY <2>2 DEF m
<1>12. ASSUME NEW k, k # "M2"
       PROVE  HushedToSink(<<ResponseWithSession(k)>>)
  <2> DEFINE m == ResponseWithSession(k)
  <2>1. m.type = "response" /\ m.of = k /\ m.session
    BY <1>6, <1>12
  <2> HIDE DEF m
  <2>2. HushedToSink(<<m>>)
    BY <1>12, <2>1, <1>8
  <2> QED
    BY <2>2 DEF m
<1>13. ASSUME NEW k, k \notin {"M1", "M4"}
       PROVE  HushedToSource(<<Response(k)>>)
  <2> DEFINE m == Response(k)
  <2>1. m.type = "response" /\ m.of = k
    BY <1>6, <1>13
  <2> HIDE DEF m
  <2>2. HushedToSource(<<m>>)
    BY <1>13, <2>1, <1>9
  <2> QED
    BY <2>2 DEF m
<1>14. ASSUME NEW k, k = "PLAY"
       PROVE  HushedToSource(<<Request(k)>>)
  <2> DEFINE m == Request(k)
  <2>1. m.type = "request" /\ m.of = k
    BY <1>6, <1>14
  <2> HIDE DEF m
  <2>2. HushedToSource(<<m>>)
    BY <1>14, <2>1, <1>10
  <2> QED
    BY <2>2 DEF m
<1> QED
  BY <1>3, <1>4, <1>11, <1>12, <1>13, <1>14

(* The order stays as it is when nothing it turns on changes.              *)
LEMMA CalmStep ==
  ASSUME Orderly, CalmToSink(toSink', toSink), CalmToSource(toSource', toSource),
         source'.state = source.state, source'.asked_caps = source.asked_caps,
         source'.port = source.port, source.m1_answered = None => source'.m1_answered = None,
         sink'.state \in {"Ready", "Playing"} => sink.state \in {"Ready", "Playing"}
  PROVE  Orderly'
<1>1. Early' <=> Early
  BY DEF Early
<1>2. Greeting'
  BY DEF Orderly, Greeting, CalmToSink, CalmToSource
<1>3. Supported'
  BY <1>1 DEF Orderly, Supported, CalmToSink, CalmToSource
<1>4. SetUpOnce'
  BY DEF Orderly, SetUpOnce, CalmToSink, CalmToSource
<1> QED
  BY <1>2, <1>3, <1>4 DEF Orderly, CalmToSink

(* An end that has heard the other just now.                               *)
JustHeard(s) == [s EXCEPT !.last_heard = 0]

(* The sink has taken a message in.                                        *)
SinkHeard ==
  /\ ended' = ended
  /\ sink'.last_heard = 0 /\ sink'.last_keepalive = sink.last_keepalive
  /\ sink'.last_media = sink.last_media /\ (sink.playing => sink'.playing)
  /\ Probing(toSink, toSource) => Probing(toSink', toSource')

(* What is left of a queue whose first message, of this kind, is read.     *)
Unread(q, t, k, r) ==
  /\ Occurs(q, t, k)
  /\ Once(q, t, k) => ~Occurs(r, t, k)
  /\ \A u, l : Occurs(r, u, l) => Occurs(q, u, l)
  /\ \A u, l : Occurs(q, u, l) => Occurs(r, u, l) \/ (u = t /\ l = k)
  /\ \A u, l : Ahead(q, u, l, t, k) => ~Occurs(r, u, l)

LEMMA ReadOne ==
  ASSUME NEW q, Queue(q), q # <<>>, NEW t, NEW k, Is(Head(q), t, k)
  PROVE  Unread(q, t, k, Tail(q))
  BY TailFacts, TailOrder DEF Is, Unread

(* A request the sink takes in keeps the order.                            *)
LEMMA SinkRequestOrderly ==
  ASSUME RtspInv, Orderly, SourceHere, SinkHere, toSink # <<>>, source' = source,
         NEW k, Is(Head(toSink), "request", k),
         NEW heard, heard = JustHeard(sink), SinkOnRequest(k, heard)
  PROVE  Orderly' /\ SinkHeard
<1>1. Queue(toSink) /\ Queue(toSource) /\ AskedOnce /\ NothingEarly
  BY DEF RtspInv, RtspType, HandshakeInv
<1>2. /\ heard.state = sink.state /\ heard.last_heard = 0 /\ heard.playing = sink.playing
      /\ heard.last_keepalive = sink.last_keepalive /\ heard.last_media = sink.last_media
      /\ DOMAIN heard = DOMAIN sink
  BY DEF RtspInv, RtspType, JustHeard
<1>3. /\ Occurs(toSink, "request", k)
      /\ Once(toSink, "request", k) => ~Occurs(Tail(toSink), "request", k)
      /\ \A u, l : Occurs(Tail(toSink), u, l) => Occurs(toSink, u, l)
      /\ \A u, l : Occurs(toSink, u, l) => Occurs(Tail(toSink), u, l) \/ (u = "request" /\ l = k)
      /\ \A u, l : Ahead(toSink, u, l, "request", k) => ~Occurs(Tail(toSink), u, l)
      /\ CalmToSink(Tail(toSink), toSink)
  <2>1. CalmToSink(Tail(toSink), toSink)
    BY <1>1, CalmQueues
  <2>2. Unread(toSink, "request", k, Tail(toSink))
    BY <1>1, ReadOne
  <2> QED
    BY <1>1, <2>1, <2>2 DEF Unread
<1>4. k # "TEARDOWN"
  BY <1>3 DEF Orderly
<1>5. SinkOnRequest(k, heard) /\ k \in {"M1", "M3", "M4", "M5", "Keepalive"}
  BY <1>4 DEF SinkOnRequest
<1> DEFINE answer == IF k = "M1" THEN <<Response("M1"), Request("M2")>>
                     ELSE IF k = "M5" THEN <<Response("M5"), Request("SETUP")>>
                     ELSE <<Response(k)>>
<1>6. /\ ended' = ended /\ toSink' = Tail(toSink) /\ toSource' = toSource \o answer
      /\ k \in {"M1", "Keepalive"} => sink' = heard
      /\ k = "M3" => sink' = [heard EXCEPT !.state = "Capabilities"]
      /\ k = "M4" => sink' = [heard EXCEPT !.chosen = Head(toSink).selection]
      /\ k = "M5" => sink' = [heard EXCEPT !.state = "Ready"]
  BY <1>5 DEF SinkOnRequest, SinkSend, ToSource
<1>7. /\ sink'.last_heard = 0 /\ sink'.last_keepalive = sink.last_keepalive
      /\ sink'.last_media = sink.last_media /\ sink'.playing = sink.playing
      /\ k # "M5" => sink'.state \in {sink.state, "Capabilities"}
  BY <1>2, <1>5, <1>6 DEF RtspInv, RtspType
<1>8. /\ Queue(answer)
      /\ \A j : Occurs(answer, "response", j) <=> j = k
      /\ \A j : Occurs(answer, "request", j) <=> (j = "M2" /\ k = "M1") \/ (j = "SETUP" /\ k = "M5")
      /\ \A t, j : Once(answer, t, j)
      /\ Ahead(answer, "request", "M2", "response", "M3")
  <2>1. ASSUME NEW j
        PROVE  /\ Request(j).type = "request" /\ Request(j).of = j
               /\ Response(j).type = "response" /\ Response(j).of = j
    BY DEF Request, Response
  <2>2. ASSUME NEW m, NEW n, m.type = "response", m.of = k, n.type = "request", n.of \in {"M2", "SETUP"},
               k # "M3", answer = <<m, n>>
        PROVE  /\ Queue(answer)
               /\ \A j : Occurs(answer, "response", j) <=> j = k
               /\ \A j : Occurs(answer, "request", j) <=> j = n.of
               /\ \A t, j : Once(answer, t, j)
               /\ Ahead(answer, "request", "M2", "response", "M3")
    <3>1. /\ Queue(<<m, n>>)
          /\ \A t, j : Occurs(<<m, n>>, t, j) <=> Is(m, t, j) \/ Is(n, t, j)
          /\ \A t, j : ~(Is(m, t, j) /\ Is(n, t, j)) => Once(<<m, n>>, t, j)
      BY FewFacts
    <3> HIDE DEF answer
    <3>2. \A t, j : ~(Is(m, t, j) /\ Is(n, t, j))
      BY <2>2 DEF Is
    <3>3. ~Occurs(answer, "response", "M3")
      BY <2>2, <3>1 DEF Is
    <3> QED
      BY <2>2, <3>1, <3>2, <3>3 DEF Is, Ahead, Occurs
  <2>3. CASE k = "M1"
    BY <2>1, <2>2, <2>3
  <2>4. CASE k = "M5"
    BY <2>1, <2>2, <2>4
  <2>5. CASE k \notin {"M1", "M5"}
    <3> DEFINE m == Response(k)
    <3>1. answer = <<m>> /\ m.type = "response" /\ m.of = k
      BY <2>1, <2>5
    <3> HIDE DEF m, answer
    <3>2. Queue(answer) /\ \A t, j : Once(answer, t, j) /\ (Occurs(answer, t, j) <=> Is(m, t, j))
      BY <3>1, FewFacts
    <3> QED
      BY <2>5, <3>1, <3>2 DEF Is, Ahead, Occurs
  <2> QED
    BY <2>3, <2>4, <2>5
<1> HIDE DEF answer
<1>9. /\ \A t, j : Occurs(toSource', t, j) <=> Occurs(toSource, t, j) \/ Occurs(answer, t, j)
      /\ \A t, j : Once(toSource, t, j) /\ ~(Occurs(toSource, t, j) /\ Occurs(answer, t, j))
                     => Once(toSource', t, j)
      /\ /\ Ahead(toSource, "request", "M2", "response", "M3")
         /\ ~(k = "M1" /\ Occurs(toSource, "response", "M3"))
         => Ahead(toSource', "request", "M2", "response", "M3")
  BY <1>1, <1>6, <1>8, JoinFacts, JoinOrder
<1>10. SinkHeard
  BY <1>3, <1>6, <1>7, <1>8, <1>9 DEF SinkHeard, Probing
<1>11. Early' <=> Early
  BY DEF Early
<1>12. Greeting'
  BY <1>3, <1>6, <1>8, <1>9 DEF Orderly, Greeting, CalmToSink
<1>13. Supported'
  <2>1. Ahead(toSource', "request", "M2", "response", "M3") /\ (Occurs(toSource', "request", "M2") => Early)
    BY <1>1, <1>3, <1>8, <1>9 DEF Orderly, Supported, Greeting, AskedOnce
  <2>2. Ahead(toSink', "response", "M2", "request", "M5")
    BY <1>3, <1>6 DEF Orderly, Supported, CalmToSink
  <2>3. sink'.state \in {"Ready", "Playing"} => ~Occurs(toSink', "response", "M2")
    BY <1>3, <1>6, <1>7 DEF Orderly, Supported
  <2> QED
    BY <1>11, <2>1, <2>2, <2>3 DEF Supported
<1>14. SetUpOnce'
  BY <1>3, <1>6, <1>8, <1>9 DEF Orderly, SetUpOnce, CalmToSink
<1>15. Answers(toSink') /\ ~Occurs(toSink', "request", "TEARDOWN")
  BY <1>3, <1>6 DEF Orderly, CalmToSink
<1> QED
  BY <1>10, <1>12, <1>13, <1>14, <1>15 DEF Orderly

(* An answer the sink takes in keeps the order; none lacks the session.    *)
LEMMA SinkResponseOrderly ==
  ASSUME RtspInv, Orderly, SourceHere, SinkHere, toSink # <<>>, source' = source,
         NEW m, m = Head(toSink), m.type = "response",
         NEW heard, heard = JustHeard(sink), SinkOnResponse(m, heard)
  PROVE  Orderly' /\ SinkHeard
<1>1. /\ Queue(toSink) /\ Queue(toSource) /\ Is(Head(toSink), "response", m.of)
  BY DEF RtspInv, RtspType, HandshakeInv, Is
<1>2. /\ heard.state = sink.state /\ heard.last_heard = 0 /\ heard.playing = sink.playing
      /\ heard.last_keepalive = sink.last_keepalive /\ heard.last_media = sink.last_media
      /\ DOMAIN heard = DOMAIN sink
  BY DEF RtspInv, RtspType, JustHeard
<1>3. /\ Occurs(toSink, "response", m.of)
      /\ \A u, l : Occurs(toSink, u, l) => Occurs(Tail(toSink), u, l) \/ (u = "response" /\ l = m.of)
      /\ CalmToSink(Tail(toSink), toSink)
  <2>1. CalmToSink(Tail(toSink), toSink)
    BY <1>1, CalmQueues
  <2>2. Unread(toSink, "response", m.of, Tail(toSink))
    BY <1>1, ReadOne
  <2> QED
    BY <2>1, <2>2 DEF Unread
<1>4. sink.state = "Ready" => m.session
  <2>1. m.of = "M2" \/ m.session
    BY <1>1, TailOrder DEF Orderly
  <2>2. sink.state = "Ready" => m.of # "M2"
    BY <1>3 DEF Orderly, Supported
  <2> QED
    BY <2>1, <2>2
<1>5. DOMAIN sink = {"state", "chosen", "peer_session", "playing", "last_heard", "last_keepalive",
                     "last_media", "last_idr", "rung", "sampled"}
  BY DEF RtspInv, RtspType
<1>6. ASSUME NEW msgs, HushedToSource(msgs), toSource' = toSource \o msgs, toSink' = Tail(toSink),
             ended' = ended,
             \/ sink' = heard
             \/ /\ sink' = [heard EXCEPT !.peer_session = TRUE, !.state = "Playing", !.playing = TRUE]
                /\ sink.state = "Ready"
      PROVE  Orderly' /\ SinkHeard
  <2>1. /\ sink'.last_heard = 0 /\ sink'.last_keepalive = sink.last_keepalive
        /\ sink'.last_media = sink.last_media /\ (sink.playing => sink'.playing)
        /\ sink'.state \in {"Ready", "Playing"} => sink.state \in {"Ready", "Playing"}
    <3>1. CASE sink' = heard
      BY ONLY <1>2, <3>1
    <3>2. CASE sink' = [heard EXCEPT !.peer_session = TRUE, !.state = "Playing", !.playing = TRUE]
               /\ sink.state = "Ready"
      BY ONLY <1>2, <1>5, <3>2
    <3> QED
      BY ONLY <1>6, <3>1, <3>2
  <2>2. CalmToSource(toSource', toSource) /\ \A t, j : Occurs(toSource, t, j) => Occurs(toSource', t, j)
    <3>1. Queue(msgs)
      BY <1>6 DEF HushedToSource
    <3> QED
      BY <1>1, <1>6, <3>1, CalmQueues, JoinFacts
  <2>3. Orderly'
    BY <1>3, <1>6, <2>1, <2>2, CalmStep
  <2>4. Probing(toSink, toSource) => Probing(toSink', toSource')
    BY <1>3, <1>6, <2>2 DEF Probing
  <2> QED
    BY <1>6, <2>1, <2>3, <2>4 DEF SinkHeard
<1>7. CASE sink' = heard /\ toSink' = Tail(toSink) /\ toSource' = toSource /\ ended' = ended
  <2>1. HushedToSource(<<>>) /\ toSource \o <<>> = toSource
    BY <1>1, HushedMessages, ConcatEmptySeq DEF Queue
  <2> QED
    BY <1>6, <1>7, <2>1
<1>8. CASE /\ sink' = [heard EXCEPT !.peer_session = TRUE, !.state = "Playing", !.playing = TRUE]
           /\ sink.state = "Ready" /\ toSink' = Tail(toSink) /\ SinkSend(<<Request("PLAY")>>)
  <2> DEFINE msgs == <<Request("PLAY")>>
  <2>1. HushedToSource(msgs)
    BY HushedMessages
  <2>2. toSource' = toSource \o msgs /\ ended' = ended
    BY <1>8 DEF SinkSend, ToSource
  <2> HIDE DEF msgs
  <2> QED
    BY <1>6, <1>8, <2>1, <2>2
<1> QED
  BY <1>4, <1>7, <1>8 DEF SinkOnResponse

(* The source has taken a message in.                                      *)
SourceHeard ==
  /\ ended' = ended
  /\ source'.last_heard = 0 /\ source'.last_keepalive = source.last_keepalive
  /\ source.state = "Playing" => source'.state = "Playing"
  /\ Probing(toSource, toSink) => Probing(toSource', toSink')

(* A request the source takes in keeps the order.                          *)
LEMMA SourceRequestOrderly ==
  ASSUME RtspInv, Orderly, SourceHere, SinkHere, toSource # <<>>, sink' = sink,
         NEW k, Is(Head(toSource), "request", k),
         NEW heard, heard = JustHeard(source), SourceOnRequest(k, heard)
  PROVE  Orderly' /\ SourceHeard
<1>1. /\ Queue(toSink) /\ Queue(toSource) /\ AskedOnce /\ NothingEarly
      /\ SetupFirst(toSource, source.port)
  BY DEF RtspInv, RtspType, HandshakeInv
<1>2. /\ heard.state = source.state /\ heard.last_heard = 0 /\ heard.asked_caps = source.asked_caps
      /\ heard.last_keepalive = source.last_keepalive /\ heard.port = source.port
      /\ heard.m1_answered = source.m1_answered /\ DOMAIN heard = DOMAIN source
  BY DEF RtspInv, RtspType, JustHeard
<1>3. /\ Occurs(toSource, "request", k)
      /\ Once(toSource, "request", k) => ~Occurs(Tail(toSource), "request", k)
      /\ \A u, l : Occurs(Tail(toSource), u, l) => Occurs(toSource, u, l)
      /\ \A u, l : Occurs(toSource, u, l) => Occurs(Tail(toSource), u, l) \/ (u = "request" /\ l = k)
      /\ CalmToSource(Tail(toSource), toSource)
      /\ k = "PLAY" => source.port
  <2>1. CalmToSource(Tail(toSource), toSource)
    BY <1>1, CalmQueues
  <2>2. Unread(toSource, "request", k, Tail(toSource))
    BY <1>1, ReadOne
  <2>3. k = "PLAY" => source.port
    BY <1>1, TailFacts
  <2> QED
    BY <2>1, <2>2, <2>3 DEF Unread
<1>4. DOMAIN source = {"state", "asked_caps", "m1_answered", "pending", "chosen", "port", "last_heard",
                       "last_keepalive", "want_idr", "want_kbps", "rate"}
  BY DEF RtspInv, RtspType
<1>5. PICK s, reply :
        /\ source' = s /\ ended' = ended /\ toSource' = Tail(toSource) /\ toSink' = toSink \o reply
        /\ \/ /\ k = "M2" /\ ~source.asked_caps /\ source.m1_answered # None
              /\ s = Asking(heard) /\ reply = <<Response("M2"), Request("M3")>>
           \/ k = "M2" /\ s = heard /\ reply = <<Response("M2")>>
           \/ /\ k \in {"SETUP", "PLAY", "Idr", "Bitrate", "Keepalive"}
              /\ reply = <<ResponseWithSession(k)>>
              /\ k = "SETUP" => s = [heard EXCEPT !.port = TRUE, !.state = "AwaitingSetup"]
              /\ k = "PLAY" => s = StartMedia([heard EXCEPT !.state = "Playing"])
              /\ k = "Idr" => s = [heard EXCEPT !.want_idr = TRUE]
              /\ k = "Bitrate" => s = [heard EXCEPT !.want_kbps = Head(toSource).kbps]
              /\ k = "Keepalive" => s = heard
  BY DEF SourceOnRequest, SourceSend, ToSink
<1>6. /\ source'.last_heard = 0 /\ source'.last_keepalive = source.last_keepalive
      /\ source'.m1_answered = source.m1_answered
      /\ source'.asked_caps # source.asked_caps => k = "M2" /\ source.m1_answered # None
      /\ k = "SETUP" => source'.port /\ source'.state = "AwaitingSetup"
      /\ k # "SETUP" => source'.port = source.port
      /\ k = "PLAY" => source'.state = "Playing"
      /\ k \notin {"SETUP", "PLAY"} => source'.state = source.state
  <2>1. CASE k = "M2"
    BY ONLY <1>2, <1>4, <1>5, <2>1 DEF Asking
  <2>2. CASE k = "SETUP"
    BY ONLY <1>2, <1>4, <1>5, <2>2
  <2>3. CASE k = "PLAY"
    BY ONLY <1>2, <1>4, <1>5, <2>3 DEF StartMedia
  <2>4. CASE k \in {"Idr", "Bitrate", "Keepalive"}
    BY ONLY <1>2, <1>4, <1>5, <2>4
  <2> QED
    BY <1>5, <2>1, <2>2, <2>3, <2>4
<1>7. Early' <=> IF k \in {"SETUP", "PLAY"} THEN FALSE ELSE Early
  BY <1>6 DEF Early
(* The answer leaves the order as it is, but that to M2.                   *)
<1>8. ASSUME k # "M2"
      PROVE  /\ CalmToSink(toSink', toSink)
             /\ \A t, j : Occurs(toSink', t, j) <=> Occurs(toSink, t, j) \/ (t = "response" /\ j = k)
  <2>1. HushedToSink(reply) /\ \A t, j : Occurs(reply, t, j) <=> t = "response" /\ j = k
    <3> DEFINE m == ResponseWithSession(k)
    <3>1. reply = <<m>> /\ m.type = "response" /\ m.of = k
      BY <1>5, <1>8 DEF ResponseWithSession, Response
    <3>2. HushedToSink(reply)
      BY <1>5, <1>8, HushedMessages
    <3> HIDE DEF m
    <3>3. \A t, j : Occurs(reply, t, j) <=> Is(m, t, j)
      BY <3>1, FewFacts
    <3> QED
      BY <3>1, <3>2, <3>3 DEF Is
  <2>2. Queue(reply)
    BY <2>1 DEF HushedToSink
  <2> QED
    BY <1>1, <1>5, <2>1, <2>2, CalmQueues, JoinFacts
<1>9. ASSUME k = "M2"
      PROVE  /\ \A t, j : Occurs(toSink', t, j) <=>
                   Occurs(toSink, t, j) \/ Occurs(reply, t, j)
             /\ \A j : Occurs(reply, "response", j) <=> j = "M2"
             /\ \A j : Occurs(reply, "request", j) => j = "M3"
             /\ \A j \in {"M1", "M4", "M5"} : Once(toSink, "request", j) => Once(toSink', "request", j)
             /\ ~Occurs(toSink, "request", "M5") => Ahead(toSink', "response", "M2", "request", "M5")
             /\ Answers(toSink) => Answers(toSink')
  <2>1. /\ Response("M2").type = "response" /\ Response("M2").of = "M2"
        /\ Request("M3").type = "request" /\ Request("M3").of = "M3"
    BY DEF Response, Request
  <2>2. /\ Queue(reply) /\ Answers(reply)
        /\ \A j : Occurs(reply, "response", j) <=> j = "M2"
        /\ \A j : Occurs(reply, "request", j) => j = "M3"
    <3>1. ASSUME NEW m, m.type = "response", m.of = "M2", reply = <<m>>
          PROVE  /\ Queue(reply) /\ Answers(reply)
                 /\ \A j : Occurs(reply, "response", j) <=> j = "M2"
                 /\ \A j : Occurs(reply, "request", j) => j = "M3"
      <4>1. Queue(reply) /\ \A t, j : Occurs(reply, t, j) <=> Is(m, t, j)
        BY <3>1, FewFacts
      <4>2. DOMAIN reply = {1} /\ reply[1] = m
        BY <3>1
      <4> QED
        BY <3>1, <4>1, <4>2 DEF Is, Answers
    <3>2. ASSUME NEW m, NEW n, m.type = "response", m.of = "M2", n.type = "request", n.of = "M3",
                 reply = <<m, n>>
          PROVE  /\ Queue(reply) /\ Answers(reply)
                 /\ \A j : Occurs(reply, "response", j) <=> j = "M2"
                 /\ \A j : Occurs(reply, "request", j) => j = "M3"
      <4>1. Queue(reply) /\ \A t, j : Occurs(reply, t, j) <=> Is(m, t, j) \/ Is(n, t, j)
        BY <3>2, FewFacts
      <4>2. DOMAIN reply = {1, 2} /\ reply[1] = m /\ reply[2] = n
        BY <3>2
      <4> QED
        BY <3>2, <4>1, <4>2 DEF Is, Answers
    <3>3. reply = <<Response("M2")>> \/ reply = <<Response("M2"), Request("M3")>>
      BY <1>5, <1>9
    <3> QED
      BY <2>1, <3>1, <3>2, <3>3
  <2>3. /\ Once(reply, "request", "M1") /\ Once(reply, "request", "M4") /\ Once(reply, "request", "M5")
        /\ Ahead(reply, "response", "M2", "request", "M5")
    BY <2>2 DEF Once, Occurs, Ahead
  <2> DEFINE both == toSink \o reply
  <2>4. /\ \A t, j : Occurs(both, t, j) <=> Occurs(toSink, t, j) \/ Occurs(reply, t, j)
        /\ \A j : Once(toSink, "request", j) /\ Once(reply, "request", j) /\ ~Occurs(reply, "request", j)
                    => Once(both, "request", j)
    BY <1>1, <2>2, JoinFacts
  <2>5. /\ /\ Ahead(toSink, "response", "M2", "request", "M5")
           /\ Ahead(reply, "response", "M2", "request", "M5")
           /\ ~Occurs(toSink, "request", "M5")
           => Ahead(both, "response", "M2", "request", "M5")
        /\ Answers(toSink) => Answers(both)
    BY <1>1, <2>2, JoinOrder
  <2>6. Ahead(toSink, "response", "M2", "request", "M5")
    BY DEF Orderly, Supported
  <2>7. both = toSink'
    BY <1>5
  <2> HIDE DEF both
  <2> QED
    BY <2>2, <2>3, <2>4, <2>5, <2>6, <2>7
<1>10. SourceHeard
  <2>1. Probing(toSource, toSink) => Probing(toSource', toSink')
    BY <1>3, <1>5, <1>8, <1>9 DEF Probing
  <2>2. source.state = "Playing" => source'.state = "Playing"
    BY <1>3, <1>6 DEF Orderly, SetUpOnce
  <2> QED
    BY <1>5, <1>6, <2>1, <2>2 DEF SourceHeard
<1>11. CASE k = "M2"
  <2>1. Early /\ ~Occurs(toSink, "request", "M5") /\ sink.state \notin {"Ready", "Playing"}
    BY <1>1, <1>3, <1>11 DEF Orderly, Supported, NothingEarly
  <2>2. Greeting'
    BY <1>3, <1>5, <1>6, <1>9, <1>11 DEF Orderly, Greeting
  <2>3. Supported'
    BY <1>3, <1>5, <1>7, <1>9, <1>11, <2>1 DEF Orderly, Supported, CalmToSource
  <2>4. SetUpOnce'
    BY <1>3, <1>5, <1>6, <1>9, <1>11 DEF Orderly, SetUpOnce, CalmToSource
  <2>5. Answers(toSink') /\ ~Occurs(toSink', "request", "TEARDOWN")
    BY <1>9, <1>11 DEF Orderly
  <2> QED
    BY <1>10, <2>2, <2>3, <2>4, <2>5 DEF Orderly
<1>12. CASE k \in {"SETUP", "PLAY"}
  <2>1. /\ source.state \in {"AwaitingSetup", "Playing"} /\ ~Early
        /\ ~Occurs(toSink, "request", "M5") /\ ~Occurs(Tail(toSource), "request", "SETUP")
    BY <1>3, <1>12 DEF Orderly, SetUpOnce, Early
  <2>2. Greeting'
    BY <1>3, <1>5, <1>6, <1>8, <1>12 DEF Orderly, Greeting, CalmToSink, CalmToSource
  <2>3. Supported'
    BY <1>3, <1>5, <1>8, <1>12, <2>1 DEF Orderly, Supported, CalmToSink, CalmToSource
  <2>4. SetUpOnce'
    BY <1>3, <1>5, <1>6, <1>8, <1>12, <2>1 DEF Orderly, SetUpOnce, CalmToSink, CalmToSource
  <2>5. Answers(toSink') /\ ~Occurs(toSink', "request", "TEARDOWN")
    BY <1>8, <1>12 DEF Orderly, CalmToSink
  <2> QED
    BY <1>10, <2>2, <2>3, <2>4, <2>5 DEF Orderly
<1>13. CASE k \notin {"M2", "SETUP", "PLAY"}
  <2>1. CalmToSource(toSource', toSource)
    BY <1>3, <1>5
  <2> QED
    BY <1>6, <1>8, <1>10, <1>13, <2>1, CalmStep
<1> QED
  BY <1>11, <1>12, <1>13

(* What is on its way to the sink with one request more.                   *)
WithRequest(q, k, r) ==
  /\ \A t, j : Occurs(r, t, j) <=> Occurs(q, t, j) \/ (t = "request" /\ j = k)
  /\ \A j : Once(q, "request", j) /\ ~(j = k /\ Occurs(q, "request", j)) => Once(r, "request", j)
  /\ Ahead(q, "response", "M2", "request", "M5") => Ahead(r, "response", "M2", "request", "M5")
  /\ Answers(q) => Answers(r)

LEMMA OneMore ==
  ASSUME NEW q, Queue(q), NEW m, NEW k, Is(m, "request", k)
  PROVE  WithRequest(q, k, q \o <<m>>)
<1> DEFINE r == <<m>>
<1>1. /\ Queue(r) /\ \A t, j : Once(r, t, j)
      /\ \A t, j : Occurs(r, t, j) <=> t = "request" /\ j = k
  BY FewFacts DEF Is
<1>2. DOMAIN r = {1} /\ r[1] = m
  OBVIOUS
<1> HIDE DEF r
<1>3. Answers(r) /\ Ahead(r, "response", "M2", "request", "M5") /\ ~Occurs(r, "response", "M2")
  BY <1>1, <1>2 DEF Is, Answers, Ahead, Occurs
<1> DEFINE both == q \o r
<1>4. /\ \A t, j : Occurs(both, t, j) <=> Occurs(q, t, j) \/ (t = "request" /\ j = k)
      /\ \A j : Once(q, "request", j) /\ ~(j = k /\ Occurs(q, "request", j)) => Once(both, "request", j)
  BY <1>1, JoinFacts
<1>5. /\ Ahead(q, "response", "M2", "request", "M5") => Ahead(both, "response", "M2", "request", "M5")
      /\ Answers(q) => Answers(both)
  BY <1>1, <1>3, JoinOrder
<1> HIDE DEF both
<1>6. both = q \o <<m>>
  BY DEF both, r
<1> QED
  BY <1>4, <1>5, <1>6 DEF WithRequest

(* An answer the source takes in keeps the order.                          *)
LEMMA SourceResponseOrderly ==
  ASSUME RtspInv, Orderly, SourceHere, SourceHere', SinkHere, toSource # <<>>, sink' = sink,
         NEW k, Is(Head(toSource), "response", k),
         NEW heard, heard = JustHeard(source), SourceOnResponse(k, heard)
  PROVE  Orderly' /\ SourceHeard
<1>1. Queue(toSink) /\ Queue(toSource) /\ AskedOnce /\ NothingEarly
  BY DEF RtspInv, RtspType, HandshakeInv
<1>2. /\ heard.state = source.state /\ heard.last_heard = 0 /\ heard.asked_caps = source.asked_caps
      /\ heard.last_keepalive = source.last_keepalive /\ heard.port = source.port
      /\ heard.m1_answered = source.m1_answered /\ DOMAIN heard = DOMAIN source
  BY DEF RtspInv, RtspType, JustHeard
<1>3. /\ Occurs(toSource, "response", k)
      /\ Once(toSource, "response", k) => ~Occurs(Tail(toSource), "response", k)
      /\ \A u, l : Occurs(Tail(toSource), u, l) => Occurs(toSource, u, l)
      /\ \A u, l : Occurs(toSource, u, l) => Occurs(Tail(toSource), u, l) \/ (u = "response" /\ l = k)
      /\ \A u, l : Ahead(toSource, u, l, "response", k) => ~Occurs(Tail(toSource), u, l)
      /\ CalmToSource(Tail(toSource), toSource)
  <2>1. CalmToSource(Tail(toSource), toSource)
    BY <1>1, CalmQueues
  <2>2. Unread(toSource, "response", k, Tail(toSource))
    BY <1>1, ReadOne
  <2> QED
    BY <2>1, <2>2 DEF Unread
<1>4. DOMAIN source = {"state", "asked_caps", "m1_answered", "pending", "chosen", "port", "last_heard",
                       "last_keepalive", "want_idr", "want_kbps", "rate"}
  BY DEF RtspInv, RtspType
(* The choice that M4 carries is of no matter here.                        *)
<1>5. PICK s, chosen :
        /\ s = [heard EXCEPT !.pending = @ \ {k}]
        /\ \/ k = "M1" /\ SourceSend([s EXCEPT !.m1_answered = 0], <<>>)
           \/ /\ k = "M3"
              /\ SourceSend([s EXCEPT !.state = "Configuring", !.pending = @ \cup {"M4"},
                                      !.chosen = chosen],
                            <<[type |-> "request", of |-> "M4", selection |-> chosen]>>)
           \/ /\ k = "M4"
              /\ SourceSend([s EXCEPT !.state = "AwaitingSetup", !.pending = @ \cup {"M5"}],
                            <<Request("M5")>>)
           \/ k \in {"M5", "Keepalive"} /\ SourceSend(s, <<>>)
  <2> DEFINE refusal == Refusal(cast.display, cast.mode, cast.ceiling)
             ceiling == PictureCeiling(cast.display, cast.ceiling)
             chosen == Selection(cast.display, cast.mode, ceiling)
             s == [heard EXCEPT !.pending = @ \ {k}]
  <2>1. \/ k = "M1" /\ SourceSend([s EXCEPT !.m1_answered = 0], <<>>)
        \/ /\ k = "M3" /\ refusal = None
           /\ SourceSend([s EXCEPT !.state = "Configuring", !.pending = @ \cup {"M4"},
                                   !.chosen = chosen],
                         <<[type |-> "request", of |-> "M4", selection |-> chosen]>>)
        \/ k = "M3" /\ refusal # None /\ SourceEnds(refusal, Tail(toSource))
        \/ /\ k = "M4"
           /\ SourceSend([s EXCEPT !.state = "AwaitingSetup", !.pending = @ \cup {"M5"}],
                         <<Request("M5")>>)
        \/ k \in {"M5", "Keepalive"} /\ SourceSend(s, <<>>)
    BY DEF SourceOnResponse
  <2> HIDE DEF refusal, chosen
  <2>2. refusal # None => ~SourceEnds(refusal, Tail(toSource))
    BY DEF SourceEnds, SourceHere, RtspInv, RtspType
  <2> QED
    BY <2>1, <2>2
<1>6. /\ s.state = source.state /\ s.last_heard = 0 /\ s.last_keepalive = source.last_keepalive
      /\ s.asked_caps = source.asked_caps /\ s.port = source.port
      /\ s.m1_answered = source.m1_answered /\ DOMAIN s = DOMAIN source
  BY <1>2, <1>4, <1>5
<1>7. /\ ended' = ended /\ toSource' = Tail(toSource)
      /\ source'.last_heard = 0 /\ source'.last_keepalive = source.last_keepalive
      /\ source'.asked_caps = source.asked_caps /\ source'.port = source.port
      /\ k # "M1" => source'.m1_answered = source.m1_answered
      /\ k = "M3" => source'.state = "Configuring"
      /\ k = "M4" => source'.state = "AwaitingSetup"
      /\ k \notin {"M3", "M4"} => source'.state = source.state
  BY <1>4, <1>5, <1>6, Zenon DEF SourceSend
<1>8. k \notin {"M3", "M4"} => toSink' = toSink
  <2>1. toSink \o <<>> = toSink
    BY <1>1, ConcatEmptySeq DEF Queue
  <2> QED
    BY <1>5, <2>1 DEF SourceSend, ToSink
<1>9. /\ k = "M3" => WithRequest(toSink, "M4", toSink')
      /\ k = "M4" => WithRequest(toSink, "M5", toSink')
  <2>1. ASSUME NEW next, NEW m, Is(m, "request", next), toSink' = toSink \o <<m>>
        PROVE  WithRequest(toSink, next, toSink')
    BY <1>1, <2>1, OneMore
  <2>2. CASE k = "M3"
    <3> DEFINE m == [type |-> "request", of |-> "M4", selection |-> chosen]
    <3>1. Is(m, "request", "M4") /\ toSink' = toSink \o <<m>>
      BY <1>5, <2>2 DEF SourceSend, ToSink, Is
    <3> HIDE DEF m
    <3> QED
      BY <2>1, <2>2, <3>1
  <2>3. CASE k = "M4"
    <3> DEFINE m == Request("M5")
    <3>1. Is(m, "request", "M5") /\ toSink' = toSink \o <<m>>
      BY <1>5, <2>3 DEF SourceSend, ToSink, Is, Request
    <3> HIDE DEF m
    <3> QED
      BY <2>1, <2>3, <3>1
  <2> QED
    BY <2>2, <2>3
<1>10. k \in {"M1", "M3", "M4", "M5", "Keepalive"}
  BY <1>5
<1>11. SourceHeard
  <2>1. \A t, j : Occurs(toSink, t, j) => Occurs(toSink', t, j)
    BY <1>8, <1>9, <1>10 DEF WithRequest
  <2>2. Probing(toSource, toSink) => Probing(toSource', toSink')
    BY <1>3, <1>7, <2>1 DEF Probing
  <2>3. source.state = "Playing" => source'.state = "Playing"
    BY <1>1, <1>3, <1>7 DEF Orderly, SetUpOnce, AskedOnce, Early
  <2> QED
    BY <1>7, <2>2, <2>3 DEF SourceHeard
<1>12. CASE k \in {"M5", "Keepalive"}
  <2>1. CalmToSink(toSink', toSink)
    BY <1>1, <1>8, <1>12, CalmQueues
  <2> QED
    BY <1>3, <1>7, <1>11, <1>12, <2>1, CalmStep
<1>13. CASE k = "M1"
  <2>1. toSink' = toSink /\ ~Occurs(toSink, "request", "M1") /\ (Early' <=> Early)
    BY <1>3, <1>7, <1>8, <1>13 DEF Orderly, Greeting, Early
  <2>2. Greeting'
    BY <2>1 DEF Orderly, Greeting
  <2>3. Supported'
    BY <1>3, <1>7, <2>1 DEF Orderly, Supported, CalmToSource
  <2>4. SetUpOnce'
    BY <1>3, <1>7, <1>13, <2>1 DEF Orderly, SetUpOnce, CalmToSource
  <2> QED
    BY <1>11, <2>1, <2>2, <2>3, <2>4 DEF Orderly
<1>14. CASE k = "M3"
  <2>1. Early /\ ~Occurs(Tail(toSource), "request", "M2") /\ ~source.port
    BY <1>1, <1>3, <1>14 DEF Orderly, Supported, SetUpOnce, AskedOnce, Early
  <2>2. /\ ~Occurs(toSink, "request", "M4") /\ ~Occurs(toSink, "request", "M5")
        /\ ~Occurs(toSource, "response", "M4") /\ ~Occurs(toSource, "request", "SETUP")
    BY <1>1, <2>1 DEF NothingEarly
  <2>3. Greeting'
    BY <1>3, <1>7, <1>9, <1>14 DEF Orderly, Greeting, CalmToSource, WithRequest
  <2>4. Supported'
    BY <1>3, <1>7, <1>9, <1>14, <2>1 DEF Orderly, Supported, CalmToSource, WithRequest
  <2>5. SetUpOnce'
    BY <1>3, <1>7, <1>9, <1>14, <2>1, <2>2 DEF Orderly, SetUpOnce, CalmToSource, WithRequest
  <2>6. Answers(toSink') /\ ~Occurs(toSink', "request", "TEARDOWN")
    BY <1>9, <1>14 DEF Orderly, WithRequest
  <2> QED
    BY <1>11, <2>3, <2>4, <2>5, <2>6 DEF Orderly
<1>15. CASE k = "M4"
  <2>1. /\ source.state = "Configuring" /\ ~Early /\ ~source.port
        /\ ~Occurs(toSink, "request", "M4") /\ ~Occurs(toSink, "request", "M5")
        /\ ~Occurs(Tail(toSource), "response", "M4") /\ ~Occurs(toSource, "request", "SETUP")
    BY <1>3, <1>15 DEF Orderly, SetUpOnce, Early
  <2>2. ~Occurs(Tail(toSource), "request", "M2")
    BY <1>3, <2>1 DEF Orderly, Supported
  <2>3. Greeting'
    BY <1>3, <1>7, <1>9, <1>15 DEF Orderly, Greeting, CalmToSource, WithRequest
  <2>4. Supported'
    BY <1>3, <1>7, <1>9, <1>15, <2>2 DEF Orderly, Supported, CalmToSource, WithRequest
  <2>5. SetUpOnce'
    BY <1>3, <1>7, <1>9, <1>15, <2>1 DEF Orderly, SetUpOnce, CalmToSource, WithRequest
  <2>6. Answers(toSink') /\ ~Occurs(toSink', "request", "TEARDOWN")
    BY <1>9, <1>15 DEF Orderly, WithRequest
  <2> QED
    BY <1>11, <2>3, <2>4, <2>5, <2>6 DEF Orderly
<1> QED
  BY <1>10, <1>12, <1>13, <1>14, <1>15

(* A request the source makes of its own accord keeps the order.           *)
LEMMA SourceAsksOrderly ==
  ASSUME Orderly, NEW k \in {"M3", "Keepalive"}, WithRequest(toSink, k, toSink'),
         toSource' = toSource, sink' = sink,
         source'.state = source.state, source'.port = source.port,
         source'.m1_answered = source.m1_answered,
         source'.asked_caps # source.asked_caps => source.m1_answered # None
  PROVE  Orderly'
<1>1. Early' <=> Early
  BY DEF Early
<1>2. Greeting'
  BY DEF Orderly, Greeting, WithRequest
<1>3. Supported'
  BY <1>1 DEF Orderly, Supported, WithRequest
<1>4. SetUpOnce'
  BY DEF Orderly, SetUpOnce, WithRequest
<1>5. Answers(toSink') /\ ~Occurs(toSink', "request", "TEARDOWN")
  BY DEF Orderly, WithRequest
<1> QED
  BY <1>2, <1>3, <1>4, <1>5 DEF Orderly

(* What the sink says of its own accord keeps the order, too.              *)
LEMMA ChatterOrderly ==
  ASSUME RtspInv, Orderly, SourceHere, NEW msgs, Chatter(msgs), SinkSend(msgs), toSink' = toSink,
         source'.state = source.state, source'.asked_caps = source.asked_caps,
         source'.port = source.port, source'.m1_answered = source.m1_answered,
         sink'.state = sink.state
  PROVE  /\ Orderly' /\ ended' = ended
         /\ \A t, k : Occurs(toSource', t, k) <=> Occurs(toSource, t, k) \/ Occurs(msgs, t, k)
         /\ Probing(toSink, toSource) => Probing(toSink', toSource')
         /\ Probing(toSource, toSink) => Probing(toSource', toSink')
<1>1. Queue(toSink) /\ Queue(toSource) /\ HushedToSource(msgs) /\ Queue(msgs)
  BY HushedMessages DEF RtspInv, RtspType, Chatter
<1>2. toSource' = toSource \o msgs /\ ended' = ended
  BY DEF SinkSend, ToSource
<1>3. CalmToSink(toSink', toSink) /\ CalmToSource(toSource', toSource)
  BY <1>1, <1>2, CalmQueues
<1>4. \A t, k : Occurs(toSource', t, k) <=> Occurs(toSource, t, k) \/ Occurs(msgs, t, k)
  BY <1>1, <1>2, JoinFacts
<1>5. Orderly'
  BY <1>3, CalmStep
<1> QED
  BY <1>2, <1>4, <1>5 DEF Probing

(* What the limits are.                                                    *)
LEMMA Limits ==
  /\ None \notin Nat /\ None # 0
  /\ KeepaliveEvery \in Nat /\ KeepaliveTimeout \in Nat /\ MediaSilence \in Nat
  /\ KeepaliveEvery <= KeepaliveTimeout /\ 1 <= MediaSilence
  /\ 0 <= KeepaliveEvery /\ 0 <= MediaSilence
<1>1. None \notin Int
  BY RtspAssumption
<1>2. \A n \in Nat : n \in Int
  OBVIOUS
<1>3. None \notin Nat
  BY <1>1, <1>2, Zenon
<1>4. KeepaliveEvery \in Nat /\ KeepaliveTimeout \in Nat /\ MediaSilence \in Nat
  BY RtspAssumption
<1>5. KeepaliveEvery <= KeepaliveTimeout /\ MediaSilence >= 1
  BY RtspAssumption
<1> QED
  BY <1>3, <1>4, <1>5

(* What time does to an age.                                               *)
LEMMA Aging ==
  ASSUME NEW age \in Age, NEW limit \in Nat
  PROVE  /\ Older(age, limit) \in Age /\ (Older(age, limit) = None <=> age = None)
         /\ age # None => age \in Nat /\ Older(age, limit) = IF age > limit THEN age ELSE age + 1
<1>1. CASE age = None
  BY <1>1 DEF Older, Age
<1>2. CASE age # None
  <2>1. age \in Nat /\ None \notin Nat
    BY <1>2, Limits DEF Age
  <2>2. Older(age, limit) = IF age > limit THEN age ELSE age + 1
    BY <1>2 DEF Older
  <2>3. Older(age, limit) \in Nat
    BY <2>1, <2>2
  <2> QED
    BY <1>2, <2>1, <2>2, <2>3 DEF Age
<1> QED
  BY <1>1, <1>2

(* Every age stays one.                                                    *)
LEMMA AgesStep ==
  ASSUME RtspInv, Ages, [Next]_vars
  PROVE  Ages'
<1> DEFINE SinkAges == sink'.last_heard \in Age /\ sink'.last_keepalive \in Age /\ sink'.last_media \in Age
           SourceAges == source'.last_heard \in Age /\ source'.last_keepalive \in Age
<1>1. /\ DOMAIN source = {"state", "asked_caps", "m1_answered", "pending", "chosen", "port", "last_heard",
                          "last_keepalive", "want_idr", "want_kbps", "rate"}
      /\ DOMAIN sink = {"state", "chosen", "peer_session", "playing", "last_heard", "last_keepalive",
                        "last_media", "last_idr", "rung", "sampled"}
      /\ 0 \in Age /\ None \in Age
  BY DEF RtspInv, RtspType, Age
<1>2. sink' = sink => SinkAges
  BY DEF Ages
<1>3. source' = source => SourceAges
  BY DEF Ages
<1>4. \A why, unread : SinkEnds(why, unread) => SinkAges
  BY <1>1 DEF SinkEnds, NewSink
<1>5. \A why, unread : SourceEnds(why, unread) => SourceAges
  BY <1>1 DEF SourceEnds, NewSource
<1>6. source' \in Encoded => SourceAges
  <2> SUFFICES ASSUME source' \in Encoded
               PROVE  SourceAges
    OBVIOUS
  <2>1. PICK r : source' = [source EXCEPT !.want_idr = FALSE, !.want_kbps = None, !.rate = r]
    BY DEF Encoded
  <2> QED
    BY <1>1, <2>1 DEF Ages
<1>7. CASE SinkReceive
  <2> DEFINE heard == [sink EXCEPT !.last_heard = 0]
  <2>1. /\ heard.last_heard \in Age /\ heard.last_keepalive \in Age /\ heard.last_media \in Age
        /\ DOMAIN heard = DOMAIN sink
    BY <1>1 DEF Ages
  <2>2. \/ \E why, unread : SinkEnds(why, unread)
        \/ sink' = heard
        \/ \E st : sink' = [heard EXCEPT !.state = st]
        \/ \E c : sink' = [heard EXCEPT !.chosen = c]
        \/ sink' = [heard EXCEPT !.peer_session = TRUE, !.state = "Playing", !.playing = TRUE]
    BY <1>7, Zenon DEF SinkReceive, SinkOnRequest, SinkOnResponse
  <2> HIDE DEF heard
  <2>3. SinkAges
    BY <1>1, <1>4, <2>1, <2>2
  <2> HIDE DEF SinkAges
  <2>4. source' = source
    BY <1>7 DEF SinkReceive
  <2> QED
    BY <1>3, <2>3, <2>4 DEF Ages, SinkAges
<1>8. CASE SinkSeesClose \/ SinkSilence
  BY <1>3, <1>4, <1>8 DEF SinkSeesClose, SinkSilence, Ages
<1>9. CASE SinkTick
  <2>1. PICK rung : LET s == [sink EXCEPT !.rung = rung, !.sampled = @ \/ rung # sink.rung]
                    IN \/ SinkEnds("timeout", toSink)
                       \/ sink' = [s EXCEPT !.last_keepalive = 0]
                       \/ sink' = s
    BY <1>9, Zenon DEF SinkTick
  <2>2. SinkAges
    BY <1>1, <1>4, <2>1 DEF Ages
  <2>3. source' = source
    BY <1>9 DEF SinkTick
  <2> QED
    BY <1>3, <2>2, <2>3 DEF Ages
<1>10. CASE DecodeError
  BY <1>1, <1>3, <1>10 DEF DecodeError, IdrAsked, Ages
<1>11. CASE MediaArrives
  <2>1. PICK rung : LET s == [sink EXCEPT !.last_media = 0, !.rung = rung, !.sampled = @ \/ rung # sink.rung]
                    IN sink' = IF gap THEN IdrAsked(s) ELSE s
    BY <1>11, Zenon DEF MediaArrives
  <2>2. SinkAges
    BY <1>1, <2>1 DEF IdrAsked, Ages
  <2>3. source' \in Encoded
    BY <1>11 DEF MediaArrives
  <2> QED
    BY <1>6, <2>2, <2>3 DEF Ages
<1>12. CASE MediaLost
  BY <1>2, <1>6, <1>12 DEF MediaLost, Ages
<1>13. CASE SourceReceive
  <2> DEFINE heard == [source EXCEPT !.last_heard = 0]
  <2>1. /\ heard.last_heard \in Age /\ heard.last_keepalive \in Age
        /\ DOMAIN heard = DOMAIN source
    BY <1>1 DEF Ages
  <2>2. \/ \E why, unread : SourceEnds(why, unread)
        \/ source' = heard
        \/ source' = Asking(heard)
        \/ source' = [heard EXCEPT !.port = TRUE, !.state = "AwaitingSetup"]
        \/ source' = StartMedia([heard EXCEPT !.state = "Playing"])
        \/ source' = [heard EXCEPT !.want_idr = TRUE]
        \/ \E n : source' = [heard EXCEPT !.want_kbps = n]
        \/ \E k : LET s == [heard EXCEPT !.pending = @ \ {k}]
                  IN \/ source' = s
                     \/ source' = [s EXCEPT !.m1_answered = 0]
                     \/ \E c : source' = [s EXCEPT !.state = "Configuring", !.pending = @ \cup {"M4"},
                                                   !.chosen = c]
                     \/ source' = [s EXCEPT !.state = "AwaitingSetup", !.pending = @ \cup {"M5"}]
    <3>1. CASE \E k : SourceOnRequest(k, heard)
      BY <3>1, Zenon DEF SourceOnRequest, SourceSend
    <3>2. CASE \E k : SourceOnResponse(k, heard)
      BY <3>2, Zenon DEF SourceOnResponse, SourceSend
    <3> QED
      BY <1>13, <3>1, <3>2, Zenon DEF SourceReceive
  <2> HIDE DEF heard
  <2>3. SourceAges
    <3>1. CASE \E why, unread : SourceEnds(why, unread)
      BY <1>5, <3>1
    <3>2. CASE \/ source' = heard
               \/ source' = Asking(heard)
               \/ source' = [heard EXCEPT !.port = TRUE, !.state = "AwaitingSetup"]
               \/ source' = StartMedia([heard EXCEPT !.state = "Playing"])
               \/ source' = [heard EXCEPT !.want_idr = TRUE]
               \/ \E n : source' = [heard EXCEPT !.want_kbps = n]
      BY <1>1, <2>1, <3>2 DEF Asking, StartMedia
    <3>3. CASE \E k : LET s == [heard EXCEPT !.pending = @ \ {k}]
                      IN \/ source' = s
                         \/ source' = [s EXCEPT !.m1_answered = 0]
                         \/ \E c : source' = [s EXCEPT !.state = "Configuring",
                                                       !.pending = @ \cup {"M4"}, !.chosen = c]
                         \/ source' = [s EXCEPT !.state = "AwaitingSetup", !.pending = @ \cup {"M5"}]
      BY <1>1, <2>1, <3>3
    <3> QED
      BY <2>2, <3>1, <3>2, <3>3, Zenon
  <2>4. sink' = sink
    BY <1>13 DEF SourceReceive
  <2> QED
    BY <1>2, <2>3, <2>4 DEF Ages
<1>14. CASE SourceSeesClose \/ Stop \/ MediaFails \/ SourceTimeout
  BY <1>2, <1>5, <1>14 DEF SourceSeesClose, Stop, MediaFails, SourceTimeout, Ages
<1>15. CASE AskAnyway \/ SourceKeepalive
  BY <1>1, <1>15 DEF AskAnyway, SourceKeepalive, SourceTicks, Asking, Ages
<1>16. CASE Stall \/ Recover \/ UNCHANGED vars
  BY <1>2, <1>3, <1>16 DEF Stall, Recover, vars, Ages
<1>17. CASE Clock
  <2>1. \A age \in Age : \A limit \in Nat : Older(age, limit) \in Age
    BY Aging
  <2>2. KeepaliveTimeout \in Nat /\ KeepaliveEvery \in Nat /\ MediaSilence \in Nat
    BY Limits
  <2> QED
    BY <1>1, <1>17, <2>1, <2>2 DEF Clock, Ages
<1> QED
  BY <1>7, <1>8, <1>9, <1>10, <1>11, <1>12, <1>13, <1>14, <1>15, <1>16, <1>17
     DEF Next, SinkStep, SourceStep

(* Nobody is late as long as whoever hears nothing asks.                   *)
LEMMA OnTimeStep ==
  ASSUME Ages', SourceOnTime, SinkOnTime, MediaFlows,
         \/ source'.last_heard = 0
         \/ /\ source'.state = source.state /\ source'.last_heard = source.last_heard
            /\ \/ Occurs(toSink', "request", "Keepalive")
               \/ /\ source'.last_keepalive = source.last_keepalive
                  /\ Probing(toSink, toSource) => Probing(toSink', toSource'),
         \/ sink'.last_heard = 0
         \/ /\ sink'.last_heard = sink.last_heard
            /\ \/ Occurs(toSource', "request", "Keepalive")
               \/ /\ sink'.last_keepalive = sink.last_keepalive
                  /\ Probing(toSource, toSink) => Probing(toSource', toSink'),
         \/ /\ sink'.last_media = sink.last_media /\ (sink.playing => sink'.playing)
            /\ source.state = "Playing" => source'.state = "Playing"
         \/ sink'.last_media = 0 /\ sink'.playing /\ source'.state = "Playing"
  PROVE  SourceOnTime' /\ SinkOnTime' /\ MediaFlows'
<1>1. /\ KeepaliveEvery \in Nat /\ MediaSilence \in Nat /\ None \notin Nat
      /\ None # 0 /\ 0 <= KeepaliveEvery /\ 0 <= MediaSilence
  BY Limits
<1>2. /\ source'.last_keepalive # None => 0 <= source'.last_keepalive
      /\ sink'.last_keepalive # None => 0 <= sink'.last_keepalive
  <2>1. \A age \in Age : age # None => 0 <= age
    BY DEF Age
  <2> QED
    BY <2>1 DEF Ages
<1>3. SourceOnTime'
  <2>1. CASE source'.last_heard = 0
    BY <1>1, <1>2, <2>1 DEF SourceOnTime
  <2>2. CASE source'.last_heard # 0
    BY <2>2 DEF SourceOnTime, Probing
  <2> QED
    BY <2>1, <2>2
<1>4. SinkOnTime'
  <2>1. CASE sink'.last_heard = 0
    BY <1>1, <1>2, <2>1 DEF SinkOnTime
  <2>2. CASE sink'.last_heard # 0
    BY <2>2 DEF SinkOnTime, Probing
  <2> QED
    BY <2>1, <2>2
<1>5. MediaFlows'
  BY <1>1 DEF MediaFlows
<1> QED
  BY <1>3, <1>4, <1>5

(* A tick of the clock finds nobody late: what was asked has been answered.*)
LEMMA OnTimeClock ==
  ASSUME RtspInv, Ages, SourceHere, SinkHere, link = "up",
         SourceOnTime, SinkOnTime, MediaFlows, Clock
  PROVE  SourceOnTime' /\ SinkOnTime' /\ MediaFlows'
<1>1. /\ KeepaliveEvery \in Nat /\ KeepaliveTimeout \in Nat /\ MediaSilence \in Nat
      /\ KeepaliveEvery <= KeepaliveTimeout /\ 1 <= MediaSilence /\ None \notin Nat
  BY Limits
<1>2. /\ DOMAIN source = {"state", "asked_caps", "m1_answered", "pending", "chosen", "port", "last_heard",
                          "last_keepalive", "want_idr", "want_kbps", "rate"}
      /\ DOMAIN sink = {"state", "chosen", "peer_session", "playing", "last_heard", "last_keepalive",
                        "last_media", "last_idr", "rung", "sampled"}
  BY DEF RtspInv, RtspType
<1>3. /\ source'.state = source.state
      /\ source'.last_heard = Older(source.last_heard, KeepaliveTimeout)
      /\ source'.last_keepalive = Older(source.last_keepalive, KeepaliveEvery)
      /\ sink'.playing = sink.playing
      /\ sink'.last_heard = Older(sink.last_heard, KeepaliveTimeout)
      /\ sink'.last_keepalive = Older(sink.last_keepalive, KeepaliveEvery)
      /\ sink'.last_media = Older(sink.last_media, MediaSilence)
      /\ toSink = <<>> /\ toSource = <<>>
      /\ ~GraceOver /\ ~SourceTimeoutDue /\ ~SourceKeepaliveDue /\ ~SinkKeepaliveDue
      /\ Encoding /\ sink.playing => sink.last_media \in {None, 0}
  BY <1>2 DEF Clock
<1>4. ~Probing(toSink, toSource) /\ ~Probing(toSource, toSink)
  BY <1>3, FewFacts DEF Probing
<1>5. SourceOnTime'
  <2> SUFFICES ASSUME source.state = "Playing"
               PROVE  /\ source'.last_heard # None /\ source'.last_heard <= KeepaliveEvery
                      /\ source'.last_keepalive # None => source'.last_heard <= source'.last_keepalive
    BY <1>3 DEF SourceOnTime
  <2>1. source.last_keepalive # None /\ ~(source.last_keepalive >= KeepaliveEvery)
    BY <1>3 DEF SourceKeepaliveDue, Elapsed
  <2>2. source.last_heard # None /\ source.last_heard <= source.last_keepalive
    BY <1>4, <2>1 DEF SourceOnTime
  <2>3. source.last_heard \in Nat /\ source.last_keepalive \in Nat
    BY <2>1, <2>2 DEF Ages, Age
  <2>4. /\ source'.last_heard = source.last_heard + 1
        /\ source'.last_keepalive = source.last_keepalive + 1
    <3>1. ~(source.last_heard > KeepaliveTimeout) /\ ~(source.last_keepalive > KeepaliveEvery)
      BY <1>1, <2>1, <2>2, <2>3
    <3> QED
      BY <1>3, <2>1, <2>2, <3>1 DEF Older
  <2> QED
    BY <1>1, <2>1, <2>2, <2>3, <2>4
<1>6. SinkOnTime'
  <2> SUFFICES ASSUME sink'.last_heard # None
               PROVE  /\ sink'.last_heard <= KeepaliveEvery
                      /\ sink'.last_keepalive # None => sink'.last_heard <= sink'.last_keepalive
    BY DEF SinkOnTime
  <2>1. sink.last_heard # None
    BY <1>1, <1>3, Aging DEF Ages
  <2>2. sink.last_heard \in Nat
    BY <2>1 DEF Ages, Age
  <2>3. CASE sink.last_keepalive = None
    <3>1. ~(sink.last_heard >= KeepaliveEvery)
      BY <1>3, <2>1, <2>3 DEF SinkKeepaliveDue
    <3>2. ~(sink.last_heard > KeepaliveTimeout)
      BY <1>1, <2>2, <3>1
    <3>3. sink'.last_heard = sink.last_heard + 1 /\ sink'.last_keepalive = None
      BY <1>3, <2>1, <2>3, <3>2 DEF Older
    <3> QED
      BY <1>1, <2>2, <3>1, <3>3
  <2>4. CASE sink.last_keepalive # None
    <3>1. ~(sink.last_keepalive >= KeepaliveEvery)
      BY <1>3, <2>4 DEF SinkKeepaliveDue
    <3>2. sink.last_heard <= sink.last_keepalive /\ sink.last_keepalive \in Nat
      BY <1>4, <2>1, <2>4 DEF SinkOnTime, Ages, Age
    <3>3. ~(sink.last_heard > KeepaliveTimeout) /\ ~(sink.last_keepalive > KeepaliveEvery)
      BY <1>1, <2>2, <3>1, <3>2
    <3>4. /\ sink'.last_heard = sink.last_heard + 1
          /\ sink'.last_keepalive = sink.last_keepalive + 1
      BY <1>3, <2>1, <2>4, <3>3 DEF Older
    <3> QED
      BY <1>1, <2>2, <3>1, <3>2, <3>4
  <2> QED
    BY <2>3, <2>4
<1>7. MediaFlows'
  <2> SUFFICES ASSUME sink'.last_media # None
               PROVE  source'.state = "Playing" /\ sink'.playing /\ sink'.last_media <= MediaSilence
    BY DEF MediaFlows
  <2>1. sink.last_media # None
    BY <1>1, <1>3, Aging DEF Ages
  <2>2. source.state = "Playing" /\ sink.playing
    BY <2>1 DEF MediaFlows
  <2>3. sink.last_media = 0
    BY <1>3, <2>1, <2>2 DEF Encoding
  <2>4. sink'.last_media = 1
    <3>1. ~(0 > MediaSilence) /\ 0 # None /\ 0 + 1 = 1
      BY <1>1
    <3> QED
      BY <1>3, <2>3, <3>1 DEF Older
  <2> QED
    BY <1>1, <1>3, <2>2, <2>4
<1> QED
  BY <1>5, <1>6, <1>7

(* A session starts healthy.                                               *)
LEMMA HealthInitInv == Init => HealthInv
<1> SUFFICES ASSUME Init
             PROVE  HealthInv
  OBVIOUS
<1>1. RtspInv
  BY RtspInitInv
<1>2. /\ source = NewSource /\ sink = NewSink /\ toSource = <<>> /\ toSink = <<Request("M1")>>
      /\ link = "up" /\ stalls = 0 /\ ended = [source |-> None, sink |-> None]
  BY DEF Init
<1>3. /\ source.state = "AwaitingCaps" /\ ~source.asked_caps /\ source.m1_answered = None
      /\ source.port = FALSE /\ source.last_heard = None /\ source.last_keepalive = None
      /\ sink.state = "Init" /\ sink.last_heard = None /\ sink.last_keepalive = None
      /\ sink.last_media = None
  BY <1>2 DEF NewSource, NewSink
<1>4. Ages
  BY <1>3 DEF Ages, Age
<1> DEFINE m == Request("M1")
<1>5. m.type = "request" /\ m.of = "M1" /\ toSink = <<m>>
  BY <1>2 DEF Request
<1> HIDE DEF m
<1>6. /\ \A t, k : ~Occurs(toSource, t, k) /\ Once(toSource, t, k) /\ Once(toSink, t, k)
      /\ \A t, k : Occurs(toSink, t, k) <=> t = "request" /\ k = "M1"
  BY <1>2, <1>5, FewFacts DEF Is
<1>7. Answers(toSink)
  <2>1. DOMAIN toSink = {1} /\ toSink[1] = m
    BY <1>5
  <2> QED
    BY <1>5, <2>1 DEF Answers
<1>8. /\ Ahead(toSource, "request", "M2", "response", "M3")
      /\ Ahead(toSink, "response", "M2", "request", "M5")
  <2>1. ~Occurs(toSource, "request", "M2") /\ ~Occurs(toSink, "response", "M2")
    BY <1>6
  <2> QED
    BY <2>1 DEF Ahead, Occurs
<1>9. Orderly
  BY <1>3, <1>6, <1>7, <1>8 DEF Orderly, Greeting, Supported, SetUpOnce
<1>10. SourceOnTime /\ SinkOnTime /\ MediaFlows
  BY <1>3 DEF SourceOnTime, SinkOnTime, MediaFlows
<1>11. Healthy
  <2>1. SourceHere /\ SinkHere /\ ended.source = None
    BY <1>2 DEF SourceHere, SinkHere
  <2>2. None \notin {"closed", "timeout"}
    BY RtspAssumption
  <2> QED
    BY <1>2, <1>9, <1>10, <2>1, <2>2 DEF Healthy
<1> QED
  BY <1>1, <1>2, <1>4, <1>11 DEF HealthInv

(* A choice that cannot be made is neither a lost connection nor silence.  *)
LEMMA RefusalIsNoFault ==
  ASSUME NEW display, NEW mode, NEW ceiling
  PROVE  Refusal(display, mode, ceiling) \notin {"closed", "timeout"}
  BY RtspAssumption, Zenon DEF Refusal

(* The source gives up, for a reason of its own.                           *)
LEMMA SourceLeavesHealthy ==
  ASSUME Healthy, link' = link, NEW why, NEW unread, SourceEnds(why, unread),
         why \notin {None, "closed", "timeout"}, DOMAIN ended = {"source", "sink"}
  PROVE  Healthy'
<1>1. ended'.source = why
  BY DEF SourceEnds
<1> QED
  BY <1>1 DEF Healthy, SourceHere

(* The sink's keep-alive goes out behind what else it has to say.          *)
LEMMA AsksIfAlive ==
  ASSUME NEW rung
  PROVE  Occurs(Append(LadderRequest(rung), Request("Keepalive")), "request", "Keepalive")
<1> DEFINE alive == Request("Keepalive")
           rate == LadderRequest(rung)
<1>1. Is(alive, "request", "Keepalive") /\ Queue(rate)
  BY SinkChatter DEF Is, Request, Chatter
<1> HIDE DEF alive, rate
<1>2. Append(rate, alive) = rate \o <<alive>>
  <2>1. rate \in Seq(Range(rate) \union {alive})
    BY <1>1, SeqMonotonic DEF Queue
  <2> QED
    BY <2>1, AppendIsConcat
<1>3. Occurs(rate \o <<alive>>, "request", "Keepalive")
  BY <1>1, OneMore DEF WithRequest
<1> QED
  BY <1>2, <1>3 DEF alive, rate

(* Nothing a working link does ends a session.                             *)
LEMMA HealthyStep ==
  ASSUME RtspInv, Ages, Ages', Healthy, SourceHere, [Next]_vars, stalls = 0, stalls' = 0
  PROVE  Healthy'
<1>1. /\ link = "up" /\ SinkHere /\ Orderly /\ SourceOnTime /\ SinkOnTime /\ MediaFlows
      /\ ended.source \notin {"closed", "timeout"}
  BY DEF Healthy
<1>2. /\ DOMAIN source = {"state", "asked_caps", "m1_answered", "pending", "chosen", "port", "last_heard",
                          "last_keepalive", "want_idr", "want_kbps", "rate"}
      /\ DOMAIN sink = {"state", "chosen", "peer_session", "playing", "last_heard", "last_keepalive",
                        "last_media", "last_idr", "rung", "sampled"}
      /\ DOMAIN ended = {"source", "sink"}
      /\ Queue(toSink) /\ Queue(toSource)
  BY DEF RtspInv, RtspType
(* It is enough that both ends stay and the order and the times are kept.  *)
<1>3. ASSUME link' = link, ended' = ended, Orderly', SourceOnTime', SinkOnTime', MediaFlows'
      PROVE  Healthy'
  BY <1>1, <1>3 DEF Healthy, SourceHere, SinkHere
<1>4. CASE SinkReceive
  <2> DEFINE m == Head(toSink)
             heard == JustHeard(sink)
             k == m.of
  <2>1. /\ toSink # <<>> /\ source' = source /\ link' = link
        /\ \/ m.type = "request" /\ SinkOnRequest(k, heard)
           \/ m.type = "response" /\ SinkOnResponse(m, heard)
    BY <1>4 DEF SinkReceive, JustHeard
  <2> HIDE DEF heard
  <2>2. Orderly' /\ SinkHeard
    <3>1. CASE m.type = "request" /\ SinkOnRequest(k, heard)
      <4>1. Is(Head(toSink), "request", k)
        BY <3>1 DEF Is
      <4> HIDE DEF k
      <4> QED
        BY <1>1, <2>1, <3>1, <4>1, SinkRequestOrderly DEF heard
    <3>2. CASE m.type = "response" /\ SinkOnResponse(m, heard)
      BY <1>1, <2>1, <3>2, SinkResponseOrderly DEF heard
    <3> QED
      BY <2>1, <3>1, <3>2
  <2>3. SourceOnTime' /\ SinkOnTime' /\ MediaFlows'
    BY <1>1, <2>1, <2>2, OnTimeStep DEF SinkHeard
  <2> QED
    BY <1>3, <2>1, <2>2, <2>3 DEF SinkHeard
<1>5. ~SinkSeesClose /\ ~SourceSeesClose
  BY <1>1 DEF SinkSeesClose, SourceSeesClose
<1>6. ~SinkSilenceDue /\ ~SinkTimeoutDue /\ ~SourceTimeoutDue
  <2>1. ~SinkSilenceDue
    BY <1>1, Limits DEF MediaFlows, SinkSilenceDue, Ages, Age
  <2>2. ~SinkTimeoutDue
    BY <1>1, Limits DEF SinkOnTime, SinkTimeoutDue, Ages, Age
  <2>3. ~SourceTimeoutDue
    BY <1>1, Limits DEF SourceOnTime, SourceTimeoutDue, Ages, Age
  <2> QED
    BY <2>1, <2>2, <2>3
<1>7. ~SinkSilence /\ ~SourceTimeout
  BY <1>6 DEF SinkSilence, SourceTimeout
<1>8. ASSUME source' \in Encoded
      PROVE  /\ source'.state = source.state /\ source'.asked_caps = source.asked_caps
             /\ source'.port = source.port /\ source'.m1_answered = source.m1_answered
             /\ source'.last_heard = source.last_heard
             /\ source'.last_keepalive = source.last_keepalive
  <2>1. PICK r : source' = [source EXCEPT !.want_idr = FALSE, !.want_kbps = None, !.rate = r]
    BY <1>8 DEF Encoded
  <2> QED
    BY <1>2, <2>1
(* The sink says something of its own accord.                              *)
<1>9. ASSUME NEW msgs, Chatter(msgs), SinkSend(msgs), toSink' = toSink, link' = link,
             source' = source \/ source' \in Encoded,
             sink'.state = sink.state, sink'.last_heard = sink.last_heard, sink'.playing = sink.playing,
             \/ sink'.last_keepalive = sink.last_keepalive
             \/ Occurs(msgs, "request", "Keepalive"),
             \/ sink'.last_media = sink.last_media
             \/ sink'.last_media = 0 /\ source.state = "Playing" /\ sink.playing
      PROVE  Healthy'
  <2>1. /\ source'.state = source.state /\ source'.asked_caps = source.asked_caps
        /\ source'.port = source.port /\ source'.m1_answered = source.m1_answered
        /\ source'.last_heard = source.last_heard /\ source'.last_keepalive = source.last_keepalive
    BY <1>8, <1>9
  <2>2. /\ Orderly' /\ ended' = ended
        /\ \A t, k : Occurs(toSource', t, k) <=> Occurs(toSource, t, k) \/ Occurs(msgs, t, k)
        /\ Probing(toSink, toSource) => Probing(toSink', toSource')
        /\ Probing(toSource, toSink) => Probing(toSource', toSink')
    BY <1>1, <1>9, <2>1, ChatterOrderly
  <2>3. SourceOnTime' /\ SinkOnTime' /\ MediaFlows'
    BY <1>1, <1>9, <2>1, <2>2, OnTimeStep
  <2> QED
    BY <1>3, <1>9, <2>2, <2>3
<1>10. CASE SinkTick
  <2>1. PICK rung : LET s == [sink EXCEPT !.rung = rung, !.sampled = @ \/ rung # sink.rung]
                    IN \/ /\ sink' = [s EXCEPT !.last_keepalive = 0]
                          /\ SinkSend(Append(LadderRequest(rung), Request("Keepalive")))
                       \/ /\ sink' = s
                          /\ SinkSend(LadderRequest(rung))
    BY <1>6, <1>10, Zenon DEF SinkTick
  <2> DEFINE rate == LadderRequest(rung)
             alive == Append(LadderRequest(rung), Request("Keepalive"))
             s == [sink EXCEPT !.rung = rung, !.sampled = @ \/ rung # sink.rung]
  <2>2. /\ toSink' = toSink /\ link' = link /\ source' = source
        /\ Chatter(rate) /\ Chatter(alive) /\ Occurs(alive, "request", "Keepalive")
    <3>1. toSink' = toSink /\ link' = link /\ source' = source
      BY <1>6, <1>10 DEF SinkTick
    <3> QED
      BY <3>1, SinkChatter, AsksIfAlive
  <2>3. /\ s.state = sink.state /\ s.last_heard = sink.last_heard /\ s.playing = sink.playing
        /\ s.last_keepalive = sink.last_keepalive /\ s.last_media = sink.last_media
        /\ DOMAIN s = DOMAIN sink
    BY <1>2
  <2>4. \/ sink' = [s EXCEPT !.last_keepalive = 0] /\ SinkSend(alive)
        \/ sink' = s /\ SinkSend(rate)
    BY <2>1
  <2> HIDE DEF rate, alive, s
  <2>5. CASE sink' = [s EXCEPT !.last_keepalive = 0] /\ SinkSend(alive)
    <3>1. /\ sink'.state = sink.state /\ sink'.last_heard = sink.last_heard
          /\ sink'.playing = sink.playing /\ sink'.last_media = sink.last_media
      BY <1>2, <2>3, <2>5
    <3> QED
      BY <1>9, <2>2, <2>5, <3>1
  <2>6. CASE sink' = s /\ SinkSend(rate)
    BY <1>9, <2>2, <2>3, <2>6
  <2> QED
    BY <2>4, <2>5, <2>6
<1>11. CASE DecodeError
  <2>1. /\ sink'.state = sink.state /\ sink'.last_heard = sink.last_heard
        /\ sink'.playing = sink.playing /\ sink'.last_media = sink.last_media
        /\ sink'.last_keepalive = sink.last_keepalive
    BY <1>2, <1>11 DEF DecodeError, IdrAsked
  <2>2. /\ SinkSend(IdrRequest) /\ source' = source /\ toSink' = toSink /\ link' = link
        /\ Chatter(IdrRequest)
    BY <1>11, SinkChatter DEF DecodeError
  <2> QED
    BY <1>9, <2>1, <2>2
<1>12. CASE MediaArrives
  <2>1. PICK rung : LET s == [sink EXCEPT !.last_media = 0, !.rung = rung, !.sampled = @ \/ rung # sink.rung]
                    IN /\ sink' = IF gap THEN IdrAsked(s) ELSE s
                       /\ SinkSend((IF gap THEN IdrRequest ELSE <<>>) \o LadderRequest(rung))
    BY <1>12, Zenon DEF MediaArrives
  <2>2. /\ sink'.state = sink.state /\ sink'.last_heard = sink.last_heard
        /\ sink'.playing = sink.playing /\ sink'.last_media = 0
        /\ sink'.last_keepalive = sink.last_keepalive
    BY <1>2, <2>1 DEF IdrAsked
  <2> DEFINE msgs == (IF gap THEN IdrRequest ELSE <<>>) \o LadderRequest(rung)
  <2>3. /\ Chatter(msgs) /\ SinkSend(msgs) /\ toSink' = toSink /\ source' \in Encoded /\ link' = link
        /\ source.state = "Playing" /\ sink.playing
    BY <1>12, <2>1, SinkChatter DEF MediaArrives, Encoding
  <2> HIDE DEF msgs
  <2> QED
    BY <1>9, <2>2, <2>3
<1>13. ASSUME UNCHANGED <<link, toSink, toSource, sink, ended>>, source' = source \/ source' \in Encoded
       PROVE  Healthy'
  <2>1. /\ source'.state = source.state /\ source'.asked_caps = source.asked_caps
        /\ source'.port = source.port /\ source'.m1_answered = source.m1_answered
        /\ source'.last_heard = source.last_heard /\ source'.last_keepalive = source.last_keepalive
    BY <1>8, <1>13
  <2>2. CalmToSink(toSink', toSink) /\ CalmToSource(toSource', toSource)
    BY <1>2, <1>13, CalmQueues
  <2>3. Orderly'
    BY <1>1, <1>13, <2>1, <2>2, CalmStep
  <2>4. SourceOnTime' /\ SinkOnTime' /\ MediaFlows'
    BY <1>1, <1>13, <2>1, OnTimeStep
  <2> QED
    BY <1>3, <1>13, <2>3, <2>4
<1>14. CASE MediaLost \/ UNCHANGED vars
  BY <1>13, <1>14 DEF MediaLost, vars
<1>15. CASE SourceReceive
  <2> DEFINE m == Head(toSource)
             heard == JustHeard(source)
             k == m.of
  <2>1. /\ toSource # <<>> /\ sink' = sink /\ link' = link
        /\ \/ m.type = "request" /\ SourceOnRequest(k, heard)
           \/ m.type = "response" /\ SourceOnResponse(k, heard)
    BY <1>15 DEF SourceReceive, JustHeard
  <2>2. CASE ended' = ended
    <3>1. SourceHere' /\ (m.type = "request" => Is(Head(toSource), "request", k))
          /\ (m.type = "response" => Is(Head(toSource), "response", k))
      BY <2>2 DEF SourceHere, Is
    <3> HIDE DEF heard, k
    <3>2. Orderly' /\ SourceHeard
      <4>1. CASE m.type = "request" /\ SourceOnRequest(k, heard)
        BY <1>1, <2>1, <3>1, <4>1, SourceRequestOrderly DEF heard
      <4>2. CASE m.type = "response" /\ SourceOnResponse(k, heard)
        BY <1>1, <2>1, <3>1, <4>2, SourceResponseOrderly DEF heard
      <4> QED
        BY <2>1, <4>1, <4>2
    <3>3. SourceOnTime' /\ SinkOnTime' /\ MediaFlows'
      BY <1>1, <2>1, <3>2, OnTimeStep DEF SourceHeard
    <3> QED
      BY <1>3, <2>1, <2>2, <3>2, <3>3
  <2>3. CASE ended' # ended
    <3> DEFINE refusal == Refusal(cast.display, cast.mode, cast.ceiling)
    <3>1. refusal # None /\ SourceEnds(refusal, Tail(toSource))
      <4>1. ~SourceOnRequest(k, heard)
        BY <2>3 DEF SourceOnRequest, SourceSend
      <4>2. SourceOnResponse(k, heard)
        BY <2>1, <4>1
      <4> HIDE DEF heard, k
      <4> QED
        BY <2>3, <4>2, Zenon DEF SourceOnResponse, SourceSend
    <3>2. refusal \notin {None, "closed", "timeout"}
      BY <3>1, RefusalIsNoFault
    <3> HIDE DEF refusal
    <3> QED
      BY <1>2, <2>1, <3>1, <3>2, SourceLeavesHealthy
  <2> QED
    BY <2>2, <2>3
<1>16. CASE Stop \/ MediaFails
  <2>1. PICK why \in {"stopped", "media"} : SourceEnds(why, toSource) /\ link' = link
    BY <1>16 DEF Stop, MediaFails
  <2>2. why \notin {None, "closed", "timeout"}
    BY RtspAssumption
  <2> QED
    BY <1>2, <2>1, <2>2, SourceLeavesHealthy
(* The source asks for something.                                          *)
<1>17. ASSUME NEW k \in {"M3", "Keepalive"}, SourceTicks(source', Request(k)),
              source'.state = source.state, source'.port = source.port,
              source'.m1_answered = source.m1_answered,
              source'.asked_caps # source.asked_caps => source.m1_answered # None,
              source'.last_heard = source.last_heard,
              source'.last_keepalive = source.last_keepalive \/ k = "Keepalive"
       PROVE  Healthy'
  <2> DEFINE m == Request(k)
  <2>1. Is(m, "request", k)
    BY DEF Is, Request
  <2>2. /\ toSink' = toSink \o <<m>>
        /\ UNCHANGED <<link, toSource, sink, ended>>
    BY <1>1, <1>17 DEF SourceTicks, ToSink
  <2> HIDE DEF m
  <2>3. WithRequest(toSink, k, toSink')
    BY <1>2, <2>1, <2>2, OneMore
  <2>4. Orderly'
    BY <1>1, <1>17, <2>2, <2>3, SourceAsksOrderly
  <2>5. /\ Probing(toSink, toSource) => Probing(toSink', toSource')
        /\ Probing(toSource, toSink) => Probing(toSource', toSink')
        /\ k = "Keepalive" => Occurs(toSink', "request", "Keepalive")
    BY <2>2, <2>3 DEF WithRequest, Probing
  <2>6. SourceOnTime' /\ SinkOnTime' /\ MediaFlows'
    BY <1>1, <1>17, <2>2, <2>5, OnTimeStep
  <2> QED
    BY <1>3, <2>2, <2>4, <2>6
<1>18. CASE AskAnyway
  <2>1. /\ source' = Asking(source) /\ SourceTicks(source', Request("M3"))
        /\ source.m1_answered # None
    BY <1>18 DEF AskAnyway, GraceOver, SourceTicks
  <2>2. /\ source'.state = source.state /\ source'.port = source.port
        /\ source'.m1_answered = source.m1_answered /\ source'.last_heard = source.last_heard
        /\ source'.last_keepalive = source.last_keepalive
    BY <1>2, <2>1 DEF Asking
  <2> QED
    BY <1>17, <2>1, <2>2
<1>19. CASE SourceKeepalive
  <2>1. /\ source' = [source EXCEPT !.last_keepalive = 0, !.pending = @ \cup {"Keepalive"}]
        /\ SourceTicks(source', Request("Keepalive"))
    BY <1>19 DEF SourceKeepalive, SourceTicks
  <2>2. /\ source'.state = source.state /\ source'.port = source.port
        /\ source'.m1_answered = source.m1_answered /\ source'.last_heard = source.last_heard
        /\ source'.asked_caps = source.asked_caps
    BY <1>2, <2>1
  <2> QED
    BY <1>17, <2>1, <2>2
<1>20. ~Stall /\ ~Recover
  BY <1>1 DEF Stall, Recover
<1>21. CASE Clock
  <2>1. /\ source'.state = source.state /\ source'.asked_caps = source.asked_caps
        /\ source'.port = source.port
        /\ source'.m1_answered = Older(source.m1_answered, M2Grace)
        /\ sink'.state = sink.state
        /\ UNCHANGED <<link, toSink, toSource, ended>>
    BY <1>2, <1>21 DEF Clock
  <2>2. source.m1_answered = None => source'.m1_answered = None
    BY <2>1 DEF Older
  <2>3. CalmToSink(toSink', toSink) /\ CalmToSource(toSource', toSource)
    BY <1>2, <2>1, CalmQueues
  <2>4. Orderly'
    BY <1>1, <2>1, <2>2, <2>3, CalmStep
  <2>5. SourceOnTime' /\ SinkOnTime' /\ MediaFlows'
    BY <1>1, <1>21, OnTimeClock
  <2> QED
    BY <1>3, <2>1, <2>4, <2>5
<1> QED
  BY <1>4, <1>5, <1>7, <1>10, <1>11, <1>12, <1>14, <1>15, <1>16, <1>18, <1>19, <1>20, <1>21
     DEF Next, SinkStep, SourceStep

(* Nor does anything bring back a source that has gone.                    *)
LEMMA GoneStep ==
  ASSUME RtspInv, Healthy, ~SourceHere, [Next]_vars
  PROVE  Healthy' \/ Stall
<1>1. link = "up" /\ ended.source # None /\ ended.source \notin {"closed", "timeout"}
  BY DEF Healthy, SourceHere
<1>2. DOMAIN ended = {"source", "sink"}
  BY DEF RtspInv, RtspType
<1>3. \A why, unread : SinkEnds(why, unread) => ended'.source = ended.source
  BY <1>2 DEF SinkEnds
<1>4. \A msgs : SinkSend(msgs) => ended'.source = ended.source
  BY DEF SinkSend
<1>5. CASE SinkReceive
  <2>1. (\E why, unread : SinkEnds(why, unread)) \/ ended' = ended
    BY <1>5, Zenon DEF SinkReceive, SinkOnRequest, SinkOnResponse, SinkSend
  <2>2. link' = link
    BY <1>5 DEF SinkReceive
  <2>3. ended'.source = ended.source
    BY <1>3, <2>1
  <2> QED
    BY <1>1, <2>2, <2>3 DEF Healthy, SourceHere
<1>6. CASE SinkSeesClose \/ SinkSilence
  BY <1>1, <1>3, <1>6 DEF SinkSeesClose, SinkSilence, Healthy, SourceHere
<1>7. CASE SinkTick
  <2>1. (\E why, unread : SinkEnds(why, unread)) \/ ended' = ended
    BY <1>7, Zenon DEF SinkTick, SinkSend
  <2>2. link' = link
    BY <1>7 DEF SinkTick
  <2>3. ended'.source = ended.source
    BY <1>3, <2>1
  <2> QED
    BY <1>1, <2>2, <2>3 DEF Healthy, SourceHere
<1>8. CASE DecodeError \/ Clock \/ UNCHANGED vars
  BY <1>1, <1>8 DEF DecodeError, SinkSend, Clock, vars, Healthy, SourceHere
<1>9. ~Recover
  BY <1>1 DEF Recover
<1>10. /\ ~MediaArrives /\ ~MediaLost /\ ~SourceReceive /\ ~SourceSeesClose /\ ~AskAnyway
       /\ ~SourceTimeout /\ ~SourceKeepalive /\ ~Stop /\ ~MediaFails
  BY DEF MediaArrives, MediaLost, Encoding, SourceReceive, SourceSeesClose, AskAnyway,
         SourceTimeout, SourceKeepalive, Stop, MediaFails
<1> QED
  BY <1>5, <1>6, <1>7, <1>8, <1>9, <1>10 DEF Next, SinkStep, SourceStep

(* Every step keeps a session on a link that has not stalled healthy.      *)
LEMMA HealthInvStep == HealthInv /\ [Next]_vars => HealthInv'
<1> SUFFICES ASSUME HealthInv, [Next]_vars
             PROVE  HealthInv'
  OBVIOUS
<1>1. RtspInv /\ Ages /\ stalls \in Nat /\ (stalls = 0 => Healthy)
  BY DEF HealthInv
<1>2. RtspInv'
  BY <1>1, RtspInvStep
<1>3. Ages'
  BY <1>1, AgesStep
<1>4. stalls' = stalls \/ (Stall /\ stalls' = stalls + 1)
  BY DEF Next, vars, SinkStep, SourceStep, SinkReceive, SinkSeesClose, SinkSilence, SinkTick,
         DecodeError, MediaArrives, MediaLost, SourceReceive, SourceSeesClose, AskAnyway,
         SourceTimeout, SourceKeepalive, SourceTicks, Stop, MediaFails, Stall, Recover, Clock
<1>5. stalls' \in Nat /\ (stalls' = 0 => stalls = 0 /\ ~(Stall /\ stalls' = stalls + 1))
  BY <1>1, <1>4
<1>6. stalls' = 0 => Healthy'
  <2> SUFFICES ASSUME stalls' = 0
               PROVE  Healthy'
    OBVIOUS
  <2>1. Healthy /\ stalls = 0
    BY <1>1, <1>5
  <2>2. CASE SourceHere
    BY <1>1, <1>3, <2>1, <2>2, HealthyStep
  <2>3. CASE ~SourceHere
    <3>1. ~Stall
      BY <1>1, <1>5 DEF Stall
    <3> QED
      BY <1>1, <2>1, <2>3, <3>1, GoneStep
  <2> QED
    BY <2>2, <2>3
<1> QED
  BY <1>2, <1>3, <1>5, <1>6 DEF HealthInv

(* On a link that does not stall no timer ends a session and nobody hangs  *)
(* up, whatever packets are lost and whatever the display is: the          *)
(* keep-alives of both ends (Negotiation::tick, SourceSession::tick), the  *)
(* grace for M2, the silence rule (Session::tick) and the rule that the    *)
(* first answer in Ready must carry a session leave it alone.              *)
THEOREM HealthySessionsLive == Spec => []HealthySessionLives
<1>1. HealthInv => HealthySessionLives
  BY DEF HealthInv, Healthy, HealthySessionLives, SourceHere, SinkHere
<1> QED
  BY <1>1, HealthInitInv, HealthInvStep, PTL DEF Spec
------------------------------------------------------------------------------
(* The choice of the stream *)

(* A set of natural numbers that is not empty has a least member. *)
LEMMA Least ==
  ASSUME NEW T, T \subseteq Nat, T # {}
  PROVE  \E x \in T : \A y \in T : x <= y
<1> DEFINE R == OpToRel(<, Nat)
<1>1. IsWellFoundedOn(R, Nat)
  BY NatLessThanWellFounded
<1>2. \A y, x \in Nat : <<y, x>> \in R <=> y < x
  BY DEF OpToRel
<1> HIDE DEF R
<1>3. PICK x \in T : \A y \in T : <<y, x>> \notin R
  BY <1>1, WFMin
<1>4. \A y \in T : x \in Nat /\ y \in Nat /\ ~(y < x)
  BY <1>2, <1>3
<1>5. \A y \in T : x <= y
  BY <1>4
<1> QED
  BY <1>3, <1>5

(* A level that LevelRank admits is no higher than one the bitmap names. *)
LEMMA LevelIsNamed ==
  ASSUME NEW level \in SUBSET (0 .. 7), NEW k \in Level, k <= LevelRank(level)
  PROVE  \E l \in level : l \in Level /\ k <= l
<1> DEFINE known == level \cap Level
<1>1. known # {}
  BY DEF LevelRank, Level
<1>2. PICK m \in known : \A x \in known : x <= m
  BY <1>1 DEF Level
<1>3. LevelRank(level) \in known
  BY <1>1, <1>2 DEF LevelRank, Max, Level
<1> QED
  BY <1>3

(* The level a mode requires is one of ours. *)
LEMMA LevelIsOurs ==
  ASSUME NEW mode, RequiredLevel(mode) # None
  PROVE  RequiredLevel(mode) \in Level
BY SMT DEF RequiredLevel, Level

(* Every mode of ours needs some rate. *)
LEMMA ModesNeedRate == \A i \in DOMAIN Ours : NeedsMbps(Ours[i]) \in Nat \ {0}
BY SMT DEF Ours, NeedsMbps, Max, VideoMode

(* Lowest is the lower of two limits, or the one there is. *)
LEMMA LowestOfTwo ==
  ASSUME NEW a \in Nat \cup {None}, NEW b \in Nat \cup {None}
  PROVE  /\ Lowest({a, b}) \in {a, b}
         /\ Lowest({a, b}) = None => a = None /\ b = None
         /\ \A l \in {a, b} \ {None} : Lowest({a, b}) <= l
<1>1. CASE a = None \/ b = None
  BY <1>1, Limits DEF Lowest, Min
<1>2. CASE a # None /\ b # None
  <2>1. /\ {a, b} \ {None} = {a, b}
        /\ ~({a, b} \subseteq {None})
    BY <1>2
  <2>2. Lowest({a, b}) = Min({a, b})
    BY <2>1 DEF Lowest
  <2>3. Min({a, b}) = IF a <= b THEN a ELSE b
    BY <1>2 DEF Min
  <2> QED
    BY <1>2, <2>1, <2>2, <2>3
<1> QED
  BY <1>1, <1>2


(* A mode that needs n Mbit/s is under the ceiling, and under all limits.  *)
Fits(n, display, ceiling) ==
  PictureCeiling(display, ceiling) # None => n <= PictureCeiling(display, ceiling)
UnderLimits(n, display, ceiling) ==
  \A limit \in {IF ceiling = None THEN None ELSE ceiling * 1000, display.max_kbps} \ {None} :
    n * 1000 + 2200 <= limit

(* A mode that fits under the ceiling fits, with the sound, under every    *)
(* limit, so it gets the rate it needs.                                    *)
LEMMA CeilingLeavesRoom ==
  ASSUME NEW display \in SinkCaps, NEW ceiling \in Nat \cup {None}, NEW n \in Nat \ {0},
         Fits(n, display, ceiling)
  PROVE  UnderLimits(n, display, ceiling)
<1> DEFINE max == display.max_kbps
           named == IF max = None THEN None ELSE (max \div 1000) % 65536
           lowest == Lowest({ceiling, named})
<1>1. max \in Nat \cup {None}
  BY DEF SinkCaps
<1>2. named \in Nat \cup {None} /\ (max # None => named # None /\ named * 1000 <= max)
  BY <1>1, Limits
<1>3. PictureCeiling(display, ceiling) = IF lowest = None THEN None ELSE Max({lowest - 3, 0})
  BY DEF PictureCeiling
<1> HIDE DEF named, max
<1>4. /\ lowest \in Nat \cup {None} /\ (lowest = None => ceiling = None /\ named = None)
      /\ \A l \in {ceiling, named} \ {None} : lowest <= l
  BY <1>2, LowestOfTwo
<1> HIDE DEF lowest
<1>5. lowest # None => n + 3 <= lowest
  <2> SUFFICES ASSUME lowest # None PROVE n + 3 <= lowest
    OBVIOUS
  <2>1. lowest \in Nat /\ Max({lowest - 3, 0}) = IF lowest - 3 >= 0 THEN lowest - 3 ELSE 0
    BY <1>4 DEF Max
  <2>2. PictureCeiling(display, ceiling) = Max({lowest - 3, 0})
    BY <1>3
  <2>3. PictureCeiling(display, ceiling) \in Nat
    BY <2>1, <2>2
  <2>4. n <= PictureCeiling(display, ceiling)
    BY <2>3, Limits DEF Fits
  <2> QED
    BY <2>1, <2>2, <2>4
<1>6. ceiling # None => n * 1000 + 2200 <= ceiling * 1000
  BY <1>4, <1>5
<1>7. max # None => n * 1000 + 2200 <= max
  BY <1>1, <1>2, <1>4, <1>5
<1> QED
  BY <1>6, <1>7 DEF max, UnderLimits

(* The bit rate that goes with such a mode is what it needs. *)
LEMMA RateIsEnough ==
  ASSUME NEW display \in SinkCaps, NEW ceiling \in Nat \cup {None}, NEW mode,
         NEW n \in Nat \ {0}, n = NeedsMbps(mode), Fits(n, display, ceiling)
  PROVE  VideoBitrate(display, ceiling, mode) = n * 1000
<1> DEFINE a == IF ceiling = None THEN None ELSE ceiling * 1000
           preferred == n * 1000
           total == Lowest({a, display.max_kbps})
<1>1. a \in Nat \cup {None} /\ display.max_kbps \in Nat \cup {None}
  BY DEF SinkCaps
<1>2. \A limit \in {a, display.max_kbps} \ {None} : preferred + 2200 <= limit
  BY CeilingLeavesRoom DEF UnderLimits
<1>3. total \in {a, display.max_kbps}
  <2> HIDE DEF a
  <2> QED
    BY <1>1, LowestOfTwo
<1>4. VideoBitrate(display, ceiling, mode) =
        IF total = None THEN preferred ELSE Min({preferred, Max({total - 2200, 1000})})
  BY DEF VideoBitrate
<1>5. preferred \in Nat
  OBVIOUS
<1> HIDE DEF total, a, preferred
<1>6. ASSUME total # None
      PROVE  Min({preferred, Max({total - 2200, 1000})}) = preferred
  <2>1. total \in Nat /\ preferred + 2200 <= total
    BY <1>1, <1>2, <1>3, <1>6
  <2>2. Max({total - 2200, 1000}) = IF total - 2200 >= 1000 THEN total - 2200 ELSE 1000
    BY <2>1 DEF Max
  <2> DEFINE room == Max({total - 2200, 1000})
  <2>3. room \in Nat /\ preferred <= room
    BY <1>5, <2>1, <2>2
  <2> HIDE DEF room
  <2>4. Min({preferred, room}) = preferred
    BY <1>5, <2>3 DEF Min
  <2> QED
    BY <2>4 DEF room
<1> QED
  BY <1>4, <1>6 DEF preferred

(* The place of our mode i, a number that orders them as Precedes does.    *)
PlaceOf(user, height, fps, i) ==
  IF user = "Quality" THEN (2000 - height) * 10000 + (100 - fps) * 20 + i
                      ELSE (100 - fps) * 100000 + (2000 - height) * 20 + i
Place(user, i) == PlaceOf(user, Ours[i].height, Ours[i].fps, i)

(* Heights and rates of our modes are small.                               *)
Small(mode) == mode.height \in 0 .. 2000 /\ mode.fps \in 0 .. 100

LEMMA OursAreSmall ==
  \A k \in DOMAIN Ours : k \in 1 .. 13 /\ Ours[k].height \in 0 .. 2000 /\ Ours[k].fps \in 0 .. 100
<1>1. \A k \in DOMAIN Ours : k \in 1 .. 13
  BY DEF Ours
<1>2. \A w, h, f : h \in 0 .. 2000 /\ f \in 0 .. 100 => Small(VideoMode(w, h, f))
  BY DEF VideoMode, Small
<1>3. \A k \in DOMAIN Ours : Small(Ours[k])
  BY <1>2 DEF Ours
<1> QED
  BY <1>1, <1>3 DEF Small

LEMMA PlaceOrders ==
  ASSUME NEW user \in {"Quality", "Game"}, NEW i \in DOMAIN Ours, NEW j \in DOMAIN Ours
  PROVE  /\ Place(user, i) \in Nat
         /\ Place(user, i) <= Place(user, j) /\ i # j => Precedes(user, i, j)
<1> DEFINE a == Ours[i].height
           b == Ours[j].height
           f == Ours[i].fps
           g == Ours[j].fps
<1>2. /\ i \in 1 .. 13 /\ j \in 1 .. 13 /\ a \in 0 .. 2000 /\ b \in 0 .. 2000
      /\ f \in 0 .. 100 /\ g \in 0 .. 100
  <2>1. i \in 1 .. 13
    BY OursAreSmall
  <2>2. j \in 1 .. 13
    BY OursAreSmall
  <2>3. a \in 0 .. 2000
    BY OursAreSmall
  <2>4. b \in 0 .. 2000
    BY OursAreSmall
  <2>5. f \in 0 .. 100
    BY OursAreSmall
  <2>6. g \in 0 .. 100
    BY OursAreSmall
  <2> HIDE DEF a, b, f, g
  <2> QED
    BY <2>1, <2>2, <2>3, <2>4, <2>5, <2>6
<1>3. Place(user, i) = PlaceOf(user, a, f, i) /\ Place(user, j) = PlaceOf(user, b, g, j)
  BY DEF Place
<1>4. Precedes(user, i, j) =
        (\/ user = "Quality" /\ (a > b \/ (a = b /\ f > g) \/ (a = b /\ f = g /\ i < j))
         \/ user = "Game" /\ (f > g \/ (f = g /\ a > b) \/ (a = b /\ f = g /\ i < j)))
  BY Zenon DEF Precedes
<1> HIDE DEF a, b, f, g
<1>5. CASE user = "Quality"
  BY ONLY <1>2, <1>3, <1>4, <1>5 DEF PlaceOf
<1>6. CASE user = "Game"
  BY ONLY <1>2, <1>3, <1>4, <1>6 DEF PlaceOf
<1> QED
  BY <1>5, <1>6

(* The order of our modes has a first in every set of them.                *)
LEMMA FirstOfOurs ==
  ASSUME NEW user \in {"Quality", "Game"}, NEW S \in SUBSET DOMAIN Ours, S # {}
  PROVE  \E i \in S : \A j \in S : i = j \/ Precedes(user, i, j)
<1> DEFINE T == {Place(user, i) : i \in S}
<1>1. T \subseteq Nat /\ T # {}
  BY PlaceOrders
<1>2. PICK x \in T : \A y \in T : x <= y
  <2> HIDE DEF T
  <2> QED
    BY <1>1, Least
<1>3. PICK i \in S : x = Place(user, i)
  OBVIOUS
<1>4. \A j \in S : Place(user, i) <= Place(user, j)
  BY <1>2, <1>3
<1> QED
  BY <1>4, PlaceOrders

(* What Selection chooses: a mode of ours under the ceiling, that a codec  *)
(* tuple of the display carries.                                           *)
LEMMA SelectionIsCarried ==
  ASSUME NEW display \in SinkCaps, NEW user \in {"Quality", "Game"}, NEW ceiling,
         Selection(display, user, ceiling) # None
  PROVE  \E i \in DOMAIN Ours, t \in DOMAIN display.formats :
           /\ Carries(display.formats[t], Ours[i])
           /\ ceiling # None => NeedsMbps(Ours[i]) <= ceiling
           /\ Selection(display, user, ceiling) = SelectionOf(display, Ours[i], t)
<1> DEFINE allowed == {i \in DOMAIN Ours : ceiling # None => NeedsMbps(Ours[i]) <= ceiling}
           pairs == {p \in allowed \X DOMAIN display.formats :
                       Carries(display.formats[p[2]], Ours[p[1]])}
           IsFirst(p) == \A q \in pairs : Precedes(user, p[1], q[1]) \/ (p[1] = q[1] /\ p[2] <= q[2])
           first == CHOOSE p \in pairs : IsFirst(p)
<1>1. Selection(display, user, ceiling) =
        IF pairs = {} THEN None ELSE SelectionOf(display, Ours[first[1]], first[2])
  BY Zenon DEF Selection
<1>2. pairs # {}
  BY <1>1
<1>3. \E p \in pairs : IsFirst(p)
  <2>1. DOMAIN display.formats \subseteq Nat
    BY DEF SinkCaps
  <2> DEFINE modes == {p[1] : p \in pairs}
  <2>2. modes \in SUBSET DOMAIN Ours /\ modes # {}
    BY <1>2
  <2>3. PICK i \in modes : \A j \in modes : i = j \/ Precedes(user, i, j)
    <3> HIDE DEF modes
    <3> QED
      BY <2>2, FirstOfOurs
  <2> DEFINE tuples == {p[2] : p \in {q \in pairs : q[1] = i}}
  <2>4. tuples \subseteq Nat /\ tuples # {}
    BY <2>1
  <2>5. PICK t \in tuples : \A u \in tuples : t <= u
    <3> HIDE DEF tuples
    <3> QED
      BY <2>4, Least
  <2>6. PICK p \in pairs : p[1] = i /\ p[2] = t
    OBVIOUS
  <2>7. ASSUME NEW q \in pairs
        PROVE  Precedes(user, p[1], q[1]) \/ (p[1] = q[1] /\ p[2] <= q[2])
    <3>1. q[1] \in modes /\ (q[1] = i => q[2] \in tuples)
      OBVIOUS
    <3> HIDE DEF modes, tuples, pairs
    <3> QED
      BY <2>3, <2>5, <2>6, <3>1
  <2> QED
    BY <2>6, <2>7
<1>4. first \in pairs
  <2> HIDE DEF pairs, IsFirst
  <2> QED
    BY <1>3
<1> HIDE DEF first
<1> QED
  BY <1>1, <1>2, <1>4

(* The entry of a mask that stands for a mode.                             *)
EntryOf(codec, e) == e.bit \in codec[e.table] /\ Tables[e.table][e.bit] = e.mode

LEMMA EntriesOfMasks ==
  ASSUME NEW codec, NEW e \in TableModes(codec)
  PROVE  EntryOf(codec, e) /\ e.table \in {"cea", "vesa", "hh"}
<1>1. PICK t \in DOMAIN Tables : \E b \in codec[t] \cap DOMAIN Tables[t] :
        e = [table |-> t, bit |-> b, mode |-> Tables[t][b]]
  BY DEF TableModes
<1>2. DOMAIN Tables = {"cea", "vesa", "hh"}
  BY DEF Tables
<1> QED
  BY <1>1, <1>2 DEF EntryOf

(* What goes into M4 is of the codec tuple that carries the mode.          *)
OfTuple(c, codec) ==
  /\ c.profile \in codec.profile
  /\ \E level \in codec.level : level \in Level /\ c.level <= level
  /\ EntryOf(codec, c) /\ c.table \in {"cea", "vesa", "hh"}

LEMMA CarriedSuits ==
  ASSUME NEW display \in SinkCaps, NEW t \in DOMAIN display.formats, NEW mode,
         Carries(display.formats[t], mode)
  PROVE  /\ OfTuple(SelectionOf(display, mode, t), display.formats[t])
         /\ SelectionOf(display, mode, t).mode = mode
<1> DEFINE codec == display.formats[t]
           entry == CHOOSE e \in TableModes(codec) : e.mode = mode
           c == SelectionOf(display, mode, t)
<1>1. c = [mode |-> mode, table |-> entry.table, bit |-> entry.bit,
           profile |-> Profile(codec), level |-> RequiredLevel(mode)]
  BY Zenon DEF SelectionOf
<1>2. codec \in VideoCodecCaps
  BY DEF SinkCaps
<1> HIDE DEF c
<1>3. entry \in TableModes(codec) /\ entry.mode = mode
  <2> HIDE DEF codec
  <2>1. \E e \in TableModes(codec) : e.mode = mode
    BY DEF Carries, codec
  <2> QED
    BY <2>1, Zenon
<1> HIDE DEF entry
<1>4. EntryOf(codec, entry) /\ entry.table \in {"cea", "vesa", "hh"}
  BY <1>3, EntriesOfMasks
<1>5. /\ Profile(codec) # None /\ RequiredLevel(mode) # None
      /\ RequiredLevel(mode) <= LevelRank(codec.level)
  BY DEF Carries
<1> HIDE DEF codec
<1>6. Profile(codec) \in codec.profile
  BY <1>5, SMT DEF Profile
<1>7. \E level \in codec.level : level \in Level /\ RequiredLevel(mode) <= level
  <2>1. codec.level \in SUBSET (0 .. 7)
    BY <1>2 DEF VideoCodecCaps
  <2> QED
    BY <1>5, <2>1, LevelIsOurs, LevelIsNamed
<1>8. EntryOf(codec, c) /\ c.table \in {"cea", "vesa", "hh"}
  BY <1>1, <1>3, <1>4 DEF EntryOf
<1> QED
  BY <1>1, <1>6, <1>7, <1>8 DEF OfTuple, c, codec

(* castr's own display offers one mode, which its sink reads back.         *)
LEMMA OwnModeIsRead ==
  ASSUME NEW c, NEW t \in DOMAIN CastrDisplay.formats, OfTuple(c, CastrDisplay.formats[t])
  PROVE  ParseChosenVideo(c) = c.mode
<1>1. CastrDisplay.formats[t] = [profile |-> {1}, level |-> {2}, cea |-> {5}, vesa |-> {}, hh |-> {}]
  BY DEF CastrDisplay
<1>2. c.table = "cea" /\ c.bit = 5
  BY <1>1 DEF OfTuple, EntryOf
<1>3. Cea[5] = VideoMode(1280, 720, 30)
  BY SMT DEF Cea
<1>4. Tables["cea"] = Cea
  BY DEF Tables
<1> QED
  BY <1>2, <1>3, <1>4 DEF OfTuple, EntryOf, ParseChosenVideo

(* A display that is not refused gets a selection that suits it.           *)
LEMMA SelectionSuits ==
  ASSUME cast \in Casts, NEW c, c # None,
         c = Selection(cast.display, cast.mode, PictureCeiling(cast.display, cast.ceiling))
  PROVE  Suits(c) /\ NeedsMbps(c.mode) \in Nat \ {0}
<1>1. PICK display, user, ceiling :
        /\ display = cast.display /\ user = cast.mode /\ ceiling = cast.ceiling
        /\ display \in SinkCaps /\ user \in {"Quality", "Game"} /\ ceiling \in Nat \cup {None}
  BY RtspAssumption
<1>2. c = Selection(display, user, PictureCeiling(display, ceiling))
  BY <1>1
<1>3. PICK i \in DOMAIN Ours, t \in DOMAIN display.formats :
        /\ Carries(display.formats[t], Ours[i])
        /\ PictureCeiling(display, ceiling) # None => NeedsMbps(Ours[i]) <= PictureCeiling(display, ceiling)
        /\ c = SelectionOf(display, Ours[i], t)
  BY <1>1, <1>2, SelectionIsCarried
<1>4. OfTuple(c, display.formats[t]) /\ c.mode = Ours[i]
  BY <1>1, <1>3, CarriedSuits
<1>5. NeedsMbps(c.mode) \in Nat \ {0}
  BY <1>4, ModesNeedRate
<1>6. Fits(NeedsMbps(c.mode), display, ceiling)
  BY <1>3, <1>4 DEF Fits
<1>7. VideoBitrate(display, ceiling, c.mode) = NeedsMbps(c.mode) * 1000
  <2>1. PICK n, mode : n \in Nat \ {0} /\ n = NeedsMbps(mode) /\ mode = c.mode /\ Fits(n, display, ceiling)
    BY <1>5, <1>6
  <2>2. display \in SinkCaps /\ ceiling \in Nat \cup {None}
    BY <1>1
  <2>3. VideoBitrate(display, ceiling, mode) = n * 1000
    BY ONLY <2>1, <2>2, RateIsEnough
  <2> QED
    BY <2>1, <2>3
<1>8. UnderLimits(NeedsMbps(c.mode), display, ceiling)
  BY <1>1, <1>5, <1>6, CeilingLeavesRoom
<1>9. display = CastrDisplay => ParseChosenVideo(c) = c.mode
  BY <1>4, OwnModeIsRead
<1>10. \E codec \in {display.formats[k] : k \in DOMAIN display.formats} :
        /\ c.profile \in codec.profile
        /\ \E level \in codec.level : level \in Level /\ c.level <= level
        /\ c.bit \in codec[c.table] /\ Tables[c.table][c.bit] = c.mode
  BY <1>4 DEF OfTuple, EntryOf
<1>11. Affordable(c)
  <2>1. VideoBitrate(cast.display, cast.ceiling, c.mode) = NeedsMbps(c.mode) * 1000
    BY ONLY <1>1, <1>7
  <2>2. \A limit \in {IF cast.ceiling = None THEN None ELSE cast.ceiling * 1000, cast.display.max_kbps} \ {None} :
          VideoBitrate(cast.display, cast.ceiling, c.mode) + 2200 <= limit
    BY ONLY <1>1, <1>7, <1>8 DEF UnderLimits
  <2> QED
    BY ONLY <2>1, <2>2 DEF Affordable
<1>12. cast.display = CastrDisplay => ParseChosenVideo(c) = c.mode
  BY ONLY <1>1, <1>9
<1>13. Decodable(c)
  BY ONLY <1>1, <1>10 DEF Decodable
<1> QED
  BY <1>5, <1>11, <1>12, <1>13 DEF Suits
------------------------------------------------------------------------------
(* The rate *)

(* What the cast asks for and the display allows. *)
Choice == Selection(cast.display, cast.mode, PictureCeiling(cast.display, cast.ceiling))

(* A rate is asked for with a number. *)
Rated(q) == \A i \in DOMAIN q : Is(q[i], "request", "Bitrate") => q[i].kbps \in Nat

(* From the answer to M3 on the source has chosen, and it encodes at no    *)
(* more than goes with that.                                               *)
RateInv ==
  /\ cast \in Casts
  /\ sink.rung \in Rung /\ Rated(toSource) /\ source.want_kbps \in Nat \cup {None}
  /\ Early => source.rate = None
  /\ ~Early => Choice # None /\ source.chosen = Choice
  /\ source.rate # None => source.rate \in Nat /\ source.rate <= Negotiated

SelectInv == RtspInv /\ RateInv

(* Rates asked for, as messages come and go. *)
LEMMA RatedQueues ==
  ASSUME NEW q, Queue(q), Rated(q)
  PROVE  /\ \A r : Queue(r) /\ Rated(r) => Rated(q \o r)
         /\ q # <<>> => /\ Rated(Tail(q))
                        /\ Is(Head(q), "request", "Bitrate") => Head(q).kbps \in Nat
         /\ \A unread : \A r \in Left(q, unread) : Rated(r)
<1>1. ASSUME NEW r, Queue(r), Rated(r)
      PROVE  Rated(q \o r)
  <2> SUFFICES ASSUME NEW i \in DOMAIN (q \o r), Is((q \o r)[i], "request", "Bitrate")
               PROVE  (q \o r)[i].kbps \in Nat
    BY DEF Rated
  <2>1. /\ Len(q) \in Nat /\ Len(r) \in Nat /\ DOMAIN q = 1 .. Len(q) /\ DOMAIN r = 1 .. Len(r)
        /\ i \in 1 .. (Len(q) + Len(r))
        /\ \A k \in 1 .. Len(q) : (q \o r)[k] = q[k]
        /\ \A k \in 1 .. Len(r) : (q \o r)[Len(q) + k] = r[k]
    BY <1>1, Joined
  <2>2. CASE i <= Len(q)
    <3>1. i \in DOMAIN q /\ (q \o r)[i] = q[i]
      BY <2>1, <2>2
    <3> QED
      BY <3>1 DEF Rated
  <2>3. CASE ~(i <= Len(q))
    <3> DEFINE k == i - Len(q)
    <3>1. k \in 1 .. Len(r) /\ Len(q) + k = i
      BY <2>1, <2>3
    <3>2. k \in DOMAIN r /\ (q \o r)[i] = r[k]
      BY <2>1, <3>1
    <3> QED
      BY <1>1, <3>2 DEF Rated
  <2> QED
    BY <2>2, <2>3
<1>2. ASSUME q # <<>>
      PROVE  Rated(Tail(q)) /\ (Is(Head(q), "request", "Bitrate") => Head(q).kbps \in Nat)
  <2>1. Len(q) \in Nat \ {0} /\ DOMAIN q = 1 .. Len(q) /\ Head(q) = q[1]
    BY <1>2, EmptySeq, LenProperties DEF Queue
  <2>2. /\ Tail(q) \in Seq(Range(q)) /\ Len(Tail(q)) = Len(q) - 1
        /\ \A i \in 1 .. Len(Tail(q)) : Tail(q)[i] = q[i + 1]
    BY <1>2, HeadTailProperties DEF Queue
  <2>3. DOMAIN Tail(q) = 1 .. (Len(q) - 1)
    BY <2>2, LenProperties
  <2>4. \A i \in DOMAIN Tail(q) : i + 1 \in DOMAIN q /\ Tail(q)[i] = q[i + 1]
    BY <2>1, <2>2, <2>3
  <2>5. 1 \in DOMAIN q
    BY <2>1
  <2> QED
    BY <2>1, <2>4, <2>5 DEF Rated
<1>3. ASSUME NEW unread, NEW r \in Left(q, unread)
      PROVE  Rated(r)
  <2>1. CASE r = q
    BY <2>1
  <2>2. ASSUME NEW n \in 0 .. Len(q), r = SubSeq(q, 1, n)
        PROVE  Rated(r)
    <3>1. Len(q) \in Nat /\ DOMAIN q = 1 .. Len(q) /\ \A i \in 1 .. Len(q) : q[i] \in Range(q)
      BY LenProperties, ElementOfSeq DEF Queue
    <3>2. \A i \in 1 .. n : q[i] \in Range(q)
      BY <3>1
    <3>3. /\ r \in Seq(Range(q)) /\ Len(r) = IF 1 <= n THEN n - 1 + 1 ELSE 0
          /\ \A i \in 1 .. n - 1 + 1 : r[i] = q[1 + i - 1]
      BY <2>2, <3>1, <3>2, SubSeqProperties
    <3>4. n \in Nat /\ DOMAIN r = 1 .. Len(r)
      BY <3>1, <3>3, LenProperties
    <3>5. \A i \in DOMAIN r : i \in 1 .. n - 1 + 1 /\ 1 + i - 1 = i /\ i \in DOMAIN q
      BY <3>1, <3>3, <3>4
    <3>6. \A i \in DOMAIN r : i \in DOMAIN q /\ r[i] = q[i]
      BY <3>3, <3>5
    <3> QED
      BY <3>6 DEF Rated
  <2> QED
    BY <2>1, <2>2 DEF Left
<1> QED
  BY <1>1, <1>2, <1>3

(* Few messages. *)
LEMMA FewRated ==
  /\ Rated(<<>>)
  /\ \A m : Rated(<<m>>) <=> (Is(m, "request", "Bitrate") => m.kbps \in Nat)
  /\ \A m, n : Rated(<<m, n>>) <=> /\ Is(m, "request", "Bitrate") => m.kbps \in Nat
                                   /\ Is(n, "request", "Bitrate") => n.kbps \in Nat
<1>1. DOMAIN <<>> = {}
  OBVIOUS
<1>2. \A m : DOMAIN <<m>> = {1} /\ <<m>>[1] = m
  OBVIOUS
<1>3. \A m, n : DOMAIN <<m, n>> = {1, 2} /\ <<m, n>>[1] = m /\ <<m, n>>[2] = n
  OBVIOUS
<1> QED
  BY <1>1, <1>2, <1>3 DEF Rated

(* What the sink says of its own accord, or in answer. *)
Said(msgs) == Queue(msgs) /\ Rated(msgs)

LEMMA SinkSaid ==
  /\ Said(<<>>) /\ Said(IdrRequest)
  /\ \A k : k # "Bitrate" => Said(<<Request(k)>>)
  /\ \A k : Said(<<Response(k)>>)
  /\ \A k, l : l # "Bitrate" => Said(<<Response(k), Request(l)>>)
  /\ \A rung \in Rung : Said(LadderRequest(rung)) /\ Said(Append(LadderRequest(rung), Request("Keepalive")))
  /\ \A a, b : Said(a) /\ Said(b) => Said(a \o b)
<1>1. \A m : (Is(m, "request", "Bitrate") => m.kbps \in Nat) => Said(<<m>>)
  BY FewFacts, FewRated DEF Said
<1>2. Said(<<>>)
  BY FewFacts, FewRated DEF Said
<1>3. \A k : k # "Bitrate" => Said(<<Request(k)>>)
  BY <1>1 DEF Is, Request
<1>4. \A k : Said(<<Response(k)>>)
  BY <1>1 DEF Is, Response
<1>5. ASSUME NEW k, NEW l, l # "Bitrate"
      PROVE  Said(<<Response(k), Request(l)>>)
  BY <1>5, FewFacts, FewRated DEF Said, Is, Request, Response
<1>6. \A a, b : Said(a) /\ Said(b) => Said(a \o b)
  BY JoinFacts, RatedQueues DEF Said
<1>7. ASSUME NEW rung \in Rung
      PROVE  Said(LadderRequest(rung)) /\ Said(Append(LadderRequest(rung), Request("Keepalive")))
  <2>1. Bitrate(rung).kbps \in Nat
    BY DEF Bitrate, LadderKbps, Rung, LowestRung
  <2>2. Said(LadderRequest(rung))
    BY <1>1, <1>2, <2>1 DEF LadderRequest
  <2> DEFINE rate == LadderRequest(rung)
             alive == Request("Keepalive")
  <2>3. Said(rate) /\ Said(<<alive>>)
    BY <1>3, <2>2
  <2> HIDE DEF rate, alive
  <2>4. Append(rate, alive) = rate \o <<alive>>
    <3>1. rate \in Seq(Range(rate) \union {alive})
      BY <2>3, SeqMonotonic DEF Said, Queue
    <3> QED
      BY <3>1, AppendIsConcat
  <2> DEFINE msgs == <<alive>>
  <2>5. Said(msgs)
    BY <2>3
  <2> HIDE DEF msgs
  <2>6. Said(rate \o msgs)
    BY <1>6, <2>3, <2>5
  <2> QED
    BY <2>2, <2>4, <2>6 DEF rate, alive, msgs
<1>8. Said(IdrRequest)
  BY <1>2, <1>3 DEF IdrRequest
<1> QED
  BY <1>2, <1>3, <1>4, <1>5, <1>6, <1>7, <1>8

(* What was chosen suits both ends and goes with a rate.                   *)
LEMMA ChoiceSuits ==
  ASSUME RateInv, ~Early
  PROVE  Suits(source.chosen) /\ Negotiated \in Nat
<1>1. Suits(source.chosen) /\ NeedsMbps(source.chosen.mode) \in Nat \ {0}
  <2>1. PICK c : c = source.chosen
    OBVIOUS
  <2>2. /\ cast \in Casts /\ c # None
        /\ c = Selection(cast.display, cast.mode, PictureCeiling(cast.display, cast.ceiling))
    BY <2>1 DEF RateInv, Choice
  <2>3. Suits(c) /\ NeedsMbps(c.mode) \in Nat \ {0}
    BY <2>2, SelectionSuits
  <2> QED
    BY <2>1, <2>3
<1>2. Negotiated = NeedsMbps(source.chosen.mode) * 1000
  BY <1>1, Zenon DEF Suits, Affordable, Negotiated
<1> QED
  BY <1>1, <1>2

(* Nothing but the rate and what is asked for changes at the source.       *)
LEMMA RateStep ==
  ASSUME RateInv, cast' = cast, source'.chosen = source.chosen, Early' <=> Early,
         \/ source'.rate = source.rate
         \/ ~Early /\ source'.rate \in Nat /\ source'.rate <= Negotiated,
         source'.want_kbps \in Nat \cup {None}, Rated(toSource'), sink'.rung \in Rung
  PROVE  RateInv'
<1>1. Choice' = Choice /\ Negotiated' = Negotiated
  BY Zenon DEF Choice, Negotiated
<1>2. cast' \in Casts /\ sink'.rung \in Rung /\ Rated(toSource') /\ source'.want_kbps \in Nat \cup {None}
  BY DEF RateInv
<1>3. Early' => source'.rate = None
  BY DEF RateInv
<1>4. ~Early' => Choice' # None /\ source'.chosen = Choice'
  BY <1>1 DEF RateInv
<1>5. source'.rate # None => source'.rate \in Nat /\ source'.rate <= Negotiated'
  BY <1>1 DEF RateInv
<1> QED
  BY <1>2, <1>3, <1>4, <1>5 DEF RateInv

(* What the sink sends and how it leaves changes nothing of it.            *)
LEMMA SinkRateStep ==
  ASSUME RtspInv, RateInv, cast' = cast, source' = source, sink'.rung \in Rung,
         \/ toSource' = toSource
         \/ \E msgs : Said(msgs) /\ ToSource(msgs)
         \/ \E unread : toSource' \in Left(toSource, unread)
  PROVE  RateInv'
<1>1. Queue(toSource) /\ Rated(toSource)
  BY DEF RtspInv, RtspType, RateInv
<1>2. Rated(toSource')
  <2>1. CASE toSource' = toSource
    BY <1>1, <2>1
  <2>2. ASSUME NEW msgs, Said(msgs), ToSource(msgs)
        PROVE  Rated(toSource')
    BY <1>1, <2>2, RatedQueues DEF Said, ToSource
  <2>3. ASSUME NEW unread, toSource' \in Left(toSource, unread)
        PROVE  Rated(toSource')
    BY <1>1, <2>3, RatedQueues
  <2> QED
    BY <2>1, <2>2, <2>3
<1>3. /\ source'.chosen = source.chosen /\ (Early' <=> Early) /\ source'.rate = source.rate
      /\ source'.want_kbps \in Nat \cup {None}
  BY DEF RateInv, Early
<1> QED
  BY <1>2, <1>3, RateStep

(* The source goes away. *)
LEMMA SourceEndsRate ==
  ASSUME RateInv, NEW why, NEW unread, SourceEnds(why, unread), cast' = cast, sink' = sink
  PROVE  RateInv'
<1>1. /\ Early' /\ source'.rate = None /\ source'.want_kbps = None
  BY DEF SourceEnds, NewSource, Early
<1>2. Rated(toSource')
  BY FewRated DEF SourceEnds
<1> QED
  BY <1>1, <1>2 DEF RateInv

(* The encoder thread keeps its rate, or takes one it is asked for.        *)
LEMMA EncodedRate ==
  ASSUME RtspInv, RateInv, Encoding, source' \in Encoded
  PROVE  /\ source'.chosen = source.chosen /\ (Early' <=> Early) /\ source'.want_kbps \in Nat \cup {None}
         /\ \/ source'.rate = source.rate
            \/ ~Early /\ source'.rate \in Nat /\ source'.rate <= Negotiated
<1>1. ~Early
  BY DEF Encoding, Early
<1>2. PICK r \in {source.rate} \cup IF source.want_kbps = None THEN {} ELSE {Applied(source.want_kbps)} :
        source' = [source EXCEPT !.want_idr = FALSE, !.want_kbps = None, !.rate = r]
  BY DEF Encoded
<1>3. DOMAIN source = {"state", "asked_caps", "m1_answered", "pending", "chosen", "port", "last_heard",
                       "last_keepalive", "want_idr", "want_kbps", "rate"}
  BY DEF RtspInv, RtspType
<1>4. /\ source'.chosen = source.chosen /\ source'.state = source.state /\ source'.want_kbps = None
      /\ source'.rate = r
  BY ONLY <1>2, <1>3
<1>5. r = source.rate \/ (source.want_kbps \in Nat /\ r = Applied(source.want_kbps))
  BY <1>2 DEF RateInv
<1>6. ASSUME NEW kbps \in Nat
      PROVE  Applied(kbps) \in Nat /\ Applied(kbps) <= Negotiated
  <2>1. MinKbps \in Nat
    BY RtspAssumption
  <2>2. PICK n \in Nat : n = Negotiated
    BY <1>1, ChoiceSuits
  <2>3. PICK m \in Nat : m = Max({kbps, MinKbps})
    <3>1. Max({kbps, MinKbps}) = IF kbps >= MinKbps THEN kbps ELSE MinKbps
      BY <2>1 DEF Max
    <3> QED
      BY <2>1, <3>1
  <2>4. Applied(kbps) = Min({m, n})
    BY <2>2, <2>3 DEF Applied
  <2>5. Min({m, n}) = IF m <= n THEN m ELSE n
    BY DEF Min
  <2> QED
    BY <2>2, <2>4, <2>5
<1> QED
  BY <1>1, <1>4, <1>5, <1>6 DEF Early

(* A request the source takes in. *)
LEMMA SourceRequestRate ==
  ASSUME RtspInv, RateInv, SourceHere, toSource # <<>>, sink' = sink, cast' = cast,
         NEW k, Is(Head(toSource), "request", k),
         NEW heard, heard = JustHeard(source), SourceOnRequest(k, heard)
  PROVE  RateInv'
<1>1. Queue(toSource) /\ Rated(toSource) /\ NothingEarly
  BY DEF RtspInv, RtspType, HandshakeInv, RateInv
<1>2. /\ Rated(Tail(toSource))
      /\ k = "Bitrate" => Head(toSource).kbps \in Nat
  BY <1>1, RatedQueues
<1>3. k \in {"SETUP", "PLAY"} => ~Early
  BY <1>1, TailFacts DEF NothingEarly
<1>4. DOMAIN source = {"state", "asked_caps", "m1_answered", "pending", "chosen", "port", "last_heard",
                       "last_keepalive", "want_idr", "want_kbps", "rate"}
  BY DEF RtspInv, RtspType
<1>5. /\ DOMAIN heard = DOMAIN source /\ heard.state = source.state /\ heard.chosen = source.chosen
      /\ heard.rate = source.rate /\ heard.want_kbps = source.want_kbps
  BY ONLY <1>4, heard = JustHeard(source) DEF JustHeard
<1>6. PICK s :
        /\ source' = s /\ toSource' = Tail(toSource)
        /\ \/ k = "M2" /\ (s = Asking(heard) \/ s = heard)
           \/ k = "SETUP" /\ s = [heard EXCEPT !.port = TRUE, !.state = "AwaitingSetup"]
           \/ k = "PLAY" /\ s = StartMedia([heard EXCEPT !.state = "Playing"])
           \/ k = "Idr" /\ s = [heard EXCEPT !.want_idr = TRUE]
           \/ k = "Bitrate" /\ s = [heard EXCEPT !.want_kbps = Head(toSource).kbps]
           \/ k = "Keepalive" /\ s = heard
  BY DEF SourceOnRequest, SourceSend
<1>7. /\ source'.chosen = source.chosen
      /\ k \notin {"SETUP", "PLAY"} => source'.state = source.state
      /\ k \in {"SETUP", "PLAY"} => source'.state \in {"AwaitingSetup", "Playing"}
      /\ source'.rate = IF k = "PLAY" THEN Negotiated ELSE source.rate
      /\ source'.want_kbps = IF k = "Bitrate" THEN Head(toSource).kbps ELSE source.want_kbps
  <2>1. CASE k = "M2"
    BY ONLY <1>4, <1>5, <1>6, <2>1 DEF Asking
  <2>2. CASE k = "SETUP"
    BY ONLY <1>4, <1>5, <1>6, <2>2
  <2>3. CASE k = "PLAY"
    BY ONLY <1>4, <1>5, <1>6, <2>3 DEF StartMedia
  <2>4. CASE k \in {"Idr", "Bitrate", "Keepalive"}
    BY ONLY <1>4, <1>5, <1>6, <2>4
  <2> QED
    BY <1>6, <2>1, <2>2, <2>3, <2>4
<1>8. Early' <=> Early
  BY <1>3, <1>7 DEF Early
<1>9. \/ source'.rate = source.rate
      \/ ~Early /\ source'.rate \in Nat /\ source'.rate <= Negotiated
  <2>1. CASE k = "PLAY"
    <3>1. ~Early /\ Negotiated \in Nat
      BY <1>3, <2>1, ChoiceSuits
    <3> QED
      BY <1>7, <2>1, <3>1
  <2> QED
    BY <1>7, <2>1
<1>10. source'.want_kbps \in Nat \cup {None} /\ sink'.rung \in Rung /\ Rated(toSource')
  BY <1>2, <1>6, <1>7 DEF RateInv
<1> QED
  BY <1>7, <1>8, <1>9, <1>10, RateStep

(* A display that is not refused has a mode in common.                     *)
LEMMA NotRefused ==
  ASSUME Refusal(cast.display, cast.mode, cast.ceiling) = None
  PROVE  Choice # None
<1>1. None \notin {"unreadable", "nothing in common"}
  BY RtspAssumption
<1> QED
  BY <1>1 DEF Refusal, Choice

(* An answer the source takes in: after M3 it has chosen.                  *)
LEMMA SourceResponseRate ==
  ASSUME RtspInv, RateInv, SourceHere, toSource # <<>>, sink' = sink, cast' = cast,
         NEW k, Is(Head(toSource), "response", k),
         NEW heard, heard = JustHeard(source), SourceOnResponse(k, heard)
  PROVE  RateInv'
<1>1. Queue(toSource) /\ Rated(toSource) /\ NothingEarly /\ AskedOnce
  BY DEF RtspInv, RtspType, HandshakeInv, RateInv
<1>2. Rated(Tail(toSource))
  BY <1>1, RatedQueues
<1>3. (k = "M4" => ~Early) /\ (k = "M3" => Early)
  BY <1>1, TailFacts DEF NothingEarly, AskedOnce
<1>4. DOMAIN source = {"state", "asked_caps", "m1_answered", "pending", "chosen", "port", "last_heard",
                       "last_keepalive", "want_idr", "want_kbps", "rate"}
  BY DEF RtspInv, RtspType
<1> DEFINE rest == [heard EXCEPT !.pending = @ \ {k}]
<1>5. /\ DOMAIN rest = DOMAIN source /\ rest.state = source.state /\ rest.chosen = source.chosen
      /\ rest.rate = source.rate /\ rest.want_kbps = source.want_kbps
  BY ONLY <1>4, heard = JustHeard(source) DEF JustHeard
<1> DEFINE m3 == [rest EXCEPT !.state = "Configuring", !.pending = @ \cup {"M4"}, !.chosen = Choice]
           m4 == [rest EXCEPT !.state = "AwaitingSetup", !.pending = @ \cup {"M5"}]
           refusal == Refusal(cast.display, cast.mode, cast.ceiling)
<1>6. \/ SourceEnds(refusal, Tail(toSource))
      \/ /\ toSource' = Tail(toSource)
         /\ \/ k = "M1" /\ source' = [rest EXCEPT !.m1_answered = 0]
            \/ k = "M3" /\ refusal = None /\ source' = m3
            \/ k = "M4" /\ source' = m4
            \/ source' = rest
  BY Zenon DEF SourceOnResponse, SourceSend, Choice
<1> HIDE DEF rest
<1>7. CASE SourceEnds(refusal, Tail(toSource))
  <2> HIDE DEF refusal
  <2> QED
    BY <1>7, SourceEndsRate
<1>8. ASSUME toSource' = Tail(toSource), source'.chosen = source.chosen, source'.rate = source.rate,
             source'.want_kbps = source.want_kbps, Early' <=> Early
      PROVE  RateInv'
  <2>1. source'.want_kbps \in Nat \cup {None} /\ sink'.rung \in Rung /\ Rated(toSource')
    BY <1>2, <1>8 DEF RateInv
  <2> QED
    BY <1>8, <2>1, RateStep
<1>9. CASE toSource' = Tail(toSource) /\ source' = [rest EXCEPT !.m1_answered = 0]
  <2>1. /\ source'.chosen = source.chosen /\ source'.rate = source.rate
        /\ source'.want_kbps = source.want_kbps /\ source'.state = source.state
    BY ONLY <1>4, <1>5, <1>9
  <2> QED
    BY <1>8, <1>9, <2>1 DEF Early
<1>10. CASE toSource' = Tail(toSource) /\ k = "M4" /\ source' = m4
  <2>1. /\ source'.chosen = source.chosen /\ source'.rate = source.rate
        /\ source'.want_kbps = source.want_kbps /\ source'.state = "AwaitingSetup"
    BY ONLY <1>4, <1>5, <1>10
  <2> QED
    BY <1>3, <1>8, <1>10, <2>1 DEF Early
<1>11. CASE toSource' = Tail(toSource) /\ source' = rest
  BY <1>5, <1>8, <1>11 DEF Early
<1>12. CASE toSource' = Tail(toSource) /\ k = "M3" /\ refusal = None /\ source' = m3
  <2>1. /\ source'.chosen = Choice /\ source'.rate = source.rate
        /\ source'.want_kbps = source.want_kbps /\ source'.state = "Configuring"
    BY ONLY <1>4, <1>5, <1>12
  <2>2. source'.rate = None
    BY <1>3, <1>12, <2>1 DEF RateInv
  <2>3. Choice' = Choice /\ Choice # None
    <3>1. Choice # None
      BY <1>12, NotRefused
    <3>2. Choice' = Choice
      BY Zenon DEF Choice
    <3> QED
      BY <3>1, <3>2
  <2>4. ~Early'
    BY <2>1 DEF Early
  <2> QED
    BY <1>2, <1>12, <2>1, <2>2, <2>3, <2>4 DEF RateInv
<1> QED
  BY <1>6, <1>7, <1>9, <1>10, <1>11, <1>12

LEMMA SelectInitInv == Init => SelectInv
<1> SUFFICES ASSUME Init
             PROVE  SelectInv
  OBVIOUS
<1>1. RtspInv
  BY RtspInitInv
<1>2. /\ cast \in Casts /\ sink.rung \in Rung /\ source.want_kbps = None
      /\ Early /\ source.rate = None
  BY DEF Init, NewSource, NewSink, Early, Rung, LowestRung
<1>3. Rated(toSource)
  BY FewRated DEF Init
<1> QED
  BY <1>1, <1>2, <1>3 DEF SelectInv, RateInv

(* The ladder stays on its rungs.                                          *)
LEMMA LadderRungs == RateInv => Ladder \subseteq Rung
BY DEF RateInv, Ladder

LEMMA SelectInvStep == SelectInv /\ [Next]_vars => SelectInv'
<1> SUFFICES ASSUME SelectInv, [Next]_vars
             PROVE  SelectInv'
  OBVIOUS
<1>1. RtspInv /\ RateInv /\ RtspInv' /\ 0 \in Rung /\ sink.rung \in Rung
  BY RtspInvStep DEF SelectInv, RateInv, Rung, LowestRung
<1>2. /\ DOMAIN source = {"state", "asked_caps", "m1_answered", "pending", "chosen", "port", "last_heard",
                          "last_keepalive", "want_idr", "want_kbps", "rate"}
      /\ DOMAIN sink = {"state", "chosen", "peer_session", "playing", "last_heard", "last_keepalive",
                        "last_media", "last_idr", "rung", "sampled"}
  BY <1>1 DEF RtspInv, RtspType
<1>3. ASSUME NEW why, NEW unread, SinkEnds(why, unread), source' = source, cast' = cast
      PROVE  RateInv'
  <2>1. sink'.rung = 0 /\ toSource' \in Left(toSource, unread)
    BY <1>3 DEF SinkEnds, NewSink
  <2> QED
    BY <1>1, <1>3, <2>1, SinkRateStep
<1>4. ASSUME SinkReceive
      PROVE  RateInv'
  <2> DEFINE m == Head(toSink)
             heard == JustHeard(sink)
  <2>1. /\ source' = source /\ cast' = cast
        /\ SinkOnRequest(m.of, heard) \/ SinkOnResponse(m, heard)
    BY <1>4 DEF SinkReceive, JustHeard
  <2> DEFINE chosen == m.selection
             k == m.of
  <2>2. DOMAIN heard = DOMAIN sink /\ heard.rung = sink.rung
    BY ONLY <1>2 DEF JustHeard
  <2> HIDE DEF heard
  <2>3. \/ SinkEnds("told", Tail(toSink)) \/ SinkEnds("no session", Tail(toSink))
        \/ /\ \/ sink' = heard
              \/ sink' = [heard EXCEPT !.state = "Capabilities"]
              \/ sink' = [heard EXCEPT !.chosen = Head(toSink).selection]
              \/ sink' = [heard EXCEPT !.state = "Ready"]
              \/ sink' = [heard EXCEPT !.peer_session = TRUE, !.state = "Playing", !.playing = TRUE]
           /\ \/ toSource' = toSource
              \/ ToSource(<<Response("M1"), Request("M2")>>)
              \/ ToSource(<<Response("M3")>>)
              \/ ToSource(<<Response("M4")>>)
              \/ ToSource(<<Response("M5"), Request("SETUP")>>)
              \/ ToSource(<<Response("Keepalive")>>)
              \/ ToSource(<<Request("PLAY")>>)
    <3> HIDE DEF m
    <3>1. CASE SinkOnRequest(m.of, heard)
      BY <3>1, Zenon DEF SinkOnRequest, SinkSend
    <3>2. CASE SinkOnResponse(m, heard)
      BY <3>2, Zenon DEF SinkOnResponse, SinkSend
    <3> QED
      BY <2>1, <3>1, <3>2
  <2>4. CASE SinkEnds("told", Tail(toSink)) \/ SinkEnds("no session", Tail(toSink))
    BY <1>3, <2>1, <2>4
  <2>5. ASSUME \/ sink' = heard
               \/ sink' = [heard EXCEPT !.state = "Capabilities"]
               \/ sink' = [heard EXCEPT !.chosen = Head(toSink).selection]
               \/ sink' = [heard EXCEPT !.state = "Ready"]
               \/ sink' = [heard EXCEPT !.peer_session = TRUE, !.state = "Playing", !.playing = TRUE]
        PROVE  sink'.rung = sink.rung
    BY ONLY <1>2, <2>2, <2>5
  <2>6. ASSUME \/ ToSource(<<Response("M1"), Request("M2")>>)
               \/ ToSource(<<Response("M3")>>)
               \/ ToSource(<<Response("M4")>>)
               \/ ToSource(<<Response("M5"), Request("SETUP")>>)
               \/ ToSource(<<Response("Keepalive")>>)
               \/ ToSource(<<Request("PLAY")>>)
        PROVE  \E msgs : Said(msgs) /\ ToSource(msgs)
    <3>1. /\ Said(<<Response("M1"), Request("M2")>>) /\ Said(<<Response("M3")>>)
          /\ Said(<<Response("M4")>>) /\ Said(<<Response("M5"), Request("SETUP")>>)
          /\ Said(<<Response("Keepalive")>>) /\ Said(<<Request("PLAY")>>)
      BY SinkSaid
    <3> QED
      BY <2>6, <3>1, Zenon
  <2> QED
    BY <1>1, <2>1, <2>3, <2>4, <2>5, <2>6, SinkRateStep
<1>5. ASSUME SinkSeesClose \/ SinkSilence
      PROVE  RateInv'
  <2>1. \E why \in {"closed", "silence"} : SinkEnds(why, toSink) /\ source' = source /\ cast' = cast
    BY <1>5 DEF SinkSeesClose, SinkSilence
  <2> QED
    BY <1>3, <2>1
<1>6. ASSUME SinkTick
      PROVE  RateInv'
  <2>1. PICK rung \in Ladder : LET s == [sink EXCEPT !.rung = rung, !.sampled = @ \/ rung # sink.rung]
                    IN \/ SinkEnds("timeout", toSink)
                       \/ /\ sink' = [s EXCEPT !.last_keepalive = 0]
                          /\ SinkSend(Append(LadderRequest(rung), Request("Keepalive")))
                          /\ UNCHANGED toSink
                       \/ /\ sink' = s
                          /\ SinkSend(LadderRequest(rung))
                          /\ UNCHANGED toSink
    BY <1>6, Zenon DEF SinkTick
  <2>2. rung \in Rung /\ source' = source /\ cast' = cast
    BY <1>1, <1>6, LadderRungs DEF SinkTick
  <2> DEFINE s == [sink EXCEPT !.rung = rung, !.sampled = @ \/ rung # sink.rung]
             alive == Append(LadderRequest(rung), Request("Keepalive"))
             rate == LadderRequest(rung)
  <2>3. Said(alive) /\ Said(rate)
    BY <2>2, SinkSaid
  <2>4. \/ SinkEnds("timeout", toSink)
        \/ sink' = [s EXCEPT !.last_keepalive = 0] /\ ToSource(alive)
        \/ sink' = s /\ ToSource(rate)
    BY <2>1 DEF SinkSend
  <2> HIDE DEF alive, rate
  <2>5. CASE SinkEnds("timeout", toSink)
    BY <1>3, <2>2, <2>5
  <2>6. ASSUME sink' = [s EXCEPT !.last_keepalive = 0] \/ sink' = s
        PROVE  sink'.rung = rung
    BY ONLY <1>2, <2>6
  <2> HIDE DEF s
  <2> QED
    BY <1>1, <2>2, <2>3, <2>4, <2>5, <2>6, SinkRateStep
<1>7. ASSUME DecodeError
      PROVE  RateInv'
  <2>1. sink'.rung = sink.rung
    BY <1>2, <1>7 DEF DecodeError, IdrAsked
  <2>2. ToSource(IdrRequest) /\ Said(IdrRequest) /\ source' = source /\ cast' = cast
    BY <1>7, SinkSaid DEF DecodeError, SinkSend
  <2> QED
    BY <1>1, <2>1, <2>2, SinkRateStep
<1>8. ASSUME MediaArrives
      PROVE  RateInv'
  <2>1. PICK rung \in Ladder :
               LET s == [sink EXCEPT !.last_media = 0, !.rung = rung, !.sampled = @ \/ rung # sink.rung]
               IN /\ sink' = IF gap THEN IdrAsked(s) ELSE s
                  /\ SinkSend((IF gap THEN IdrRequest ELSE <<>>) \o LadderRequest(rung))
    BY <1>8, Zenon DEF MediaArrives
  <2>2. rung \in Rung
    BY <1>1, LadderRungs
  <2>3. sink'.rung = rung
    BY <1>2, <2>1 DEF IdrAsked
  <2> DEFINE idr == IF gap THEN IdrRequest ELSE <<>>
             rate == LadderRequest(rung)
  <2>4. Said(idr) /\ Said(rate)
    BY <2>2, SinkSaid
  <2>5. ToSource(idr \o rate)
    BY <2>1 DEF SinkSend
  <2> HIDE DEF idr, rate
  <2>6. Queue(toSource) /\ Rated(toSource) /\ Said(idr \o rate)
    BY <1>1, <2>4, SinkSaid DEF RateInv, RtspInv, RtspType
  <2>7. Rated(toSource')
    BY <2>5, <2>6, RatedQueues DEF Said, ToSource
  <2>8. cast' = cast /\ Encoding /\ source' \in Encoded
    BY <1>8 DEF MediaArrives
  <2> QED
    BY <1>1, <2>2, <2>3, <2>7, <2>8, EncodedRate, RateStep
<1>9. ASSUME MediaLost
      PROVE  RateInv'
  <2>1. cast' = cast /\ Encoding /\ source' \in Encoded /\ sink' = sink /\ toSource' = toSource
    BY <1>9 DEF MediaLost
  <2>2. Rated(toSource') /\ sink'.rung \in Rung
    BY <1>1, <2>1 DEF RateInv
  <2> QED
    BY <1>1, <2>1, <2>2, EncodedRate, RateStep
<1>10. ASSUME SourceReceive
       PROVE  RateInv'
  <2> DEFINE m == Head(toSource)
             k == m.of
             heard == JustHeard(source)
  <2>1. /\ SourceHere /\ toSource # <<>> /\ sink' = sink /\ cast' = cast
        /\ \/ Is(m, "request", k) /\ SourceOnRequest(k, heard)
           \/ Is(m, "response", k) /\ SourceOnResponse(k, heard)
    BY <1>10 DEF SourceReceive, Is, JustHeard
  <2> HIDE DEF heard, k
  <2>2. heard = JustHeard(source)
    BY DEF heard
  <2> HIDE DEF m
  <2>3. m = Head(toSource)
    BY DEF m
  <2>4. CASE Is(m, "request", k) /\ SourceOnRequest(k, heard)
    BY <1>1, <2>1, <2>2, <2>3, <2>4, SourceRequestRate
  <2>5. CASE Is(m, "response", k) /\ SourceOnResponse(k, heard)
    BY <1>1, <2>1, <2>2, <2>3, <2>5, SourceResponseRate
  <2> QED
    BY <2>1, <2>4, <2>5
<1>11. ASSUME SourceSeesClose \/ Stop \/ MediaFails \/ SourceTimeout
       PROVE  RateInv'
  <2>1. \E why \in {"closed", "stopped", "media", "timeout"} :
          SourceEnds(why, toSource) /\ sink' = sink /\ cast' = cast
    BY <1>11 DEF SourceSeesClose, Stop, MediaFails, SourceTimeout
  <2> QED
    BY <1>1, <2>1, SourceEndsRate
<1>12. ASSUME cast' = cast, toSource' = toSource, sink'.rung = sink.rung, source'.state = source.state,
              source'.chosen = source.chosen, source'.rate = source.rate,
              source'.want_kbps = source.want_kbps
       PROVE  RateInv'
  <2>1. /\ (Early' <=> Early) /\ source'.want_kbps \in Nat \cup {None}
        /\ Rated(toSource') /\ sink'.rung \in Rung
    BY <1>1, <1>12 DEF RateInv, Early
  <2> QED
    BY <1>1, <1>12, <2>1, RateStep
<1>13. ASSUME AskAnyway \/ SourceKeepalive
       PROVE  RateInv'
  <2>1. /\ cast' = cast /\ toSource' = toSource /\ sink' = sink
        /\ \/ source' = Asking(source)
           \/ source' = [source EXCEPT !.last_keepalive = 0, !.pending = @ \cup {"Keepalive"}]
    BY <1>13 DEF AskAnyway, SourceKeepalive, SourceTicks
  <2>2. /\ source'.state = source.state /\ source'.chosen = source.chosen
        /\ source'.rate = source.rate /\ source'.want_kbps = source.want_kbps
    BY ONLY <1>2, <2>1 DEF Asking
  <2> QED
    BY <1>12, <2>1, <2>2
<1>14. ASSUME Stall \/ Recover \/ UNCHANGED vars
       PROVE  RateInv'
  <2>1. cast' = cast /\ toSource' = toSource /\ sink' = sink /\ source' = source
    BY <1>14 DEF Stall, Recover, vars
  <2> QED
    BY <1>12, <2>1
<1>15. ASSUME Clock
       PROVE  RateInv'
  <2>1. /\ source' = [source EXCEPT !.m1_answered = Older(@, M2Grace),
                                    !.last_heard = Older(@, KeepaliveTimeout),
                                    !.last_keepalive = Older(@, KeepaliveEvery)]
        /\ sink' = [sink EXCEPT !.last_heard = Older(@, KeepaliveTimeout),
                                !.last_keepalive = Older(@, KeepaliveEvery),
                                !.last_media = Older(@, MediaSilence),
                                !.last_idr = Older(@, IdrMinInterval),
                                !.sampled = FALSE]
        /\ cast' = cast /\ toSource' = toSource
    BY <1>15 DEF Clock
  <2>2. /\ source'.state = source.state /\ source'.chosen = source.chosen
        /\ source'.rate = source.rate /\ source'.want_kbps = source.want_kbps
        /\ sink'.rung = sink.rung
    BY ONLY <1>2, <2>1
  <2> QED
    BY <1>12, <2>1, <2>2
<1>16. RateInv'
  BY <1>4, <1>5, <1>6, <1>7, <1>8, <1>9, <1>10, <1>11, <1>13, <1>14, <1>15
     DEF Next, SinkStep, SourceStep
<1> QED
  BY <1>1, <1>16 DEF SelectInv

(* For any display a source can meet, any user's mode and ceiling: what    *)
(* choose_selection proposes in M4 one codec tuple of the display decodes, *)
(* at a rate under every limit, castr's own sink reads it back, and the    *)
(* encoder never goes above that rate, whatever the display asks for       *)
(* (Applied, video_bitrate_kbps).                                          *)
THEOREM SelectionsSuitBoth == Spec => []SelectionSuitsBoth
<1>1. SelectInv => SelectionSuitsBoth
  <2> SUFFICES ASSUME SelectInv
               PROVE  SelectionSuitsBoth
    OBVIOUS
  <2>1. source.state = "Configuring" => Suits(source.chosen)
    BY ChoiceSuits DEF SelectInv, Early
  <2> QED
    BY <2>1 DEF SelectInv, RateInv, SelectionSuitsBoth
<1> QED
  BY <1>1, SelectInitInv, SelectInvStep, PTL DEF Spec
=============================================================================
