-------------------------- MODULE CastSession_proofs --------------------------
(***************************************************************************)
(* For any senders, modes and time limits, however often connections are   *)
(* lost and the receiver restarts: a session is resumed only by the sender *)
(* that opened it, and what the receiver plays is what its user chose.     *)
(***************************************************************************)
EXTENDS CastSession, SequenceTheorems, TLAPS

Reply ==
  {HelloAck} \union [type : {"SessionToken"}, token : Nat] \union [type : {"Error"}, code : Nat]

Request ==
  [type : {"Hello"}, resume : Nat \union {None}]
    \union [type : {"StartStream", "SetMode"}, mode : Mode] \union {Goodbye}

Session ==
  [state : {"AwaitingHello", "Streaming", "Disconnected", "Closed"}, since : Nat,
   token : Nat, params : Mode \union {None}]

Connection == [from : Senders, up : BOOLEAN, phase : {"hello", "stream"}, toR : Seq(Request)]

Phase == {"idle", "connect", "linked", "await", "cast", "bye", "ended"}

Elements(q) == {q[i] : i \in DOMAIN q}

(* What is taken from the front of a stream, or left of it, was in it.     *)
LEMMA ElementsTail ==
  ASSUME NEW S, NEW q \in Seq(S), q # <<>>
  PROVE  /\ Tail(q) \in Seq(S) /\ Head(q) \in Elements(q) /\ Head(q) \in S /\ Head(q) = q[1]
         /\ Elements(Tail(q)) \subseteq Elements(q)
         /\ Len(Tail(q)) = Len(q) - 1 /\ Len(q) \in Nat \ {0}
         /\ Tail(q) # <<>> => Len(q) > 1 /\ Tail(q)[Len(Tail(q))] = q[Len(q)]
<1>1. Len(q) \in Nat \ {0} /\ DOMAIN q = 1 .. Len(q)
  BY EmptySeq, LenProperties
<1>2. /\ Tail(q) \in Seq(S) /\ Head(q) \in S /\ Len(Tail(q)) = Len(q) - 1
      /\ \A i \in 1 .. Len(Tail(q)) : Tail(q)[i] = q[i + 1]
  BY HeadTailProperties
<1>3. DOMAIN Tail(q) = 1 .. (Len(q) - 1)
  BY <1>2, LenProperties
<1>4. \A i \in DOMAIN Tail(q) : i + 1 \in DOMAIN q /\ Tail(q)[i] = q[i + 1]
  BY <1>1, <1>2, <1>3
<1>5. Head(q) = q[1] /\ 1 \in DOMAIN q
  BY <1>1
<1>6. Tail(q) # <<>> => Len(q) > 1 /\ Tail(q)[Len(Tail(q))] = q[Len(q)]
  <2>1. SUFFICES ASSUME Tail(q) # <<>>
                 PROVE  Len(q) > 1 /\ Tail(q)[Len(Tail(q))] = q[Len(q)]
    OBVIOUS
  <2>2. Len(Tail(q)) # 0
    BY <1>2, <2>1, EmptySeq
  <2>3. Len(q) > 1 /\ Len(q) - 1 \in 1 .. Len(Tail(q))
    BY <1>1, <1>2, <2>2
  <2>4. Tail(q)[Len(q) - 1] = q[Len(q) - 1 + 1] /\ Len(q) - 1 + 1 = Len(q)
    BY <1>1, <1>2, <2>3
  <2> QED
    BY <1>2, <2>3, <2>4
<1> QED
  BY <1>1, <1>2, <1>4, <1>5, <1>6 DEF Elements

(* The last element of a stream that was written to is what was written.   *)
LEMMA ElementsAppend ==
  ASSUME NEW S, NEW q \in Seq(S), NEW x \in S
  PROVE  /\ Append(q, x) \in Seq(S) /\ Append(q, x) # <<>>
         /\ Len(Append(q, x)) = Len(q) + 1 /\ Len(q) \in Nat
         /\ Append(q, x)[Len(Append(q, x))] = x
         /\ Elements(Append(q, x)) \subseteq Elements(q) \union {x}
         /\ Append(q, x)[1] = IF q = <<>> THEN x ELSE q[1]
<1>1. Len(q) \in Nat /\ DOMAIN q = 1 .. Len(q)
  BY LenProperties
<1>2. /\ Append(q, x) \in Seq(S) /\ Len(Append(q, x)) = Len(q) + 1
      /\ \A i \in 1 .. Len(q) : Append(q, x)[i] = q[i]
      /\ Append(q, x)[Len(q) + 1] = x
  BY AppendProperties
<1>3. DOMAIN Append(q, x) = 1 .. (Len(q) + 1)
  BY <1>2, LenProperties
<1>4. Append(q, x) # <<>>
  BY <1>1, <1>2, EmptySeq
<1>5. \A i \in DOMAIN Append(q, x) : i \in DOMAIN q \/ i = Len(q) + 1
  BY <1>1, <1>3
<1>6. Append(q, x)[1] = IF q = <<>> THEN x ELSE q[1]
  <2>1. q = <<>> <=> Len(q) = 0
    BY EmptySeq
  <2>2. CASE q = <<>>
    <3>1. Len(q) + 1 = 1
      BY <2>1, <2>2
    <3> QED
      BY <1>2, <2>2, <3>1
  <2>3. CASE q # <<>>
    <3>1. 1 \in 1 .. Len(q)
      BY <1>1, <2>1, <2>3
    <3> QED
      BY <1>2, <2>3, <3>1
  <2> QED
    BY <2>2, <2>3
<1> QED
  BY <1>1, <1>2, <1>4, <1>5, <1>6 DEF Elements

(* A stream that another is put behind. *)
LEMMA ElementsConcat ==
  ASSUME NEW S, NEW q \in Seq(S), NEW r \in Seq(S)
  PROVE  q \o r \in Seq(S) /\ Elements(q \o r) \subseteq Elements(q) \union Elements(r)
<1>1. /\ q \o r \in Seq(S) /\ Len(q \o r) = Len(q) + Len(r)
      /\ Len(q) \in Nat /\ Len(r) \in Nat
      /\ \A i \in 1 .. Len(q) + Len(r) : (q \o r)[i] = IF i <= Len(q) THEN q[i] ELSE r[i - Len(q)]
  BY ConcatProperties, LenProperties
<1>2. /\ DOMAIN (q \o r) = 1 .. (Len(q) + Len(r))
      /\ DOMAIN q = 1 .. Len(q) /\ DOMAIN r = 1 .. Len(r)
  BY <1>1, LenProperties
<1>3. ASSUME NEW i \in DOMAIN (q \o r)
      PROVE  (q \o r)[i] \in Elements(q) \union Elements(r)
  <2>1. CASE i <= Len(q)
    <3>1. i \in DOMAIN q /\ (q \o r)[i] = q[i]
      BY <1>1, <1>2, <1>3, <2>1
    <3> QED
      BY <3>1 DEF Elements
  <2>2. CASE ~(i <= Len(q))
    <3>1. i - Len(q) \in DOMAIN r /\ (q \o r)[i] = r[i - Len(q)]
      BY <1>1, <1>2, <1>3, <2>2
    <3> QED
      BY <3>1 DEF Elements
  <2> QED
    BY <2>1, <2>2
<1> QED
  BY <1>1, <1>3 DEF Elements

(* What is left of a stream when its connection closes. *)
LEMMA ElementsPrefix ==
  ASSUME NEW S, NEW q \in Seq(S), NEW p \in Prefixes(q)
  PROVE  p \in Seq(S) /\ Elements(p) \subseteq Elements(q)
<1>1. PICK k \in 0 .. Len(q) : p = SubSeq(q, 1, k)
  BY DEF Prefixes
<1>2. Len(q) \in Nat /\ DOMAIN q = 1 .. Len(q)
  BY LenProperties
<1>3. /\ p \in Seq(S) /\ Len(p) = k
      /\ \A i \in 1 .. k : p[i] = q[i]
  BY <1>1, <1>2, SubSeqProperties
<1>4. \A i \in DOMAIN p : i \in DOMAIN q /\ p[i] = q[i]
  BY <1>2, <1>3, LenProperties
<1> QED
  BY <1>3, <1>4 DEF Elements

(* Nothing is in an empty stream. *)
LEMMA ElementsEmpty == Elements(<<>>) = {} /\ \A S : <<>> \in Seq(S)
BY EmptySeq DEF Elements

------------------------------------------------------------------------------
TypeInv ==
  /\ now \in Nat /\ issued \in Nat
  /\ session \in Session /\ session.token = issued
  /\ holder \in Senders \union {None}
  /\ conn # None => conn \in Connection
  /\ phase \in [Senders -> Phase]
  /\ token \in [Senders -> Nat \union {None}]
  /\ mode \in [Senders -> Mode \union {None}]
  /\ \A s \in Senders \ Probers : mode[s] # None
  /\ inbox \in [Senders -> Seq(Reply)]

\* A sender that knows the token n of a session held by h is h
Known(t, s, n, h) == t # None => t <= n /\ (t = n => s = h)

Offered(c, n, h) == \A m \in Elements(c.toR) : m.type = "Hello" => Known(m.resume, c.from, n, h)

Told(q, s, n, h) == \A m \in Elements(q) : m.type = "SessionToken" => Known(m.token, s, n, h)

TokenInv ==
  /\ session.state = "AwaitingHello" => holder = None
  /\ \A s \in Senders : Known(token[s], s, issued, holder) /\ Told(inbox[s], s, issued, holder)
  /\ conn # None => Offered(conn, issued, holder)

\* The first thing on a connection is its Hello
HelloInv ==
  conn # None /\ conn.phase = "hello" =>
    /\ \A m \in Elements(conn.toR) : m.type = "Hello"
    /\ conn.up =>
         /\ inbox[conn.from] = <<>>
         /\ \/ phase[conn.from] = "linked" /\ conn.toR = <<>>
            \/ phase[conn.from] = "await" /\ Len(conn.toR) = 1

\* The choices of the user that the receiver has not read yet end with the last one
ModeUnderWay ==
  /\ \A m \in Elements(conn.toR) : m.type \in {"StartStream", "SetMode"}
  /\ conn.toR = <<>> => jmode = mode[conn.from] /\ session.params = mode[conn.from]
  /\ conn.toR # <<>> => conn.toR[Len(conn.toR)].mode = mode[conn.from]
  /\ session.params = None => conn.toR # <<>> /\ conn.toR[1].type = "StartStream"

ModeInv ==
  conn # None /\ conn.up /\ conn.phase = "stream" =>
    \/ phase[conn.from] = "await" /\ conn.toR = <<>>
    \/ phase[conn.from] = "cast" /\ ModeUnderWay
    \/ phase[conn.from] = "bye"

CastInv == TypeInv /\ TokenInv /\ HelloInv /\ ModeInv

------------------------------------------------------------------------------
(* At the start no token is known and nobody is connected.                 *)
LEMMA InitCastInv == Init => CastInv
<1> SUFFICES ASSUME Init PROVE CastInv
  OBVIOUS
<1>1. session = NewSession(1) /\ issued = 1 /\ holder = None /\ conn = None /\ now = 0
  BY DEF Init
<1>2. TypeInv
  <2>1. session \in Session /\ session.token = 1 /\ session.state = "AwaitingHello"
    BY <1>1 DEF NewSession, Session
  <2>2. inbox \in [Senders -> Seq(Reply)]
    BY ElementsEmpty DEF Init
  <2> QED
    BY <1>1, <2>1, <2>2 DEF Init, TypeInv, Phase
<1>3. TokenInv
  <2>1. \A s \in Senders : token[s] = None /\ inbox[s] = <<>>
    BY DEF Init
  <2> QED
    BY <1>1, <2>1, ElementsEmpty DEF TokenInv, Known, Told
<1>4. HelloInv /\ ModeInv
  BY <1>1 DEF HelloInv, ModeInv
<1> QED
  BY <1>2, <1>3, <1>4 DEF CastInv

(* Knowledge of tokens outlives every change of the session: a new token   *)
(* is known to nobody, and a session has one holder from its first Hello.  *)
LEMMA TokensStay ==
  ASSUME CastInv, TypeInv',
         \/ issued' = issued /\ holder' = holder
         \/ issued' = issued + 1 /\ holder' = None
         \/ issued' = issued /\ session.state = "AwaitingHello",
         session'.state = "AwaitingHello" => holder' = None,
         \A s \in Senders : Known(token'[s], s, issued, holder),
         \A s \in Senders : \A m \in Elements(inbox'[s]) :
             m.type = "SessionToken" =>
                 Known(m.token, s, issued, holder) \/ (m.token = issued' /\ s = holder'),
         conn' # None => Offered(conn', issued, holder)
  PROVE  TokenInv'
<1> DEFINE n == issued'
           h == holder'
<1>1. \A t \in Nat \union {None}, s \in Senders : Known(t, s, issued, holder) => Known(t, s, n, h)
  BY CastAssumption DEF CastInv, TypeInv, TokenInv, Known
<1>2. /\ token' \in [Senders -> Nat \union {None}] /\ inbox' \in [Senders -> Seq(Reply)]
      /\ n \in Nat /\ (conn' # None => conn' \in Connection)
  BY DEF TypeInv
<1>3. \A s \in Senders : Known(token'[s], s, n, h)
  BY <1>1, <1>2
<1>4. \A s \in Senders : Told(inbox'[s], s, n, h)
  <2>1. SUFFICES ASSUME NEW s \in Senders, NEW m \in Elements(inbox'[s]), m.type = "SessionToken"
                 PROVE  Known(m.token, s, n, h)
    BY DEF Told
  <2>2. inbox'[s] \in Seq(Reply)
    BY <1>2
  <2>3. m \in Reply
    BY <2>2, ElementOfSeq, LenProperties DEF Elements
  <2>4. m.token \in Nat
    BY <2>1, <2>3 DEF Reply, HelloAck
  <2>5. CASE Known(m.token, s, issued, holder)
    BY <1>1, <2>4, <2>5
  <2>6. CASE m.token = n /\ s = h
    BY <1>2, <2>6 DEF Known
  <2> QED
    BY <2>1, <2>5, <2>6
<1>5. conn' # None => Offered(conn', n, h)
  <2>1. SUFFICES ASSUME conn' # None, NEW m \in Elements(conn'.toR), m.type = "Hello"
                 PROVE  Known(m.resume, conn'.from, n, h)
    BY DEF Offered
  <2>2. conn'.toR \in Seq(Request) /\ conn'.from \in Senders
    BY <1>2, <2>1 DEF Connection
  <2>3. m \in Request
    BY <2>2, ElementOfSeq, LenProperties DEF Elements
  <2>4. m.resume \in Nat \union {None}
    BY <2>1, <2>3 DEF Request, Goodbye
  <2> QED
    BY <1>1, <2>1, <2>2, <2>4 DEF Offered
<1> QED
  BY <1>3, <1>4, <1>5 DEF TokenInv

(* The end of a handler leaves no connection; what its sender can still    *)
(* read was meant for it.                                                  *)
LEMMA HandlerEnds ==
  ASSUME CastInv, conn # None, NEW sess \in Session, NEW msgs \in Seq(Reply),
         EndHandler(sess, msgs), UNCHANGED <<now, issued, phase, token, mode>>,
         sess.token = issued,
         \/ holder' = holder /\ (sess.state = "AwaitingHello" => holder = None)
         \/ session.state = "AwaitingHello" /\ sess.state # "AwaitingHello" /\ holder' = conn.from,
         \A m \in Elements(msgs) : m.type = "SessionToken" => m.token = issued /\ holder' = conn.from
  PROVE  CastInv'
<1> USE DEF CastInv
<1> DEFINE f == conn.from
<1>1. f \in Senders /\ inbox[f] \in Seq(Reply)
  BY DEF TypeInv, Connection
<1>2. PICK q \in Prefixes(inbox[f] \o msgs) : inbox' = [inbox EXCEPT ![f] = q]
  BY DEF EndHandler
<1>3. conn' = None /\ session' = Disconnected(sess)
  BY DEF EndHandler
<1>4. /\ q \in Seq(Reply)
      /\ Elements(q) \subseteq Elements(inbox[f]) \union Elements(msgs)
  <2>1. /\ inbox[f] \o msgs \in Seq(Reply)
        /\ Elements(inbox[f] \o msgs) \subseteq Elements(inbox[f]) \union Elements(msgs)
    BY <1>1, ElementsConcat
  <2>2. q \in Seq(Reply) /\ Elements(q) \subseteq Elements(inbox[f] \o msgs)
    BY <2>1, ElementsPrefix
  <2> QED
    BY <2>1, <2>2
<1>5. /\ session' \in Session /\ session'.token = issued
      /\ session'.state = "AwaitingHello" <=> sess.state = "AwaitingHello"
  BY <1>3 DEF Disconnected, Session, TypeInv
<1>6. /\ inbox' \in [Senders -> Seq(Reply)] /\ inbox'[f] = q
      /\ \A s \in Senders \ {f} : inbox'[s] = inbox[s]
  BY <1>1, <1>2, <1>4 DEF TypeInv
<1>7. TypeInv'
  BY <1>1, <1>3, <1>5, <1>6 DEF TypeInv
<1>8. TokenInv'
  <2>1. \A s \in Senders : Known(token'[s], s, issued, holder)
    BY DEF TokenInv
  <2>2. \A s \in Senders : \A m \in Elements(inbox'[s]) :
          m.type = "SessionToken" =>
              Known(m.token, s, issued, holder) \/ (m.token = issued' /\ s = holder')
    BY <1>4, <1>6 DEF TokenInv, Told
  <2>3. session'.state = "AwaitingHello" => holder' = None
    BY <1>5
  <2> QED
    BY <1>3, <1>7, <2>1, <2>2, <2>3, TokensStay
<1>9. HelloInv' /\ ModeInv'
  BY <1>3 DEF HelloInv, ModeInv
<1> QED
  BY <1>7, <1>8, <1>9

(* The answer to a Hello: the stream begins, or the connection ends.       *)
LEMMA Welcomed ==
  ASSUME CastInv, HelloReady, NEW replies \in Seq(Reply), Welcome(replies),
         UNCHANGED <<now, issued, phase, token, mode>>,
         \/ holder' = holder
         \/ session.state = "AwaitingHello" /\ holder' = conn.from,
         \A m \in Elements(replies) : m.type = "SessionToken" => m.token = issued /\ holder' = conn.from
  PROVE  CastInv'
<1> USE DEF CastInv
<1> DEFINE f == conn.from
<1>1. /\ conn # None /\ conn.phase = "hello" /\ conn.toR # <<>> /\ conn \in Connection
      /\ f \in Senders /\ conn.toR \in Seq(Request) /\ inbox[f] \in Seq(Reply)
  BY DEF HelloReady, TypeInv, Connection
<1>2. Greeted \in Session /\ Greeted.token = issued /\ Greeted.state = "Streaming"
  BY DEF Greeted, TypeInv, Session
<1>3. Error(5) \in Reply /\ Error(5).type # "SessionToken"
  BY DEF Reply, Error
<1>4. CASE conn.up /\ owner = "Miracast" /\ EndHandler(Greeted, Append(replies, Error(5)))
  <2>1. /\ Append(replies, Error(5)) \in Seq(Reply)
        /\ Elements(Append(replies, Error(5))) \subseteq Elements(replies) \union {Error(5)}
    BY <1>3, ElementsAppend
  <2>2. \A m \in Elements(Append(replies, Error(5))) :
           m.type = "SessionToken" => m.token = issued /\ holder' = conn.from
    BY <1>3, <2>1
  <2> QED
    BY <1>1, <1>2, <1>4, <2>1, <2>2, HandlerEnds
<1>5. CASE ~conn.up /\ EndHandler(Greeted, <<>>)
  BY <1>1, <1>2, <1>5, ElementsEmpty, HandlerEnds
<1>6. CASE conn.up /\ ~(owner = "Miracast" /\ EndHandler(Greeted, Append(replies, Error(5))))
  <2>1. /\ session' = Greeted
        /\ conn' = [conn EXCEPT !.phase = "stream", !.toR = Tail(@)]
        /\ inbox' = [inbox EXCEPT ![f] = @ \o replies]
    BY <1>6 DEF Welcome
  <2>2. phase[f] = "await" /\ Len(conn.toR) = 1 /\ \A m \in Elements(conn.toR) : m.type = "Hello"
    BY <1>1, <1>6 DEF HelloInv
  <2>3. Tail(conn.toR) \in Seq(Request) /\ Tail(conn.toR) = <<>>
    <3>1. Tail(conn.toR) \in Seq(Request) /\ Len(Tail(conn.toR)) = 0
      BY <1>1, <2>2, HeadTailProperties
    <3> QED
      BY <3>1, EmptySeq
  <2>4. /\ conn' \in Connection /\ conn'.from = f /\ conn'.phase = "stream" /\ conn'.toR = <<>>
    BY <1>1, <2>1, <2>3 DEF Connection
  <2>5. /\ inbox[f] \o replies \in Seq(Reply)
        /\ Elements(inbox[f] \o replies) \subseteq Elements(inbox[f]) \union Elements(replies)
    BY <1>1, ElementsConcat
  <2>6. /\ inbox' \in [Senders -> Seq(Reply)] /\ inbox'[f] = inbox[f] \o replies
        /\ \A s \in Senders \ {f} : inbox'[s] = inbox[s]
    BY <1>1, <2>1, <2>5 DEF TypeInv
  <2>7. TypeInv'
    BY <1>1, <1>2, <2>1, <2>4, <2>6 DEF TypeInv
  <2>8. TokenInv'
    <3>1. \A s \in Senders : Known(token'[s], s, issued, holder)
      BY DEF TokenInv
    <3>2. \A s \in Senders : \A m \in Elements(inbox'[s]) :
            m.type = "SessionToken" =>
                Known(m.token, s, issued, holder) \/ (m.token = issued' /\ s = holder')
      BY <2>5, <2>6 DEF TokenInv, Told
    <3>3. Offered(conn', issued, holder)
      BY <2>4, ElementsEmpty DEF Offered
    <3> QED
      BY <1>2, <2>1, <2>7, <3>1, <3>2, <3>3, TokensStay
  <2>9. HelloInv' /\ ModeInv'
    BY <2>2, <2>4 DEF HelloInv, ModeInv
  <2> QED
    BY <2>7, <2>8, <2>9
<1> QED
  BY <1>4, <1>5, <1>6 DEF Welcome

(* The receiver reads: a Hello, the control messages of the stream, the    *)
(* end of the connection.                                                  *)
LEMMA ReceiverSteps == CastInv /\ ReceiverStep => CastInv'
<1> SUFFICES ASSUME CastInv, ReceiverStep PROVE CastInv'
  OBVIOUS
<1> USE DEF CastInv
<1>1. session \in Session /\ session.token = issued /\ issued \in Nat
  BY DEF TypeInv
<1>2. CASE RecvFirstHello
  <2> DEFINE replies == <<HelloAck, SessionToken(session.token)>>
  <2>1. HelloAck \in Reply /\ SessionToken(session.token) \in Reply
    BY <1>1 DEF Reply, SessionToken
  <2>2. replies \in Seq(Reply)
    BY <2>1
  <2>3. \A m \in Elements(replies) : m = HelloAck \/ m = SessionToken(session.token)
    BY DEF Elements
  <2>4. holder' = conn.from /\ session.state = "AwaitingHello"
    BY <1>2 DEF RecvFirstHello
  <2>5. \A m \in Elements(replies) : m.type = "SessionToken" => m.token = issued /\ holder' = conn.from
    BY <1>1, <2>3, <2>4 DEF HelloAck, SessionToken
  <2>6. HelloReady /\ Welcome(replies) /\ UNCHANGED <<now, issued, phase, token, mode>>
    BY <1>2 DEF RecvFirstHello
  <2> HIDE DEF replies
  <2> QED
    BY <2>2, <2>4, <2>5, <2>6, Welcomed
<1>3. CASE RecvResume
  <2>1. HelloAck \in Reply /\ HelloAck.type # "SessionToken"
    BY DEF Reply, HelloAck
  <2>2. <<HelloAck>> \in Seq(Reply) /\ \A m \in Elements(<<HelloAck>>) : m = HelloAck
    BY <2>1 DEF Elements
  <2>3. /\ HelloReady /\ Welcome(<<HelloAck>>) /\ holder' = holder
        /\ UNCHANGED <<now, issued, phase, token, mode>>
    BY <1>3 DEF RecvResume
  <2> QED
    BY <2>1, <2>2, <2>3, Welcomed
<1>4. CASE RecvBadToken
  <2> DEFINE sess == [session EXCEPT !.state = "Closed"]
  <2>1. Error(1) \in Reply /\ Error(1).type # "SessionToken"
    BY DEF Reply, Error
  <2>2. <<Error(1)>> \in Seq(Reply) /\ \A m \in Elements(<<Error(1)>>) : m = Error(1)
    BY <2>1 DEF Elements
  <2>3. sess \in Session /\ sess.token = issued /\ sess.state = "Closed"
    BY <1>1 DEF Session
  <2>4. /\ conn # None /\ EndHandler(sess, <<Error(1)>>) /\ holder' = holder
        /\ UNCHANGED <<now, issued, phase, token, mode>>
    BY <1>4 DEF RecvBadToken, HelloReady
  <2> HIDE DEF sess
  <2> QED
    BY <2>1, <2>2, <2>3, <2>4, HandlerEnds
<1>5. CASE ReceiverNoticesLoss
  <2>1. /\ conn # None /\ EndHandler(session, <<>>) /\ holder' = holder
        /\ UNCHANGED <<now, issued, phase, token, mode>>
    BY <1>5 DEF ReceiverNoticesLoss
  <2>2. session.state = "AwaitingHello" => holder = None
    BY DEF TokenInv
  <2> QED
    BY <1>1, <2>1, <2>2, ElementsEmpty, HandlerEnds
<1>6. CASE RecvControl
  <2> DEFINE f == conn.from
             m == Head(conn.toR)
  <2>1. /\ conn # None /\ conn.phase = "stream" /\ conn.toR # <<>> /\ conn \in Connection
        /\ f \in Senders /\ conn.toR \in Seq(Request)
        /\ holder' = holder /\ UNCHANGED <<now, issued, phase, token, mode>>
    BY <1>6 DEF RecvControl, TypeInv, Connection
  <2>2. CASE /\ m.type \in {"StartStream", "SetMode"}
             /\ session' = Adopt(m) /\ jmode' = m.mode
             /\ conn' = [conn EXCEPT !.toR = Tail(@)]
             /\ UNCHANGED <<owner, inbox>>
    <3>1. /\ Tail(conn.toR) \in Seq(Request) /\ m \in Request /\ m = conn.toR[1]
          /\ Elements(Tail(conn.toR)) \subseteq Elements(conn.toR)
          /\ Len(Tail(conn.toR)) = Len(conn.toR) - 1 /\ Len(conn.toR) \in Nat \ {0}
          /\ Tail(conn.toR) # <<>> =>
                Len(conn.toR) > 1 /\ Tail(conn.toR)[Len(Tail(conn.toR))] = conn.toR[Len(conn.toR)]
      BY <2>1, ElementsTail
    <3>2. m.mode \in Mode /\ m.mode # None
      BY <2>2, <3>1, CastAssumption DEF Request, Goodbye
    <3>3. /\ session' \in Session /\ session'.token = issued /\ session'.state = session.state
          /\ session'.params = IF m.type = "StartStream" \/ session.params # None
                               THEN m.mode ELSE session.params
      BY <1>1, <2>2, <3>2 DEF Adopt, Session
    <3>4. /\ conn' \in Connection /\ conn'.from = f /\ conn'.up = conn.up
          /\ conn'.phase = "stream" /\ conn'.toR = Tail(conn.toR)
      BY <2>1, <2>2, <3>1 DEF Connection
    <3>5. TypeInv'
      BY <2>1, <2>2, <3>3, <3>4 DEF TypeInv
    <3>6. TokenInv'
      <4>1. Offered(conn', issued, holder)
        BY <2>1, <3>1, <3>4 DEF TokenInv, Offered
      <4>2. /\ \A s \in Senders : Known(token'[s], s, issued, holder)
            /\ \A s \in Senders : \A x \in Elements(inbox'[s]) :
                  x.type = "SessionToken" => Known(x.token, s, issued, holder)
        BY <2>1, <2>2 DEF TokenInv, Told
      <4>3. session'.state = "AwaitingHello" => holder' = None
        BY <2>1, <3>3 DEF TokenInv
      <4> QED
        BY <2>1, <3>5, <4>1, <4>2, <4>3, TokensStay
    <3>7. HelloInv'
      BY <3>4 DEF HelloInv
    <3>8. ModeInv'
      <4>1. SUFFICES ASSUME conn.up, phase[f] = "cast", ModeUnderWay
                     PROVE  ModeUnderWay'
        BY <2>1, <3>4 DEF ModeInv
      <4>2. \A x \in Elements(conn'.toR) : x.type \in {"StartStream", "SetMode"}
        BY <3>1, <3>4, <4>1 DEF ModeUnderWay
      <4>3. session'.params = m.mode
        BY <3>1, <3>3, <4>1 DEF ModeUnderWay
      <4>4. CASE Tail(conn.toR) = <<>>
        <5>1. Len(Tail(conn.toR)) = 0
          BY <3>1, <4>4, EmptySeq
        <5>2. Len(conn.toR) = 1
          BY <3>1, <5>1
        <5>3. m.mode = mode[f]
          BY <2>1, <3>1, <4>1, <5>2 DEF ModeUnderWay
        <5> QED
          BY <2>1, <2>2, <3>2, <3>4, <4>2, <4>3, <4>4, <5>3 DEF ModeUnderWay
      <4>5. CASE Tail(conn.toR) # <<>>
        <5>1. Tail(conn.toR)[Len(Tail(conn.toR))].mode = mode[f]
          BY <2>1, <3>1, <4>1, <4>5 DEF ModeUnderWay
        <5> QED
          BY <2>1, <3>2, <3>4, <4>2, <4>3, <4>5, <5>1 DEF ModeUnderWay
      <4> QED
        BY <4>4, <4>5
    <3> QED
      BY <3>5, <3>6, <3>7, <3>8
  <2>3. CASE /\ m.type = "Goodbye"
             /\ EndHandler([session EXCEPT !.state = "Closed"], <<>>)
    <3>1. /\ [session EXCEPT !.state = "Closed"] \in Session
          /\ [session EXCEPT !.state = "Closed"].token = issued
          /\ [session EXCEPT !.state = "Closed"].state = "Closed"
      BY <1>1 DEF Session
    <3> QED
      BY <2>1, <2>3, <3>1, ElementsEmpty, HandlerEnds
  <2> QED
    BY <1>6, <2>2, <2>3 DEF RecvControl
<1> QED
  BY <1>2, <1>3, <1>4, <1>5, <1>6 DEF ReceiverStep

(* A sender moves.  Where its connection is up, what it writes keeps the   *)
(* order of a conversation; the other senders are not touched.             *)
LEMMA SenderMoves ==
  ASSUME CastInv, NEW s \in Senders, NEW p \in Phase, NEW q \in Seq(Reply),
         NEW t \in Nat \union {None}, NEW d \in Mode \union {None},
         NEW b \in BOOLEAN, NEW r \in Seq(Request),
         UNCHANGED <<now, session, issued, holder, jmode>>,
         phase' = [phase EXCEPT ![s] = p],
         inbox' = [inbox EXCEPT ![s] = q], Elements(q) \subseteq Elements(inbox[s]),
         token' = [token EXCEPT ![s] = t], Known(t, s, issued, holder),
         mode' = [mode EXCEPT ![s] = d], d = None => mode[s] = None,
         \/ conn' = conn /\ ~LinkUp(s)
         \/ /\ LinkUp(s) /\ conn' = [conn EXCEPT !.up = b, !.toR = r]
            /\ \A m \in Elements(r) :
                  m \in Elements(conn.toR) \/ (m.type = "Hello" => m.resume = token[s])
            /\ conn.phase = "hello" =>
                  /\ \A m \in Elements(r) : m.type = "Hello"
                  /\ b => q = <<>> /\ p \in {"linked", "await"}
                           /\ IF p = "linked" THEN r = <<>> ELSE Len(r) = 1
            /\ conn.phase = "stream" /\ b =>
                  \/ p = "await" /\ r = <<>>
                  \/ p = "cast" /\ ModeUnderWay'
                  \/ p = "bye"
  PROVE  CastInv'
<1> USE DEF CastInv
<1>1. /\ phase' \in [Senders -> Phase] /\ phase'[s] = p
      /\ inbox' \in [Senders -> Seq(Reply)] /\ inbox'[s] = q
      /\ token' \in [Senders -> Nat \union {None}] /\ token'[s] = t
      /\ mode' \in [Senders -> Mode \union {None}] /\ mode'[s] = d
      /\ \A o \in Senders \ {s} : /\ phase'[o] = phase[o] /\ inbox'[o] = inbox[o]
                                   /\ token'[o] = token[o] /\ mode'[o] = mode[o]
  BY DEF TypeInv
<1>2. \A o \in Senders \ Probers : mode'[o] # None
  BY <1>1 DEF TypeInv
<1>3. \A o \in Senders : Known(token'[o], o, issued, holder)
  BY <1>1 DEF TokenInv
<1>4. \A o \in Senders : \A m \in Elements(inbox'[o]) :
         m.type = "SessionToken" => Known(m.token, o, issued, holder)
  BY <1>1 DEF TokenInv, Told
<1>5. session'.state = "AwaitingHello" => holder' = None
  BY DEF TokenInv
<1>6. CASE conn' = conn /\ ~LinkUp(s)
  <2>1. TypeInv'
    BY <1>1, <1>2, <1>6 DEF TypeInv
  <2>2. TokenInv'
    BY <1>3, <1>4, <1>5, <1>6, <2>1, TokensStay DEF TokenInv
  <2>3. conn # None /\ conn.up => conn.from \in Senders \ {s}
    BY <1>6 DEF LinkUp, TypeInv, Connection
  <2>4. HelloInv' /\ ModeInv'
    BY <1>1, <1>6, <2>3 DEF HelloInv, ModeInv, ModeUnderWay
  <2> QED
    BY <2>1, <2>2, <2>4
<1>7. CASE LinkUp(s) /\ conn' = [conn EXCEPT !.up = b, !.toR = r]
  <2>1. conn # None /\ conn \in Connection /\ conn.from = s /\ conn.up
    BY <1>7 DEF LinkUp, TypeInv
  <2>2. /\ conn' \in Connection /\ conn'.from = s /\ conn'.up = b
        /\ conn'.toR = r /\ conn'.phase = conn.phase
    BY <1>7, <2>1 DEF Connection
  <2>3. TypeInv'
    BY <1>1, <1>2, <2>2 DEF TypeInv
  <2>4. Offered(conn', issued, holder)
    BY <1>7, <2>1, <2>2 DEF TokenInv, Offered, LinkUp
  <2>5. TokenInv'
    BY <1>3, <1>4, <1>5, <2>3, <2>4, TokensStay
  <2>6. HelloInv'
    BY <1>1, <1>7, <2>2 DEF HelloInv, LinkUp
  <2>7. ModeInv'
    BY <1>1, <1>7, <2>2 DEF ModeInv, LinkUp, Connection
  <2> QED
    BY <2>3, <2>5, <2>6, <2>7
<1> QED
  BY <1>6, <1>7

(* What is true of a sender by the types alone, and of the connection that *)
(* is up with it.                                                          *)
LEMMA SenderFacts ==
  ASSUME CastInv, NEW s \in Senders
  PROVE  /\ phase[s] \in Phase /\ inbox[s] \in Seq(Reply) /\ mode[s] \in Mode \union {None}
         /\ token[s] \in Nat \union {None} /\ Known(token[s], s, issued, holder)
         /\ phase = [phase EXCEPT ![s] = phase[s]] /\ inbox = [inbox EXCEPT ![s] = inbox[s]]
         /\ token = [token EXCEPT ![s] = token[s]] /\ mode = [mode EXCEPT ![s] = mode[s]]
         /\ LinkUp(s) =>
              /\ conn.toR \in Seq(Request) /\ conn = [conn EXCEPT !.up = TRUE, !.toR = conn.toR]
              /\ conn.from = s /\ conn # None /\ conn.up
              /\ phase[s] \in {"linked", "await", "cast", "bye"}
              /\ \/ /\ conn.phase = "hello" /\ inbox[s] = <<>>
                    /\ \/ phase[s] = "linked" /\ conn.toR = <<>>
                       \/ phase[s] = "await" /\ Len(conn.toR) = 1
                    /\ \A m \in Elements(conn.toR) : m.type = "Hello"
                 \/ /\ conn.phase = "stream"
                    /\ \/ phase[s] = "await" /\ conn.toR = <<>>
                       \/ phase[s] = "cast" /\ ModeUnderWay
                       \/ phase[s] = "bye"
<1> USE DEF CastInv
<1>1. /\ phase[s] \in Phase /\ inbox[s] \in Seq(Reply) /\ mode[s] \in Mode \union {None}
      /\ token[s] \in Nat \union {None} /\ Known(token[s], s, issued, holder)
      /\ phase = [phase EXCEPT ![s] = phase[s]] /\ inbox = [inbox EXCEPT ![s] = inbox[s]]
      /\ token = [token EXCEPT ![s] = token[s]] /\ mode = [mode EXCEPT ![s] = mode[s]]
  BY DEF TypeInv, TokenInv
<1>2. ASSUME LinkUp(s)
      PROVE  /\ conn.toR \in Seq(Request) /\ conn = [conn EXCEPT !.up = TRUE, !.toR = conn.toR]
             /\ conn.from = s /\ conn # None /\ conn.up /\ conn.phase \in {"hello", "stream"}
  BY <1>2 DEF LinkUp, TypeInv, Connection
<1>3. ASSUME LinkUp(s), conn.phase = "hello"
      PROVE  /\ inbox[s] = <<>> /\ \A m \in Elements(conn.toR) : m.type = "Hello"
             /\ \/ phase[s] = "linked" /\ conn.toR = <<>>
                \/ phase[s] = "await" /\ Len(conn.toR) = 1
  BY <1>2, <1>3 DEF HelloInv
<1>4. ASSUME LinkUp(s), conn.phase = "stream"
      PROVE  \/ phase[s] = "await" /\ conn.toR = <<>>
             \/ phase[s] = "cast" /\ ModeUnderWay
             \/ phase[s] = "bye"
  BY <1>2, <1>4 DEF ModeInv
<1> QED
  BY <1>1, <1>2, <1>3, <1>4

(* A step that only the sender itself notices, with no connection up.      *)
LEMMA AloneSteps ==
  ASSUME CastInv, NEW s \in Senders,
         Start(s) \/ ConnectTimeout(s) \/ NoticeLoss(s)
  PROVE  CastInv'
<1>1. /\ conn' = conn /\ mode' = mode /\ UNCHANGED <<now, session, issued, holder, jmode>>
      /\ phase[s] \in {"idle", "connect", "ended"} \/ ~LinkUp(s)
  BY DEF Start, ConnectTimeout, NoticeLoss, Receiver
<1>2. ~LinkUp(s)
  BY <1>1, SenderFacts
<1>3. PICK p \in Phase : phase' = [phase EXCEPT ![s] = p]
  BY DEF Start, ConnectTimeout, NoticeLoss, Phase
<1>4. PICK q \in Seq(Reply) : inbox' = [inbox EXCEPT ![s] = q] /\ Elements(q) \subseteq Elements(inbox[s])
  <2>1. CASE inbox' = [inbox EXCEPT ![s] = <<>>]
    BY <2>1, SenderFacts, ElementsEmpty
  <2>2. CASE inbox' = inbox
    BY <2>2, SenderFacts
  <2> QED
    BY <2>1, <2>2 DEF Start, ConnectTimeout, NoticeLoss
<1>5. PICK t \in Nat \union {None} :
        token' = [token EXCEPT ![s] = t] /\ Known(t, s, issued, holder)
  <2>1. CASE Start(s)
    <3>1. token' = [token EXCEPT ![s] = None] /\ Known(None, s, issued, holder)
      BY <2>1 DEF Start, Known
    <3> QED
      BY <3>1
  <2>2. CASE ConnectTimeout(s) \/ NoticeLoss(s)
    <3>1. token' = token
      BY <2>2 DEF ConnectTimeout, NoticeLoss
    <3> QED
      BY <3>1, SenderFacts
  <2> QED
    BY <2>1, <2>2
<1>6. /\ mode' = [mode EXCEPT ![s] = mode[s]] /\ mode[s] \in Mode \union {None}
  BY <1>1, SenderFacts
<1>7. TRUE \in BOOLEAN /\ <<>> \in Seq(Request)
  BY ElementsEmpty
<1> QED
  BY <1>1, <1>2, <1>3, <1>4, <1>5, <1>6, <1>7, SenderMoves

\* A connection on its way with m written behind what it was
WrittenAs(s, m, r) ==
  /\ conn' = [conn EXCEPT !.up = TRUE, !.toR = r] /\ conn'.toR = r /\ conn'.from = s
  /\ r # <<>> /\ Len(r) = Len(conn.toR) + 1 /\ r[Len(r)] = m
  /\ r[1] = IF conn.toR = <<>> THEN m ELSE conn.toR[1]
  /\ \A x \in Elements(r) : x \in Elements(conn.toR) \/ x = m

(* What a sender writes comes last on its connection.                      *)
LEMMA Written ==
  ASSUME CastInv, NEW s \in Senders, NEW m \in Request, Write(s, m)
  PROVE  LinkUp(s) /\ \E r \in Seq(Request) : WrittenAs(s, m, r)
<1> DEFINE r == Append(conn.toR, m)
<1>1. LinkUp(s) /\ conn' = [conn EXCEPT !.toR = Append(@, m)]
  BY DEF Write
<1>2. conn.toR \in Seq(Request) /\ conn \in Connection /\ conn.up = TRUE /\ conn.from = s
  BY <1>1 DEF LinkUp, CastInv, TypeInv, Connection
<1>3. conn' = [conn EXCEPT !.up = TRUE, !.toR = r] /\ conn'.toR = r /\ conn'.from = s
  BY <1>1, <1>2 DEF Connection
<1>4. /\ r \in Seq(Request) /\ r # <<>> /\ Len(r) = Len(conn.toR) + 1 /\ r[Len(r)] = m
      /\ r[1] = IF conn.toR = <<>> THEN m ELSE conn.toR[1]
      /\ Elements(r) \subseteq Elements(conn.toR) \union {m}
  BY <1>2, ElementsAppend
<1>5. WrittenAs(s, m, r)
  <2> HIDE DEF r
  <2> QED
    BY <1>3, <1>4 DEF WrittenAs
<1> QED
  BY <1>1, <1>4, <1>5

(* A sender says Hello on the connection it was given.                     *)
LEMMA HelloStep ==
  ASSUME CastInv, NEW s \in Senders, SendHello(s)
  PROVE  CastInv'
<1>1. /\ phase[s] \in Phase /\ inbox[s] \in Seq(Reply) /\ mode[s] \in Mode \union {None}
      /\ token[s] \in Nat \union {None} /\ Known(token[s], s, issued, holder)
  BY SenderFacts
<1>2. TRUE \in BOOLEAN /\ <<>> \in Seq(Request)
  BY ElementsEmpty
<1>3. /\ phase[s] = "linked" /\ UNCHANGED <<now, session, issued, holder, jmode>>
      /\ inbox' = [inbox EXCEPT ![s] = inbox[s]]
      /\ token' = [token EXCEPT ![s] = token[s]] /\ mode' = [mode EXCEPT ![s] = mode[s]]
  BY SenderFacts DEF SendHello, Receiver
<1>4. CASE ~LinkUp(s)
  <2>1. PICK p \in Phase : phase' = [phase EXCEPT ![s] = p] /\ conn' = conn
    BY <1>4 DEF SendHello, Write, Phase
  <2> QED
    BY <1>1, <1>2, <1>3, <1>4, <2>1, SenderMoves
<1>5. CASE LinkUp(s)
  <2> DEFINE m == Hello(token[s])
  <2>1. phase' = [phase EXCEPT ![s] = "await"] /\ Write(s, m) /\ "await" \in Phase
    BY <1>5 DEF SendHello, Phase
  <2>2. m \in Request /\ m.type = "Hello" /\ m.resume = token[s]
    BY <1>1 DEF Hello, Request
  <2>3. /\ conn.phase = "hello" /\ inbox[s] = <<>> /\ conn.toR = <<>>
        /\ \A x \in Elements(conn.toR) : x.type = "Hello"
    BY <1>3, <1>5, SenderFacts
  <2> HIDE DEF m
  <2>4. PICK r \in Seq(Request) : WrittenAs(s, m, r)
    BY <2>1, <2>2, Written
  <2>5. /\ conn' = [conn EXCEPT !.up = TRUE, !.toR = r] /\ Len(r) = Len(conn.toR) + 1
        /\ \A x \in Elements(r) : x \in Elements(conn.toR) \/ x = m
    BY <2>4 DEF WrittenAs
  <2>6. Len(r) = 1
    BY <2>3, <2>5
  <2> QED
    BY <1>1, <1>2, <1>3, <1>5, <2>1, <2>2, <2>3, <2>5, <2>6, SenderMoves
<1> QED
  BY <1>4, <1>5

(* The choice of mode that a casting sender writes is the last one.        *)
LEMMA ModeWritten ==
  ASSUME CastInv, NEW s \in Senders, NEW m \in Request, NEW r \in Seq(Request),
         WrittenAs(s, m, r), session' = session, jmode' = jmode,
         m.type \in {"StartStream", "SetMode"}, mode'[s] = m.mode,
         \/ conn.toR = <<>> /\ m.type = "StartStream"
         \/ ModeUnderWay
  PROVE  ModeUnderWay'
<1>1. /\ conn'.toR = r /\ conn'.from = s /\ r # <<>> /\ r[Len(r)] = m
      /\ r[1] = IF conn.toR = <<>> THEN m ELSE conn.toR[1]
      /\ \A x \in Elements(r) : x \in Elements(conn.toR) \/ x = m
  BY DEF WrittenAs
<1>2. \A x \in Elements(r) : x.type \in {"StartStream", "SetMode"}
  BY <1>1, ElementsEmpty DEF ModeUnderWay
<1>3. session.params = None => r[1].type = "StartStream"
  BY <1>1 DEF ModeUnderWay
<1> QED
  BY <1>1, <1>2, <1>3 DEF ModeUnderWay

(* A welcome cast starts its stream with the mode its user has chosen.     *)
LEMMA StartCastStep ==
  ASSUME CastInv, NEW s \in Senders, StartCast(s)
  PROVE  CastInv'
<1>1. /\ mode[s] \in Mode \union {None} /\ token[s] \in Nat \union {None}
      /\ Known(token[s], s, issued, holder) /\ inbox[s] \in Seq(Reply)
  BY SenderFacts
<1>2. TRUE \in BOOLEAN /\ <<>> \in Seq(Request)
  BY ElementsEmpty
<1>3. /\ phase[s] = "await" /\ s \notin Probers /\ inbox[s] # <<>>
      /\ UNCHANGED <<now, session, issued, holder, jmode>>
      /\ inbox' = [inbox EXCEPT ![s] = Tail(inbox[s])]
      /\ token' = [token EXCEPT ![s] = token[s]] /\ mode' = [mode EXCEPT ![s] = mode[s]]
  BY SenderFacts DEF StartCast, Receiver
<1>4. /\ Tail(inbox[s]) \in Seq(Reply) /\ Elements(Tail(inbox[s])) \subseteq Elements(inbox[s])
  BY <1>1, <1>3, ElementsTail
<1>5. CASE ~LinkUp(s)
  <2>1. phase' = [phase EXCEPT ![s] = "ended"] /\ conn' = conn /\ "ended" \in Phase
    BY <1>5 DEF StartCast, Write, Phase
  <2> QED
    BY <1>1, <1>2, <1>3, <1>4, <1>5, <2>1, SenderMoves
<1>6. CASE LinkUp(s)
  <2> DEFINE m == StartStream(mode[s])
  <2>1. phase' = [phase EXCEPT ![s] = "cast"] /\ Write(s, m) /\ "cast" \in Phase
    BY <1>6 DEF StartCast, Phase
  <2>2. mode[s] \in Mode
    BY <1>1, <1>3 DEF CastInv, TypeInv
  <2>3. m \in Request /\ m.type = "StartStream" /\ m.mode = mode[s]
    BY <2>2 DEF StartStream, Request
  <2>4. conn.phase = "stream" /\ conn.toR = <<>>
    BY <1>3, <1>6, SenderFacts
  <2>5. mode'[s] = mode[s]
    BY <1>3 DEF CastInv, TypeInv
  <2> HIDE DEF m
  <2>6. PICK r \in Seq(Request) : WrittenAs(s, m, r)
    BY <2>1, <2>3, Written
  <2>7. ModeUnderWay'
    BY <1>3, <2>3, <2>4, <2>5, <2>6, ModeWritten
  <2>8. /\ conn' = [conn EXCEPT !.up = TRUE, !.toR = r]
        /\ \A x \in Elements(r) : x \in Elements(conn.toR) \/ x = m
    BY <2>6 DEF WrittenAs
  <2> QED
    BY <1>1, <1>2, <1>3, <1>4, <1>6, <2>1, <2>3, <2>4, <2>7, <2>8, SenderMoves
<1> QED
  BY <1>5, <1>6

(* The user of a cast chooses another mode.                                *)
LEMMA ChangeModeStep ==
  ASSUME CastInv, NEW s \in Senders, NEW d \in Mode, ChangeMode(s, d)
  PROVE  CastInv'
<1>1. /\ d \in Mode \union {None} /\ d # None /\ token[s] \in Nat \union {None}
      /\ Known(token[s], s, issued, holder) /\ inbox[s] \in Seq(Reply)
  BY SenderFacts, CastAssumption
<1>2. TRUE \in BOOLEAN /\ <<>> \in Seq(Request)
  BY ElementsEmpty
<1>3. /\ phase[s] = "cast"
      /\ UNCHANGED <<now, session, issued, holder, jmode>>
      /\ inbox' = [inbox EXCEPT ![s] = inbox[s]]
      /\ token' = [token EXCEPT ![s] = token[s]] /\ mode' = [mode EXCEPT ![s] = d]
  BY SenderFacts DEF ChangeMode, Receiver
<1>4. CASE ~LinkUp(s)
  <2>1. phase' = [phase EXCEPT ![s] = "ended"] /\ conn' = conn /\ "ended" \in Phase
    BY <1>4 DEF ChangeMode, Write, Phase
  <2> QED
    BY <1>1, <1>2, <1>3, <1>4, <2>1, SenderMoves
<1>5. CASE LinkUp(s)
  <2> DEFINE m == SetMode(d)
  <2>1. phase' = [phase EXCEPT ![s] = "cast"] /\ Write(s, m) /\ "cast" \in Phase
    BY <1>3, <1>5, SenderFacts DEF ChangeMode, Phase
  <2>2. m \in Request /\ m.type = "SetMode" /\ m.mode = d
    BY DEF SetMode, Request
  <2>3. conn.phase = "stream" /\ ModeUnderWay
    BY <1>3, <1>5, SenderFacts
  <2>4. mode'[s] = d
    BY <1>3 DEF CastInv, TypeInv
  <2> HIDE DEF m
  <2>5. PICK r \in Seq(Request) : WrittenAs(s, m, r)
    BY <2>1, <2>2, Written
  <2>6. ModeUnderWay'
    BY <1>3, <2>2, <2>3, <2>4, <2>5, ModeWritten
  <2>7. /\ conn' = [conn EXCEPT !.up = TRUE, !.toR = r]
        /\ \A x \in Elements(r) : x \in Elements(conn.toR) \/ x = m
    BY <2>5 DEF WrittenAs
  <2> QED
    BY <1>1, <1>2, <1>3, <1>5, <2>1, <2>2, <2>3, <2>6, <2>7, SenderMoves
<1> QED
  BY <1>4, <1>5

(* A cast ends, by its user or because it was refused.                     *)
LEMMA EndCastSteps ==
  ASSUME CastInv, NEW s \in Senders, Stop(s) \/ Refused(s)
  PROVE  CastInv'
<1>1. /\ mode[s] \in Mode \union {None} /\ token[s] \in Nat \union {None}
      /\ Known(token[s], s, issued, holder)
  BY SenderFacts
<1>2. TRUE \in BOOLEAN /\ <<>> \in Seq(Request)
  BY ElementsEmpty
<1>3. /\ phase[s] \in {"cast", "await"} /\ EndCast(s)
      /\ phase[s] = "await" => inbox[s] # <<>> \/ ~LinkUp(s)
      /\ UNCHANGED <<now, session, issued, holder, jmode>>
      /\ token' = [token EXCEPT ![s] = token[s]] /\ mode' = [mode EXCEPT ![s] = mode[s]]
  BY SenderFacts DEF Stop, Refused, Receiver
<1>4. PICK q \in Seq(Reply) : inbox' = [inbox EXCEPT ![s] = q] /\ Elements(q) \subseteq Elements(inbox[s])
  <2>1. CASE inbox' = [inbox EXCEPT ![s] = <<>>]
    BY <2>1, SenderFacts, ElementsEmpty
  <2>2. CASE inbox' = inbox
    BY <2>2, SenderFacts
  <2> QED
    BY <2>1, <2>2 DEF Stop, Refused
<1>5. CASE ~LinkUp(s)
  <2>1. phase' = [phase EXCEPT ![s] = "ended"] /\ conn' = conn /\ "ended" \in Phase
    BY <1>3, <1>5 DEF EndCast, Write, Phase
  <2> QED
    BY <1>1, <1>2, <1>3, <1>4, <1>5, <2>1, SenderMoves
<1>6. CASE LinkUp(s)
  <2>1. phase' = [phase EXCEPT ![s] = "bye"] /\ Write(s, Goodbye) /\ "bye" \in Phase
    BY <1>3, <1>6 DEF EndCast, Phase
  <2>2. Goodbye \in Request /\ Goodbye.type # "Hello"
    BY DEF Goodbye, Request
  <2>3. conn.phase = "stream"
    BY <1>3, <1>6, SenderFacts
  <2>4. PICK r \in Seq(Request) : WrittenAs(s, Goodbye, r)
    BY <2>1, <2>2, Written
  <2>5. /\ conn' = [conn EXCEPT !.up = TRUE, !.toR = r]
        /\ \A x \in Elements(r) : x \in Elements(conn.toR) \/ x = Goodbye
    BY <2>4 DEF WrittenAs
  <2> QED
    BY <1>1, <1>2, <1>3, <1>4, <1>6, <2>1, <2>2, <2>3, <2>5, SenderMoves
<1> QED
  BY <1>5, <1>6

(* A casting sender reads, and learns at most the token it was sent.       *)
LEMMA ReadControlStep ==
  ASSUME CastInv, NEW s \in Senders, ReadControl(s)
  PROVE  CastInv'
<1>1. /\ mode[s] \in Mode \union {None} /\ token[s] \in Nat \union {None}
      /\ Known(token[s], s, issued, holder) /\ inbox[s] \in Seq(Reply)
  BY SenderFacts
<1>2. TRUE \in BOOLEAN /\ <<>> \in Seq(Request)
  BY ElementsEmpty
<1>3. /\ phase[s] = "cast" /\ "cast" \in Phase /\ inbox[s] # <<>> /\ conn' = conn
      /\ UNCHANGED <<now, session, issued, holder, jmode>>
      /\ inbox' = [inbox EXCEPT ![s] = Tail(inbox[s])]
      /\ phase' = [phase EXCEPT ![s] = "cast"] /\ mode' = [mode EXCEPT ![s] = mode[s]]
  BY SenderFacts DEF ReadControl, Receiver, Phase
<1>4. /\ Tail(inbox[s]) \in Seq(Reply) /\ Elements(Tail(inbox[s])) \subseteq Elements(inbox[s])
      /\ Head(inbox[s]) \in Elements(inbox[s]) /\ Head(inbox[s]) \in Reply
  BY <1>1, <1>3, ElementsTail
<1>5. PICK t \in Nat \union {None} :
        token' = [token EXCEPT ![s] = t] /\ Known(t, s, issued, holder)
  <2>1. CASE Head(inbox[s]).type = "SessionToken"
    <3>1. Head(inbox[s]).token \in Nat /\ Known(Head(inbox[s]).token, s, issued, holder)
      BY <1>4, <2>1 DEF CastInv, TokenInv, Told, Reply, HelloAck
    <3>2. token' = [token EXCEPT ![s] = Head(inbox[s]).token]
      BY <2>1 DEF ReadControl
    <3> QED
      BY <3>1, <3>2
  <2>2. CASE Head(inbox[s]).type # "SessionToken"
    <3>1. token' = [token EXCEPT ![s] = token[s]]
      BY <2>2, SenderFacts DEF ReadControl
    <3> QED
      BY <1>1, <3>1
  <2> QED
    BY <2>1, <2>2
<1>6. CASE ~LinkUp(s)
  BY <1>1, <1>2, <1>3, <1>4, <1>5, <1>6, SenderMoves
<1>7. CASE LinkUp(s)
  <2>1. /\ conn.toR \in Seq(Request) /\ conn' = [conn EXCEPT !.up = TRUE, !.toR = conn.toR]
        /\ conn.from = s /\ conn.phase = "stream" /\ ModeUnderWay
    BY <1>3, <1>7, SenderFacts
  <2>2. mode'[s] = mode[s]
    BY <1>3 DEF CastInv, TypeInv
  <2>3. ModeUnderWay'
    BY <1>3, <2>1, <2>2 DEF ModeUnderWay
  <2> QED
    BY <1>1, <1>2, <1>3, <1>4, <1>5, <1>7, <2>1, <2>3, SenderMoves
<1> QED
  BY <1>6, <1>7

(* A connection goes down under its sender, or the sender closes it.       *)
LEMMA DownSteps ==
  ASSUME CastInv, NEW s \in Senders,
         EndProbe(s) \/ Close(s) \/ (LoseLink /\ conn.from = s)
  PROVE  CastInv'
<1>1. /\ mode[s] \in Mode \union {None} /\ token[s] \in Nat \union {None}
      /\ Known(token[s], s, issued, holder) /\ inbox[s] \in Seq(Reply)
  BY SenderFacts
<1>2. /\ FALSE \in BOOLEAN /\ <<>> \in Seq(Request)
      /\ <<>> \in Seq(Reply) /\ Elements(<<>>) \subseteq Elements(inbox[s])
  BY ElementsEmpty
<1>3. /\ UNCHANGED <<now, session, issued, holder, jmode>>
      /\ token' = [token EXCEPT ![s] = token[s]] /\ mode' = [mode EXCEPT ![s] = mode[s]]
  BY SenderFacts DEF EndProbe, Close, LoseLink, Receiver
<1>4. PICK p \in Phase : phase' = [phase EXCEPT ![s] = p]
  <2>1. phase' = [phase EXCEPT ![s] = "ended"] \/ phase' = phase
    BY DEF EndProbe, Close, LoseLink
  <2>2. "ended" \in Phase /\ phase[s] \in Phase /\ phase = [phase EXCEPT ![s] = phase[s]]
    BY SenderFacts DEF Phase
  <2> QED
    BY <2>1, <2>2
<1>5. CASE ~LinkUp(s)
  <2>1. conn' = conn /\ \E q \in Seq(Reply) :
          inbox' = [inbox EXCEPT ![s] = q] /\ Elements(q) \subseteq Elements(inbox[s])
    BY <1>1, <1>2, <1>5, SenderFacts DEF EndProbe, Close, LoseLink, LinkUp
  <2> QED
    BY <1>1, <1>2, <1>3, <1>4, <1>5, <2>1, SenderMoves
<1>6. CASE LinkUp(s)
  <2>1. conn.toR \in Seq(Request)
    BY <1>6, SenderFacts
  <2>2. CASE Down(s)
    <3>1. PICK r \in Prefixes(conn.toR) : conn' = [conn EXCEPT !.up = FALSE, !.toR = r]
      BY <2>2 DEF Down
    <3>2. PICK q \in Prefixes(inbox[s]) : inbox' = [inbox EXCEPT ![s] = q]
      BY <2>2 DEF Down
    <3>3. /\ r \in Seq(Request) /\ Elements(r) \subseteq Elements(conn.toR)
          /\ q \in Seq(Reply) /\ Elements(q) \subseteq Elements(inbox[s])
      BY <1>1, <2>1, ElementsPrefix
    <3>4. conn.phase = "hello" => \A m \in Elements(r) : m.type = "Hello"
      BY <1>6, <3>3, SenderFacts
    <3> QED
      BY <1>1, <1>2, <1>3, <1>4, <1>6, <3>1, <3>2, <3>3, <3>4, SenderMoves
  <2>3. CASE EndProbe(s)
    <3>1. PICK r \in Prefixes(Append(conn.toR, Goodbye)) :
            conn' = [conn EXCEPT !.up = FALSE, !.toR = r]
      BY <1>6, <2>3 DEF EndProbe
    <3>2. Goodbye \in Request /\ Goodbye.type # "Hello"
      BY DEF Goodbye, Request
    <3>3. /\ Append(conn.toR, Goodbye) \in Seq(Request)
          /\ Elements(Append(conn.toR, Goodbye)) \subseteq Elements(conn.toR) \union {Goodbye}
      BY <2>1, <3>2, ElementsAppend
    <3>4. r \in Seq(Request) /\ Elements(r) \subseteq Elements(conn.toR) \union {Goodbye}
      BY <3>1, <3>3, ElementsPrefix
    <3>5. \A m \in Elements(r) : m \in Elements(conn.toR) \/ (m.type = "Hello" => m.resume = token[s])
      BY <3>2, <3>4
    <3>6. inbox' = [inbox EXCEPT ![s] = <<>>] /\ inbox[s] # <<>>
      BY <2>3 DEF EndProbe
    <3>7. conn.phase = "stream"
      BY <1>6, <3>6, SenderFacts
    <3> QED
      BY <1>1, <1>2, <1>3, <1>4, <1>6, <3>1, <3>4, <3>5, <3>6, <3>7, SenderMoves
  <2>4. EndProbe(s) \/ Down(s)
    BY <1>6 DEF Close, LoseLink
  <2> QED
    BY <2>2, <2>3, <2>4
<1> QED
  BY <1>5, <1>6

(* The accept loop takes a connection, with a new session if the last one  *)
(* is closed.                                                              *)
LEMMA AcceptStep ==
  ASSUME CastInv, NEW s \in Senders, Accept(s)
  PROVE  CastInv'
<1> USE DEF CastInv
<1>1. /\ conn = None /\ conn' = [from |-> s, up |-> TRUE, phase |-> "hello", toR |-> <<>>]
      /\ phase' = [phase EXCEPT ![s] = "linked"] /\ inbox' = [inbox EXCEPT ![s] = <<>>]
      /\ UNCHANGED <<now, token, mode>>
  BY DEF Accept
<1>2. /\ conn' \in Connection /\ conn'.from = s /\ conn'.up /\ conn'.phase = "hello"
      /\ conn'.toR = <<>>
  <2>1. <<>> \in Seq(Request)
    BY ElementsEmpty
  <2> QED
    BY <1>1, <2>1 DEF Connection
<1>3. /\ phase' \in [Senders -> Phase] /\ phase'[s] = "linked"
      /\ inbox' \in [Senders -> Seq(Reply)] /\ inbox'[s] = <<>>
      /\ \A o \in Senders \ {s} : inbox'[o] = inbox[o]
  <2>1. <<>> \in Seq(Reply) /\ "linked" \in Phase
    BY ElementsEmpty DEF Phase
  <2> QED
    BY <1>1, <2>1 DEF TypeInv
<1>4. /\ session' \in Session /\ session'.token = issued' /\ issued' \in Nat
      /\ holder' \in Senders \union {None}
      /\ \/ issued' = issued /\ holder' = holder
         \/ issued' = issued + 1 /\ holder' = None
      /\ session'.state = "AwaitingHello" => holder' = None
  <2>1. CASE session.state = "Closed"
    <3>1. session' = NewSession(issued + 1) /\ issued' = issued + 1 /\ holder' = None
      BY <2>1 DEF Accept
    <3>2. issued + 1 \in Nat
      BY DEF TypeInv
    <3> QED
      BY <3>1, <3>2 DEF NewSession, Session
  <2>2. CASE session.state # "Closed"
    <3>1. session' = session /\ issued' = issued /\ holder' = holder
      BY <2>2 DEF Accept
    <3> QED
      BY <3>1 DEF TypeInv, TokenInv
  <2> QED
    BY <2>1, <2>2
<1>5. TypeInv'
  BY <1>1, <1>2, <1>3, <1>4 DEF TypeInv
<1>6. TokenInv'
  <2>1. Offered(conn', issued, holder)
    BY <1>2, ElementsEmpty DEF Offered
  <2>2. \A o \in Senders : Known(token'[o], o, issued, holder)
    BY <1>1 DEF TokenInv
  <2>3. \A o \in Senders : \A m \in Elements(inbox'[o]) :
           m.type = "SessionToken" => Known(m.token, o, issued, holder)
    BY <1>3, ElementsEmpty DEF TokenInv, Told
  <2> QED
    BY <1>4, <1>5, <2>1, <2>2, <2>3, TokensStay
<1>7. HelloInv' /\ ModeInv'
  BY <1>2, <1>3, ElementsEmpty DEF HelloInv, ModeInv
<1> QED
  BY <1>5, <1>6, <1>7

(* A restart forgets the session and its holder.                           *)
LEMMA RestartStep ==
  ASSUME CastInv, ReceiverRestart
  PROVE  CastInv'
<1> USE DEF CastInv
<1>1. /\ session' = NewSession(issued + 1) /\ issued' = issued + 1 /\ holder' = None
      /\ conn' = None /\ UNCHANGED <<now, phase, token, mode>>
  BY DEF ReceiverRestart
<1>2. /\ session' \in Session /\ session'.token = issued' /\ issued' \in Nat
  <2>1. issued + 1 \in Nat
    BY DEF TypeInv
  <2> QED
    BY <1>1, <2>1 DEF NewSession, Session
<1>3. /\ inbox' \in [Senders -> Seq(Reply)]
      /\ \A s \in Senders : Elements(inbox'[s]) \subseteq Elements(inbox[s])
  <2>1. CASE conn = None
    BY <2>1 DEF ReceiverRestart, TypeInv
  <2>2. CASE conn # None
    <3>1. conn.from \in Senders /\ inbox[conn.from] \in Seq(Reply)
      BY <2>2 DEF TypeInv, Connection
    <3>2. PICK q \in Prefixes(inbox[conn.from]) : inbox' = [inbox EXCEPT ![conn.from] = q]
      BY <2>2 DEF ReceiverRestart
    <3>3. q \in Seq(Reply) /\ Elements(q) \subseteq Elements(inbox[conn.from])
      BY <3>1, ElementsPrefix
    <3> QED
      BY <3>1, <3>2, <3>3 DEF TypeInv
  <2> QED
    BY <2>1, <2>2
<1>4. TypeInv'
  BY <1>1, <1>2, <1>3 DEF TypeInv
<1>5. TokenInv'
  <2>1. \A s \in Senders : Known(token'[s], s, issued, holder)
    BY <1>1 DEF TokenInv
  <2>2. \A s \in Senders : \A m \in Elements(inbox'[s]) :
           m.type = "SessionToken" => Known(m.token, s, issued, holder)
    BY <1>3 DEF TokenInv, Told
  <2> QED
    BY <1>1, <1>4, <2>1, <2>2, TokensStay
<1>6. HelloInv' /\ ModeInv'
  BY <1>1 DEF HelloInv, ModeInv
<1> QED
  BY <1>4, <1>5, <1>6

------------------------------------------------------------------------------
(* Every step of the receiver, a sender, the network or the clock keeps    *)
(* the invariant.                                                          *)
LEMMA CastInvStep == CastInv /\ [Next]_vars => CastInv'
<1> SUFFICES ASSUME CastInv, [Next]_vars PROVE CastInv'
  OBVIOUS
<1>1. CASE UNCHANGED vars \/ Clock \/ Miracast
  <2>1. /\ session' = session /\ issued' = issued /\ holder' = holder /\ conn' = conn
        /\ jmode' = jmode /\ phase' = phase /\ token' = token /\ mode' = mode /\ inbox' = inbox
    BY <1>1 DEF vars, Clock, Miracast, sender
  <2>2. now' = now \/ now' = now + 1
    BY <1>1 DEF vars, Clock, Miracast
  <2> QED
    BY <2>1, <2>2 DEF CastInv, TypeInv, TokenInv, Known, Told, Offered, HelloInv, ModeInv, ModeUnderWay
<1>2. CASE \E s \in Senders : Accept(s)
  BY <1>2, AcceptStep
<1>3. CASE ReceiverStep
  BY <1>3, ReceiverSteps
<1>4. CASE ReceiverRestart
  BY <1>4, RestartStep
<1>5. CASE LoseLink
  <2>1. conn.from \in Senders
    BY <1>5 DEF LoseLink, CastInv, TypeInv, Connection
  <2> QED
    BY <1>5, <2>1, DownSteps
<1>6. CASE \E s \in Senders : Start(s) \/ SenderStep(s) \/ Stop(s)
  BY <1>6, AloneSteps, HelloStep, StartCastStep, DownSteps, EndCastSteps, ReadControlStep
     DEF SenderStep
<1>7. CASE \E s \in Senders, m \in Mode : ChangeMode(s, m)
  BY <1>7, ChangeModeStep
<1> QED
  BY <1>1, <1>2, <1>3, <1>4, <1>5, <1>6, <1>7 DEF Next

(* For any senders, modes and time limits: once its control messages are   *)
(* read, the receiver plays in the mode its sender's user chose last, and  *)
(* remembers it for the next reconnection.                                 *)
THEOREM ModesAlwaysAgree == Spec => []ModesAgree
<1>1. CastInv => ModesAgree
  BY DEF CastInv, ModeInv, ModeUnderWay, ModesAgree
<1> QED
  BY InitCastInv, CastInvStep, <1>1, PTL DEF Spec

(* For any senders and time limits, through any number of restarts and     *)
(* lost connections: a disconnected session goes on only for the sender    *)
(* that opened it.                                                         *)
THEOREM OnlyItsSenderResumes == Spec => ResumedByItsSender
<1>1. CastInv /\ [Next]_vars =>
        [session.state = "Disconnected" /\ session'.state = "Streaming" => conn.from = holder]_vars
  <2> SUFFICES ASSUME CastInv, Next, session.state = "Disconnected", session'.state = "Streaming"
               PROVE  conn.from = holder
    OBVIOUS
  <2>1. session' # session
    OBVIOUS
  <2>2. RecvResume
    <3>1. ASSUME NEW sess, sess.state # "Streaming"
          PROVE  Disconnected(sess).state # "Streaming"
      BY <3>1 DEF Disconnected
    <3>2. ~(\E s \in Senders : Accept(s))
      BY <2>1 DEF Accept
    <3>3. ~RecvFirstHello
      BY DEF RecvFirstHello
    <3>4. ~RecvBadToken
      <4>1. session \in Session
        BY DEF CastInv, TypeInv
      <4>2. [session EXCEPT !.state = "Closed"].state = "Closed"
        BY <4>1 DEF Session
      <4> QED
        BY <4>2, <3>1 DEF RecvBadToken, EndHandler
    <3>5. ~RecvControl
      <4>1. session \in Session
        BY DEF CastInv, TypeInv
      <4>2. [session EXCEPT !.state = "Closed"].state = "Closed"
        BY <4>1 DEF Session
      <4>3. \A m : Adopt(m).state = session.state
        BY <4>1 DEF Adopt, Session
      <4>4. session' # Disconnected([session EXCEPT !.state = "Closed"])
        BY <4>2, <3>1
      <4>5. \A m : session' # Adopt(m)
        BY <4>3
      <4> QED
        BY <4>4, <4>5 DEF RecvControl, EndHandler
    <3>6. ~ReceiverNoticesLoss
      BY <3>1 DEF ReceiverNoticesLoss, EndHandler
    <3>7. ~ReceiverRestart
      BY DEF ReceiverRestart, NewSession
    <3>8. ~Miracast /\ ~LoseLink /\ ~Clock
      BY <2>1 DEF Miracast, LoseLink, Clock
    <3>9. ASSUME NEW s \in Senders, Start(s) \/ SenderStep(s) \/ Stop(s)
          PROVE  FALSE
      BY <2>1, <3>9 DEF Start, SenderStep, Stop, ConnectTimeout, SendHello, StartCast, EndProbe,
         Refused, ReadControl, Close, NoticeLoss, Receiver
    <3>10. ~(\E s \in Senders, m \in Mode : ChangeMode(s, m))
      BY <2>1 DEF ChangeMode, Receiver
    <3> QED
      BY <3>2, <3>3, <3>4, <3>5, <3>6, <3>7, <3>8, <3>9, <3>10 DEF Next, ReceiverStep
  <2>3. /\ conn # None /\ conn.phase = "hello" /\ conn.toR # <<>>
        /\ Head(conn.toR).resume = session.token
    BY <2>2 DEF RecvResume, HelloReady, Resumes
  <2>4. conn.toR \in Seq(Request) /\ session.token = issued /\ issued \in Nat
    BY <2>3 DEF CastInv, TypeInv, Connection
  <2>5. Head(conn.toR) \in Elements(conn.toR)
    BY <2>3, <2>4, ElementsTail
  <2>6. Head(conn.toR).type = "Hello"
    BY <2>3, <2>5 DEF CastInv, HelloInv
  <2>7. Known(Head(conn.toR).resume, conn.from, issued, holder)
    BY <2>3, <2>5, <2>6 DEF CastInv, TokenInv, Offered
  <2> QED
    BY <2>3, <2>4, <2>7, CastAssumption DEF Known
<1> QED
  BY InitCastInv, CastInvStep, <1>1, PTL DEF Spec, ResumedByItsSender
=============================================================================
