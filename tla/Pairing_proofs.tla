--------------------------- MODULE Pairing_proofs ---------------------------
(***************************************************************************)
(* For any senders, PINs, limits and bounds: nobody is stored on either    *)
(* side of a pairing without the PIN having been typed, and neither a      *)
(* crash nor a failed write takes a pairing or an identity off the disk.   *)
(***************************************************************************)
EXTENDS Pairing, SequenceTheorems, TLAPS

MessageKind == {"Hello", "HelloAck", "Error3", "Error4", "PairInit", "PairResp", "PairOk", "Goodbye"}

Message ==
    [type : MessageKind] \union
    [type : {"PairProof"}, pin : Pins \union {None}, role : {"sender", "receiver"},
     fp : Senders \union Nat]

Link == [open : BOOLEAN, up : Seq(Message), down : Seq(Message)]

SenderAt == {"idle", "connecting", "hello", "prompt", "resp", "proof", "ok"}

Sender == [at : SenderAt, casting : BOOLEAN, target : Nat, pin : Pins \union {None}, knows : Nat]

\* The message m is in the stream q
In(m, q) == \E i \in DOMAIN q : q[i] = m

(* The messages of both kinds are messages. *)
LEMMA MessageType ==
    /\ \A t \in MessageKind : Msg(t) \in Message /\ Msg(t).type = t
    /\ \A p \in Pins \union {None}, r \in {"sender", "receiver"}, f \in Senders \union Nat :
          Proof(p, r, f) \in Message /\ Proof(p, r, f).type = "PairProof"
BY DEF Message, Msg, Proof

(* Reading a stream takes its head off. *)
LEMMA InTail ==
    ASSUME NEW q \in Seq(Message), q # <<>>
    PROVE  /\ Tail(q) \in Seq(Message) /\ Head(q) \in Message
           /\ In(Head(q), q)
           /\ \A m : In(m, Tail(q)) => In(m, q)
<1>1. Len(q) \in Nat \ {0} /\ DOMAIN q = 1 .. Len(q)
  BY EmptySeq, LenProperties
<1>2. /\ Tail(q) \in Seq(Message) /\ Head(q) \in Message /\ Len(Tail(q)) = Len(q) - 1
      /\ \A i \in 1 .. Len(Tail(q)) : Tail(q)[i] = q[i + 1]
  BY HeadTailProperties
<1>3. DOMAIN Tail(q) = 1 .. (Len(q) - 1)
  BY <1>2, LenProperties
<1>4. \A i \in DOMAIN Tail(q) : i + 1 \in DOMAIN q /\ Tail(q)[i] = q[i + 1]
  BY <1>1, <1>2, <1>3
<1>5. Head(q) = q[1] /\ 1 \in DOMAIN q
  BY <1>1
<1> QED
  BY <1>2, <1>4, <1>5 DEF In

(* Sending adds one message to a stream. *)
LEMMA InAppend ==
    ASSUME NEW q \in Seq(Message), NEW x \in Message
    PROVE  /\ Append(q, x) \in Seq(Message)
           /\ \A m : In(m, Append(q, x)) => In(m, q) \/ m = x
<1>1. Len(q) \in Nat /\ DOMAIN q = 1 .. Len(q)
  BY LenProperties
<1>2. /\ Append(q, x) \in Seq(Message) /\ Len(Append(q, x)) = Len(q) + 1
      /\ \A i \in 1 .. Len(q) : Append(q, x)[i] = q[i]
      /\ Append(q, x)[Len(q) + 1] = x
  BY AppendProperties
<1>3. DOMAIN Append(q, x) = 1 .. (Len(q) + 1)
  BY <1>2, LenProperties
<1>4. \A i \in DOMAIN Append(q, x) : i \in DOMAIN q \/ i = Len(q) + 1
  BY <1>1, <1>3
<1> QED
  BY <1>1, <1>2, <1>4 DEF In

(* What the ends do to a link: closing it forgets one direction, sending   *)
(* adds to one while the link is open.                                     *)
LEMMA LinkOps ==
    ASSUME NEW l \in Link, NEW x \in Message
    PROVE  /\ Closed(l) \in Link /\ Closed(l).up = l.up /\ Closed(l).down = l.down
           /\ LeftByReceiver(l) \in Link /\ LeftByReceiver(l).up = <<>>
           /\ LeftByReceiver(l).down = l.down
           /\ LeftBySender(l) \in Link /\ LeftBySender(l).up = l.up
           /\ LeftBySender(l).down = <<>>
           /\ ToSender(l, x) \in Link /\ ToSender(l, x).up = l.up
           /\ \A m : In(m, ToSender(l, x).down) => In(m, l.down) \/ m = x
           /\ ToReceiver(l, x) \in Link /\ ToReceiver(l, x).down = l.down
           /\ \A m : In(m, ToReceiver(l, x).up) => In(m, l.up) \/ m = x
<1>1. l.up \in Seq(Message) /\ l.down \in Seq(Message) /\ <<>> \in Seq(Message)
  BY EmptySeq DEF Link
<1>2. /\ Append(l.up, x) \in Seq(Message) /\ Append(l.down, x) \in Seq(Message)
      /\ \A m : In(m, Append(l.up, x)) => In(m, l.up) \/ m = x
      /\ \A m : In(m, Append(l.down, x)) => In(m, l.down) \/ m = x
  BY <1>1, InAppend
<1>3. /\ Closed(l) \in Link /\ Closed(l).up = l.up /\ Closed(l).down = l.down
      /\ LeftByReceiver(l) \in Link /\ LeftByReceiver(l).up = <<>>
      /\ LeftByReceiver(l).down = l.down
      /\ LeftBySender(l) \in Link /\ LeftBySender(l).up = l.up
      /\ LeftBySender(l).down = <<>>
  BY <1>1 DEF Link, Closed, LeftByReceiver, LeftBySender
<1>4. /\ ToSender(l, x) \in Link /\ ToSender(l, x).up = l.up
      /\ ToSender(l, x).down = l.down \/ ToSender(l, x).down = Append(l.down, x)
  BY <1>2 DEF Link, ToSender
<1>5. /\ ToReceiver(l, x) \in Link /\ ToReceiver(l, x).down = l.down
      /\ ToReceiver(l, x).up = l.up \/ ToReceiver(l, x).up = Append(l.up, x)
  BY <1>2 DEF Link, ToReceiver
<1> QED
  BY <1>2, <1>3, <1>4, <1>5

(* No stream holds less than nothing. *)
LEMMA InEmpty == \A m : ~In(m, <<>>)
BY DEF In

------------------------------------------------------------------------------
Handling == {"hello", "init", "proof", "ok", "add", "save", "serve"}

PairTypeOK ==
    /\ DOMAIN rx = {"at", "peer", "pin", "store", "guard"}
    /\ rx.pin \in Pins \union {None}
    /\ rx.at \in Handling => rx.peer \in Senders
    /\ disk \in [cert : Nat, key : Nat, paired : SUBSET Senders, made : Nat]
    /\ tx \in [Senders -> Sender]
    /\ link \in [Senders -> Link]
    /\ entitled \subseteq Senders

\* The receiver's files: a key is the key of the certificate beside it, a
\* receiver that takes connections has both and knows all it has saved
FilesInv ==
    /\ disk.key # 0 => disk.cert = disk.key
    /\ rx.at = "write key" => disk.key = 0 /\ disk.cert # 0
    /\ rx.at \in Handling \union {"accept"} => disk.key # 0 /\ disk.paired \subseteq rx.store
    /\ rx.at \in Handling \union {"accept", "down", "write key"}

\* A Hello is the only thing a sender says before the receiver answers it
NotAnswered == {"idle", "connecting", "hello"}

HelloFirst(l, at) ==
    In(Msg("Hello"), l.up) =>
        l.up = <<Msg("Hello")>> /\ l.down = <<>> /\ at \in NotAnswered

HelloInv == \A s \in Senders : HelloFirst(link[s], tx[s].at)

\* The PIN of the attempt that is going on: a sender that typed it, and a proof
\* made from it, are of a user who read it off the screen
ReadOffScreen(s, t, l) ==
    \/ t.at \in {"resp", "proof", "ok"} /\ t.pin = rx.pin
    \/ In(Proof(rx.pin, "sender", s), l.up)

PinInv ==
    rx.at \in {"init", "proof"} =>
        (ReadOffScreen(rx.peer, tx[rx.peer], link[rx.peer]) => rx.peer \in entitled)

\* Who was proven to whom
ProofsIn(q) == \E i \in DOMAIN q : q[i].type = "PairProof"

SenderProven(s, t) ==
    /\ t.at = "ok" => s \in entitled
    /\ t.at # "idle" => t.target = disk.key /\ disk.key # 0
    /\ t.knows # 0 => s \in entitled /\ t.knows = disk.key

ProvenInv ==
    /\ rx.store \union disk.paired \subseteq entitled
    /\ rx.at \in {"ok", "add", "save"} => rx.peer \in entitled
    /\ \A s \in Senders : ProofsIn(link[s].down) => s \in entitled
    /\ \A s \in Senders : SenderProven(s, tx[s])

PairInv == PairTypeOK /\ FilesInv /\ HelloInv /\ PinInv /\ ProvenInv

(* At the start nothing is stored and nobody is connected. *)
LEMMA InitPairInv == Init => PairInv
<1> SUFFICES ASSUME Init PROVE PairInv
  OBVIOUS
<1>1. PairTypeOK /\ FilesInv
  <2>1. NoLink \in Link
    BY EmptySeq DEF NoLink, Link
  <2> QED
    BY <2>1 DEF Init, Down, PairTypeOK, FilesInv, Handling, Sender, SenderAt
<1>2. HelloInv /\ PinInv /\ ProvenInv
  <2>1. \A s \in Senders : link[s].up = <<>> /\ link[s].down = <<>> /\ tx[s].at = "idle" /\ tx[s].knows = 0
    BY DEF Init, NoLink
  <2>2. rx.at = "down" /\ rx.store = {} /\ disk.paired = {}
    BY DEF Init, Down
  <2> QED
    BY <2>1, <2>2, InEmpty DEF HelloInv, HelloFirst, PinInv, ProvenInv, ProofsIn, SenderProven
<1> QED
  BY <1>1, <1>2 DEF PairInv

(* The receiver moves: it reads what is there, says what the proof allows, *)
(* and starts an attempt only where no PIN has been typed yet.             *)
LEMMA ReceiverMoves ==
    ASSUME PairInv, UNCHANGED <<disk, tx, entitled>>,
           DOMAIN rx' = DOMAIN rx, rx'.pin \in Pins \union {None},
           rx'.at \in Handling \union {"accept", "down"},
           rx'.at \in Handling => rx'.peer \in Senders,
           rx'.at \in Handling \union {"accept"} => disk.key # 0 /\ disk.paired \subseteq rx'.store,
           rx'.store \subseteq entitled,
           rx'.at \in {"ok", "add", "save"} => rx'.peer \in entitled,
           link' \in [Senders -> Link],
           \A s \in Senders : HelloFirst(link'[s], tx[s].at),
           \A s \in Senders : ProofsIn(link'[s].down) => s \in entitled,
           rx'.at \in {"init", "proof"} =>
               \/ /\ rx.at \in {"init", "proof"} /\ rx'.peer = rx.peer /\ rx'.pin = rx.pin
                  /\ \A m : In(m, link'[rx.peer].up) => In(m, link[rx.peer].up)
               \/ tx[rx'.peer].at \in NotAnswered /\ link'[rx'.peer].up = <<>>
    PROVE  PairInv'
<1> USE DEF PairInv
<1>1. disk' = disk /\ tx' = tx /\ entitled' = entitled
  OBVIOUS
<1>2. PairTypeOK'
  BY <1>1 DEF PairTypeOK
<1>3. FilesInv'
  BY <1>1 DEF FilesInv, Handling
<1>4. HelloInv'
  BY <1>1 DEF HelloInv, HelloFirst
<1>5. PinInv'
  <2>1. CASE rx'.at \in {"init", "proof"}
    <3>1. CASE /\ rx.at \in {"init", "proof"} /\ rx'.peer = rx.peer /\ rx'.pin = rx.pin
               /\ \A m : In(m, link'[rx.peer].up) => In(m, link[rx.peer].up)
      BY <1>1, <3>1 DEF PinInv, ReadOffScreen
    <3>2. CASE tx[rx'.peer].at \in NotAnswered /\ link'[rx'.peer].up = <<>>
      BY <1>1, <3>2, InEmpty DEF PinInv, ReadOffScreen, NotAnswered
    <3> QED
      BY <2>1, <3>1, <3>2
  <2> QED
    BY <2>1 DEF PinInv
<1>6. ProvenInv'
  BY <1>1 DEF ProvenInv, SenderProven
<1> QED
  BY <1>2, <1>3, <1>4, <1>5, <1>6

(* A sender moves: the receiver and the other senders stay as they are.    *)
LEMMA SenderMoves ==
    ASSUME PairInv, NEW s \in Senders, NEW t \in Sender, NEW l \in Link,
           UNCHANGED <<rx, disk>>, entitled \subseteq entitled', entitled' \subseteq Senders,
           tx' = [tx EXCEPT ![s] = t], link' = [link EXCEPT ![s] = l],
           HelloFirst(l, t.at),
           ProofsIn(l.down) => ProofsIn(link[s].down),
           SenderProven(s, t),
           rx.peer = s /\ rx.at \in {"init", "proof"} /\ ReadOffScreen(s, t, l) => s \in entitled'
    PROVE  PairInv'
<1> USE DEF PairInv
<1>1. rx' = rx /\ disk' = disk
  OBVIOUS
<1>2. /\ tx' \in [Senders -> Sender] /\ link' \in [Senders -> Link]
      /\ tx'[s] = t /\ link'[s] = l
      /\ \A r \in Senders \ {s} : tx'[r] = tx[r] /\ link'[r] = link[r]
  BY DEF PairTypeOK
<1>3. PairTypeOK'
  BY <1>1, <1>2 DEF PairTypeOK
<1>4. FilesInv'
  BY <1>1 DEF FilesInv
<1>5. HelloInv'
  BY <1>2 DEF HelloInv, HelloFirst
<1>6. PinInv'
  <2>1. CASE rx.peer = s
    BY <1>1, <1>2, <2>1 DEF PinInv, ReadOffScreen
  <2>2. CASE rx.peer # s /\ rx.at \in {"init", "proof"}
    <3>1. rx.peer \in Senders \ {s}
      BY <2>2 DEF PairTypeOK, Handling
    <3> QED
      BY <1>1, <1>2, <2>2, <3>1 DEF PinInv, ReadOffScreen
  <2> QED
    BY <1>1, <2>1, <2>2 DEF PinInv
<1>7. ProvenInv'
  <2>1. \A r \in Senders : ProofsIn(link'[r].down) => r \in entitled'
    BY <1>2 DEF ProvenInv
  <2>2. (\A r \in Senders : SenderProven(r, tx[r]))'
    BY <1>1, <1>2 DEF ProvenInv, SenderProven
  <2> QED
    BY <1>1, <2>1, <2>2 DEF ProvenInv
<1> QED
  BY <1>3, <1>4, <1>5, <1>6, <1>7

(* Once the receiver has read, no Hello is left to read; what it has not   *)
(* read was there before, and only a proof is a proof.                     *)
LEMMA ReceiverReads ==
    ASSUME NEW l \in Link, NEW at, HelloFirst(l, at), l.up # <<>>,
           NEW x \in Message
    PROVE  LET r == ReadByReceiver(l) IN
           /\ r \in Link /\ ToSender(r, x) \in Link
           /\ \A a : HelloFirst(r, a) /\ HelloFirst(ToSender(r, x), a)
           /\ r.down = l.down /\ ToSender(r, x).up = r.up /\ r.up = Tail(l.up)
           /\ \A m : In(m, r.up) => In(m, l.up)
           /\ ProofsIn(ToSender(r, x).down) => ProofsIn(l.down) \/ x.type = "PairProof"
<1> DEFINE r == ReadByReceiver(l)
<1>1. l.up \in Seq(Message) /\ l.down \in Seq(Message)
  BY DEF Link
<1>2. /\ Tail(l.up) \in Seq(Message) /\ Head(l.up) \in Message
      /\ \A m : In(m, Tail(l.up)) => In(m, l.up)
  BY <1>1, InTail
<1>3. r \in Link /\ r.down = l.down /\ r.up = Tail(l.up)
  BY <1>2 DEF Link, ReadByReceiver
<1>4. /\ ToSender(r, x) \in Link /\ ToSender(r, x).up = r.up
      /\ \A m : In(m, ToSender(r, x).down) => In(m, r.down) \/ m = x
  BY <1>3, LinkOps
<1>5. ~In(Msg("Hello"), r.up)
  <2>1. SUFFICES ASSUME In(Msg("Hello"), r.up) PROVE FALSE
    OBVIOUS
  <2>2. l.up = <<Msg("Hello")>>
    BY <1>2, <1>3, <2>1 DEF HelloFirst
  <2>3. Len(Tail(l.up)) = Len(l.up) - 1
    BY <1>1, HeadTailProperties
  <2>4. Len(Tail(l.up)) = 0
    BY <2>2, <2>3
  <2>5. Tail(l.up) = <<>>
    BY <1>2, <2>4, EmptySeq
  <2> QED
    BY <1>3, <2>1, <2>5, InEmpty
<1>6. ProofsIn(ToSender(r, x).down) => ProofsIn(l.down) \/ x.type = "PairProof"
  <2>1. SUFFICES ASSUME NEW i \in DOMAIN ToSender(r, x).down,
                        ToSender(r, x).down[i].type = "PairProof", x.type # "PairProof"
                 PROVE  ProofsIn(l.down)
    BY DEF ProofsIn
  <2>2. In(ToSender(r, x).down[i], ToSender(r, x).down)
    BY DEF In
  <2>3. In(ToSender(r, x).down[i], r.down)
    BY <1>4, <2>1, <2>2
  <2> QED
    BY <1>3, <2>1, <2>3 DEF In, ProofsIn
<1>7. \A a : HelloFirst(r, a) /\ HelloFirst(ToSender(r, x), a)
  BY <1>4, <1>5 DEF HelloFirst
<1> QED
  BY <1>2, <1>3, <1>4, <1>6, <1>7

(* What a receiver that leaves has said before may still be read.          *)
LEMMA ReceiverLeaves ==
    ASSUME NEW l \in Link, NEW x \in Message, x.type # "PairProof"
    PROVE  /\ LeftByReceiver(l) \in Link /\ LeftByReceiver(ToSender(l, x)) \in Link
           /\ LeftByReceiver(l).up = <<>> /\ LeftByReceiver(ToSender(l, x)).up = <<>>
           /\ \A a : HelloFirst(LeftByReceiver(l), a)
           /\ \A a : HelloFirst(LeftByReceiver(ToSender(l, x)), a)
           /\ ProofsIn(LeftByReceiver(l).down) => ProofsIn(l.down)
           /\ ProofsIn(LeftByReceiver(ToSender(l, x)).down) => ProofsIn(l.down)
<1>1. /\ ToSender(l, x) \in Link
      /\ \A m : In(m, ToSender(l, x).down) => In(m, l.down) \/ m = x
  BY LinkOps
<1>2. /\ LeftByReceiver(l) \in Link /\ LeftByReceiver(l).up = <<>>
      /\ LeftByReceiver(l).down = l.down
  BY LinkOps
<1>3. /\ LeftByReceiver(ToSender(l, x)) \in Link
      /\ LeftByReceiver(ToSender(l, x)).up = <<>>
      /\ LeftByReceiver(ToSender(l, x)).down = ToSender(l, x).down
  BY <1>1, LinkOps
<1>4. ProofsIn(ToSender(l, x).down) => ProofsIn(l.down)
  <2>1. SUFFICES ASSUME NEW i \in DOMAIN ToSender(l, x).down,
                        ToSender(l, x).down[i].type = "PairProof"
                 PROVE  ProofsIn(l.down)
    BY DEF ProofsIn
  <2>2. In(ToSender(l, x).down[i], ToSender(l, x).down)
    BY DEF In
  <2>3. In(ToSender(l, x).down[i], l.down)
    BY <1>1, <2>1, <2>2
  <2> QED
    BY <2>1, <2>3 DEF In, ProofsIn
<1>5. \A a : HelloFirst(LeftByReceiver(l), a) /\ HelloFirst(LeftByReceiver(ToSender(l, x)), a)
  BY <1>2, <1>3, InEmpty DEF HelloFirst
<1> QED
  BY <1>2, <1>3, <1>4, <1>5

(* A sender that has something to read has no Hello outstanding.           *)
LEMMA SenderReads ==
    ASSUME NEW l \in Link, NEW at, HelloFirst(l, at), l.down # <<>>,
           NEW x \in Message, x # Msg("Hello")
    PROVE  LET r == ReadBySender(l) IN
           /\ r \in Link /\ ToReceiver(r, x) \in Link
           /\ \A a : HelloFirst(r, a) /\ HelloFirst(ToReceiver(r, x), a)
           /\ r.up = l.up /\ \A m : In(m, ToReceiver(r, x).up) => In(m, l.up) \/ m = x
           /\ ProofsIn(r.down) => ProofsIn(l.down)
           /\ ProofsIn(ToReceiver(r, x).down) => ProofsIn(l.down)
<1> DEFINE r == ReadBySender(l)
<1>1. l.up \in Seq(Message) /\ l.down \in Seq(Message)
  BY DEF Link
<1>2. Tail(l.down) \in Seq(Message) /\ \A m : In(m, Tail(l.down)) => In(m, l.down)
  BY <1>1, InTail
<1>3. r \in Link /\ r.up = l.up /\ r.down = Tail(l.down)
  BY <1>2 DEF Link, ReadBySender
<1>4. /\ ToReceiver(r, x) \in Link /\ ToReceiver(r, x).down = r.down
      /\ \A m : In(m, ToReceiver(r, x).up) => In(m, r.up) \/ m = x
  BY <1>3, LinkOps
<1>5. ~In(Msg("Hello"), l.up)
  BY DEF HelloFirst
<1>6. ProofsIn(r.down) => ProofsIn(l.down)
  BY <1>2, <1>3 DEF ProofsIn, In
<1>7. \A a : HelloFirst(r, a) /\ HelloFirst(ToReceiver(r, x), a)
  BY <1>3, <1>4, <1>5 DEF HelloFirst
<1> QED
  BY <1>3, <1>4, <1>6, <1>7

(* A sender that has been answered, and speaks without reading.            *)
LEMMA SenderSpeaks ==
    ASSUME NEW l \in Link, NEW at, HelloFirst(l, at), l.down # <<>> \/ at \notin NotAnswered,
           NEW x \in Message, x # Msg("Hello")
    PROVE  /\ ToReceiver(l, x) \in Link /\ ToReceiver(l, x).down = l.down
           /\ \A a : HelloFirst(ToReceiver(l, x), a)
           /\ \A m : In(m, ToReceiver(l, x).up) => In(m, l.up) \/ m = x
<1>1. /\ ToReceiver(l, x) \in Link /\ ToReceiver(l, x).down = l.down
      /\ \A m : In(m, ToReceiver(l, x).up) => In(m, l.up) \/ m = x
  BY LinkOps
<1>2. ~In(Msg("Hello"), l.up)
  BY DEF HelloFirst
<1>3. \A a : HelloFirst(ToReceiver(l, x), a)
  BY <1>1, <1>2 DEF HelloFirst
<1> QED
  BY <1>1, <1>3

(* A sender that leaves drops what it has not read; a Hello it leaves      *)
(* behind is still the only thing it has said.                             *)
LEMMA SenderLeaves ==
    ASSUME NEW l \in Link, NEW at, HelloFirst(l, at)
    PROVE  /\ LeftBySender(l) \in Link
           /\ LeftBySender(l).up = l.up
           /\ ~ProofsIn(LeftBySender(l).down)
           /\ \A a \in NotAnswered : HelloFirst(LeftBySender(l), a)
<1>1. /\ LeftBySender(l) \in Link /\ LeftBySender(l).up = l.up
      /\ LeftBySender(l).down = <<>>
  BY MessageType, LinkOps DEF MessageKind
<1>2. ~ProofsIn(<<>>)
  BY DEF ProofsIn
<1> QED
  BY <1>1, <1>2 DEF HelloFirst

(* The network closes a link and takes nothing that was sent.              *)
LEMMA NetworkCloses ==
    ASSUME NEW l \in Link, NEW at, HelloFirst(l, at)
    PROVE  /\ Closed(l) \in Link /\ Closed(l).up = l.up /\ Closed(l).down = l.down
           /\ HelloFirst(Closed(l), at)
<1>1. Closed(l) \in Link /\ Closed(l).up = l.up /\ Closed(l).down = l.down
  BY MessageType, LinkOps DEF MessageKind
<1> QED
  BY <1>1 DEF HelloFirst

(* A sender that neither typed nor proved anything new.                    *)
LEMMA SenderGoesOn ==
    ASSUME PairInv, NEW s \in Senders, NEW t \in Sender, NEW l \in Link,
           UNCHANGED <<rx, disk, entitled>>,
           tx' = [tx EXCEPT ![s] = t], link' = [link EXCEPT ![s] = l],
           HelloFirst(l, t.at),
           ProofsIn(l.down) => ProofsIn(link[s].down),
           SenderProven(s, t),
           ReadOffScreen(s, t, l) => ReadOffScreen(s, tx[s], link[s])
    PROVE  PairInv'
<1>1. rx' = rx /\ disk' = disk /\ entitled' = entitled
  OBVIOUS
<1>2. entitled \subseteq entitled' /\ entitled' \subseteq Senders
  BY <1>1 DEF PairInv, PairTypeOK
<1>3. rx.peer = s /\ rx.at \in {"init", "proof"} /\ ReadOffScreen(s, t, l) => s \in entitled'
  BY <1>1 DEF PairInv, PinInv
<1> QED
  BY <1>1, <1>2, <1>3, SenderMoves

------------------------------------------------------------------------------
(* Starting up leaves everything with the receiver's own files. *)
LEMMA BootStep == PairInv /\ Boot => PairInv'
<1> SUFFICES ASSUME PairInv, Boot PROVE PairInv'
  OBVIOUS
<1> USE DEF PairInv
<1>1. CASE Load
  <2>1. /\ rx' = [Down EXCEPT !.at = "accept", !.store = disk.paired]
        /\ disk.key # 0 /\ UNCHANGED <<disk, tx, link, entitled>>
    BY <1>1 DEF Load
  <2>2. /\ rx'.at = "accept" /\ rx'.pin = None /\ rx'.store = disk.paired
        /\ DOMAIN rx' = {"at", "peer", "pin", "store", "guard"}
    BY <2>1 DEF Down
  <2>3. disk.paired \subseteq entitled
    BY DEF ProvenInv
  <2>4. link' \in [Senders -> Link] /\ DOMAIN rx' = DOMAIN rx
    BY <2>1, <2>2 DEF PairTypeOK
  <2>5. /\ \A s \in Senders : HelloFirst(link'[s], tx[s].at)
        /\ \A s \in Senders : ProofsIn(link'[s].down) => s \in entitled
    BY <2>1 DEF HelloInv, ProvenInv
  <2> QED
    BY <2>1, <2>2, <2>3, <2>4, <2>5, ReceiverMoves DEF Handling
<1>2. CASE WriteCert
  <2>1. /\ rx' = [rx EXCEPT !.at = "write key"] /\ rx.at = "down" /\ disk.key = 0
        /\ disk' = [disk EXCEPT !.cert = disk.made + 1, !.made = disk.made + 1]
        /\ tx' = tx /\ link' = link /\ entitled' = entitled
    BY <1>2 DEF WriteCert, FilesInv
  <2>2. /\ rx'.at = "write key" /\ rx'.pin = rx.pin /\ rx'.store = rx.store
        /\ DOMAIN rx' = DOMAIN rx
    BY <2>1 DEF PairTypeOK
  <2>3. /\ disk' \in [cert : Nat, key : Nat, paired : SUBSET Senders, made : Nat]
        /\ disk'.key = 0 /\ disk'.cert # 0 /\ disk'.paired = disk.paired
    <3>1. /\ disk \in [cert : Nat, key : Nat, paired : SUBSET Senders, made : Nat]
          /\ disk.made + 1 \in Nat /\ disk.made + 1 # 0
      BY DEF PairTypeOK
    <3> QED
      BY <2>1, <3>1
  <2>4. PairTypeOK' /\ FilesInv'
    BY <2>1, <2>2, <2>3 DEF PairTypeOK, FilesInv, Handling
  <2>5. HelloInv' /\ PinInv'
    BY <2>1, <2>2 DEF HelloInv, HelloFirst, PinInv
  <2>6. ProvenInv'
    BY <2>1, <2>2, <2>3 DEF ProvenInv, SenderProven
  <2> QED
    BY <2>4, <2>5, <2>6
<1>3. CASE WriteKey
  <2>1. /\ rx' = [Down EXCEPT !.at = "accept", !.store = disk.paired]
        /\ disk' = [disk EXCEPT !.key = disk.cert] /\ disk.key = 0 /\ disk.cert # 0
        /\ tx' = tx /\ link' = link /\ entitled' = entitled
    BY <1>3 DEF WriteKey, FilesInv
  <2>2. /\ rx'.at = "accept" /\ rx'.pin = None /\ rx'.store = disk.paired
        /\ DOMAIN rx' = {"at", "peer", "pin", "store", "guard"}
    BY <2>1 DEF Down
  <2>3. /\ disk' \in [cert : Nat, key : Nat, paired : SUBSET Senders, made : Nat]
        /\ disk'.key = disk'.cert /\ disk'.cert # 0 /\ disk'.paired = disk.paired
    BY <2>1 DEF PairTypeOK
  <2>4. PairTypeOK' /\ FilesInv'
    BY <2>1, <2>2, <2>3 DEF PairTypeOK, FilesInv, Handling
  <2>5. HelloInv' /\ PinInv'
    BY <2>1, <2>2 DEF HelloInv, HelloFirst, PinInv
  <2>6. \A s \in Senders : tx[s].at = "idle" /\ tx[s].knows = 0
    BY <2>1 DEF ProvenInv, SenderProven
  <2>7. ProvenInv'
    BY <2>1, <2>2, <2>3, <2>6 DEF ProvenInv, SenderProven
  <2> QED
    BY <2>4, <2>5, <2>7
<1> QED
  BY <1>1, <1>2, <1>3 DEF Boot

(* Every kind of message but the proof itself proves nothing. *)
LEMMA PlainMessages ==
    /\ \A t \in MessageKind : Msg(t) \in Message /\ Msg(t).type # "PairProof"
    /\ \A t \in MessageKind \ {"Hello"} : Msg(t) # Msg("Hello")
BY DEF Message, Msg, MessageKind

(* The receiver answers what it has read, with a proof or without one.     *)
LEMMA AnswerStep ==
    ASSUME PairInv, NEW m, NEW at \in Handling, NEW reply \in Message,
           Answer(m, at, reply), UNCHANGED <<disk, tx, entitled>>,
           rx.at \in Handling,
           at \in {"init", "proof"} => rx.at \in {"init", "proof"},
           at \in {"ok", "add", "save"} \/ reply.type = "PairProof" => rx.peer \in entitled
    PROVE  PairInv'
<1> USE DEF PairInv
<1> DEFINE p == rx.peer
           r == ReadByReceiver(link[p])
<1>1. /\ p \in Senders /\ link[p] \in Link /\ link[p].up # <<>>
      /\ rx' = [rx EXCEPT !.at = at]
      /\ link' = [link EXCEPT ![p] = ToSender(r, reply)]
  BY DEF Answer, PairTypeOK
<1>2. HelloFirst(link[p], tx[p].at)
  BY <1>1 DEF HelloInv
<1>3. /\ ToSender(r, reply) \in Link
      /\ \A a : HelloFirst(ToSender(r, reply), a)
      /\ ToSender(r, reply).up = r.up
      /\ \A x : In(x, r.up) => In(x, link[p].up)
      /\ ProofsIn(ToSender(r, reply).down) => ProofsIn(link[p].down) \/ reply.type = "PairProof"
  BY <1>1, <1>2, ReceiverReads
<1>4. /\ link' \in [Senders -> Link] /\ link'[p] = ToSender(r, reply)
      /\ \A s \in Senders \ {p} : link'[s] = link[s]
  BY <1>1, <1>3 DEF PairTypeOK
<1>5. /\ DOMAIN rx' = DOMAIN rx /\ rx'.at = at /\ rx'.peer = p
      /\ rx'.pin = rx.pin /\ rx'.store = rx.store
  BY <1>1 DEF PairTypeOK
<1>6. \A s \in Senders : HelloFirst(link'[s], tx[s].at)
  BY <1>3, <1>4 DEF HelloInv
<1>7. \A s \in Senders : ProofsIn(link'[s].down) => s \in entitled
  BY <1>3, <1>4 DEF ProvenInv
<1>8. rx'.pin \in Pins \union {None} /\ rx'.store \subseteq entitled
  BY <1>5 DEF PairTypeOK, ProvenInv
<1>9. disk.key # 0 /\ disk.paired \subseteq rx'.store
  BY <1>5 DEF FilesInv
<1> QED
  BY <1>1, <1>3, <1>4, <1>5, <1>6, <1>7, <1>8, <1>9, ReceiverMoves

(* The handler returns, with an error sent before or without one.          *)
LEMMA LeaveStep ==
    ASSUME PairInv, NEW guard, Leave(guard), UNCHANGED <<disk, tx, entitled>>,
           rx.at \in Handling, NEW t \in {"Error3", "Error4"},
           \/ link' = [link EXCEPT ![rx.peer] = LeftByReceiver(ToSender(@, Msg(t)))]
           \/ link' = [link EXCEPT ![rx.peer] = LeftByReceiver(@)]
    PROVE  PairInv'
<1> USE DEF PairInv
<1> DEFINE p == rx.peer
<1>1. p \in Senders /\ link[p] \in Link
  BY DEF PairTypeOK
<1>2. Msg(t) \in Message /\ Msg(t).type # "PairProof"
  BY PlainMessages DEF MessageKind
<1>3. PICK l \in Link :
        /\ link' = [link EXCEPT ![p] = l] /\ \A a : HelloFirst(l, a)
        /\ ProofsIn(l.down) => ProofsIn(link[p].down)
  BY <1>1, <1>2, ReceiverLeaves
<1>4. /\ link' \in [Senders -> Link] /\ link'[p] = l
      /\ \A s \in Senders \ {p} : link'[s] = link[s]
  BY <1>1, <1>3 DEF PairTypeOK
<1>5. /\ DOMAIN rx' = DOMAIN rx /\ rx'.at = "accept"
      /\ rx'.pin = None /\ rx'.store = rx.store
  BY DEF PairTypeOK, Leave
<1>6. \A s \in Senders : HelloFirst(link'[s], tx[s].at)
  BY <1>3, <1>4 DEF HelloInv
<1>7. \A s \in Senders : ProofsIn(link'[s].down) => s \in entitled
  BY <1>3, <1>4 DEF ProvenInv
<1>8. rx'.store \subseteq entitled
  BY <1>5 DEF ProvenInv
<1>9. disk.key # 0 /\ disk.paired \subseteq rx'.store
  BY <1>5 DEF FilesInv
<1> QED
  BY <1>4, <1>5, <1>6, <1>7, <1>8, <1>9, ReceiverMoves DEF Handling

(* A new PIN is shown to a sender that has said nothing but Hello: nobody  *)
(* has typed it yet.                                                       *)
LEMMA GreetUnpairedStep == PairInv /\ GreetUnpaired => PairInv'
<1> SUFFICES ASSUME PairInv, GreetUnpaired PROVE PairInv'
  OBVIOUS
<1> USE DEF PairInv
<1> DEFINE p == rx.peer
           r == ReadByReceiver(link[p])
           l == ToSender(r, Msg("Error4"))
<1>1. PICK pin \in Pins : rx' = [rx EXCEPT !.at = "init", !.pin = pin]
  BY DEF GreetUnpaired
<1>2. /\ p \in Senders /\ link[p] \in Link /\ link[p].up # <<>> /\ rx.at = "hello"
      /\ Head(link[p].up) = Msg("Hello")
      /\ link' = [link EXCEPT ![p] = l]
      /\ UNCHANGED <<disk, tx, entitled>>
  BY DEF GreetUnpaired, PairTypeOK, Handling
<1>3. HelloFirst(link[p], tx[p].at)
  BY <1>2 DEF HelloInv
<1>4. Msg("Error4") \in Message /\ Msg("Error4").type # "PairProof"
  BY PlainMessages DEF MessageKind
<1>5. /\ l \in Link /\ (\A a : HelloFirst(l, a)) /\ l.up = r.up /\ r.up = Tail(link[p].up)
      /\ ProofsIn(l.down) => ProofsIn(link[p].down) \/ Msg("Error4").type = "PairProof"
  BY <1>2, <1>3, <1>4, ReceiverReads
<1>6. link[p].up \in Seq(Message)
  BY <1>2 DEF Link
<1>7. In(Msg("Hello"), link[p].up)
  BY <1>2, <1>6, InTail
<1>8. link[p].up = <<Msg("Hello")>> /\ tx[p].at \in NotAnswered
  BY <1>3, <1>7 DEF HelloFirst
<1>9. l.up = <<>>
  <2>1. Tail(link[p].up) \in Seq(Message) /\ Len(Tail(link[p].up)) = Len(link[p].up) - 1
    BY <1>2, <1>6, HeadTailProperties
  <2>2. Len(Tail(link[p].up)) = 0
    BY <1>8, <2>1
  <2> QED
    BY <1>5, <2>1, <2>2, EmptySeq
<1>10. /\ link' \in [Senders -> Link] /\ link'[p] = l
       /\ \A s \in Senders \ {p} : link'[s] = link[s]
  BY <1>2, <1>5 DEF PairTypeOK
<1>11. /\ DOMAIN rx' = DOMAIN rx /\ rx'.at = "init" /\ rx'.peer = p
       /\ rx'.pin = pin /\ rx'.store = rx.store
  BY <1>1 DEF PairTypeOK
<1>12. \A s \in Senders : HelloFirst(link'[s], tx[s].at)
  BY <1>5, <1>10 DEF HelloInv
<1>13. \A s \in Senders : ProofsIn(link'[s].down) => s \in entitled
  BY <1>4, <1>5, <1>10 DEF ProvenInv
<1>14. rx'.store \subseteq entitled
  BY <1>11 DEF ProvenInv
<1>15. disk.key # 0 /\ disk.paired \subseteq rx'.store
  BY <1>2, <1>11 DEF FilesInv, Handling
<1> QED
  BY <1>2, <1>8, <1>9, <1>10, <1>11, <1>12, <1>13, <1>14, <1>15, ReceiverMoves DEF Handling

(* What is not a Hello is read and forgotten.                              *)
LEMMA IgnoreStep == PairInv /\ Ignore => PairInv'
<1> SUFFICES ASSUME PairInv, Ignore PROVE PairInv'
  OBVIOUS
<1> USE DEF PairInv
<1> DEFINE p == rx.peer
           l == ReadByReceiver(link[p])
<1>1. /\ p \in Senders /\ link[p] \in Link /\ link[p].up # <<>> /\ rx.at = "hello"
      /\ link' = [link EXCEPT ![p] = l]
      /\ UNCHANGED <<rx, disk, tx, entitled>>
  BY DEF Ignore, PairTypeOK, Handling
<1>2. HelloFirst(link[p], tx[p].at)
  BY <1>1 DEF HelloInv
<1>3. l \in Link /\ (\A a : HelloFirst(l, a)) /\ l.down = link[p].down
  BY <1>1, <1>2, PlainMessages, ReceiverReads DEF MessageKind
<1>4. /\ link' \in [Senders -> Link] /\ link'[p] = l
      /\ \A s \in Senders \ {p} : link'[s] = link[s]
  BY <1>1, <1>3 DEF PairTypeOK
<1>5. \A s \in Senders : HelloFirst(link'[s], tx[s].at)
  BY <1>3, <1>4 DEF HelloInv
<1>6. \A s \in Senders : ProofsIn(link'[s].down) => s \in entitled
  BY <1>3, <1>4 DEF ProvenInv
<1>7. rx'.store \subseteq entitled /\ rx'.pin \in Pins \union {None}
  BY <1>1 DEF ProvenInv, PairTypeOK
<1>8. disk.key # 0 /\ disk.paired \subseteq rx'.store
  BY <1>1 DEF FilesInv, Handling
<1> QED
  BY <1>1, <1>4, <1>5, <1>6, <1>7, <1>8, ReceiverMoves DEF Handling

(* A verified proof is of the PIN on screen, so its maker typed it.        *)
LEMMA ProofAcceptedStep == PairInv /\ ProofAccepted => PairInv'
<1> SUFFICES ASSUME PairInv, ProofAccepted PROVE PairInv'
  OBVIOUS
<1> USE DEF PairInv
<1> DEFINE p == rx.peer
           reply == Proof(rx.pin, "receiver", disk.cert)
<1>1. PICK m : Verifies(m, rx.pin, "sender", p) /\ Answer(m, "ok", reply)
  BY DEF ProofAccepted
<1>2. rx.at = "proof" /\ UNCHANGED <<disk, tx, entitled>>
  BY DEF ProofAccepted
<1>3. /\ p \in Senders /\ link[p].up \in Seq(Message) /\ link[p].up # <<>>
      /\ m = Head(link[p].up) /\ m = Proof(rx.pin, "sender", p)
  BY <1>1, <1>2 DEF Answer, PairTypeOK, Link, Handling, Verifies
<1>4. In(Proof(rx.pin, "sender", p), link[p].up)
  BY <1>3, InTail
<1>5. p \in entitled
  BY <1>2, <1>4 DEF PinInv, ReadOffScreen
<1>6. reply \in Message
  <2>1. rx.pin \in Pins \union {None} /\ disk.cert \in Nat
    BY DEF PairTypeOK
  <2> QED
    BY <2>1, MessageType
<1> QED
  BY <1>1, <1>2, <1>5, <1>6, AnswerStep DEF Handling

(* The peer, who is entitled, enters the store in memory, then on disk.    *)
LEMMA SaveStep == PairInv /\ (Add \/ Save) => PairInv'
<1> SUFFICES ASSUME PairInv, Add \/ Save PROVE PairInv'
  OBVIOUS
<1> USE DEF PairInv
<1>1. CASE Add
  <2>1. /\ rx' = [rx EXCEPT !.at = "save", !.store = @ \union {rx.peer}]
        /\ rx.at = "add" /\ UNCHANGED <<disk, tx, link, entitled>>
    BY <1>1 DEF Add, TmpWritten
  <2>2. /\ DOMAIN rx' = DOMAIN rx /\ rx'.at = "save" /\ rx'.peer = rx.peer
        /\ rx'.pin = rx.pin /\ rx'.store = rx.store \union {rx.peer}
    BY <2>1 DEF PairTypeOK
  <2>3. rx.peer \in entitled /\ rx.peer \in Senders
    BY <2>1 DEF ProvenInv, PairTypeOK, Handling
  <2>4. rx'.store \subseteq entitled /\ rx'.pin \in Pins \union {None}
    BY <2>2, <2>3 DEF ProvenInv, PairTypeOK
  <2>5. disk.key # 0 /\ disk.paired \subseteq rx'.store
    BY <2>1, <2>2 DEF FilesInv, Handling
  <2>6. /\ link' \in [Senders -> Link]
        /\ \A s \in Senders : HelloFirst(link'[s], tx[s].at)
        /\ \A s \in Senders : ProofsIn(link'[s].down) => s \in entitled
    BY <2>1 DEF PairTypeOK, HelloInv, ProvenInv
  <2> QED
    BY <2>1, <2>2, <2>3, <2>4, <2>5, <2>6, ReceiverMoves DEF Handling
<1>2. CASE Save
  <2>1. /\ rx' = [rx EXCEPT !.at = "hello", !.pin = None] /\ rx.at = "save"
        /\ disk' = [disk EXCEPT !.paired = rx.store]
        /\ tx' = tx /\ link' = link /\ entitled' = entitled
    BY <1>2 DEF Save
  <2>2. /\ DOMAIN rx' = DOMAIN rx /\ rx'.at = "hello" /\ rx'.peer = rx.peer
        /\ rx'.pin = None /\ rx'.store = rx.store
    BY <2>1 DEF PairTypeOK
  <2>3. /\ disk'.key = disk.key /\ disk'.cert = disk.cert /\ disk'.paired = rx.store
        /\ disk.key # 0 /\ rx.peer \in Senders
    BY <2>1 DEF PairTypeOK, FilesInv, Handling
  <2>4. PairTypeOK'
    <3>1. rx.store \subseteq Senders
      BY DEF PairTypeOK, ProvenInv
    <3>2. disk' \in [cert : Nat, key : Nat, paired : SUBSET Senders, made : Nat]
      BY <2>1, <3>1 DEF PairTypeOK
    <3> QED
      BY <2>1, <2>2, <2>3, <3>2 DEF PairTypeOK
  <2>5. FilesInv' /\ HelloInv' /\ PinInv'
    BY <2>1, <2>2, <2>3 DEF FilesInv, HelloInv, HelloFirst, PinInv, Handling
  <2>6. ProvenInv'
    BY <2>1, <2>2, <2>3 DEF ProvenInv, SenderProven
  <2> QED
    BY <2>4, <2>5, <2>6
<1> QED
  BY <1>1, <1>2

(* The receiver handles what comes, or the end of its connection.          *)
LEMMA HandleStep == PairInv /\ (Handle \/ SaveFails) => PairInv'
<1> SUFFICES ASSUME PairInv, Handle \/ SaveFails PROVE PairInv'
  OBVIOUS
<1> USE DEF Handling
<1>1. CASE GreetPaired
  <2>1. Msg("HelloAck") \in Message /\ Msg("HelloAck").type # "PairProof"
    BY PlainMessages DEF MessageKind
  <2> QED
    BY <1>1, <2>1, AnswerStep DEF GreetPaired
<1>2. CASE GreetLocked
  BY <1>2, LeaveStep DEF GreetLocked
<1>3. CASE PairResp
  <2>1. Msg("PairResp") \in Message /\ Msg("PairResp").type # "PairProof"
    BY PlainMessages DEF MessageKind
  <2> QED
    BY <1>3, <2>1, AnswerStep DEF PairResp
<1>4. CASE ProofRefused
  BY <1>4, LeaveStep DEF ProofRefused
<1>5. CASE PairOk
  <2>1. Msg("PairOk") \in Message /\ Msg("PairOk").type # "PairProof"
    BY PlainMessages DEF MessageKind
  <2>2. rx.peer \in entitled
    BY <1>5 DEF PairOk, PairInv, ProvenInv
  <2> QED
    BY <1>5, <2>1, <2>2, AnswerStep DEF PairOk
<1>6. CASE Lost
  BY <1>6, LeaveStep DEF Lost, LostWhere, Pairing
<1>7. CASE Served
  BY <1>7, LeaveStep DEF Served
<1>8. CASE SaveFails
  BY <1>8, LeaveStep DEF SaveFails
<1> QED
  BY <1>1, <1>2, <1>3, <1>4, <1>5, <1>6, <1>7, <1>8, GreetUnpairedStep, IgnoreStep,
     ProofAcceptedStep, SaveStep DEF Handle

(* A crash takes what the receiver holds in memory and its connections.    *)
LEMMA CrashStep == PairInv /\ Crash => PairInv'
<1> SUFFICES ASSUME PairInv, Crash PROVE PairInv'
  OBVIOUS
<1> USE DEF PairInv
<1>1. /\ rx' = Down /\ UNCHANGED <<disk, tx, entitled>>
      /\ link' = [s \in Senders |-> LeftByReceiver(link[s])]
  BY DEF Crash
<1>2. /\ rx'.at = "down" /\ rx'.pin = None /\ rx'.store = {}
      /\ DOMAIN rx' = DOMAIN rx
  BY <1>1 DEF Down, PairTypeOK
<1>3. Msg("Error3") \in Message /\ Msg("Error3").type # "PairProof"
  BY PlainMessages DEF MessageKind
<1>4. \A s \in Senders : /\ link[s] \in Link /\ link'[s] = LeftByReceiver(link[s])
                         /\ link'[s] \in Link /\ \A a : HelloFirst(link'[s], a)
                         /\ ProofsIn(link'[s].down) => ProofsIn(link[s].down)
  BY <1>1, <1>3, ReceiverLeaves DEF PairTypeOK
<1>5. link' \in [Senders -> Link]
  BY <1>1, <1>4
<1>6. /\ \A s \in Senders : HelloFirst(link'[s], tx[s].at)
      /\ \A s \in Senders : ProofsIn(link'[s].down) => s \in entitled
  BY <1>4 DEF ProvenInv
<1> QED
  BY <1>1, <1>2, <1>5, <1>6, ReceiverMoves DEF Handling

(* The accept loop takes a sender's connection, with its Hello on it.      *)
LEMMA AcceptStep == \A s \in Senders : PairInv /\ Accept(s) => PairInv'
<1> SUFFICES ASSUME NEW s \in Senders, PairInv, Accept(s) PROVE PairInv'
  OBVIOUS
<1> USE DEF PairInv
<1> DEFINE l == [NoLink EXCEPT !.open = TRUE, !.up = <<Msg("Hello")>>]
           t == [tx[s] EXCEPT !.at = "hello"]
<1>1. /\ rx' = [rx EXCEPT !.at = "hello", !.peer = s] /\ rx.at = "accept"
      /\ tx' = [tx EXCEPT ![s].at = "hello"] /\ tx[s].at = "connecting"
      /\ link' = [link EXCEPT ![s] = l]
      /\ disk' = disk /\ entitled' = entitled
  BY DEF Accept
<1>2. l \in Link /\ l.up = <<Msg("Hello")>> /\ l.down = <<>>
  <2>1. Msg("Hello") \in Message
    BY PlainMessages DEF MessageKind
  <2>2. <<Msg("Hello")>> \in Seq(Message) /\ <<>> \in Seq(Message)
    BY <2>1, EmptySeq
  <2>3. \A q \in Seq(Message) :
            LET r == [NoLink EXCEPT !.open = TRUE, !.up = q]
            IN  r \in Link /\ r.up = q /\ r.down = <<>>
    BY <2>2 DEF NoLink, Link
  <2> QED
    BY <2>2, <2>3
<1>3. HelloFirst(l, "hello") /\ ~ProofsIn(l.down)
  BY <1>2 DEF HelloFirst, NotAnswered, ProofsIn
<1>4. /\ t \in Sender /\ t.at = "hello" /\ t.target = tx[s].target /\ t.knows = tx[s].knows
      /\ tx' \in [Senders -> Sender] /\ tx'[s] = t
      /\ \A r \in Senders \ {s} : tx'[r] = tx[r]
  BY <1>1 DEF PairTypeOK, Sender, SenderAt
<1>5. /\ link' \in [Senders -> Link] /\ link'[s] = l
      /\ \A r \in Senders \ {s} : link'[r] = link[r]
  BY <1>1, <1>2 DEF PairTypeOK
<1>6. /\ DOMAIN rx' = DOMAIN rx /\ rx'.at = "hello" /\ rx'.peer = s
      /\ rx'.pin = rx.pin /\ rx'.store = rx.store
  BY <1>1 DEF PairTypeOK
<1>7. PairTypeOK' /\ FilesInv'
  BY <1>1, <1>4, <1>5, <1>6 DEF PairTypeOK, FilesInv, Handling
<1>8. HelloInv'
  <2>1. \A r \in Senders : HelloFirst(link'[r], tx'[r].at)
    <3>1. HelloFirst(link'[s], tx'[s].at)
      BY <1>3, <1>4, <1>5
    <3>2. \A r \in Senders \ {s} : HelloFirst(link'[r], tx'[r].at)
      BY <1>4, <1>5 DEF HelloInv
    <3> QED
      BY <3>1, <3>2
  <2> QED
    BY <2>1 DEF HelloInv, HelloFirst
<1>9. PinInv'
  BY <1>6 DEF PinInv
<1>10. ProvenInv'
  <2>1. (\A r \in Senders : ProofsIn(link[r].down) => r \in entitled)'
    BY <1>1, <1>3, <1>5 DEF ProvenInv
  <2>2. (\A r \in Senders : SenderProven(r, tx[r]))'
    BY <1>1, <1>4 DEF ProvenInv, SenderProven
  <2> QED
    BY <1>1, <1>6, <2>1, <2>2 DEF ProvenInv
<1> QED
  BY <1>7, <1>8, <1>9, <1>10

(* A sender connects, reads, answers, asks its user, and gives up.         *)
LEMMA SenderStep ==
    \A s \in Senders :
        PairInv /\ (Step(s) \/ DropLink(s) \/ \E casting \in BOOLEAN : Connect(s, casting))
            => PairInv'
<1> SUFFICES ASSUME NEW s \in Senders, PairInv,
                    Step(s) \/ DropLink(s) \/ \E casting \in BOOLEAN : Connect(s, casting)
             PROVE  PairInv'
  OBVIOUS
<1> USE DEF PairInv
<1>1. /\ tx[s] \in Sender /\ link[s] \in Link /\ HelloFirst(link[s], tx[s].at)
      /\ SenderProven(s, tx[s]) /\ (ProofsIn(link[s].down) => s \in entitled)
      /\ tx = [tx EXCEPT ![s] = tx[s]] /\ link = [link EXCEPT ![s] = link[s]]
      /\ entitled \subseteq Senders
  BY DEF PairTypeOK, HelloInv, ProvenInv
<1>2. rx.peer = s /\ rx.at \in {"init", "proof"} /\ ReadOffScreen(s, tx[s], link[s])
         => s \in entitled
  BY DEF PinInv
<1> DEFINE e == [tx[s] EXCEPT !.at = "idle", !.casting = FALSE, !.target = 0, !.pin = None]
           bye == LeftBySender(link[s])
\* a sender that has ended
<1>3. /\ e \in Sender /\ e.at = "idle" /\ e.knows = tx[s].knows
      /\ SenderProven(s, e) /\ Ended(s) = [tx EXCEPT ![s] = e]
  BY <1>1 DEF Sender, SenderAt, SenderProven, Ended
<1>4. /\ bye \in Link /\ bye.up = link[s].up /\ ~ProofsIn(bye.down)
      /\ HelloFirst(bye, "idle")
  BY <1>1, SenderLeaves DEF NotAnswered
<1>5. Stop(s) /\ UNCHANGED <<rx, disk, entitled>> => PairInv'
  <2>1. SUFFICES ASSUME Stop(s), UNCHANGED <<rx, disk, entitled>> PROVE PairInv'
    OBVIOUS
  <2>2. tx' = [tx EXCEPT ![s] = e] /\ link' = [link EXCEPT ![s] = bye]
    BY <1>3, <2>1 DEF Stop
  <2>3. ReadOffScreen(s, e, bye) => ReadOffScreen(s, tx[s], link[s])
    BY <1>3, <1>4 DEF ReadOffScreen
  <2>4. HelloFirst(bye, e.at)
    BY <1>3, <1>4
  <2> HIDE DEF e, bye
  <2> QED
    BY <1>3, <1>4, <2>1, <2>2, <2>3, <2>4, SenderGoesOn
<1>6. CASE GiveUp(s)
  <2>1. /\ tx' = [tx EXCEPT ![s] = e] /\ link' = [link EXCEPT ![s] = link[s]]
        /\ tx[s].at = "connecting" /\ UNCHANGED <<rx, disk, entitled>>
    BY <1>1, <1>3, <1>6 DEF GiveUp
  <2>2. HelloFirst(link[s], e.at)
    BY <1>1, <1>3 DEF HelloFirst, NotAnswered
  <2>3. ReadOffScreen(s, e, link[s]) => ReadOffScreen(s, tx[s], link[s])
    BY <1>3 DEF ReadOffScreen
  <2> HIDE DEF e
  <2> QED
    BY <1>1, <1>3, <2>1, <2>2, <2>3, SenderGoesOn
\* a sender that reads its answer; r is the link without it
<1> DEFINE r == ReadBySender(link[s])
<1>7. /\ Msg("Goodbye") \in Message /\ Msg("Goodbye") # Msg("Hello")
      /\ Msg("PairInit") \in Message /\ Msg("PairInit") # Msg("Hello")
      /\ Msg("PairOk") \in Message /\ Msg("PairOk") # Msg("Hello")
  BY PlainMessages DEF MessageKind
<1>8. \A k \in {"Goodbye", "PairInit", "PairOk"} : \A m : m.type = "PairProof" => m # Msg(k)
  BY DEF Msg
<1>9. CASE Unpaired(s)
  <2>1. CASE Stop(s)
    BY <1>5, <1>9, <2>1 DEF Unpaired
  <2>2. CASE ~Stop(s)
    <3> DEFINE t == [tx[s] EXCEPT !.at = "prompt"]
    <3>1. /\ tx' = [tx EXCEPT ![s] = t] /\ link' = [link EXCEPT ![s] = r]
          /\ tx[s].at = "hello" /\ link[s].down # <<>> /\ UNCHANGED <<rx, disk, entitled>>
      BY <1>9, <2>2 DEF Unpaired, Reads
    <3>2. /\ t \in Sender /\ t.at = "prompt" /\ SenderProven(s, t)
      BY <1>1, <3>1 DEF Sender, SenderAt, SenderProven
    <3>3. /\ r \in Link /\ HelloFirst(r, t.at) /\ r.up = link[s].up
          /\ ProofsIn(r.down) => ProofsIn(link[s].down)
      BY <1>1, <1>7, <3>1, SenderReads
    <3>4. ReadOffScreen(s, t, r) => ReadOffScreen(s, tx[s], link[s])
      BY <3>2, <3>3 DEF ReadOffScreen
    <3> HIDE DEF t, r
    <3> QED
      BY <3>1, <3>2, <3>3, <3>4, SenderGoesOn
  <2> QED
    BY <2>1, <2>2
<1>10. CASE CancelPin(s) \/ Refused(s) \/ SenderLost(s)
  BY <1>5, <1>10 DEF CancelPin, Refused, SenderLost
<1>11. CASE SendOk(s)
  <2> DEFINE t == [tx[s] EXCEPT !.at = "ok"]
             l == ToReceiver(r, Msg("PairOk"))
             m == Proof(tx[s].pin, "receiver", disk.cert)
  <2>1. /\ tx' = [tx EXCEPT ![s].at = "ok"] /\ link' = [link EXCEPT ![s] = l]
        /\ tx[s].at = "proof" /\ link[s].down # <<>> /\ Head(link[s].down) = m
        /\ UNCHANGED <<rx, disk, entitled>>
    BY <1>11 DEF SendOk, Reads, Reply, Verifies
  <2>2. tx' = [tx EXCEPT ![s] = t]
    BY <2>1
  <2>3. s \in entitled
    <3>1. link[s].down \in Seq(Message) /\ m.type = "PairProof"
      BY <1>1 DEF Link, Proof
    <3>2. In(m, link[s].down)
      BY <2>1, <3>1, InTail
    <3>3. ProofsIn(link[s].down)
      BY <3>1, <3>2 DEF In, ProofsIn
    <3> QED
      BY <1>1, <3>3
  <2>4. /\ t \in Sender /\ t.at = "ok" /\ t.pin = tx[s].pin /\ SenderProven(s, t)
    BY <1>1, <2>1, <2>3 DEF Sender, SenderAt, SenderProven
  <2>5. /\ l \in Link /\ HelloFirst(l, t.at)
        /\ \A x : In(x, l.up) => In(x, link[s].up) \/ x = Msg("PairOk")
        /\ ProofsIn(l.down) => ProofsIn(link[s].down)
    <3>1. link[s] \in Link /\ HelloFirst(link[s], tx[s].at) /\ link[s].down # <<>>
      BY <1>1, <2>1
    <3> HIDE DEF t
    <3> QED
      BY <1>7, <3>1, SenderReads
  <2>6. ReadOffScreen(s, t, l) => ReadOffScreen(s, tx[s], link[s])
    <3>1. Proof(rx.pin, "sender", s) # Msg("PairOk")
      BY DEF Proof, Msg
    <3> QED
      BY <2>1, <2>4, <2>5, <3>1 DEF ReadOffScreen
  <2> HIDE DEF t, l
  <2> QED
    BY <2>1, <2>2, <2>4, <2>5, <2>6, SenderGoesOn
<1>12. CASE SendProof(s)
  <2> DEFINE t == [tx[s] EXCEPT !.at = "proof"]
             m == Proof(tx[s].pin, "sender", s)
             l == ToReceiver(r, m)
  <2>1. /\ tx' = [tx EXCEPT ![s].at = "proof"] /\ link' = [link EXCEPT ![s] = l]
        /\ tx[s].at = "resp" /\ link[s].down # <<>> /\ UNCHANGED <<rx, disk, entitled>>
    BY <1>12 DEF SendProof, Reads, Reply
  <2>2. tx' = [tx EXCEPT ![s] = t]
    BY <2>1
  <2>3. /\ t \in Sender /\ t.at = "proof" /\ t.pin = tx[s].pin /\ SenderProven(s, t)
    BY <1>1, <2>1 DEF Sender, SenderAt, SenderProven
  <2>4. m \in Message /\ m # Msg("Hello")
    <3>1. tx[s].pin \in Pins \union {None}
      BY <1>1 DEF Sender
    <3> QED
      BY <3>1, MessageType DEF Msg, Proof
  <2>5. /\ l \in Link /\ HelloFirst(l, t.at)
        /\ \A x : In(x, l.up) => In(x, link[s].up) \/ x = m
        /\ ProofsIn(l.down) => ProofsIn(link[s].down)
    <3>1. link[s] \in Link /\ HelloFirst(link[s], tx[s].at) /\ link[s].down # <<>>
      BY <1>1, <2>1
    <3> HIDE DEF t
    <3> QED
      BY <2>4, <3>1, SenderReads
  <2>6. ReadOffScreen(s, t, l) => ReadOffScreen(s, tx[s], link[s])
    <3>1. Proof(rx.pin, "sender", s) = m => rx.pin = tx[s].pin
      BY DEF Proof
    <3> QED
      BY <2>1, <2>3, <2>5, <3>1 DEF ReadOffScreen
  <2> HIDE DEF t, l
  <2> QED
    BY <2>1, <2>2, <2>3, <2>5, <2>6, SenderGoesOn
<1>13. CASE TypePin(s)
  <2>1. PICK pin \in Pins :
          /\ tx' = [tx EXCEPT ![s].at = "resp", ![s].pin = pin]
          /\ link' = [link EXCEPT ![s] = ToReceiver(@, Msg("PairInit"))]
          /\ entitled' = IF rx.peer = s /\ rx.pin = pin THEN entitled \union {s} ELSE entitled
    BY <1>13 DEF TypePin
  <2> DEFINE t == [tx[s] EXCEPT !.at = "resp", !.pin = pin]
             l == ToReceiver(link[s], Msg("PairInit"))
  <2>2. /\ tx' = [tx EXCEPT ![s] = t] /\ link' = [link EXCEPT ![s] = l]
        /\ tx[s].at = "prompt" /\ rx' = rx /\ disk' = disk
    BY <1>13, <2>1 DEF TypePin
  <2>3. entitled \subseteq entitled' /\ entitled' \subseteq Senders
    BY <1>1, <2>1
  <2>4. /\ t \in Sender /\ t.at = "resp" /\ t.pin = pin /\ SenderProven(s, t)
    BY <1>1, <2>2 DEF Sender, SenderAt, SenderProven
  <2>5. /\ l \in Link /\ HelloFirst(l, t.at) /\ l.down = link[s].down
        /\ \A x : In(x, l.up) => In(x, link[s].up) \/ x = Msg("PairInit")
    BY <1>1, <1>7, <2>2, SenderSpeaks DEF NotAnswered
  <2>6. rx.peer = s /\ rx.at \in {"init", "proof"} /\ ReadOffScreen(s, t, l) => s \in entitled'
    <3>1. SUFFICES ASSUME rx.peer = s, rx.at \in {"init", "proof"}, ReadOffScreen(s, t, l)
                   PROVE  s \in entitled'
      OBVIOUS
    <3>2. CASE rx.pin = pin
      BY <2>1, <3>1, <3>2
    <3>3. CASE rx.pin # pin
      <4>1. Proof(rx.pin, "sender", s) # Msg("PairInit")
        BY DEF Proof, Msg
      <4>2. In(Proof(rx.pin, "sender", s), link[s].up)
        BY <2>4, <2>5, <3>1, <3>3, <4>1 DEF ReadOffScreen
      <4> QED
        BY <1>2, <2>3, <3>1, <4>2 DEF ReadOffScreen
    <3> QED
      BY <3>2, <3>3
  <2> HIDE DEF t, l
  <2> QED
    BY <2>2, <2>3, <2>4, <2>5, <2>6, SenderMoves
\* a sender that is done says Goodbye and leaves
<1> DEFINE said == ToReceiver(link[s], Msg("Goodbye"))
           l == LeftBySender(said)
<1>14. link[s].down # <<>> =>
         /\ l \in Link /\ HelloFirst(l, "idle") /\ ~ProofsIn(l.down)
         /\ In(Proof(rx.pin, "sender", s), l.up) => In(Proof(rx.pin, "sender", s), link[s].up)
  <2>1. SUFFICES ASSUME link[s].down # <<>>
                 PROVE  /\ l \in Link /\ HelloFirst(l, "idle") /\ ~ProofsIn(l.down)
                        /\ In(Proof(rx.pin, "sender", s), l.up)
                              => In(Proof(rx.pin, "sender", s), link[s].up)
    OBVIOUS
  <2>2. /\ said \in Link /\ (\A a : HelloFirst(said, a))
        /\ \A m : In(m, said.up) => In(m, link[s].up) \/ m = Msg("Goodbye")
    BY <1>1, <1>7, <2>1, SenderSpeaks
  <2>3. /\ l \in Link /\ l.up = said.up /\ ~ProofsIn(l.down) /\ HelloFirst(l, "idle")
    BY <2>2, SenderLeaves DEF NotAnswered
  <2>4. Proof(rx.pin, "sender", s) # Msg("Goodbye")
    BY DEF Proof, Msg
  <2> QED
    BY <2>2, <2>3, <2>4
<1>15. CASE Greeted(s)
  <2>1. /\ tx' = [tx EXCEPT ![s] = e] /\ link' = [link EXCEPT ![s] = l]
        /\ link[s].down # <<>> /\ UNCHANGED <<rx, disk, entitled>>
    BY <1>3, <1>15 DEF Greeted, Reads
  <2>2. ReadOffScreen(s, e, l) => ReadOffScreen(s, tx[s], link[s])
    BY <1>3, <1>14, <2>1 DEF ReadOffScreen
  <2>3. HelloFirst(l, e.at)
    BY <1>3, <1>14, <2>1
  <2> HIDE DEF e, l
  <2> QED
    BY <1>3, <1>14, <2>1, <2>2, <2>3, SenderGoesOn
<1>16. CASE Store(s)
  <2> DEFINE t == [e EXCEPT !.knows = tx[s].target]
  <2>1. /\ link' = [link EXCEPT ![s] = l] /\ tx[s].at = "ok"
        /\ link[s].down # <<>> /\ UNCHANGED <<rx, disk, entitled>>
        /\ tx' = [[tx EXCEPT ![s] = e] EXCEPT ![s].knows = tx[s].target]
    BY <1>3, <1>16 DEF Store, Reads
  <2>2. tx' = [tx EXCEPT ![s] = t]
    <3> HIDE DEF e
    <3> QED
      BY <1>1, <1>3, <2>1 DEF PairTypeOK
  <2>3. /\ t \in Sender /\ t.at = "idle" /\ t.knows = tx[s].target
    BY <1>1, <1>3 DEF Sender
  <2>4. SenderProven(s, t)
    BY <1>1, <2>1, <2>3 DEF SenderProven
  <2>5. ReadOffScreen(s, t, l) => ReadOffScreen(s, tx[s], link[s])
    BY <1>14, <2>1, <2>3 DEF ReadOffScreen
  <2>6. HelloFirst(l, t.at)
    BY <1>14, <2>1, <2>3
  <2> HIDE DEF t, l
  <2> QED
    BY <1>14, <2>1, <2>2, <2>3, <2>4, <2>5, <2>6, SenderGoesOn
<1>17. CASE DropLink(s)
  <2> DEFINE c == Closed(link[s])
  <2>1. /\ tx' = [tx EXCEPT ![s] = tx[s]] /\ link' = [link EXCEPT ![s] = c]
        /\ UNCHANGED <<rx, disk, entitled>>
    BY <1>1, <1>17 DEF DropLink
  <2>2. /\ c \in Link /\ c.up = link[s].up /\ c.down = link[s].down
        /\ HelloFirst(c, tx[s].at)
    BY <1>1, NetworkCloses
  <2>3. ReadOffScreen(s, tx[s], c) => ReadOffScreen(s, tx[s], link[s])
    BY <2>2 DEF ReadOffScreen
  <2> HIDE DEF c
  <2> QED
    BY <1>1, <2>1, <2>2, <2>3, SenderGoesOn
<1>18. ASSUME NEW casting \in BOOLEAN, Connect(s, casting)
       PROVE  PairInv'
  <2> DEFINE t == [tx[s] EXCEPT !.at = "connecting", !.casting = casting, !.target = disk.cert]
  <2>0. tx' = [tx EXCEPT ![s] = t]
    BY <1>18 DEF Connect
  <2>1. /\ tx' = [tx EXCEPT ![s] = t] /\ link' = [link EXCEPT ![s] = link[s]]
        /\ tx[s].at = "idle" /\ disk.key # 0 /\ UNCHANGED <<rx, disk, entitled>>
    <3> HIDE DEF t
    <3>1. link' = link
      BY <1>18 DEF Connect
    <3>2. link = [link EXCEPT ![s] = link[s]]
      BY <1>1 DEF PairTypeOK
    <3> QED
      BY <1>18, <2>0, <3>1, <3>2 DEF Connect
  <2>2. disk.cert = disk.key /\ disk.cert \in Nat
    BY <2>1 DEF FilesInv, PairTypeOK
  <2>3. /\ t \in Sender /\ t.at = "connecting" /\ t.pin = tx[s].pin /\ SenderProven(s, t)
    BY <1>1, <2>1, <2>2 DEF Sender, SenderAt, SenderProven
  <2>4. HelloFirst(link[s], t.at)
    BY <1>1, <2>1, <2>3 DEF HelloFirst, NotAnswered
  <2>5. ReadOffScreen(s, t, link[s]) => ReadOffScreen(s, tx[s], link[s])
    BY <2>3 DEF ReadOffScreen
  <2> HIDE DEF t
  <2> QED
    BY <1>1, <2>1, <2>3, <2>4, <2>5, SenderGoesOn
<1> QED
  BY <1>6, <1>9, <1>10, <1>11, <1>12, <1>13, <1>15, <1>16, <1>17, <1>18 DEF Step

------------------------------------------------------------------------------
(* Every step of the receiver, of a sender or of their surroundings keeps  *)
(* the invariant.                                                          *)
LEMMA PairInvStep == PairInv /\ [Next]_vars => PairInv'
<1> SUFFICES ASSUME PairInv, [Next]_vars PROVE PairInv'
  OBVIOUS
<1>1. CASE UNCHANGED vars \/ Tick
  <2>1. rx' = rx /\ disk' = disk /\ tx' = tx /\ link' = link /\ entitled' = entitled
    BY <1>1 DEF vars, Tick
  <2> QED
    BY <2>1 DEF PairInv, PairTypeOK, FilesInv, HelloInv, HelloFirst, PinInv, ReadOffScreen,
                ProvenInv, SenderProven
<1>2. CASE Boot
  BY <1>2, BootStep
<1>3. CASE Handle \/ SaveFails
  BY <1>3, HandleStep
<1>4. CASE Crash
  BY <1>4, CrashStep
<1>5. CASE \E s \in Senders : Accept(s)
  BY <1>5, AcceptStep
<1>6. CASE \E s \in Senders :
              Step(s) \/ DropLink(s) \/ \E casting \in BOOLEAN : Connect(s, casting)
  BY <1>6, SenderStep
<1> QED
  BY <1>1, <1>2, <1>3, <1>4, <1>5, <1>6 DEF Next

(* For any senders, PINs and limits, a crash or a lost link anywhere:      *)
(* nobody is in the receiver's store, in memory or on disk, whose user did *)
(* not type the PIN shown for that attempt, and a sender has stored only   *)
(* the identity that the receiver still has.                               *)
THEOREM StoredIsProven == Spec => []ProvenBeforeStored
<1>1. PairInv => ProvenBeforeStored
  BY DEF PairInv, ProvenInv, SenderProven, ProvenBeforeStored
<1> QED
  BY InitPairInv, PairInvStep, <1>1, PTL DEF Spec

(* For any senders, PINs and limits: whatever is on the receiver's disk    *)
(* stays there, and an identity that is complete is never made again.      *)
THEOREM PairingsStay == Spec => PairingsSurvive
<1>1. PairInv /\ [Next]_vars =>
        [/\ disk.paired \subseteq disk'.paired
         /\ disk.key # 0 => disk'.cert = disk.cert /\ disk'.key = disk.key]_vars
  <2> SUFFICES ASSUME PairInv, Next
               PROVE  /\ disk.paired \subseteq disk'.paired
                      /\ disk.key # 0 => disk'.cert = disk.cert /\ disk'.key = disk.key
    OBVIOUS
  <2>1. CASE disk' = disk
    BY <2>1
  <2>2. CASE WriteCert \/ WriteKey
    <3>1. disk.key = 0
      BY <2>2 DEF WriteCert, WriteKey, PairInv, FilesInv
    <3>2. disk'.paired = disk.paired
      BY <2>2 DEF WriteCert, WriteKey, PairInv, PairTypeOK
    <3> QED
      BY <3>1, <3>2
  <2>3. CASE Save
    <3>1. rx.at = "save" /\ disk' = [disk EXCEPT !.paired = rx.store]
      BY <2>3 DEF Save
    <3>2. disk.paired \subseteq rx.store
      BY <3>1 DEF PairInv, FilesInv, Handling
    <3> QED
      BY <3>1, <3>2 DEF PairInv, PairTypeOK
  <2>4. Next => disk' = disk \/ WriteCert \/ WriteKey \/ Save
    BY DEF Next, Boot, Load, Handle, GreetPaired, GreetLocked, GreetUnpaired, Ignore, PairResp,
           ProofAccepted, ProofRefused, PairOk, Add, TmpWritten, Lost, Served, SaveFails, Crash, Tick,
           Accept, Step, GiveUp, Unpaired, Greeted, TypePin, CancelPin, SendProof, SendOk,
           Refused, Store, SenderLost, DropLink, Connect
  <2> QED
    BY <2>1, <2>2, <2>3, <2>4
<1> QED
  BY InitPairInv, PairInvStep, <1>1, PTL DEF Spec, PairingsSurvive
=============================================================================
