-------------------------- MODULE SenderMedia_proofs --------------------------
(***************************************************************************)
(* For any desktop, receiver, encoders, channel capacities and budgets:    *)
(* the encoder ends up with the settings of the cast, what is sent on an   *)
(* announced stream can be decoded, and a larger picture is earned.        *)
(***************************************************************************)
EXTENDS SenderMedia, SequenceTheorems, WellFoundedInduction, TLAPS

Frame == [gen : Nat, n : Nat, key : BOOLEAN]

Kinds == {"mf", "plain", "sw"}

(* The fields of the records, and the types the arguments below rest on;   *)
(* sizes, rates and the controller are whatever they are.                  *)
EncoderType(enc) ==
  /\ DOMAIN enc = {"kind", "gen", "size", "rate", "mode", "force", "next", "held", "pending"}
  /\ enc.kind \in Kinds \union {None}
  /\ enc.gen \in Nat /\ enc.next \in Nat /\ enc.force \in BOOLEAN
  /\ enc.held \in Seq(Frame) /\ enc.pending \in Seq(Frame)

Settings(p) == DOMAIN p = {"size", "rate", "mode"}

CaptureType ==
  /\ DOMAIN cap = {"at", "native", "cfg", "enc", "hand", "last"}
  /\ Settings(cap.cfg)
  /\ EncoderType(cap.enc)
  /\ cap.at \in {"opening", "running", "sending", "gone"}
  /\ cap.at \in {"running", "sending"} => cap.enc.kind \in Kinds
  /\ cap.hand \in Seq(Frame)
  /\ cap.at \in {"opening", "running"} => cap.hand = <<>>

LoopType ==
  /\ DOMAIN loop = {"phase", "ceiling", "params", "ctl", "audioAlive", "videoAlive"}
  /\ Settings(loop.params)
  /\ loop.phase \in {"opening", "casting", "reconnecting", "ending", "over", "panicked"}

SeenType ==
  /\ DOMAIN seen = {"told", "troubleAt", "heavy", "dropped"}
  /\ DOMAIN seen.told = {"size", "mode", "synced", "last"}
  /\ seen.told.last \in Seq(Frame) /\ Len(seen.told.last) <= 1
  /\ seen.told.synced \in BOOLEAN
  /\ seen.told.synced => seen.told.last # <<>>
  /\ video \in Seq(Frame)

Commands(q) ==
  /\ q \in Seq(Range(q))
  /\ \A i \in DOMAIN q : q[i].type \in {"Bitrate", "Keyframe", "Mode", "Resolution", "Stop"}

TypeInv == CaptureType /\ LoopType /\ SeenType /\ Commands(cmds)

(* What is has now will be want once the commands of q are obeyed: the     *)
(* last command of type t carries it in its field f.                       *)
LastOfType(q, t, i) ==
  i \in DOMAIN q /\ q[i].type = t /\ \A j \in DOMAIN q : j > i => q[j].type # t
Heads(q, t, f, has, want) ==
  /\ (\A i \in DOMAIN q : q[i].type # t) => has = want
  /\ \A i \in DOMAIN q : LastOfType(q, t, i) => q[i][f] = want

(* Obeying q makes the settings p into the settings w. *)
Turns(q, p, w) ==
  /\ Heads(q, "Resolution", "size", p.size, w.size)
  /\ Heads(q, "Bitrate", "rate", p.rate, w.rate)
  /\ Heads(q, "Mode", "mode", p.mode, w.mode)

(* The encoder has the settings p, as far as it obeys commands. *)
HasSettings(enc, p) ==
  enc.size = p.size /\ (enc.kind # "plain" => enc.rate = p.rate /\ enc.mode = p.mode)

SettingsInv ==
  /\ cap.at # "gone" => Turns(cmds, cap.cfg, loop.params)
  /\ cap.at \in {"running", "sending"} => HasSettings(cap.enc, cap.cfg)
  /\ loop.phase = "opening" => loop.params.size = Native
  /\ loop.phase = "casting" =>
       seen.told.size = loop.params.size /\ seen.told.mode = loop.params.mode

(* Everything on its way to the receiver, oldest first, from what it got   *)
(* last to what the encoder will make next, which refers to one another or *)
(* to a frame among the lost.                                              *)
Follows(f, g, lost) ==
  g.key \/ (g.gen = f.gen /\ g.n = f.n + 1) \/ <<g.gen, g.n - 1>> \in lost
Chain(q, lost) == \A i \in 1 .. (Len(q) - 1) : Follows(q[i], q[i + 1], lost)
Sent == IF loop.phase = "casting" THEN seen.told.last ELSE <<>>
Inside(enc) == enc.pending \o enc.held
Coming == cap.hand \o (Inside(cap.enc) \o <<Input(cap.enc)>>)

ChainInv == ~Closed => Chain(Sent \o (video \o Coming), seen.dropped)

MediaInv == TypeInv /\ SettingsInv /\ ChainInv
------------------------------------------------------------------------------
(* Sequences of commands *)

(* One queue of commands behind another. *)
LEMMA Joined ==
  ASSUME NEW q, Commands(q), NEW r, Commands(r)
  PROVE  /\ Commands(q \o r)
         /\ Len(q) \in Nat /\ Len(r) \in Nat
         /\ DOMAIN q = 1 .. Len(q) /\ DOMAIN r = 1 .. Len(r)
         /\ DOMAIN (q \o r) = 1 .. (Len(q) + Len(r))
         /\ \A i \in 1 .. Len(q) : (q \o r)[i] = q[i]
         /\ \A i \in 1 .. Len(r) : (q \o r)[Len(q) + i] = r[i]
<1> DEFINE S == Range(q) \union Range(r)
<1>1. q \in Seq(S) /\ r \in Seq(S)
  BY SeqMonotonic DEF Commands
<1> HIDE DEF S
<1>2. /\ Len(q) \in Nat /\ Len(r) \in Nat
      /\ DOMAIN q = 1 .. Len(q) /\ DOMAIN r = 1 .. Len(r)
  BY <1>1, LenProperties
<1>3. /\ q \o r \in Seq(S) /\ Len(q \o r) = Len(q) + Len(r)
      /\ \A i \in 1 .. Len(q) + Len(r) : (q \o r)[i] = IF i <= Len(q) THEN q[i] ELSE r[i - Len(q)]
  BY <1>1, ConcatProperties
<1>4. q \o r \in Seq(Range(q \o r)) /\ DOMAIN (q \o r) = 1 .. (Len(q) + Len(r))
  BY <1>3, SeqOfRange, LenProperties
<1>5. \A i \in 1 .. Len(q) : (q \o r)[i] = q[i]
  BY <1>2, <1>3
<1>6. ASSUME NEW i \in 1 .. Len(r)
      PROVE  (q \o r)[Len(q) + i] = r[i]
  <2>1. Len(q) + i \in 1 .. Len(q) + Len(r) /\ ~(Len(q) + i <= Len(q)) /\ (Len(q) + i) - Len(q) = i
    BY <1>2
  <2> QED
    BY <1>3, <2>1
<1>7. ASSUME NEW i \in DOMAIN (q \o r)
      PROVE  (q \o r)[i].type \in {"Bitrate", "Keyframe", "Mode", "Resolution", "Stop"}
  <2>1. i \in 1 .. Len(q) + Len(r)
    BY <1>4
  <2>2. i \in DOMAIN q \/ (i - Len(q) \in DOMAIN r /\ ~(i <= Len(q)))
    BY <1>2, <2>1
  <2> QED
    BY <1>2, <1>3, <2>1, <2>2 DEF Commands
<1> QED
  BY <1>2, <1>4, <1>5, <1>6, <1>7 DEF Commands

(* Obeying one queue and then another. *)
LEMMA HeadsJoin ==
  ASSUME NEW q, Commands(q), NEW r, Commands(r), NEW t, NEW f, NEW a, NEW b, NEW c,
         Heads(q, t, f, a, b), Heads(r, t, f, b, c)
  PROVE  Heads(q \o r, t, f, a, c)
<1>1. /\ Len(q) \in Nat /\ Len(r) \in Nat
      /\ DOMAIN q = 1 .. Len(q) /\ DOMAIN r = 1 .. Len(r)
      /\ DOMAIN (q \o r) = 1 .. (Len(q) + Len(r))
      /\ \A i \in 1 .. Len(q) : (q \o r)[i] = q[i]
      /\ \A i \in 1 .. Len(r) : (q \o r)[Len(q) + i] = r[i]
  BY Joined
<1>2. /\ \A i \in DOMAIN q : i \in DOMAIN (q \o r)
      /\ \A i \in DOMAIN r : Len(q) + i \in DOMAIN (q \o r)
  BY <1>1
<1>3. ASSUME \A i \in DOMAIN (q \o r) : (q \o r)[i].type # t
      PROVE  a = c
  <2>1. \A i \in DOMAIN q : q[i].type # t
    BY <1>1, <1>2, <1>3
  <2>2. \A i \in DOMAIN r : r[i].type # t
    BY <1>1, <1>2, <1>3
  <2> QED
    BY <2>1, <2>2 DEF Heads
<1>4. ASSUME NEW i \in DOMAIN (q \o r), LastOfType(q \o r, t, i)
      PROVE  (q \o r)[i][f] = c
  <2>1. \A j \in DOMAIN r : Len(q) + j > i => r[j].type # t
    BY <1>1, <1>2, <1>4 DEF LastOfType
  <2>2. CASE i <= Len(q)
    <3>1. i \in DOMAIN q /\ (q \o r)[i] = q[i]
      BY <1>1, <2>2
    <3>2. \A j \in DOMAIN r : r[j].type # t
      BY <1>1, <2>1, <2>2
    <3>3. b = c
      BY <3>2 DEF Heads
    <3>4. LastOfType(q, t, i)
      BY <1>1, <1>2, <1>4, <3>1 DEF LastOfType
    <3> QED
      BY <3>1, <3>3, <3>4 DEF Heads
  <2>3. CASE ~(i <= Len(q))
    <3> DEFINE k == i - Len(q)
    <3>1. k \in DOMAIN r /\ Len(q) + k = i
      BY <1>1, <2>3
    <3>2. (q \o r)[i] = r[k]
      BY <1>1, <3>1
    <3>3. \A j \in DOMAIN r : j > k => Len(q) + j > i
      BY <1>1, <3>1
    <3>4. LastOfType(r, t, k)
      BY <1>4, <2>1, <3>1, <3>2, <3>3 DEF LastOfType
    <3> QED
      BY <3>1, <3>2, <3>4 DEF Heads
  <2> QED
    BY <1>1, <2>2, <2>3
<1> QED
  BY <1>3, <1>4 DEF Heads

(* Obeying two queues takes the settings from the first to the last. *)
LEMMA TurnsJoin ==
  ASSUME NEW q, Commands(q), NEW r, Commands(r), NEW p, NEW w, NEW x,
         Turns(q, p, w), Turns(r, w, x)
  PROVE  Turns(q \o r, p, x)
BY HeadsJoin DEF Turns

(* No command, and one. *)
LEMMA Few ==
  /\ Commands(<<>>) /\ \A t, f, a : Heads(<<>>, t, f, a, a)
  /\ \A x : x.type \in {"Bitrate", "Keyframe", "Mode", "Resolution", "Stop"} => Commands(<<x>>)
  /\ \A x, t, f, a, b : (IF x.type = t THEN x[f] = b ELSE a = b) => Heads(<<x>>, t, f, a, b)
<1>1. <<>> \in Seq(Range(<<>>)) /\ DOMAIN <<>> = {}
  <2>1. <<>> \in Seq({})
    BY EmptySeq
  <2> QED
    BY <2>1, SeqOfRange
<1>2. ASSUME NEW x
      PROVE  <<x>> \in Seq(Range(<<x>>)) /\ DOMAIN <<x>> = {1} /\ <<x>>[1] = x
  <2>1. <<x>> \in Seq({x})
    OBVIOUS
  <2>2. Len(<<x>>) = 1
    OBVIOUS
  <2>3. DOMAIN <<x>> = 1 .. 1
    BY <2>1, <2>2, LenProperties
  <2>4. <<x>> \in Seq(Range(<<x>>))
    BY <2>1, SeqOfRange
  <2>5. <<x>>[1] = x /\ 1 .. 1 = {1}
    OBVIOUS
  <2> QED
    BY <2>3, <2>4, <2>5
<1>3. ASSUME NEW x, NEW t, NEW f, NEW a, NEW b, IF x.type = t THEN x[f] = b ELSE a = b
      PROVE  Heads(<<x>>, t, f, a, b)
  BY <1>2, <1>3 DEF Heads, LastOfType
<1>4. Commands(<<>>)
  BY <1>1 DEF Commands
<1>5. \A t, f, a : Heads(<<>>, t, f, a, a)
  BY <1>1 DEF Heads, LastOfType
<1>6. ASSUME NEW x, x.type \in {"Bitrate", "Keyframe", "Mode", "Resolution", "Stop"}
      PROVE  Commands(<<x>>)
  BY <1>2, <1>6 DEF Commands
<1> QED
  BY <1>3, <1>4, <1>5, <1>6

(* Obeying one command: what a p becomes, field by field. *)
Command(x) == x.type \in {"Bitrate", "Keyframe", "Mode", "Resolution", "Stop"}
Effect(x, p, w) ==
  /\ IF x.type = "Resolution" THEN w.size = x.size ELSE w.size = p.size
  /\ IF x.type = "Bitrate" THEN w.rate = x.rate ELSE w.rate = p.rate
  /\ IF x.type = "Mode" THEN w.mode = x.mode ELSE w.mode = p.mode

(* No command changes nothing; one command has its effect. *)
LEMMA TurnsFew ==
  /\ \A p : Turns(<<>>, p, p)
  /\ \A x, p, w : Effect(x, p, w) => Turns(<<x>>, p, w)
<1>1. \A p : Turns(<<>>, p, p)
  BY Few DEF Turns
<1>2. ASSUME NEW x, NEW p, NEW w, Effect(x, p, w)
      PROVE  Turns(<<x>>, p, w)
  <2>1. \A t, f, a, b : (IF x.type = t THEN x[f] = b ELSE a = b) => Heads(<<x>>, t, f, a, b)
    BY Few
  <2>2. Heads(<<x>>, "Resolution", "size", p.size, w.size)
    BY <1>2, <2>1 DEF Effect
  <2>3. Heads(<<x>>, "Bitrate", "rate", p.rate, w.rate)
    BY <1>2, <2>1 DEF Effect
  <2>4. Heads(<<x>>, "Mode", "mode", p.mode, w.mode)
    BY <1>2, <2>1 DEF Effect
  <2> QED
    BY <2>2, <2>3, <2>4 DEF Turns
<1> QED
  BY <1>1, <1>2

(* One more command on the queue. *)
LEMMA Appended ==
  ASSUME NEW q, Commands(q), NEW x, Command(x)
  PROVE  Commands(Append(q, x)) /\ Append(q, x) = q \o <<x>> /\ Commands(<<x>>)
<1>1. Commands(<<x>>) /\ Commands(q \o <<x>>)
  BY Few, Joined DEF Command
<1> DEFINE S == Range(q) \union {x}
<1>2. q \in Seq(S) /\ x \in S
  BY SeqMonotonic DEF Commands
<1> HIDE DEF S
<1>3. Append(q, x) = q \o <<x>>
  BY <1>2, AppendIsConcat
<1> QED
  BY <1>1, <1>3

(* A command behind the others has its effect last. *)
LEMMA TurnsAppend ==
  ASSUME NEW q, Commands(q), NEW x, Command(x), NEW p, NEW w, NEW y,
         Turns(q, p, w), Effect(x, w, y)
  PROVE  Turns(Append(q, x), p, y)
<1>1. Commands(<<x>>) /\ Append(q, x) = q \o <<x>>
  BY Appended
<1>2. Turns(<<x>>, w, y)
  BY TurnsFew
<1> QED
  BY <1>1, <1>2, TurnsJoin

(* The first command has been obeyed. *)
LEMMA HeadsTail ==
  ASSUME NEW q, Commands(q), q # <<>>, NEW t, NEW f, NEW a, NEW b, NEW c, Heads(q, t, f, a, c),
         IF Head(q).type = t THEN Head(q)[f] = b ELSE a = b
  PROVE  Heads(Tail(q), t, f, b, c)
<1>1. Len(q) \in Nat \ {0} /\ DOMAIN q = 1 .. Len(q) /\ Head(q) = q[1]
  BY EmptySeq, LenProperties DEF Commands
<1>2. /\ Tail(q) \in Seq(Range(q)) /\ Len(Tail(q)) = Len(q) - 1
      /\ \A i \in 1 .. Len(Tail(q)) : Tail(q)[i] = q[i + 1]
  BY HeadTailProperties DEF Commands
<1>3. DOMAIN Tail(q) = 1 .. (Len(q) - 1)
  BY <1>2, LenProperties
<1>4. \A i \in DOMAIN Tail(q) : i + 1 \in DOMAIN q /\ i + 1 > 1 /\ Tail(q)[i] = q[i + 1]
  BY <1>1, <1>2, <1>3
<1>5. ASSUME NEW j \in DOMAIN q, j # 1
      PROVE  j - 1 \in DOMAIN Tail(q) /\ Tail(q)[j - 1] = q[j]
  BY <1>1, <1>2, <1>3, <1>5
<1>6. ASSUME \A i \in DOMAIN Tail(q) : Tail(q)[i].type # t
      PROVE  b = c
  <2>1. \A j \in DOMAIN q : j # 1 => q[j].type # t
    BY <1>5, <1>6
  <2>2. CASE Head(q).type = t
    <3>1. LastOfType(q, t, 1)
      BY <1>1, <2>1, <2>2 DEF LastOfType
    <3> QED
      BY <1>1, <2>2, <3>1 DEF Heads
  <2>3. CASE Head(q).type # t
    <3>1. \A j \in DOMAIN q : q[j].type # t
      BY <1>1, <2>1, <2>3
    <3> QED
      BY <2>3, <3>1 DEF Heads
  <2> QED
    BY <2>2, <2>3
<1>7. ASSUME NEW i \in DOMAIN Tail(q), LastOfType(Tail(q), t, i)
      PROVE  Tail(q)[i][f] = c
  <2>1. i + 1 \in DOMAIN q /\ i \in Nat /\ Tail(q)[i] = q[i + 1]
    BY <1>1, <1>3, <1>4
  <2>2. ASSUME NEW j \in DOMAIN q, j > i + 1
        PROVE  q[j].type # t
    <3>1. j # 1 /\ j - 1 > i
      BY <1>1, <2>1, <2>2
    <3> QED
      BY <1>5, <1>7, <3>1 DEF LastOfType
  <2>3. LastOfType(q, t, i + 1)
    BY <1>7, <2>1, <2>2 DEF LastOfType
  <2> QED
    BY <2>1, <2>3 DEF Heads
<1> QED
  BY <1>6, <1>7 DEF Heads

(* The first of the commands, and the others. *)
LEMMA HeadIsCommand ==
  ASSUME NEW q, Commands(q), q # <<>>
  PROVE  Command(Head(q)) /\ Commands(Tail(q))
<1>1. Len(q) \in Nat \ {0} /\ DOMAIN q = 1 .. Len(q) /\ Head(q) = q[1]
  BY EmptySeq, LenProperties DEF Commands
<1>2. /\ Tail(q) \in Seq(Range(q)) /\ Len(Tail(q)) = Len(q) - 1
      /\ \A i \in 1 .. Len(Tail(q)) : Tail(q)[i] = q[i + 1]
  BY HeadTailProperties DEF Commands
<1>3. DOMAIN Tail(q) = 1 .. (Len(q) - 1) /\ Tail(q) \in Seq(Range(Tail(q)))
  BY <1>2, LenProperties, SeqOfRange
<1>4. \A i \in DOMAIN Tail(q) : i + 1 \in DOMAIN q /\ Tail(q)[i] = q[i + 1]
  BY <1>1, <1>2, <1>3
<1> QED
  BY <1>1, <1>3, <1>4 DEF Commands, Command

(* What is left to obey, once the first command has had its effect. *)
LEMMA TurnsTail ==
  ASSUME NEW q, Commands(q), q # <<>>, NEW p, NEW v, NEW w, Turns(q, p, w), Effect(Head(q), p, v)
  PROVE  Turns(Tail(q), v, w)
<1>1. Heads(Tail(q), "Resolution", "size", v.size, w.size)
  BY HeadsTail DEF Turns, Effect
<1>2. Heads(Tail(q), "Bitrate", "rate", v.rate, w.rate)
  BY HeadsTail DEF Turns, Effect
<1>3. Heads(Tail(q), "Mode", "mode", v.mode, w.mode)
  BY HeadsTail DEF Turns, Effect
<1> QED
  BY <1>1, <1>2, <1>3 DEF Turns
------------------------------------------------------------------------------
(* Streams of frames *)

(* Streams behind each other can be grouped either way. *)
LEMMA Regroup ==
  \A a, b, c \in Seq(Frame) : (a \o b) \o c = a \o (b \o c)
BY ConcatAssociative

Regroups(a, b, c) == a \o (b \o c) = (a \o b) \o c

LEMMA RegroupThree == \A a, b, c \in Seq(Frame) : Regroups(a, b, c)
BY Regroup DEF Regroups

(* Both halves of a chain are chains. *)
LEMMA ChainHalves ==
  ASSUME NEW lost, NEW a \in Seq(Frame), NEW b \in Seq(Frame), Chain(a \o b, lost)
  PROVE  Chain(a, lost) /\ Chain(b, lost)
<1>1. /\ Len(a) \in Nat /\ Len(b) \in Nat /\ Len(a \o b) = Len(a) + Len(b)
      /\ \A i \in 1 .. Len(a) + Len(b) : (a \o b)[i] = IF i <= Len(a) THEN a[i] ELSE b[i - Len(a)]
  BY ConcatProperties, LenProperties
<1>2. ASSUME NEW i \in 1 .. (Len(a) - 1)
      PROVE  Follows(a[i], a[i + 1], lost)
  <2>1. /\ i \in 1 .. (Len(a \o b) - 1)
        /\ i \in 1 .. Len(a) + Len(b) /\ i <= Len(a)
        /\ i + 1 \in 1 .. Len(a) + Len(b) /\ i + 1 <= Len(a)
    BY <1>1
  <2>2. (a \o b)[i] = a[i] /\ (a \o b)[i + 1] = a[i + 1]
    BY <1>1, <2>1
  <2> QED
    BY <2>1, <2>2 DEF Chain
<1>3. ASSUME NEW i \in 1 .. (Len(b) - 1)
      PROVE  Follows(b[i], b[i + 1], lost)
  <2> DEFINE k == Len(a) + i
  <2>1. /\ k \in 1 .. (Len(a \o b) - 1)
        /\ k \in 1 .. Len(a) + Len(b) /\ ~(k <= Len(a)) /\ k - Len(a) = i
        /\ k + 1 \in 1 .. Len(a) + Len(b) /\ ~(k + 1 <= Len(a)) /\ k + 1 - Len(a) = i + 1
    BY <1>1
  <2> HIDE DEF k
  <2>2. (a \o b)[k] = b[i] /\ (a \o b)[k + 1] = b[i + 1]
    BY <1>1, <2>1
  <2> QED
    BY <2>1, <2>2 DEF Chain
<1> QED
  BY <1>2, <1>3 DEF Chain

(* A chain goes on with a keyframe, or with what follows its last frame.   *)
LEMMA ChainGoesOn ==
  ASSUME NEW lost, NEW a \in Seq(Frame), NEW f \in Frame, Chain(a, lost),
         a # <<>> => Follows(a[Len(a)], f, lost)
  PROVE  Chain(a \o <<f>>, lost)
<1>1. <<f>> \in Seq(Frame) /\ Len(<<f>>) = 1 /\ <<f>>[1] = f
  OBVIOUS
<1>2. /\ Len(a) \in Nat /\ (a # <<>> => Len(a) > 0) /\ Len(a \o <<f>>) = Len(a) + 1
      /\ \A i \in 1 .. Len(a) + 1 : (a \o <<f>>)[i] = IF i <= Len(a) THEN a[i] ELSE <<f>>[i - Len(a)]
  <2>1. Len(a \o <<f>>) = Len(a) + Len(<<f>>)
    BY <1>1, ConcatProperties
  <2>2. \A i \in 1 .. Len(a) + Len(<<f>>) :
          (a \o <<f>>)[i] = IF i <= Len(a) THEN a[i] ELSE <<f>>[i - Len(a)]
    BY <1>1, ConcatProperties
  <2>3. Len(a) \in Nat /\ (a # <<>> => Len(a) \in Nat \ {0})
    BY EmptySeq, LenProperties
  <2> QED
    BY <1>1, <2>1, <2>2, <2>3
<1>3. a = <<>> => Len(a) = 0
  BY EmptySeq
<1>4. ASSUME NEW i \in 1 .. (Len(a \o <<f>>) - 1)
      PROVE  Follows((a \o <<f>>)[i], (a \o <<f>>)[i + 1], lost)
  <2>1. i \in 1 .. Len(a) /\ i + 1 \in 1 .. Len(a) + 1 /\ (a \o <<f>>)[i] = a[i]
    BY <1>2
  <2>2. CASE i + 1 <= Len(a)
    <3>1. (a \o <<f>>)[i + 1] = a[i + 1] /\ i \in 1 .. (Len(a) - 1)
      BY <1>2, <2>1, <2>2
    <3> QED
      BY <2>1, <3>1 DEF Chain
  <2>3. CASE i = Len(a)
    <3>1. (a \o <<f>>)[i + 1] = <<f>>[1] /\ a # <<>>
      BY <1>2, <1>3, <2>1, <2>3
    <3> QED
      BY <1>1, <2>1, <2>3, <3>1
  <2> QED
    BY <1>2, <2>1, <2>2, <2>3
<1> QED
  BY <1>4 DEF Chain

(* In a chain that is not over, what comes next follows. *)
LEMMA ChainLinks ==
  ASSUME NEW lost, NEW a \in Seq(Frame), NEW f \in Frame, Chain(a \o <<f>>, lost), a # <<>>
  PROVE  Follows(a[Len(a)], f, lost)
<1>1. <<f>> \in Seq(Frame) /\ Len(<<f>>) = 1 /\ <<f>>[1] = f
  OBVIOUS
<1>2. Len(a) \in Nat \ {0}
  BY EmptySeq
<1>3. /\ Len(a \o <<f>>) = Len(a) + Len(<<f>>)
      /\ \A i \in 1 .. Len(a) + Len(<<f>>) :
          (a \o <<f>>)[i] = IF i <= Len(a) THEN a[i] ELSE <<f>>[i - Len(a)]
  BY <1>1, ConcatProperties
<1>4. /\ Len(a) \in 1 .. (Len(a \o <<f>>) - 1)
      /\ (a \o <<f>>)[Len(a)] = a[Len(a)] /\ (a \o <<f>>)[Len(a) + 1] = <<f>>[1]
  <2>1. Len(a) \in 1 .. Len(a) + Len(<<f>>) /\ Len(a) + 1 \in 1 .. Len(a) + Len(<<f>>)
        /\ Len(a) <= Len(a) /\ ~(Len(a) + 1 <= Len(a)) /\ Len(a) + 1 - Len(a) = 1
    BY <1>1, <1>2
  <2> QED
    BY <1>1, <1>3, <2>1
<1> QED
  BY <1>1, <1>4 DEF Chain

(* The same stream with another end: its last frame is as it was, or is a  *)
(* keyframe, or one more follows it.                                       *)
LEMMA ChainEnds ==
  ASSUME NEW lost, NEW a \in Seq(Frame), NEW b \in Seq(Frame), NEW f \in Frame, NEW g \in Frame,
         Chain(a \o (b \o <<f>>), lost)
  PROVE  /\ g = f \/ g.key => Chain(a \o (b \o <<g>>), lost)
         /\ g.key => Chain(a \o <<g>>, lost)
         /\ Follows(f, g, lost) => Chain(a \o ((b \o <<f>>) \o <<g>>), lost)
<1>1. <<f>> \in Seq(Frame) /\ <<g>> \in Seq(Frame)
  OBVIOUS
<1>2. a \o b \in Seq(Frame) /\ b \o <<f>> \in Seq(Frame)
  BY <1>1, ConcatProperties
<1>3. /\ a \o (b \o <<f>>) = (a \o b) \o <<f>>
      /\ a \o (b \o <<g>>) = (a \o b) \o <<g>>
      /\ a \o ((b \o <<f>>) \o <<g>>) = (a \o (b \o <<f>>)) \o <<g>>
  <2> DEFINE p == <<f>>
             q == <<g>>
             r == b \o p
  <2>1. p \in Seq(Frame) /\ q \in Seq(Frame) /\ r \in Seq(Frame)
    BY <1>1, <1>2
  <2> HIDE DEF p, q
  <2>2. a \o (b \o p) = (a \o b) \o p
    BY <2>1, Regroup, ZenonT(40)
  <2>3. a \o (b \o q) = (a \o b) \o q
    BY <2>1, Regroup, ZenonT(40)
  <2> HIDE DEF r
  <2>4. a \o (r \o q) = (a \o r) \o q
    BY <2>1, Regroup, ZenonT(40)
  <2> QED
    BY <2>2, <2>3, <2>4 DEF p, q, r
<1>4. Chain(a \o b, lost) /\ Chain(a, lost)
  BY <1>1, <1>2, <1>3, ChainHalves
<1>5. ASSUME g.key
      PROVE  Chain(a \o (b \o <<g>>), lost) /\ Chain(a \o <<g>>, lost)
  <2>1. Chain((a \o b) \o <<g>>, lost)
    BY <1>2, <1>4, <1>5, ChainGoesOn DEF Follows
  <2>2. Chain(a \o <<g>>, lost)
    BY <1>4, <1>5, ChainGoesOn DEF Follows
  <2> QED
    BY <1>3, <2>1, <2>2
<1>6. ASSUME Follows(f, g, lost)
      PROVE  Chain((a \o (b \o <<f>>)) \o <<g>>, lost)
  <2> DEFINE q == (a \o b) \o <<f>>
  <2>1. /\ q \in Seq(Frame) /\ Len(q) = Len(a \o b) + Len(<<f>>)
        /\ \A i \in 1 .. Len(a \o b) + Len(<<f>>) :
              q[i] = IF i <= Len(a \o b) THEN (a \o b)[i] ELSE <<f>>[i - Len(a \o b)]
    BY <1>1, <1>2, ConcatProperties
  <2>2. Len(<<f>>) = 1 /\ <<f>>[1] = f
    OBVIOUS
  <2>3. Len(a \o b) \in Nat
    BY <1>2, LenProperties
  <2>4. /\ Len(q) \in 1 .. Len(a \o b) + Len(<<f>>)
        /\ ~(Len(q) <= Len(a \o b)) /\ Len(q) - Len(a \o b) = 1
    BY <2>1, <2>2, <2>3
  <2>5. q[Len(q)] = f
    BY <2>1, <2>2, <2>4
  <2>6. Chain(q, lost)
    BY <1>3
  <2> HIDE DEF q
  <2>7. Chain(q \o <<g>>, lost)
    BY <1>6, <2>1, <2>5, <2>6, ChainGoesOn
  <2> QED
    BY <1>3, <2>7 DEF q
<1> QED
  BY <1>3, <1>5, <1>6

(* A stream with a part in the middle, index by index.                     *)
Together(q, a, b) ==
  /\ Len(q) = Len(a) + Len(b)
  /\ \A i \in 1 .. Len(a) + Len(b) : q[i] = IF i <= Len(a) THEN a[i] ELSE b[i - Len(a)]

(* Frames are lost one at a time: what follows the lost one is still in    *)
(* the chain, once it is counted among the lost.                           *)
LEMMA ChainWithout ==
  ASSUME NEW lost, NEW a \in Seq(Frame), NEW g \in Seq(Frame), NEW b \in Seq(Frame),
         Len(g) \in {0, 1}, NEW m, Together(m, g, b), NEW q, Together(q, a, m), NEW p, Together(p, a, b),
         Chain(q, lost)
  PROVE  Chain(p, lost \union Names(g))
<1> DEFINE more == lost \union Names(g)
<1>1. Len(a) \in Nat /\ Len(b) \in Nat /\ Len(g) \in 0 .. 1
  BY LenProperties
<1>2. /\ Len(m) = Len(g) + Len(b)
      /\ \A i \in 1 .. Len(g) + Len(b) : m[i] = IF i <= Len(g) THEN g[i] ELSE b[i - Len(g)]
  BY DEF Together
<1>4. /\ Len(q) = Len(a) + Len(m)
      /\ \A i \in 1 .. Len(a) + Len(m) : q[i] = IF i <= Len(a) THEN a[i] ELSE m[i - Len(a)]
  BY DEF Together
<1>5. /\ Len(p) = Len(a) + Len(b)
      /\ \A i \in 1 .. Len(a) + Len(b) : p[i] = IF i <= Len(a) THEN a[i] ELSE b[i - Len(a)]
  BY DEF Together
<1>6. Chain(q, lost)
  OBVIOUS
<1>7. \A f, h : Follows(f, h, lost) => Follows(f, h, more)
  BY DEF Follows
<1>8. Len(g) = 1 => \A h \in Frame : Follows(g[1], h, lost) => <<h.gen, h.n - 1>> \in more \/ h.key
  <2> SUFFICES ASSUME Len(g) = 1, NEW h \in Frame, Follows(g[1], h, lost)
               PROVE  <<h.gen, h.n - 1>> \in more \/ h.key
    OBVIOUS
  <2>1. 1 \in DOMAIN g /\ g[1] \in Frame
    <3>1. 1 \in 1 .. Len(g) /\ DOMAIN g = 1 .. Len(g)
      BY LenProperties
    <3> QED
      BY <3>1, ElementOfSeq
  <2>2. <<g[1].gen, g[1].n>> \in Names(g)
    BY <2>1 DEF Names, Range
  <2>3. CASE h.gen = g[1].gen /\ h.n = g[1].n + 1
    <3>1. h.n - 1 = g[1].n
      BY <2>1, <2>3 DEF Frame
    <3> QED
      BY <2>2, <2>3, <3>1
  <2> QED
    BY <2>3 DEF Follows
<1> HIDE DEF more
<1>9. ASSUME NEW i \in 1 .. (Len(p) - 1)
      PROVE  Follows(p[i], p[i + 1], more)
  <2>1. CASE i + 1 <= Len(a)
    <3>1. i \in 1 .. (Len(q) - 1) /\ p[i] = q[i] /\ p[i + 1] = q[i + 1]
      BY <1>1, <1>2, <1>4, <1>5, <2>1
    <3> QED
      BY <1>6, <1>7, <3>1 DEF Chain
  <2>2. CASE i > Len(a)
    <3> DEFINE k == i + Len(g)
    <3>1. /\ k \in 1 .. (Len(q) - 1) /\ ~(k <= Len(a)) /\ ~(k + 1 <= Len(a))
          /\ k - Len(a) \in 1 .. Len(g) + Len(b) /\ k + 1 - Len(a) \in 1 .. Len(g) + Len(b)
          /\ ~(k - Len(a) <= Len(g)) /\ ~(k + 1 - Len(a) <= Len(g))
          /\ k - Len(a) - Len(g) = i - Len(a) /\ k + 1 - Len(a) - Len(g) = i + 1 - Len(a)
          /\ k \in 1 .. Len(a) + Len(m) /\ k + 1 \in 1 .. Len(a) + Len(m)
      <4> DEFINE A == Len(a)
                 G == Len(g)
                 B == Len(b)
      <4>1. /\ A \in Nat /\ B \in Nat /\ G \in Nat
            /\ Len(m) = G + B /\ Len(q) = A + Len(m) /\ Len(p) = A + B
        BY <1>1, <1>2, <1>4, <1>5
      <4>2. i \in 1 .. (A + B - 1) /\ i > A
        BY <1>9, <2>2, <4>1
      <4> HIDE DEF A, G, B
      <4>3. k = i + G
        BY DEF G
      <4> HIDE DEF k
      <4>4. /\ k \in 1 .. (Len(q) - 1) /\ ~(k <= A) /\ ~(k + 1 <= A)
            /\ k \in 1 .. A + Len(m) /\ k + 1 \in 1 .. A + Len(m)
        BY <4>1, <4>2, <4>3
      <4>5. /\ k - A \in 1 .. G + B /\ k + 1 - A \in 1 .. G + B
            /\ ~(k - A <= G) /\ ~(k + 1 - A <= G)
            /\ k - A - G = i - A /\ k + 1 - A - G = i + 1 - A
        BY <4>1, <4>2, <4>3
      <4> QED
        BY <4>4, <4>5 DEF A, G, B
    <3> HIDE DEF k
    <3>2. q[k] = m[k - Len(a)] /\ q[k + 1] = m[k + 1 - Len(a)]
      <4> DEFINE v == k + 1
      <4>1. k \in 1 .. Len(a) + Len(m) /\ ~(k <= Len(a))
        BY <3>1
      <4>2. v \in 1 .. Len(a) + Len(m) /\ ~(v <= Len(a))
        BY <3>1
      <4>3. q[k] = m[k - Len(a)]
        BY <1>4, <4>1
      <4> HIDE DEF v
      <4>4. q[v] = m[v - Len(a)]
        BY <1>4, <4>2
      <4>5. v = k + 1 /\ v - Len(a) = k + 1 - Len(a)
        BY <1>1, <4>1 DEF v
      <4> QED
        BY <4>3, <4>4, <4>5, Zenon
    <3>3. m[k - Len(a)] = b[i - Len(a)] /\ m[k + 1 - Len(a)] = b[i + 1 - Len(a)]
      <4> DEFINE u == k - Len(a)
                 v == k + 1 - Len(a)
      <4>1. /\ u \in 1 .. Len(g) + Len(b) /\ ~(u <= Len(g)) /\ u - Len(g) = i - Len(a)
            /\ v \in 1 .. Len(g) + Len(b) /\ ~(v <= Len(g)) /\ v - Len(g) = i + 1 - Len(a)
        BY <3>1
      <4> HIDE DEF u, v
      <4>2. m[u] = b[u - Len(g)] /\ m[v] = b[v - Len(g)]
        BY <1>2, <4>1
      <4> QED
        BY <4>1, <4>2 DEF u, v
    <3>4. p[i] = b[i - Len(a)] /\ p[i + 1] = b[i + 1 - Len(a)]
      <4>1. /\ i \in 1 .. Len(a) + Len(b) /\ ~(i <= Len(a))
            /\ i + 1 \in 1 .. Len(a) + Len(b) /\ ~(i + 1 <= Len(a))
        BY <1>1, <1>5, <2>2
      <4> QED
        BY <1>5, <4>1
    <3> QED
      BY <1>6, <1>7, <3>1, <3>2, <3>3, <3>4 DEF Chain
  <2>3. CASE i = Len(a)
    <3>1. p[i] = a[i] /\ p[i + 1] = b[1] /\ b[1] \in Frame /\ q[i] = a[i]
      <4>1. 1 \in 1 .. Len(b) /\ i \in 1 .. Len(a)
        BY <1>1, <1>5, <2>3
      <4>2. b[1] \in Frame
        BY <4>1, ElementOfSeq
      <4>3. /\ i \in 1 .. Len(a) + Len(b) /\ i <= Len(a)
            /\ i + 1 \in 1 .. Len(a) + Len(b) /\ ~(i + 1 <= Len(a)) /\ (i + 1) - Len(a) = 1
        BY <1>1, <2>3, <4>1
      <4>4. p[i] = a[i] /\ p[i + 1] = b[1]
        BY <1>5, <4>3
      <4>5. i \in 1 .. Len(a) + Len(m)
        BY <1>1, <1>2, <2>3, <4>1
      <4>6. q[i] = a[i]
        BY <1>4, <4>3, <4>5
      <4> QED
        BY <4>2, <4>4, <4>6
    <3>2. CASE Len(g) = 0
      <4>1. q[i + 1] = b[1] /\ i \in 1 .. (Len(q) - 1)
        BY <1>1, <1>2, <1>4, <1>5, <2>3, <3>2
      <4> QED
        BY <1>6, <1>7, <3>1, <4>1 DEF Chain
    <3>3. CASE Len(g) = 1
      <4>1. q[i + 1] = g[1] /\ q[(i + 1) + 1] = b[1] /\ i + 1 \in 1 .. (Len(q) - 1)
        <5>1. /\ i + 1 \in 1 .. Len(a) + Len(m) /\ (i + 1) + 1 \in 1 .. Len(a) + Len(m)
              /\ ~(i + 1 <= Len(a)) /\ ~((i + 1) + 1 <= Len(a))
              /\ (i + 1) - Len(a) = 1 /\ ((i + 1) + 1) - Len(a) = 2
          BY <1>1, <1>2, <1>5, <2>3, <3>3
        <5>2. q[i + 1] = m[1] /\ q[(i + 1) + 1] = m[2]
          BY <1>4, <5>1
        <5>3. m[1] = g[1] /\ m[2] = b[1]
          BY <1>1, <1>2, <1>5, <2>3, <3>3
        <5> QED
          BY <1>1, <1>2, <1>4, <1>5, <2>3, <3>3, <5>2, <5>3
      <4>2. Follows(g[1], b[1], lost)
        BY <1>6, <4>1 DEF Chain
      <4> QED
        BY <1>8, <3>1, <3>3, <4>2 DEF Follows
    <3> QED
      BY <1>1, <3>2, <3>3
  <2> QED
    BY <1>1, <1>5, <2>1, <2>2, <2>3
<1> QED
  BY <1>9 DEF Chain, more

LEMMA ChainCut ==
  ASSUME NEW lost, NEW a \in Seq(Frame), NEW g \in Seq(Frame), NEW b \in Seq(Frame), Len(g) <= 1,
         Chain(a \o (g \o b), lost)
  PROVE  Chain(a \o b, lost \union Names(g))
<1> DEFINE m == g \o b
           q == a \o m
           p == a \o b
<1>1. m \in Seq(Frame) /\ Together(m, g, b)
  BY ConcatProperties DEF Together
<1>2. Chain(q, lost)
  OBVIOUS
<1>3. Together(p, a, b)
  BY ConcatProperties DEF Together
<1> HIDE DEF m
<1>4. Together(q, a, m)
  <2>1. m \in Seq(Frame)
    BY <1>1
  <2> QED
    BY <2>1, ConcatProperties DEF Together
<1>5. Len(g) \in {0, 1}
  <2>1. Len(g) \in Nat
    BY LenProperties
  <2>2. \A n \in Nat : n <= 1 => n \in {0, 1}
    OBVIOUS
  <2> QED
    BY <2>1, <2>2, Zenon
<1> HIDE DEF q, p
<1>6. Chain(p, lost \union Names(g))
  BY <1>1, <1>2, <1>3, <1>4, <1>5, ChainWithout
<1> QED
  BY <1>6 DEF p

------------------------------------------------------------------------------
(* Encoders *)

LEMMA InsideType ==
  ASSUME NEW enc, EncoderType(enc)
  PROVE  Inside(enc) \in Seq(Frame) /\ Input(enc) \in Frame
<1>1. Input(enc) \in Frame
  BY DEF EncoderType, Input, Frame
<1> QED
  BY <1>1, ConcatProperties DEF EncoderType, Inside

(* A command to an encoder leaves what is inside it, and what comes next   *)
(* is what would have come, or a keyframe.                                 *)
SameStream(enc, e) ==
  /\ EncoderType(e) /\ e.kind = enc.kind
  /\ Inside(e) = Inside(enc)
  /\ Input(e) = Input(enc) \/ Input(e).key

(* A keyframe is asked for: RequestKeyframe goes on with the same stream. *)
LEMMA KeyframeRequested ==
  ASSUME NEW enc, EncoderType(enc)
  PROVE  LET e == RequestKeyframe(enc)
         IN  SameStream(enc, e) /\ \A p : HasSettings(enc, p) => HasSettings(e, p)
<1> DEFINE e == RequestKeyframe(enc)
<1>1. CASE enc.kind = "plain"
  <2>1. e = enc
    BY <1>1 DEF RequestKeyframe
  <2> QED
    BY <2>1 DEF SameStream
<1>2. CASE enc.kind # "plain"
  <2>1. e = [enc EXCEPT !.force = TRUE]
    BY <1>2 DEF RequestKeyframe
  <2> HIDE DEF e
  <2>2. EncoderType(e)
    BY <2>1 DEF EncoderType
  <2>3. e.kind = enc.kind /\ Inside(e) = Inside(enc)
    BY <2>1 DEF EncoderType, Inside
  <2>4. Input(e).key
    BY <2>1 DEF EncoderType, Input
  <2>5. \A p : HasSettings(enc, p) => HasSettings(e, p)
    BY <2>1 DEF EncoderType, HasSettings
  <2> QED
    BY <2>2, <2>3, <2>4, <2>5 DEF SameStream, e
<1> QED
  BY <1>1, <1>2

(* The software encoder is built anew: its new stream begins with a keyframe. *)
LEMMA BuiltAnew ==
  ASSUME NEW enc, EncoderType(enc)
  PROVE  LET e == Rebuilt(enc)
         IN  SameStream(enc, e) /\ \A p : HasSettings(enc, p) => HasSettings(e, p)
<1> DEFINE e == Rebuilt(enc)
<1>1. e = [enc EXCEPT !.gen = @ + 1, !.next = 1, !.force = TRUE]
  BY DEF Rebuilt
<1> HIDE DEF e
<1>2. EncoderType(e)
  BY <1>1 DEF EncoderType
<1>3. e.kind = enc.kind /\ Inside(e) = Inside(enc)
  BY <1>1 DEF EncoderType, Inside
<1>4. Input(e).key
  BY <1>1 DEF EncoderType, Input
<1>5. \A p : HasSettings(enc, p) => HasSettings(e, p)
  BY <1>1 DEF EncoderType, HasSettings
<1> QED
  BY <1>2, <1>3, <1>4, <1>5 DEF SameStream, e

(* A change of rate or mode, for settings that say the same otherwise. *)
LEMMA RateSet ==
  ASSUME NEW enc, EncoderType(enc), enc.kind \in Kinds, NEW rate,
         NEW p, HasSettings(enc, p), NEW w, w.size = p.size, w.rate = rate, w.mode = p.mode
  PROVE  SameStream(enc, SetRate(enc, rate)) /\ HasSettings(SetRate(enc, rate), w)
<1> DEFINE e == [enc EXCEPT !.rate = rate]
<1>1. /\ EncoderType(e) /\ e.kind = enc.kind /\ Inside(e) = Inside(enc) /\ Input(e) = Input(enc)
  BY DEF EncoderType, Inside, Input
<1>2. HasSettings(e, w)
  BY DEF EncoderType, HasSettings
<1> HIDE DEF e
<1>3. CASE enc.kind = "mf"
  <2>1. SetRate(enc, rate) = e
    BY <1>3 DEF SetRate, e
  <2> QED
    BY <1>1, <1>2, <2>1 DEF SameStream
<1>4. CASE enc.kind = "plain"
  <2>1. SetRate(enc, rate) = enc
    BY <1>4 DEF SetRate
  <2> QED
    BY <1>4, <2>1 DEF SameStream, HasSettings
<1>5. CASE enc.kind = "sw"
  <2>1. SetRate(enc, rate) = Rebuilt(e)
    BY <1>5 DEF SetRate, e
  <2>2. SameStream(e, Rebuilt(e)) /\ HasSettings(Rebuilt(e), w)
    BY <1>1, <1>2, BuiltAnew
  <2> QED
    BY <1>1, <2>1, <2>2 DEF SameStream
<1> QED
  BY <1>3, <1>4, <1>5 DEF Kinds

(* A change of mode, likewise. *)
LEMMA ModeSet ==
  ASSUME NEW enc, EncoderType(enc), enc.kind \in Kinds, NEW mode,
         NEW p, HasSettings(enc, p), NEW w, w.size = p.size, w.rate = p.rate, w.mode = mode
  PROVE  SameStream(enc, SetEncoderMode(enc, mode)) /\ HasSettings(SetEncoderMode(enc, mode), w)
<1> DEFINE e == [enc EXCEPT !.mode = mode]
<1>1. /\ EncoderType(e) /\ e.kind = enc.kind /\ Inside(e) = Inside(enc) /\ Input(e) = Input(enc)
  BY DEF EncoderType, Inside, Input
<1>2. HasSettings(e, w)
  BY DEF EncoderType, HasSettings
<1> HIDE DEF e
<1>3. CASE enc.kind = "mf"
  <2>1. SetEncoderMode(enc, mode) = RequestKeyframe(e)
    BY <1>3 DEF SetEncoderMode, e
  <2>2. SameStream(e, RequestKeyframe(e)) /\ HasSettings(RequestKeyframe(e), w)
    BY <1>1, <1>2, KeyframeRequested
  <2> QED
    BY <1>1, <2>1, <2>2 DEF SameStream
<1>4. CASE enc.kind = "plain"
  <2>1. SetEncoderMode(enc, mode) = enc
    BY <1>4 DEF SetEncoderMode
  <2> QED
    BY <1>4, <2>1 DEF SameStream, HasSettings
<1>5. CASE enc.kind = "sw"
  <2>1. SetEncoderMode(enc, mode) = Rebuilt(e)
    BY <1>5 DEF SetEncoderMode, e
  <2>2. SameStream(e, Rebuilt(e)) /\ HasSettings(Rebuilt(e), w)
    BY <1>1, <1>2, BuiltAnew
  <2> QED
    BY <1>1, <2>1, <2>2 DEF SameStream
<1> QED
  BY <1>3, <1>4, <1>5 DEF Kinds

(* A new encoder starts with a keyframe, and with the settings it is given. *)
LEMMA Anew ==
  ASSUME NEW kind \in Kinds \union {None}, NEW p, NEW gen \in Nat
  PROVE  LET e == NewEncoder(kind, p, gen)
         IN  /\ EncoderType(e) /\ e.kind = kind /\ HasSettings(e, p)
             /\ Inside(e) = <<>> /\ Input(e).key
<1> DEFINE e == NewEncoder(kind, p, gen)
<1>1. <<>> \in Seq(Frame) /\ <<>> \o <<>> = <<>>
  BY EmptySeq, ConcatEmptySeq
<1>2. EncoderType(e) /\ e.kind = kind
  BY <1>1 DEF EncoderType, NewEncoder, Kinds
<1>3. Inside(e) = <<>>
  BY <1>1 DEF Inside, NewEncoder
<1>4. Input(e).key
  BY DEF Input, NewEncoder
<1>5. HasSettings(e, p)
  BY DEF HasSettings, NewEncoder
<1> QED
  BY <1>2, <1>3, <1>4, <1>5

(* A stream cut in two, and streams put behind each other. *)
LEMMA Cut ==
  ASSUME NEW q \in Seq(Frame), NEW n \in 0 .. Len(q)
  PROVE  /\ SubSeq(q, 1, n) \in Seq(Frame) /\ SubSeq(q, n + 1, Len(q)) \in Seq(Frame)
         /\ SubSeq(q, 1, n) \o SubSeq(q, n + 1, Len(q)) = q
         /\ Len(q) \in Nat /\ Len(SubSeq(q, n + 1, Len(q))) = Len(q) - n
<1>1. Len(q) \in Nat
  BY LenProperties
<1>2. \A i \in 1 .. Len(q) : q[i] \in Frame
  BY ElementOfSeq
<1>3. SubSeq(q, 1, n) \in Seq(Frame)
  BY <1>1, <1>2, SubSeqProperties
<1>4. \A i \in (n + 1) .. Len(q) : q[i] \in Frame
  BY <1>1, <1>2
<1>5. /\ SubSeq(q, n + 1, Len(q)) \in Seq(Frame)
      /\ Len(SubSeq(q, n + 1, Len(q))) = IF n + 1 <= Len(q) THEN Len(q) - (n + 1) + 1 ELSE 0
  BY <1>1, <1>4, SubSeqProperties
<1>6. 1 \in 1 .. Len(q) + 1 /\ n \in (1 - 1) .. Len(q) /\ Len(q) \in n .. Len(q)
  BY <1>1
<1>7. SubSeq(q, 1, n) \o SubSeq(q, n + 1, Len(q)) = SubSeq(q, 1, Len(q))
  BY <1>6, ConcatAdjacentSubSeq
<1>8. SubSeq(q, 1, Len(q)) = q
  BY SubSeqFull
<1>9. Len(SubSeq(q, n + 1, Len(q))) = Len(q) - n
  BY <1>1, <1>5
<1> QED
  BY <1>1, <1>3, <1>5, <1>7, <1>8, <1>9

(* Streams behind each other, the empty one, and a stream taken apart at its head. *)
LEMMA Behind ==
  /\ <<>> \in Seq(Frame)
  /\ \A a, b \in Seq(Frame) : a \o b \in Seq(Frame) /\ Len(a \o b) = Len(a) + Len(b)
  /\ \A a \in Seq(Frame) : a \o <<>> = a /\ <<>> \o a = a
  /\ \A a \in Seq(Frame) : a # <<>> => /\ Head(a) \in Frame /\ Tail(a) \in Seq(Frame)
                                      /\ <<Head(a)>> \in Seq(Frame)
                                      /\ <<Head(a)>> \o Tail(a) = a
<1>1. /\ <<>> \in Seq(Frame)
      /\ \A a, b \in Seq(Frame) : a \o b \in Seq(Frame) /\ Len(a \o b) = Len(a) + Len(b)
      /\ \A a \in Seq(Frame) : a \o <<>> = a /\ <<>> \o a = a
  BY EmptySeq, ConcatProperties, ConcatEmptySeq
<1>2. ASSUME NEW a \in Seq(Frame), a # <<>>
      PROVE  /\ Head(a) \in Frame /\ Tail(a) \in Seq(Frame)
             /\ <<Head(a)>> \in Seq(Frame)
             /\ <<Head(a)>> \o Tail(a) = a
  <2>1. Head(a) \in Frame /\ Tail(a) \in Seq(Frame) /\ Len(a) \in Nat \ {0}
    BY <1>2, HeadTailProperties, EmptySeq
  <2>2. <<Head(a)>> \in Seq(Frame)
    BY <2>1
  <2>3. SubSeq(a, 1, Len(a)) = <<a[1]>> \o SubSeq(a, 2, Len(a))
    <3>1. 1 \in 1 .. Len(a) /\ Len(a) \in 1 .. Len(a) /\ 1 + 1 = 2
      BY <2>1
    <3> QED
      BY <3>1, SubSeqRecursiveFirst
  <2>4. SubSeq(a, 1, Len(a)) = a
    BY SubSeqFull
  <2>5. Tail(a) = SubSeq(a, 2, Len(a)) /\ Head(a) = a[1]
    BY <1>2, <2>1, TailIsSubSeq
  <2> QED
    BY <2>1, <2>2, <2>3, <2>4, <2>5
<1> QED
  BY <1>1, <1>2

(* One call of encode: the frames inside and the one it accepted are still *)
(* there in their order, all but what the call lost; what comes next       *)
(* follows what was accepted.                                              *)
LEMMA EncodedKeeps ==
  ASSUME NEW enc, EncoderType(enc), NEW o \in Calls(enc)
  PROVE  LET r == Encoded(enc, o)
         IN  /\ EncoderType(r.enc) /\ r.enc.kind = enc.kind /\ r.out \in Seq(Frame)
             /\ r.lost \in Seq(Frame) /\ Len(r.lost) <= 1
             /\ \A p : HasSettings(enc, p) => HasSettings(r.enc, p)
             /\ \E c \in Seq(Frame), d \in Seq(Frame) :
                  /\ c \o (r.lost \o d) =
                        Inside(enc) \o (IF o.accepted THEN <<Input(enc)>> ELSE <<>>)
                  /\ r.out \o Inside(r.enc) = c \o d
             /\ IF o.accepted THEN \A lost : Follows(Input(enc), Input(r.enc), lost)
                              ELSE Input(r.enc) = Input(enc)
<1> DEFINE X == SubSeq(enc.held, 1, o.before)
           Y == SubSeq(enc.held, o.before + 1, Len(enc.held))
           I == IF o.accepted THEN <<Input(enc)>> ELSE <<>>
           inside == Y \o I
           k == o.after
           l == o.after + o.loses
           U == SubSeq(inside, 1, k)
           L == SubSeq(inside, k + 1, l)
           V == SubSeq(inside, l + 1, Len(inside))
           out == (enc.pending \o X) \o U
           gives == ~o.fails /\ out # <<>>
           rest == IF gives THEN Tail(out) ELSE out
           e == Fed(enc, o, rest)
           first == IF gives THEN <<Head(out)>> ELSE <<>>
<1>1. /\ Encoded(enc, o).enc = e /\ Encoded(enc, o).out = first /\ Encoded(enc, o).lost = L
      /\ inside = Within(enc, o)
  BY DEF Encoded, Queued, Within, Lost
<1>2. Input(enc) \in Frame /\ enc.held \in Seq(Frame) /\ enc.pending \in Seq(Frame)
  BY InsideType DEF EncoderType
<1>3. /\ Len(enc.held) \in Nat /\ o.before \in 0 .. Len(enc.held) /\ o.after \in Nat
      /\ o.loses \in 0 .. 1 /\ o.accepted \in BOOLEAN /\ o.fails \in BOOLEAN
      /\ o.before + o.after + o.loses <= Len(enc.held) + (IF o.accepted THEN 1 ELSE 0)
  <2> HIDE DEF X, Y, I, inside, k, l, U, L, V, out, gives, rest, e, first
  <2>1. Len(enc.held) \in Nat
    BY <1>2, LenProperties
  <2>2. /\ o \in [before : 0 .. Len(enc.held), after : 0 .. Len(enc.held) + 1, loses : 0 .. 1,
                  accepted : BOOLEAN, fails : BOOLEAN]
        /\ o.before + o.after + o.loses <= Len(enc.held) + (IF o.accepted THEN 1 ELSE 0)
    BY Zenon DEF Calls
  <2> DEFINE n == Len(enc.held)
             m == IF o.accepted THEN 1 ELSE 0
  <2>3. /\ o \in [before : 0 .. n, after : 0 .. n + 1, loses : 0 .. 1,
                  accepted : BOOLEAN, fails : BOOLEAN]
        /\ o.before + o.after + o.loses <= n + m /\ n \in Nat
    BY <2>1, <2>2
  <2> HIDE DEF n, m
  <2>4. /\ o.before \in 0 .. n /\ o.after \in 0 .. n + 1 /\ o.loses \in 0 .. 1
        /\ o.accepted \in BOOLEAN /\ o.fails \in BOOLEAN
    BY <2>3, Zenon
  <2>5. o.after \in Nat
    BY <2>3, <2>4
  <2> QED
    BY <2>3, <2>4, <2>5, Zenon DEF n, m
<1>4. I \in Seq(Frame) /\ Len(I) = (IF o.accepted THEN 1 ELSE 0)
  BY <1>2, EmptySeq
<1>5. X \in Seq(Frame) /\ Y \in Seq(Frame) /\ X \o Y = enc.held /\ Len(Y) = Len(enc.held) - o.before
  BY <1>2, <1>3, Cut
<1>6. inside \in Seq(Frame) /\ Len(inside) = Len(Y) + Len(I)
  BY <1>4, <1>5, Behind
<1>7. k \in 0 .. l /\ l \in 0 .. Len(inside) /\ l - k \in 0 .. 1 /\ Len(inside) \in Nat
  <2> HIDE DEF inside, I, Y, X, U, L, V, out, gives, rest, e, first
  <2>1. Len(inside) = Len(enc.held) - o.before + (IF o.accepted THEN 1 ELSE 0)
    BY <1>4, <1>5, <1>6
  <2>2. o.before \in Nat /\ o.before <= Len(enc.held) /\ o.loses \in Nat /\ o.loses <= 1
    BY <1>3
  <2>3. Len(inside) \in Nat
    BY <1>6, LenProperties
  <2>4. o.after + o.loses <= Len(inside)
    <3>1. CASE o.accepted
      <4>1. o.before + o.after + o.loses <= Len(enc.held) + 1
        BY <1>3, <3>1
      <4>2. Len(inside) = Len(enc.held) - o.before + 1
        BY <2>1, <3>1
      <4>3. Len(enc.held) \in Nat /\ o.after \in Nat
        BY <1>3, LenProperties
      <4> QED
        BY <2>2, <4>1, <4>2, <4>3
    <3>2. CASE ~o.accepted
      <4>1. o.before + o.after + o.loses <= Len(enc.held) + 0
        BY <1>3, <3>2
      <4>2. Len(inside) = Len(enc.held) - o.before + 0
        BY <2>1, <3>2
      <4>3. Len(enc.held) \in Nat /\ o.after \in Nat
        BY <1>3, LenProperties
      <4> QED
        BY <2>2, <4>1, <4>2, <4>3
    <3> QED
      BY <3>1, <3>2
  <2> QED
    BY <1>3, <2>2, <2>3, <2>4
<1> HIDE DEF inside, k, l
<1>8. /\ U \in Seq(Frame) /\ L \in Seq(Frame) /\ V \in Seq(Frame) /\ Len(L) <= 1
      /\ U \o (L \o V) = inside
  <2> DEFINE W == SubSeq(inside, 1, l)
  <2>1. V \in Seq(Frame) /\ W \in Seq(Frame) /\ W \o V = inside
    BY <1>6, <1>7, Cut
  <2>2. k \in 0 .. Len(inside)
    BY <1>7
  <2>3. U \in Seq(Frame)
    BY <1>6, <2>2, Cut
  <2>4. \A i \in (k + 1) .. l : inside[i] \in Frame
    <3> SUFFICES ASSUME NEW i \in (k + 1) .. l
                 PROVE  inside[i] \in Frame
      OBVIOUS
    <3>1. i \in 1 .. Len(inside)
      BY <1>7
    <3> QED
      BY <1>6, <3>1, ElementOfSeq
  <2>5. L \in Seq(Frame) /\ Len(L) = IF k + 1 <= l THEN l - (k + 1) + 1 ELSE 0
    BY <1>7, <2>4, SubSeqProperties
  <2>6. U \o L = W
    <3>1. 1 \in 1 .. Len(inside) + 1 /\ k \in (1 - 1) .. Len(inside) /\ l \in k .. Len(inside)
      BY <1>7
    <3> QED
      BY <1>6, <3>1, ConcatAdjacentSubSeq
  <2> HIDE DEF U, L, V, W
  <2>7. U \o (L \o V) = (U \o L) \o V
    BY <2>1, <2>3, <2>5, Regroup, ZenonT(40)
  <2>8. Len(L) <= 1
    BY <1>7, <2>5
  <2> QED
    BY <2>1, <2>3, <2>5, <2>6, <2>7, <2>8
<1>9. e = [enc EXCEPT !.held = V, !.pending = rest,
                      !.next = IF o.accepted THEN @ + 1 ELSE @,
                      !.force = IF o.accepted THEN FALSE ELSE @]
  BY <1>1 DEF Fed, l
<1> HIDE DEF X, Y, I, U, L, V, e, first, rest
<1>10. out \in Seq(Frame) /\ L \o V \in Seq(Frame) /\ out \o (L \o V) = Inside(enc) \o I
  <2>1. enc.pending \o X \in Seq(Frame)
    BY <1>2, <1>5, Behind
  <2>2. out \in Seq(Frame) /\ L \o V \in Seq(Frame)
    BY <1>8, <2>1, Behind
  <2>3. out \o (L \o V) = (enc.pending \o X) \o inside
    BY <1>8, <2>1, <2>2, Regroup, ZenonT(40) DEF out
  <2>4. (enc.pending \o X) \o inside = ((enc.pending \o X) \o Y) \o I
    BY <1>4, <1>5, <2>1, Regroup, ZenonT(40) DEF inside
  <2>5. (enc.pending \o X) \o Y = enc.pending \o (X \o Y)
    BY <1>2, <1>5, Regroup, ZenonT(40)
  <2> QED
    BY <1>5, <2>2, <2>3, <2>4, <2>5 DEF Inside
<1> HIDE DEF out
<1>11. first \in Seq(Frame) /\ rest \in Seq(Frame) /\ first \o rest = out
  BY <1>10, Behind DEF first, rest
<1>12. e.held = V /\ e.pending = rest /\ e.kind = enc.kind
  BY <1>9 DEF EncoderType
<1>13. EncoderType(e)
  <2>1. DOMAIN e = DOMAIN enc /\ e.gen = enc.gen
    BY <1>9 DEF EncoderType
  <2>2. e.next \in Nat
    BY <1>9 DEF EncoderType
  <2>3. e.force \in BOOLEAN
    BY <1>9 DEF EncoderType
  <2> QED
    BY <1>8, <1>11, <1>12, <2>1, <2>2, <2>3 DEF EncoderType
<1>14. \A p : HasSettings(enc, p) => HasSettings(e, p)
  BY <1>9 DEF EncoderType, HasSettings
<1>15. first \o Inside(e) = out \o V
  <2>1. first \o (rest \o V) = (first \o rest) \o V
    BY <1>8, <1>11, Regroup, ZenonT(40)
  <2> QED
    BY <1>11, <1>12, <2>1 DEF Inside
<1>16. o.accepted => \A lost : Follows(Input(enc), Input(e), lost)
  BY <1>9 DEF EncoderType, Follows, Input
<1>17. ~o.accepted => Input(e) = Input(enc)
  BY <1>9 DEF EncoderType, Input
<1>18. \E c \in Seq(Frame), d \in Seq(Frame) :
         c \o (L \o d) = Inside(enc) \o I /\ first \o Inside(e) = c \o d
  BY <1>8, <1>10, <1>15
<1> QED
  BY <1>1, <1>8, <1>11, <1>12, <1>13, <1>14, <1>16, <1>17, <1>18 DEF I

------------------------------------------------------------------------------
(* Everything on its way, when one of its parts changes *)

LEMMA WayType ==
  ASSUME TypeInv
  PROVE  /\ Sent \in Seq(Frame) /\ video \in Seq(Frame) /\ cap.hand \in Seq(Frame)
         /\ Inside(cap.enc) \in Seq(Frame) /\ Input(cap.enc) \in Frame
         /\ Coming \in Seq(Frame)
<1>1. Sent \in Seq(Frame)
  BY Behind DEF TypeInv, SeenType, Sent
<1>2. /\ video \in Seq(Frame) /\ cap.hand \in Seq(Frame) /\ EncoderType(cap.enc)
  BY DEF TypeInv, SeenType, CaptureType
<1>3. Inside(cap.enc) \in Seq(Frame) /\ Input(cap.enc) \in Frame
  BY <1>2, InsideType
<1>4. <<Input(cap.enc)>> \in Seq(Frame)
  BY <1>3
<1>5. Coming \in Seq(Frame)
  BY <1>2, <1>3, <1>4, Behind DEF Coming
<1> QED
  BY <1>1, <1>2, <1>3, <1>5

(* The encoder is changed or replaced. *)
LEMMA WayOfEncoder ==
  ASSUME NEW lost, NEW a \in Seq(Frame), NEW b \in Seq(Frame), NEW c \in Seq(Frame),
         NEW enc, EncoderType(enc), NEW e, EncoderType(e),
         Chain(a \o (b \o (c \o (Inside(enc) \o <<Input(enc)>>))), lost),
         SameStream(enc, e) \/ (Inside(e) = <<>> /\ Input(e).key)
  PROVE  Chain(a \o (b \o (c \o (Inside(e) \o <<Input(e)>>))), lost)
<1> DEFINE x == a \o (b \o c)
<1>1. /\ Inside(enc) \in Seq(Frame) /\ Input(enc) \in Frame /\ Inside(e) \in Seq(Frame)
      /\ Input(e) \in Frame
  BY InsideType
<1>2. <<Input(enc)>> \in Seq(Frame) /\ <<Input(e)>> \in Seq(Frame)
  BY <1>1
<1>3. b \o c \in Seq(Frame) /\ x \in Seq(Frame)
  BY Behind
<1>4. ASSUME NEW d \in Seq(Frame)
      PROVE  a \o (b \o (c \o d)) = x \o d
  <2> DEFINE y == b \o c
  <2>1. y \o d = b \o (c \o d)
    BY Regroup, ZenonT(40)
  <2>2. y \in Seq(Frame) /\ x = a \o y
    BY <1>3
  <2> HIDE DEF y, x
  <2>3. (a \o y) \o d = a \o (y \o d)
    BY <2>2, Regroup, ZenonT(40)
  <2> QED
    BY <2>1, <2>2, <2>3
<1>5. /\ Inside(enc) \o <<Input(enc)>> \in Seq(Frame)
      /\ Inside(e) \o <<Input(e)>> \in Seq(Frame)
  BY <1>1, <1>2, Behind
<1>6. Chain(x \o (Inside(enc) \o <<Input(enc)>>), lost)
  BY <1>4, <1>5, Zenon
<1> HIDE DEF x
<1>7. CASE SameStream(enc, e)
  <2>1. Inside(e) = Inside(enc) /\ (Input(e) = Input(enc) \/ Input(e).key)
    BY <1>7 DEF SameStream
  <2>2. Chain(x \o (Inside(enc) \o <<Input(e)>>), lost)
    BY <1>1, <1>3, <1>6, <2>1, ChainEnds
  <2> QED
    BY <1>4, <1>5, <2>1, <2>2, Zenon
<1>8. CASE Inside(e) = <<>> /\ Input(e).key
  <2>1. Chain(x \o <<Input(e)>>, lost)
    BY <1>1, <1>3, <1>6, <1>8, ChainEnds
  <2>2. Inside(e) \o <<Input(e)>> = <<Input(e)>>
    BY <1>2, <1>8, Behind
  <2> QED
    BY <1>4, <1>5, <2>1, <2>2, Zenon
<1> QED
  BY <1>7, <1>8

(* Two ways to read a stream: with a part in the middle cut loose, and with *)
(* a prefix that was cut elsewhere.                                         *)
Loose(x, c, g, d, z) == x \o ((c \o (g \o d)) \o z) = (x \o c) \o (g \o (d \o z))

Elsewhere(x, c, d, z) == (x \o c) \o (d \o z) = x \o ((c \o d) \o z)

LEMMA CutLoose ==
  ASSUME NEW x \in Seq(Frame), NEW c \in Seq(Frame), NEW g \in Seq(Frame),
         NEW d \in Seq(Frame), NEW z \in Seq(Frame)
  PROVE  Loose(x, c, g, d, z)
<1>1. g \o d \in Seq(Frame) /\ d \o z \in Seq(Frame) /\ g \o (d \o z) \in Seq(Frame)
  BY Behind
<1>2. Regroups(c, g \o d, z)
  BY <1>1, RegroupThree, Zenon
<1>3. Regroups(g, d, z)
  BY RegroupThree, Zenon
<1>4. Regroups(x, c, g \o (d \o z))
  BY <1>1, RegroupThree, Zenon
<1> QED
  BY <1>2, <1>3, <1>4, Zenon DEF Loose, Regroups

LEMMA CutElsewhere ==
  ASSUME NEW x \in Seq(Frame), NEW c \in Seq(Frame), NEW d \in Seq(Frame), NEW z \in Seq(Frame)
  PROVE  Elsewhere(x, c, d, z)
<1>1. d \o z \in Seq(Frame)
  BY Behind
<1>2. Regroups(x, c, d \o z)
  BY <1>1, RegroupThree, Zenon
<1>3. Regroups(c, d, z)
  BY RegroupThree, Zenon
<1> QED
  BY <1>2, <1>3, Zenon DEF Elsewhere, Regroups

(* What is lost leaves the chain, wherever the rest is.                    *)
LEMMA WayOfLoss ==
  ASSUME NEW lost, NEW x \in Seq(Frame), NEW z \in Seq(Frame),
         NEW gone \in Seq(Frame), NEW c \in Seq(Frame), NEW d \in Seq(Frame),
         Chain(x \o ((c \o (gone \o d)) \o z), lost), Len(gone) <= 1
  PROVE  Chain(x \o ((c \o d) \o z), lost \union Names(gone))
<1>1. Loose(x, c, gone, d, z)
  BY CutLoose
<1>2. Chain((x \o c) \o (gone \o (d \o z)), lost)
  BY <1>1, Zenon DEF Loose
<1>3. x \o c \in Seq(Frame) /\ d \o z \in Seq(Frame)
  BY Behind
<1>4. Chain((x \o c) \o (d \o z), lost \union Names(gone))
  <2> DEFINE m == x \o c
             n == d \o z
  <2>1. m \in Seq(Frame) /\ n \in Seq(Frame) /\ Chain(m \o (gone \o n), lost)
    BY <1>2, <1>3
  <2> HIDE DEF m, n
  <2>2. Chain(m \o n, lost \union Names(gone))
    BY <2>1, ChainCut
  <2> QED
    BY <2>2 DEF m, n
<1>5. Elsewhere(x, c, d, z)
  BY CutElsewhere
<1> QED
  BY <1>4, <1>5, Zenon DEF Elsewhere

(* A picture has gone into the encoder; the thread has what came out, and  *)
(* what was lost is counted.                                               *)
LEMMA WayOfPicture ==
  ASSUME NEW lost, NEW x \in Seq(Frame), NEW out \in Seq(Frame),
         NEW enc, EncoderType(enc), NEW e, EncoderType(e),
         Chain(x \o (Inside(enc) \o <<Input(enc)>>), lost),
         NEW gone \in Seq(Frame), Len(gone) <= 1,
         NEW c \in Seq(Frame), NEW d \in Seq(Frame), NEW w \in Seq(Frame),
         c \o (gone \o d) = w, out \o Inside(e) = c \o d,
         \/ w = Inside(enc) \o <<Input(enc)>> /\ Follows(Input(enc), Input(e), lost)
         \/ w = Inside(enc) /\ Input(e) = Input(enc)
  PROVE  Chain(x \o (out \o (Inside(e) \o <<Input(e)>>)), lost \union Names(gone))
<1> DEFINE z == <<Input(e)>>
           q == Inside(e)
<1>1. /\ Inside(enc) \in Seq(Frame) /\ Input(enc) \in Frame /\ q \in Seq(Frame)
      /\ Input(e) \in Frame
  BY InsideType
<1>2. z \in Seq(Frame)
  BY <1>1
<1>3. Chain(x \o (w \o z), lost)
  <2>1. CASE w = Inside(enc) \o <<Input(enc)>> /\ Follows(Input(enc), Input(e), lost)
    BY <1>1, <2>1, ChainEnds
  <2>2. CASE w = Inside(enc) /\ Input(e) = Input(enc)
    BY <2>2
  <2> QED
    BY <2>1, <2>2
<1>4. c \o (gone \o d) = w /\ out \o q = c \o d
  OBVIOUS
<1> HIDE DEF z, q
<1>5. Chain(x \o ((c \o (gone \o d)) \o z), lost)
  BY <1>3, <1>4, Zenon
<1>6. Chain(x \o ((c \o d) \o z), lost \union Names(gone))
  BY <1>2, <1>5, WayOfLoss
<1>7. Chain(x \o ((out \o q) \o z), lost \union Names(gone))
  BY <1>4, <1>6, Zenon
<1>8. out \o (q \o z) = (out \o q) \o z
  <2>1. Regroups(out, q, z)
    BY <1>1, <1>2, RegroupThree, Zenon
  <2> QED
    BY <2>1, Zenon DEF Regroups
<1>9. Chain(x \o (out \o (q \o z)), lost \union Names(gone))
  BY <1>7, <1>8, Zenon
<1> QED
  BY <1>9 DEF z, q

(* What the receiver gets, or the loop throws away, leaves at the front. *)
LEMMA WayForward ==
  ASSUME TypeInv, Chain(Sent \o (video \o Coming), seen.dropped), cap' = cap,
         \/ Sent' = Sent /\ video' = video
         \/ Sent' = <<>> /\ video' = video
         \/ video # <<>> /\ video' = Tail(video) /\ Sent' \in {<<>>, <<Head(video)>>}
  PROVE  Chain(Sent' \o (video' \o Coming'), seen.dropped)
<1>1. Sent \in Seq(Frame) /\ video \in Seq(Frame) /\ Coming \in Seq(Frame) /\ Coming' = Coming
  BY WayType DEF Coming
<1>2. video \o Coming \in Seq(Frame)
  BY <1>1, Behind
<1>3. Chain(video \o Coming, seen.dropped)
  BY <1>1, <1>2, ChainHalves
<1>4. CASE Sent' = Sent /\ video' = video
  BY <1>1, <1>4
<1>5. CASE Sent' = <<>> /\ video' = video
  <2>1. <<>> \o (video \o Coming) = video \o Coming
    BY <1>2, Behind
  <2> QED
    BY <1>1, <1>3, <1>5, <2>1
<1>6. CASE video # <<>> /\ video' = Tail(video) /\ Sent' \in {<<>>, <<Head(video)>>}
  <2>1. /\ Tail(video) \in Seq(Frame) /\ <<Head(video)>> \in Seq(Frame)
        /\ <<Head(video)>> \o Tail(video) = video
    BY <1>1, <1>6, Behind
  <2>2. (<<Head(video)>> \o Tail(video)) \o Coming = <<Head(video)>> \o (Tail(video) \o Coming)
    BY <1>1, <2>1, Regroup, ZenonT(40)
  <2>3. Tail(video) \o Coming \in Seq(Frame)
    BY <1>1, <2>1, Behind
  <2>4. Chain(<<Head(video)>> \o (Tail(video) \o Coming), seen.dropped)
    BY <1>3, <2>1, <2>2
  <2>5. Chain(Tail(video) \o Coming, seen.dropped) /\ <<>> \o (Tail(video) \o Coming) = Tail(video) \o Coming
    BY <2>1, <2>3, <2>4, ChainHalves, Behind
  <2> QED
    BY <1>1, <1>6, <2>4, <2>5
<1> QED
  BY <1>4, <1>5, <1>6

(* The loop has made a step, the capture thread none. *)
LEMMA LoopMoves ==
  ASSUME MediaInv, cap' = cap, LoopType', SeenType', seen'.dropped = seen.dropped, Commands(cmds'),
         cap.at # "gone" => Turns(cmds', cap.cfg, loop'.params),
         loop'.phase = "opening" => loop.phase = "opening" /\ loop'.params = loop.params,
         loop'.phase = "casting" =>
           seen'.told.size = loop'.params.size /\ seen'.told.mode = loop'.params.mode,
         ~Closed' => /\ ~Closed
                     /\ \/ Sent' = Sent /\ video' = video
                        \/ Sent' = <<>> /\ video' = video
                        \/ /\ video # <<>> /\ video' = Tail(video)
                           /\ Sent' \in {<<>>, <<Head(video)>>}
  PROVE  MediaInv'
<1>1. TypeInv'
  BY DEF MediaInv, TypeInv, CaptureType
<1>2. SettingsInv'
  BY DEF MediaInv, SettingsInv
<1>3. ChainInv'
  BY WayForward DEF MediaInv, ChainInv
<1> QED
  BY <1>1, <1>2, <1>3 DEF MediaInv

(* The capture thread has made a step, the loop none. *)
LEMMA CaptureMoves ==
  ASSUME MediaInv, loop' = loop, DOMAIN seen' = DOMAIN seen, seen'.told = seen.told,
         video' \in Seq(Frame), CaptureType',
         Commands(cmds'), cap'.at # "gone" => Turns(cmds', cap'.cfg, loop.params),
         cap'.at \in {"running", "sending"} => HasSettings(cap'.enc, cap'.cfg),
         ~Closed => Chain(Sent \o (video' \o Coming'), seen'.dropped)
  PROVE  MediaInv'
<1>1. TypeInv'
  BY DEF MediaInv, TypeInv, LoopType, SeenType
<1>2. SettingsInv'
  BY DEF MediaInv, SettingsInv
<1>3. ChainInv'
  BY DEF ChainInv, Closed, Sent
<1> QED
  BY <1>1, <1>2, <1>3 DEF MediaInv
------------------------------------------------------------------------------
(* The steps *)

(* At the start nothing is on its way but what the first encoder will make. *)
LEMMA Begins == Init => MediaInv
<1> SUFFICES ASSUME Init
             PROVE  MediaInv
  OBVIOUS
<1>1. /\ DOMAIN loop = {"phase", "ceiling", "params", "ctl", "audioAlive", "videoAlive"}
      /\ loop.phase = "opening" /\ Settings(loop.params) /\ loop.params.size = Native
      /\ cap = [at |-> "opening", native |-> FALSE, cfg |-> loop.params,
                enc |-> NewEncoder(None, loop.params, 0), hand |-> <<>>, last |-> FALSE]
  BY DEF Init, Settings
<1>2. /\ EncoderType(cap.enc) /\ Inside(cap.enc) = <<>> /\ Input(cap.enc).key
      /\ Input(cap.enc) \in Frame
  BY <1>1, Anew, InsideType
<1>3. cmds = <<>> /\ Commands(cmds) /\ Turns(cmds, cap.cfg, loop.params)
  BY <1>1, Few, TurnsFew DEF Init
<1>4. <<>> \in Seq(Frame)
  BY EmptySeq
<1>5. CaptureType
  BY <1>1, <1>2, <1>4 DEF CaptureType
<1>6. SeenType
  <2>1. /\ video = <<>>
        /\ seen = [told |-> Started([size |-> Native, mode |-> None]), troubleAt |-> 0, heavy |-> 0,
                 dropped |-> {}]
    BY DEF Init
  <2>2. Len(<<>>) <= 1
    BY EmptySeq
  <2> QED
    BY <1>4, <2>1, <2>2 DEF SeenType, Started
<1>7. TypeInv
  BY <1>1, <1>3, <1>5, <1>6 DEF TypeInv, LoopType
<1>8. SettingsInv
  BY <1>1, <1>3 DEF SettingsInv
<1>9. ChainInv
  <2>1. Chain(<<>>, seen.dropped)
    BY EmptySeq DEF Chain
  <2>2. Chain(<<>> \o <<Input(cap.enc)>>, seen.dropped)
    BY <1>2, <1>4, <2>1, ChainGoesOn
  <2>3. <<Input(cap.enc)>> \in Seq(Frame)
    BY <1>2
  <2>4. Sent = <<>> /\ video = <<>> /\ cap.hand = <<>>
    BY <1>1 DEF Init, Sent
  <2> QED
    BY <1>2, <2>2, <2>3, <2>4, Behind DEF ChainInv, Coming
<1> QED
  BY <1>7, <1>8, <1>9 DEF MediaInv

(* The capture thread changes or replaces its encoder, or only ends. *)
LEMMA EncoderMoves ==
  ASSUME MediaInv, video' = video, cap'.hand = cap.hand, EncoderType(cap'.enc),
         SameStream(cap.enc, cap'.enc) \/ (Inside(cap'.enc) = <<>> /\ Input(cap'.enc).key)
  PROVE  video' \in Seq(Frame) /\ (~Closed => Chain(Sent \o (video' \o Coming'), seen.dropped))
<1>1. /\ Sent \in Seq(Frame) /\ video \in Seq(Frame) /\ cap.hand \in Seq(Frame)
      /\ EncoderType(cap.enc)
  BY WayType DEF MediaInv, TypeInv, CaptureType
<1>2. ASSUME ~Closed
      PROVE  Chain(Sent \o (video \o (cap.hand \o (Inside(cap'.enc) \o <<Input(cap'.enc)>>))), seen.dropped)
  <2>1. Chain(Sent \o (video \o (cap.hand \o (Inside(cap.enc) \o <<Input(cap.enc)>>))), seen.dropped)
    BY <1>2 DEF MediaInv, ChainInv, Coming
  <2> QED
    BY <1>1, <2>1, WayOfEncoder
<1>3. Coming' = cap'.hand \o (Inside(cap'.enc) \o <<Input(cap'.enc)>>)
  BY DEF Coming, Inside, Input
<1> QED
  BY <1>1, <1>2, <1>3

(* An encoder left alone goes on. *)
LEMMA SameEncoder ==
  ASSUME NEW enc, EncoderType(enc)
  PROVE  SameStream(enc, enc)
BY DEF SameStream

(* CaptureOpens: the first encoder has the settings it was opened with. *)
LEMMA OpensStep == MediaInv /\ CaptureOpens => MediaInv'
<1> SUFFICES ASSUME MediaInv, CaptureOpens
             PROVE  MediaInv'
  OBVIOUS
<1>1. PICK kind \in Encoders :
        cap' = [cap EXCEPT !.at = "running", !.native = TRUE, !.enc = NewEncoder(kind, cap.cfg, 1)]
  BY DEF CaptureOpens
<1>2. kind \in Kinds
  BY SenderAssumption DEF Kinds
<1> DEFINE e == NewEncoder(kind, cap.cfg, 1)
<1>3. /\ EncoderType(e) /\ e.kind = kind /\ HasSettings(e, cap.cfg)
      /\ Inside(e) = <<>> /\ Input(e).key
  BY <1>2, Anew
<1> HIDE DEF e
<1>4. /\ CaptureType /\ cap.at = "opening" /\ loop' = loop /\ seen' = seen /\ video' = video
      /\ cmds' = cmds /\ Commands(cmds) /\ Turns(cmds, cap.cfg, loop.params)
  BY DEF CaptureOpens, MediaInv, TypeInv, SettingsInv
<1>5. /\ cap'.at = "running" /\ cap'.enc = e /\ cap'.hand = cap.hand /\ cap'.cfg = cap.cfg
      /\ DOMAIN cap' = DOMAIN cap
  BY <1>1, <1>4 DEF CaptureType, e
<1>6. CaptureType'
  BY <1>2, <1>3, <1>4, <1>5 DEF CaptureType, Settings, EncoderType
<1>7. video' \in Seq(Frame) /\ (~Closed => Chain(Sent \o (video' \o Coming'), seen.dropped))
  BY <1>3, <1>4, <1>5, EncoderMoves
<1> QED
  BY <1>3, <1>4, <1>5, <1>6, <1>7, CaptureMoves

(* The capture thread has ended with its encoder and its frame as they were. *)
LEMMA EndsStep ==
  ASSUME MediaInv, NEW sized \in BOOLEAN,
         cap' = [cap EXCEPT !.at = "gone"] \/ cap' = [cap EXCEPT !.at = "gone", !.native = sized],
         loop' = loop, seen' = seen, video' = video, Commands(cmds')
  PROVE  MediaInv'
<1>1. CaptureType
  BY DEF MediaInv, TypeInv
<1>2. /\ cap'.at = "gone" /\ cap'.enc = cap.enc /\ cap'.hand = cap.hand /\ cap'.cfg = cap.cfg
      /\ DOMAIN cap' = DOMAIN cap
  BY <1>1 DEF CaptureType
<1>3. CaptureType'
  BY <1>1, <1>2 DEF CaptureType, Settings, EncoderType
<1>4. EncoderType(cap'.enc) /\ SameStream(cap.enc, cap'.enc)
  BY <1>1, <1>2, SameEncoder DEF CaptureType
<1>5. video' \in Seq(Frame) /\ (~Closed => Chain(Sent \o (video' \o Coming'), seen.dropped))
  BY <1>2, <1>4, EncoderMoves
<1> QED
  BY <1>2, <1>3, <1>5, CaptureMoves

(* CaptureFailsToOpen: there is no capture thread any more. *)
LEMMA FailsToOpenStep == MediaInv /\ CaptureFailsToOpen => MediaInv'
BY EndsStep DEF CaptureFailsToOpen, MediaInv, TypeInv

(* EncoderLost: likewise. *)
LEMMA EncoderLostStep == MediaInv /\ EncoderLost => MediaInv'
<1> SUFFICES ASSUME MediaInv, EncoderLost
             PROVE  MediaInv'
  OBVIOUS
<1>1. /\ cap' = [cap EXCEPT !.at = "gone"] /\ loop' = loop /\ seen' = seen /\ video' = video
      /\ cmds' = cmds /\ TRUE \in BOOLEAN
  BY DEF EncoderLost
<1>2. Commands(cmds')
  BY <1>1 DEF MediaInv, TypeInv
<1> QED
  BY <1>1, <1>2, EndsStep

(* One command of the capture thread, whatever it asks for: the settings   *)
(* change as the command says, the encoder has them, and its stream goes   *)
(* on or begins anew.                                                      *)
LEMMA ObeyedHas ==
  ASSUME CaptureType, cap.at = "running", HasSettings(cap.enc, cap.cfg),
         NEW x, Command(x), x.type # "Stop", NEW kind \in Encoders
  PROVE  LET th == Obeyed(cap, x, kind)
         IN  /\ DOMAIN th = DOMAIN cap /\ th.at = "running" /\ th.hand = cap.hand
             /\ Settings(th.cfg) /\ Effect(x, cap.cfg, th.cfg)
             /\ EncoderType(th.enc) /\ th.enc.kind \in Kinds /\ HasSettings(th.enc, th.cfg)
             /\ SameStream(cap.enc, th.enc) \/ (Inside(th.enc) = <<>> /\ Input(th.enc).key)
<1> DEFINE th == Obeyed(cap, x, kind)
<1>1. /\ EncoderType(cap.enc) /\ cap.enc.kind \in Kinds /\ cap.enc.gen + 1 \in Nat
      /\ Settings(cap.cfg)
      /\ DOMAIN cap = {"at", "native", "cfg", "enc", "hand", "last"}
  BY DEF CaptureType, EncoderType
<1>2. kind \in Kinds
  BY SenderAssumption DEF Kinds
<1>3. CASE x.type = "Bitrate"
  <2> DEFINE c == [cap.cfg EXCEPT !.rate = x.rate]
             e == SetRate(cap.enc, x.rate)
  <2>1. th = [cap EXCEPT !.cfg = c, !.enc = e]
    BY <1>3 DEF Obeyed
  <2>2. Settings(c) /\ c.size = cap.cfg.size /\ c.rate = x.rate /\ c.mode = cap.cfg.mode
    BY <1>1 DEF Settings
  <2> HIDE DEF c, e, th
  <2>3. SameStream(cap.enc, e) /\ HasSettings(e, c)
    BY <1>1, <2>2, RateSet DEF e
  <2>4. /\ DOMAIN th = DOMAIN cap /\ th.at = "running" /\ th.hand = cap.hand
        /\ th.cfg = c /\ th.enc = e
    BY <1>1, <2>1
  <2>5. Effect(x, cap.cfg, c)
    BY <1>3, <2>2 DEF Effect
  <2> QED
    BY <1>1, <2>2, <2>3, <2>4, <2>5 DEF SameStream, th
<1>4. CASE x.type = "Keyframe"
  <2> DEFINE e == RequestKeyframe(cap.enc)
  <2>1. th = [cap EXCEPT !.enc = e]
    BY <1>4 DEF Obeyed
  <2>2. SameStream(cap.enc, e) /\ HasSettings(e, cap.cfg)
    BY <1>1, KeyframeRequested
  <2> HIDE DEF e, th
  <2>3. /\ DOMAIN th = DOMAIN cap /\ th.at = "running" /\ th.hand = cap.hand
        /\ th.cfg = cap.cfg /\ th.enc = e
    BY <1>1, <2>1
  <2>4. Effect(x, cap.cfg, cap.cfg)
    BY <1>4 DEF Effect
  <2> QED
    BY <1>1, <2>2, <2>3, <2>4 DEF SameStream, th
<1>5. CASE x.type = "Mode"
  <2> DEFINE c == [cap.cfg EXCEPT !.mode = x.mode]
             e == SetEncoderMode(cap.enc, x.mode)
  <2>1. th = [cap EXCEPT !.cfg = c, !.enc = e]
    BY <1>5 DEF Obeyed
  <2>2. Settings(c) /\ c.size = cap.cfg.size /\ c.rate = cap.cfg.rate /\ c.mode = x.mode
    BY <1>1 DEF Settings
  <2> HIDE DEF c, e, th
  <2>3. SameStream(cap.enc, e) /\ HasSettings(e, c)
    BY <1>1, <2>2, ModeSet DEF e
  <2>4. /\ DOMAIN th = DOMAIN cap /\ th.at = "running" /\ th.hand = cap.hand
        /\ th.cfg = c /\ th.enc = e
    BY <1>1, <2>1
  <2>5. Effect(x, cap.cfg, c)
    BY <1>5, <2>2 DEF Effect
  <2> QED
    BY <1>1, <2>2, <2>3, <2>4, <2>5 DEF SameStream, th
<1>6. CASE x.type = "Resolution"
  <2> DEFINE c == [cap.cfg EXCEPT !.size = x.size]
             e == NewEncoder(kind, c, cap.enc.gen + 1)
  <2>1. th = [cap EXCEPT !.cfg = c, !.enc = e]
    BY <1>6 DEF Obeyed
  <2>2. Settings(c) /\ c.size = x.size /\ c.rate = cap.cfg.rate /\ c.mode = cap.cfg.mode
    BY <1>1 DEF Settings
  <2> HIDE DEF c
  <2>3. /\ EncoderType(e) /\ e.kind = kind /\ HasSettings(e, c)
        /\ Inside(e) = <<>> /\ Input(e).key
    BY <1>1, <1>2, Anew
  <2> HIDE DEF e, th
  <2>4. /\ DOMAIN th = DOMAIN cap /\ th.at = "running" /\ th.hand = cap.hand
        /\ th.cfg = c /\ th.enc = e
    BY <1>1, <2>1
  <2>5. Effect(x, cap.cfg, c)
    BY <1>6, <2>2 DEF Effect
  <2> QED
    BY <1>2, <2>2, <2>3, <2>4, <2>5 DEF th
<1> QED
  BY <1>3, <1>4, <1>5, <1>6 DEF Command

(* CaptureObeys: a command less to obey, and its effect on the encoder. *)
LEMMA ObeysStep == MediaInv /\ CaptureObeys => MediaInv'
<1> SUFFICES ASSUME MediaInv, CaptureObeys
             PROVE  MediaInv'
  OBVIOUS
<1>1. PICK kind \in Encoders : cap' = Obeyed(cap, Head(cmds), kind)
  BY DEF CaptureObeys
<1>2. /\ cap.at = "running" /\ cmds # <<>> /\ cmds' = Tail(cmds)
      /\ loop' = loop /\ seen' = seen /\ video' = video
      /\ CaptureType /\ HasSettings(cap.enc, cap.cfg)
      /\ Commands(cmds) /\ Turns(cmds, cap.cfg, loop.params)
  BY DEF CaptureObeys, MediaInv, TypeInv, SettingsInv
<1>3. Command(Head(cmds)) /\ Commands(cmds')
  BY <1>2, HeadIsCommand
<1>4. CASE Head(cmds).type = "Stop"
  <2>1. cap' = [cap EXCEPT !.at = "gone"] /\ TRUE \in BOOLEAN
    BY <1>1, <1>4 DEF Obeyed
  <2> QED
    BY <1>2, <1>3, <2>1, EndsStep
<1>5. CASE Head(cmds).type # "Stop"
  <2>1. /\ DOMAIN cap' = DOMAIN cap /\ cap'.at = "running" /\ cap'.hand = cap.hand
        /\ Settings(cap'.cfg) /\ Effect(Head(cmds), cap.cfg, cap'.cfg)
        /\ EncoderType(cap'.enc) /\ cap'.enc.kind \in Kinds /\ HasSettings(cap'.enc, cap'.cfg)
        /\ SameStream(cap.enc, cap'.enc) \/ (Inside(cap'.enc) = <<>> /\ Input(cap'.enc).key)
    BY <1>1, <1>2, <1>3, <1>5, ObeyedHas
  <2>2. Turns(cmds', cap'.cfg, loop.params)
    BY <1>2, <2>1, TurnsTail
  <2>3. CaptureType'
    BY <1>2, <2>1 DEF CaptureType, Settings, EncoderType
  <2>4. video' \in Seq(Frame) /\ (~Closed => Chain(Sent \o (video' \o Coming'), seen.dropped))
    BY <1>2, <2>1, EncoderMoves
  <2> QED
    BY <1>2, <1>3, <2>1, <2>2, <2>3, <2>4, CaptureMoves
<1> QED
  BY <1>4, <1>5

(* The desktop is captured anew. *)
LEMMA ReopensStep ==
  ASSUME MediaInv, cap.at = "running", loop' = loop, seen' = seen, video' = video, cmds' = cmds,
         cap' = [cap EXCEPT !.enc = RequestKeyframe(@)]
  PROVE  MediaInv'
<1> DEFINE e == RequestKeyframe(cap.enc)
<1>1. /\ CaptureType /\ EncoderType(cap.enc) /\ HasSettings(cap.enc, cap.cfg)
      /\ Commands(cmds) /\ Turns(cmds, cap.cfg, loop.params)
  BY DEF MediaInv, TypeInv, SettingsInv, CaptureType
<1>2. SameStream(cap.enc, e) /\ HasSettings(e, cap.cfg)
  BY <1>1, KeyframeRequested
<1> HIDE DEF e
<1>3. cap' = [cap EXCEPT !.enc = e]
  BY DEF e
<1>4. /\ DOMAIN cap' = DOMAIN cap /\ cap'.at = "running" /\ cap'.hand = cap.hand
      /\ cap'.cfg = cap.cfg /\ cap'.enc = e
  BY <1>1, <1>3 DEF CaptureType
<1>5. CaptureType'
  BY <1>1, <1>2, <1>4 DEF CaptureType, Settings, EncoderType, SameStream
<1>6. video' \in Seq(Frame) /\ (~Closed => Chain(Sent \o (video' \o Coming'), seen.dropped))
  BY <1>2, <1>4, EncoderMoves DEF SameStream
<1> QED
  BY <1>1, <1>2, <1>4, <1>5, <1>6, CaptureMoves

(* A picture has gone through the encoder. *)
LEMMA PictureStep ==
  ASSUME MediaInv, cap.at = "running", loop' = loop, video' = video, cmds' = cmds,
         NEW o \in Calls(cap.enc), NEW r, r = Encoded(cap.enc, o),
         cap' = [cap EXCEPT !.enc = r.enc, !.hand = r.out, !.last = TRUE,
                            !.at = IF r.out = <<>> THEN "running" ELSE "sending"],
         seen' = [seen EXCEPT !.dropped = @ \union Names(r.lost)]
  PROVE  MediaInv'
<1>1. /\ CaptureType /\ EncoderType(cap.enc) /\ HasSettings(cap.enc, cap.cfg)
      /\ Commands(cmds) /\ Turns(cmds, cap.cfg, loop.params) /\ cap.hand = <<>>
      /\ DOMAIN seen = {"told", "troubleAt", "heavy", "dropped"}
  BY DEF MediaInv, TypeInv, SettingsInv, CaptureType, SeenType
<1> DEFINE e == cap.enc
           w == Inside(e) \o (IF o.accepted THEN <<Input(e)>> ELSE <<>>)
<1>2. /\ EncoderType(r.enc) /\ r.enc.kind = e.kind /\ r.out \in Seq(Frame)
      /\ HasSettings(r.enc, cap.cfg)
      /\ r.lost \in Seq(Frame) /\ Len(r.lost) <= 1
      /\ \E c \in Seq(Frame), d \in Seq(Frame) :
           c \o (r.lost \o d) = w /\ r.out \o Inside(r.enc) = c \o d
      /\ IF o.accepted THEN Follows(Input(e), Input(r.enc), seen.dropped)
                       ELSE Input(r.enc) = Input(e)
  <2> DEFINE q == Encoded(e, o)
  <2>1. EncoderType(e) /\ o \in Calls(e)
    BY <1>1
  <2> HIDE DEF e
  <2>2. /\ EncoderType(q.enc) /\ q.enc.kind = e.kind /\ q.out \in Seq(Frame)
        /\ q.lost \in Seq(Frame) /\ Len(q.lost) <= 1
        /\ \A p : HasSettings(e, p) => HasSettings(q.enc, p)
        /\ \E c \in Seq(Frame), d \in Seq(Frame) :
             c \o (q.lost \o d) = w /\ q.out \o Inside(q.enc) = c \o d
        /\ IF o.accepted THEN \A lost : Follows(Input(e), Input(q.enc), lost)
                         ELSE Input(q.enc) = Input(e)
    BY <2>1, EncodedKeeps
  <2> HIDE DEF q, w
  <2>3. r = q /\ HasSettings(e, cap.cfg)
    BY <1>1 DEF q, e
  <2> QED
    BY <2>2, <2>3
<1>3. /\ DOMAIN cap' = DOMAIN cap /\ cap'.at = IF r.out = <<>> THEN "running" ELSE "sending"
      /\ cap'.hand = r.out /\ cap'.cfg = cap.cfg /\ cap'.enc = r.enc
  BY <1>1 DEF CaptureType
<1>4. /\ DOMAIN seen' = DOMAIN seen /\ seen'.told = seen.told
      /\ seen'.dropped = seen.dropped \union Names(r.lost)
  BY <1>1
<1>5. CaptureType'
  BY <1>1, <1>2, <1>3 DEF CaptureType, Settings, EncoderType
<1>6. Sent \in Seq(Frame) /\ video \in Seq(Frame)
  BY WayType DEF MediaInv
<1>7. ASSUME ~Closed
      PROVE  Chain(Sent \o (video \o (r.out \o (Inside(r.enc) \o <<Input(r.enc)>>))), seen'.dropped)
  <2>1. Chain(Sent \o (video \o (<<>> \o (Inside(e) \o <<Input(e)>>))), seen.dropped)
    BY <1>1, <1>7 DEF MediaInv, ChainInv, Coming
  <2>2. PICK c \in Seq(Frame), d \in Seq(Frame) :
          c \o (r.lost \o d) = w /\ r.out \o Inside(r.enc) = c \o d
    BY <1>2
  <2>3. /\ w \in Seq(Frame) /\ EncoderType(e)
        /\ \/ w = Inside(e) \o <<Input(e)>> /\ Follows(Input(e), Input(r.enc), seen.dropped)
           \/ w = Inside(e) /\ Input(r.enc) = Input(e)
    <3>1. Inside(e) \in Seq(Frame) /\ Input(e) \in Frame /\ EncoderType(e)
      BY <1>1, InsideType
    <3>2. <<Input(e)>> \in Seq(Frame)
      BY <3>1
    <3>3. CASE o.accepted
      BY <1>2, <3>1, <3>2, <3>3, Behind
    <3>4. CASE ~o.accepted
      BY <1>2, <3>1, <3>4, Behind
    <3> QED
      BY <3>3, <3>4
  <2> DEFINE n == r.enc
             out == r.out
             gone == r.lost
  <2>4. /\ EncoderType(n) /\ out \in Seq(Frame) /\ gone \in Seq(Frame) /\ Len(gone) <= 1
        /\ c \o (gone \o d) = w /\ out \o Inside(n) = c \o d
        /\ \/ w = Inside(e) \o <<Input(e)>> /\ Follows(Input(e), Input(n), seen.dropped)
           \/ w = Inside(e) /\ Input(n) = Input(e)
    BY <1>2, <2>2, <2>3
  <2> HIDE DEF w, e, n, out, gone
  <2> DEFINE x == Sent \o video
             now == Inside(e) \o <<Input(e)>>
             next == out \o (Inside(n) \o <<Input(n)>>)
  <2>5. now \in Seq(Frame) /\ next \in Seq(Frame) /\ x \in Seq(Frame) /\ <<>> \o now = now
    <3>1. /\ Inside(e) \in Seq(Frame) /\ Input(e) \in Frame
          /\ Inside(n) \in Seq(Frame) /\ Input(n) \in Frame
      BY <2>3, <2>4, InsideType
    <3>2. <<Input(e)>> \in Seq(Frame) /\ <<Input(n)>> \in Seq(Frame)
      BY <3>1
    <3> QED
      BY <1>6, <2>4, <3>1, <3>2, Behind
  <2>6. Chain(x \o now, seen.dropped)
    <3>1. Chain(Sent \o (video \o now), seen.dropped)
      BY <2>1, <2>5
    <3> HIDE DEF now
    <3>2. Sent \o (video \o now) = (Sent \o video) \o now
      <4>1. now \in Seq(Frame)
        BY <2>5, Zenon
      <4>2. Regroups(Sent, video, now)
        BY <1>6, <4>1, RegroupThree, Zenon
      <4> QED
        BY <4>2, Zenon DEF Regroups
    <3> QED
      BY <3>1, <3>2
  <2>7. Chain(x \o next, seen.dropped \union Names(gone))
    <3> HIDE DEF x
    <3> QED
      BY <2>3, <2>4, <2>5, <2>6, WayOfPicture
  <2>8. Chain(Sent \o (video \o next), seen.dropped \union Names(gone))
    <3> HIDE DEF next
    <3>1. Sent \o (video \o next) = (Sent \o video) \o next
      <4>1. next \in Seq(Frame)
        BY <2>5, Zenon
      <4>2. Regroups(Sent, video, next)
        BY <1>6, <4>1, RegroupThree, Zenon
      <4> QED
        BY <4>2, Zenon DEF Regroups
    <3> QED
      BY <2>7, <3>1
  <2> QED
    BY <1>4, <2>8 DEF n, out, gone
<1>8. Coming' = r.out \o (Inside(r.enc) \o <<Input(r.enc)>>)
  BY <1>3 DEF Coming, Inside, Input
<1> QED
  BY <1>1, <1>2, <1>3, <1>4, <1>5, <1>6, <1>7, <1>8, CaptureMoves

(* Captures: a picture through the encoder, or the desktop captured anew. *)
LEMMA CapturesStep == MediaInv /\ Captures => MediaInv'
<1> SUFFICES ASSUME MediaInv, Captures
             PROVE  MediaInv'
  OBVIOUS
<1>1. PICK got \in NextFrame : CaptureReopens(got) \/ Encodes(got)
  BY DEF Captures
<1>2. cap.at = "running" /\ loop' = loop /\ video' = video /\ cmds' = cmds
  BY DEF Captures
<1>3. CASE CaptureReopens(got)
  BY <1>2, <1>3, ReopensStep DEF CaptureReopens
<1>4. CASE Encodes(got)
  <2>1. PICK o \in Calls(cap.enc) :
          \E r \in {Encoded(cap.enc, o)} :
             /\ cap' = [cap EXCEPT !.enc = r.enc, !.hand = r.out, !.last = TRUE,
                                   !.at = IF r.out = <<>> THEN "running" ELSE "sending"]
             /\ seen' = [seen EXCEPT !.dropped = @ \union Names(r.lost)]
    BY <1>4, Zenon DEF Encodes
  <2>2. PICK r \in {Encoded(cap.enc, o)} :
          /\ cap' = [cap EXCEPT !.enc = r.enc, !.hand = r.out, !.last = TRUE,
                                !.at = IF r.out = <<>> THEN "running" ELSE "sending"]
          /\ seen' = [seen EXCEPT !.dropped = @ \union Names(r.lost)]
    BY <2>1, Zenon
  <2>3. r = Encoded(cap.enc, o)
    BY <2>2
  <2> QED
    BY <1>2, <2>2, <2>3, PictureStep
<1> QED
  BY <1>1, <1>3, <1>4

(* What was in hand is in the channel. *)
LEMMA CaptureSendsStep == MediaInv /\ CaptureSends => MediaInv'
<1> SUFFICES ASSUME MediaInv, CaptureSends
             PROVE  MediaInv'
  OBVIOUS
<1>1. /\ CaptureType /\ EncoderType(cap.enc) /\ HasSettings(cap.enc, cap.cfg)
      /\ Commands(cmds) /\ Turns(cmds, cap.cfg, loop.params)
      /\ loop' = loop /\ seen' = seen /\ cmds' = cmds /\ cap.at = "sending"
  BY DEF MediaInv, TypeInv, SettingsInv, CaptureType, CaptureSends
<1>2. /\ Sent \in Seq(Frame) /\ video \in Seq(Frame) /\ cap.hand \in Seq(Frame)
      /\ Inside(cap.enc) \in Seq(Frame) /\ Input(cap.enc) \in Frame
  BY WayType DEF MediaInv
<1>3. ASSUME NEW at \in {"running", "gone"}, cap' = [cap EXCEPT !.at = at, !.hand = <<>>]
      PROVE  /\ CaptureType' /\ cap'.cfg = cap.cfg /\ cap'.enc = cap.enc
             /\ cap'.hand = <<>> /\ cap'.at = at
  <2>1. /\ DOMAIN cap' = DOMAIN cap /\ cap'.at = at
        /\ cap'.hand = <<>> /\ cap'.cfg = cap.cfg /\ cap'.enc = cap.enc
    BY <1>1, <1>3 DEF CaptureType
  <2>2. <<>> \in Seq(Frame)
    BY EmptySeq
  <2> QED
    BY <1>1, <1>3, <2>1, <2>2 DEF CaptureType, Settings, EncoderType
<1>4. CASE /\ ~Closed /\ video' = video \o cap.hand
           /\ cap' = [cap EXCEPT !.at = "running", !.hand = <<>>]
  <2>1. /\ CaptureType' /\ cap'.cfg = cap.cfg /\ cap'.enc = cap.enc
        /\ cap'.hand = <<>> /\ cap'.at = "running"
    BY <1>3, <1>4
  <2> DEFINE next == Inside(cap.enc) \o <<Input(cap.enc)>>
  <2>2. next \in Seq(Frame)
    <3>1. <<Input(cap.enc)>> \in Seq(Frame)
      BY <1>2
    <3> QED
      BY <1>2, <3>1, Behind
  <2>3. Coming' = <<>> \o next /\ Coming = cap.hand \o next
    BY <2>1 DEF Coming, Inside, Input
  <2> HIDE DEF next
  <2>4. Coming' = next /\ (video \o cap.hand) \o next = video \o (cap.hand \o next)
    <3>1. Coming' = next
      BY <2>2, <2>3, Behind
    <3>2. (video \o cap.hand) \o next = video \o (cap.hand \o next)
      BY <1>2, <2>2, Regroup, ZenonT(40)
    <3> QED
      BY <3>1, <3>2
  <2>5. Chain(Sent \o (video \o (cap.hand \o next)), seen.dropped)
    BY <1>4, <2>3 DEF MediaInv, ChainInv
  <2>6. video' \in Seq(Frame) /\ Chain(Sent \o (video' \o Coming'), seen.dropped)
    BY <1>2, <1>4, <2>4, <2>5, Behind
  <2> QED
    BY <1>1, <2>1, <2>6, CaptureMoves
<1>5. CASE /\ Closed /\ video' = video
           /\ cap' = [cap EXCEPT !.at = "gone", !.hand = <<>>]
  BY <1>1, <1>2, <1>3, <1>5, CaptureMoves
<1> QED
  BY <1>4, <1>5 DEF CaptureSends

(* Commands with no settings in them. *)
LEMMA NoSettings ==
  ASSUME NEW t \in {"Stop", "Keyframe"}
  PROVE  Command(Cmd(t)) /\ \A p : Effect(Cmd(t), p, p)
BY DEF Cmd, Command, Effect

(* They can be put behind any others. *)
LEMMA OneMore ==
  ASSUME NEW q, Commands(q), NEW t \in {"Stop", "Keyframe"}
  PROVE  /\ Commands(Append(q, Cmd(t)))
         /\ \A p, w : Turns(q, p, w) => Turns(Append(q, Cmd(t)), p, w)
<1>1. Command(Cmd(t)) /\ \A p : Effect(Cmd(t), p, p)
  BY NoSettings
<1>2. ASSUME NEW p, NEW w, Turns(q, p, w)
      PROVE  Turns(Append(q, Cmd(t)), p, w)
  BY <1>1, <1>2, TurnsAppend
<1> QED
  BY <1>1, <1>2, Appended

(* Another phase, perhaps, with the settings, what the receiver was told   *)
(* and the channel as they were.                                           *)
LEMMA PhaseMoves ==
  ASSUME MediaInv, cap' = cap, seen' = seen, video' = video,
         DOMAIN loop' = DOMAIN loop, loop'.params = loop.params,
         loop'.phase = loop.phase \/ (loop'.phase \in {"reconnecting", "ending"} /\ ~Closed),
         \/ cmds' = cmds
         \/ \E t \in {"Stop", "Keyframe"} : cmds' = Append(cmds, Cmd(t))
  PROVE  MediaInv'
<1>1. LoopType' /\ SeenType'
  BY DEF MediaInv, TypeInv, LoopType, SeenType, Settings
<1>2. Commands(cmds') /\ (cap.at # "gone" => Turns(cmds', cap.cfg, loop'.params))
  <2>1. Commands(cmds) /\ (cap.at # "gone" => Turns(cmds, cap.cfg, loop'.params))
    BY DEF MediaInv, TypeInv, SettingsInv
  <2> QED
    BY <2>1, OneMore
<1>3. /\ loop'.phase = "opening" => loop.phase = "opening" /\ loop'.params = loop.params
      /\ loop'.phase = "casting" =>
           seen'.told.size = loop'.params.size /\ seen'.told.mode = loop'.params.mode
  BY DEF MediaInv, SettingsInv
<1>4. (~Closed' => ~Closed) /\ Sent' \in {Sent, <<>>}
  BY DEF Closed, Sent
<1> QED
  BY <1>1, <1>2, <1>3, <1>4, LoopMoves

(* The audio thread has no part in the settings or in the stream. *)
LEMMA AudioStep == MediaInv /\ AudioNext => MediaInv'
BY PhaseMoves DEF AudioNext, AudioSends, AudioStops, AudioFails

(* The ways out of the session leave the settings as they are. *)
LEMMA GivingUpStep ==
  MediaInv /\ (NoCapture \/ CaptureGone \/ CastStops \/ ReconnectFails) => MediaInv'
<1> SUFFICES ASSUME MediaInv, NoCapture \/ CaptureGone \/ CastStops \/ ReconnectFails
             PROVE  MediaInv'
  OBVIOUS
<1>1. /\ GivesUp /\ ~Closed /\ cap' = cap /\ seen' = seen /\ video' = video
  BY DEF NoCapture, CaptureGone, CastStops, ReconnectFails, Closed
<1>2. /\ loop' = [loop EXCEPT !.phase = "ending"] /\ cmds' = Append(cmds, Cmd("Stop"))
      /\ DOMAIN loop = {"phase", "ceiling", "params", "ctl", "audioAlive", "videoAlive"}
  BY <1>1 DEF GivesUp, MediaInv, TypeInv, LoopType
<1>3. DOMAIN loop' = DOMAIN loop /\ loop'.params = loop.params /\ loop'.phase = "ending"
  BY <1>2
<1> QED
  BY <1>1, <1>2, <1>3, PhaseMoves

(* Nor do these change the settings or the stream. *)
LEMMA QuietStep ==
  ASSUME MediaInv, SendsAudio \/ ReceiverWantsKeyframe \/ LinkLost \/ DrainsAudio
  PROVE  MediaInv'
<1>1. /\ cap' = cap /\ seen' = seen /\ video' = video /\ ~Closed
      /\ cmds' = cmds \/ cmds' = Append(cmds, Cmd("Keyframe"))
      /\ DOMAIN loop = {"phase", "ceiling", "params", "ctl", "audioAlive", "videoAlive"}
  BY DEF SendsAudio, ReceiverWantsKeyframe, LinkLost, DrainsAudio, Closed, MediaInv, TypeInv, LoopType
<1>2. \/ loop' = loop
      \/ loop' = [loop EXCEPT !.audioAlive = FALSE]
      \/ loop' = [loop EXCEPT !.phase = "reconnecting", !.videoAlive = TRUE]
  BY DEF SendsAudio, ReceiverWantsKeyframe, LinkLost, DrainsAudio
<1>3. /\ DOMAIN loop' = DOMAIN loop /\ loop'.params = loop.params
      /\ loop'.phase \in {loop.phase, "reconnecting"}
  BY <1>1, <1>2
<1> QED
  BY <1>1, <1>3, PhaseMoves

(* A frame leaves the channel for the receiver. *)
LEMMA SendsFrameStep == MediaInv /\ SendsFrame => MediaInv'
<1> SUFFICES ASSUME MediaInv, SendsFrame
             PROVE  MediaInv'
  OBVIOUS
<1>1. /\ loop.phase = "casting" /\ video # <<>> /\ video' = Tail(video)
      /\ loop' = loop /\ cmds' = cmds /\ cap' = cap /\ SeenType /\ LoopType /\ Commands(cmds)
  BY DEF SendsFrame, MediaInv, TypeInv
<1>2. Head(video) \in Frame /\ Tail(video) \in Seq(Frame) /\ <<Head(video)>> \in Seq(Frame)
  BY <1>1, Behind DEF SeenType
<1>3. /\ DOMAIN seen' = DOMAIN seen /\ DOMAIN seen'.told = DOMAIN seen.told
      /\ seen'.told.last = <<Head(video)>> /\ seen'.told.synced = (seen.told.synced \/ Head(video).key)
      /\ seen'.told.size = seen.told.size /\ seen'.told.mode = seen.told.mode
      /\ seen'.dropped = seen.dropped
  BY <1>1 DEF SendsFrame, SeenType
<1>4. SeenType'
  <2>1. Len(<<Head(video)>>) = 1 /\ <<Head(video)>> # <<>> /\ Head(video).key \in BOOLEAN
    BY <1>2, EmptySeq DEF Frame
  <2> QED
    BY <1>1, <1>2, <1>3, <2>1 DEF SeenType
<1>5. LoopType'
  BY <1>1 DEF LoopType, Settings
<1>6. /\ cap.at # "gone" => Turns(cmds', cap.cfg, loop'.params)
      /\ seen'.told.size = loop'.params.size /\ seen'.told.mode = loop'.params.mode
  BY <1>1, <1>3 DEF MediaInv, SettingsInv
<1>7. Sent' = <<Head(video)>> /\ ~Closed
  BY <1>1, <1>3 DEF Sent, Closed
<1> QED
  BY <1>1, <1>3, <1>4, <1>5, <1>6, <1>7, LoopMoves

(* DrainsVideo: nothing drained was sent, so the stream on its way gets shorter. *)
LEMMA DrainsVideoStep == MediaInv /\ DrainsVideo => MediaInv'
<1> SUFFICES ASSUME MediaInv, DrainsVideo
             PROVE  MediaInv'
  OBVIOUS
<1>1. /\ loop.phase = "reconnecting" /\ cmds' = cmds /\ cap' = cap /\ seen' = seen
      /\ SeenType /\ LoopType /\ Commands(cmds)
  BY DEF DrainsVideo, MediaInv, TypeInv
<1>2. CASE video # <<>> /\ video' = Tail(video) /\ loop' = loop
  <2>1. SeenType' /\ LoopType'
    BY <1>1, <1>2, Behind DEF SeenType, LoopType, Settings
  <2>2. Sent' = <<>> /\ ~Closed
    BY <1>1, <1>2 DEF Sent, Closed
  <2>3. cap.at # "gone" => Turns(cmds', cap.cfg, loop'.params)
    BY <1>1, <1>2 DEF MediaInv, SettingsInv
  <2> QED
    BY <1>1, <1>2, <2>1, <2>2, <2>3, LoopMoves
<1>3. CASE video' = video /\ loop' = [loop EXCEPT !.videoAlive = FALSE]
  <2>1. DOMAIN loop' = DOMAIN loop /\ loop'.params = loop.params /\ loop'.phase = loop.phase
    BY <1>1, <1>3 DEF LoopType
  <2> QED
    BY <1>1, <1>3, <2>1, PhaseMoves
<1> QED
  BY <1>2, <1>3 DEF DrainsVideo

(* CastReturns: nothing is on its way any more. *)
LEMMA CastReturnsStep == MediaInv /\ CastReturns => MediaInv'
<1> SUFFICES ASSUME MediaInv, CastReturns
             PROVE  MediaInv'
  OBVIOUS
<1>1. /\ cmds' = cmds /\ cap' = cap /\ seen' = seen /\ video' = <<>>
      /\ loop' = [loop EXCEPT !.phase = "over"]
      /\ SeenType /\ LoopType /\ Commands(cmds)
  BY DEF CastReturns, MediaInv, TypeInv
<1>2. DOMAIN loop' = DOMAIN loop /\ loop'.params = loop.params /\ loop'.phase = "over"
  BY <1>1 DEF LoopType
<1>3. SeenType' /\ LoopType' /\ Closed'
  BY <1>1, <1>2, EmptySeq DEF SeenType, LoopType, Settings, Closed
<1>4. cap.at # "gone" => Turns(cmds', cap.cfg, loop'.params)
  BY <1>1, <1>2 DEF MediaInv, SettingsInv
<1> QED
  BY <1>1, <1>2, <1>3, <1>4, LoopMoves

(* A stream is announced: nothing of it was sent, and its settings are     *)
(* those of the cast.                                                      *)
LEMMA Announced ==
  ASSUME MediaInv, ~Closed, cap' = cap, video' = video,
         DOMAIN loop' = DOMAIN loop, Settings(loop'.params),
         loop'.phase \in {"casting", "panicked"},
         DOMAIN seen' = DOMAIN seen, seen'.told = Started(loop'.params),
         seen'.dropped = seen.dropped,
         Commands(cmds'), cap.at # "gone" => Turns(cmds', cap.cfg, loop'.params)
  PROVE  MediaInv'
<1>1. LoopType'
  BY DEF MediaInv, TypeInv, LoopType, Settings
<1>2. /\ DOMAIN seen'.told = {"size", "mode", "synced", "last"}
      /\ seen'.told.last = <<>> /\ seen'.told.synced = FALSE
      /\ seen'.told.size = loop'.params.size /\ seen'.told.mode = loop'.params.mode
  BY DEF Started
<1>3. SeenType'
  <2>1. SeenType /\ <<>> \in Seq(Frame) /\ Len(<<>>) <= 1
    BY EmptySeq DEF MediaInv, TypeInv
  <2>2. DOMAIN seen' = {"told", "troubleAt", "heavy", "dropped"} /\ video' \in Seq(Frame)
    BY <2>1 DEF SeenType
  <2>3. seen'.told.last \in Seq(Frame) /\ Len(seen'.told.last) <= 1
    BY <1>2, <2>1
  <2> QED
    BY <1>2, <2>2, <2>3 DEF SeenType
<1>4. Sent' = <<>>
  BY <1>2 DEF Sent
<1> QED
  BY <1>1, <1>2, <1>3, <1>4, LoopMoves

(* Reconnects: the stream is announced again with the settings of the cast. *)
LEMMA ReconnectsStep == MediaInv /\ Reconnects => MediaInv'
<1> SUFFICES ASSUME MediaInv, Reconnects
             PROVE  MediaInv'
  OBVIOUS
<1>1. /\ ~Closed /\ cap' = cap /\ video' = video /\ cmds' = Append(cmds, Cmd("Keyframe"))
      /\ loop' = [loop EXCEPT !.phase = "casting"]
      /\ seen' = [seen EXCEPT !.told = Started(loop.params)]
      /\ LoopType /\ SeenType
  BY DEF Reconnects, Closed, MediaInv, TypeInv
<1>2. /\ DOMAIN loop' = DOMAIN loop /\ loop'.params = loop.params /\ loop'.phase = "casting"
      /\ DOMAIN seen' = DOMAIN seen /\ seen'.told = Started(loop'.params)
      /\ seen'.dropped = seen.dropped
      /\ Settings(loop'.params)
  BY <1>1 DEF LoopType, SeenType
<1>3. Commands(cmds') /\ (cap.at # "gone" => Turns(cmds', cap.cfg, loop'.params))
  BY <1>1, <1>2, OneMore DEF MediaInv, TypeInv, SettingsInv
<1> QED
  BY <1>1, <1>2, <1>3, Announced

(* A new rate or a new size, ordered, or not when it is what it was.       *)
LEMMA OneOrder ==
  ASSUME NEW x, Command(x), NEW p, NEW w, Effect(x, p, w), NEW q,
         q = <<x>> \/ (q = <<>> /\ w.size = p.size /\ w.rate = p.rate /\ w.mode = p.mode)
  PROVE  Commands(q) /\ Turns(q, p, w)
<1>1. CASE q = <<x>>
  BY <1>1, Few, TurnsFew DEF Command
<1>2. CASE q = <<>> /\ w.size = p.size /\ w.rate = p.rate /\ w.mode = p.mode
  <2>1. Turns(<<>>, p, p)
    BY TurnsFew
  <2> QED
    BY <1>2, <2>1, Few DEF Turns
<1> QED
  BY <1>1, <1>2

(* For a rate. *)
LEMMA RateOrder ==
  ASSUME NEW p, NEW w, w.size = p.size, w.mode = p.mode, NEW q,
         q = <<BitrateCmd(w.rate)>> \/ (q = <<>> /\ w.rate = p.rate)
  PROVE  Commands(q) /\ Turns(q, p, w)
<1>1. Command(BitrateCmd(w.rate)) /\ Effect(BitrateCmd(w.rate), p, w)
  BY DEF BitrateCmd, Command, Effect
<1> QED
  BY <1>1, OneOrder

(* And for a size. *)
LEMMA SizeOrder ==
  ASSUME NEW p, NEW w, w.rate = p.rate, w.mode = p.mode, NEW q,
         q = <<ResolutionCmd(w.size)>> \/ (q = <<>> /\ w.size = p.size)
  PROVE  Commands(q) /\ Turns(q, p, w)
<1>1. Command(ResolutionCmd(w.size)) /\ Effect(ResolutionCmd(w.size), p, w)
  BY DEF ResolutionCmd, Command, Effect
<1> QED
  BY <1>1, OneOrder

(* Orders behind the commands there are. *)
LEMMA OrdersJoin ==
  ASSUME MediaInv, NEW q, Commands(q), NEW w, Turns(q, loop.params, w)
  PROVE  Commands(cmds \o q) /\ (cap.at # "gone" => Turns(cmds \o q, cap.cfg, w))
<1>1. Commands(cmds) /\ (cap.at # "gone" => Turns(cmds, cap.cfg, loop.params))
  BY DEF MediaInv, TypeInv, SettingsInv
<1> QED
  BY <1>1, Joined, TurnsJoin

(* StreamStarts: the size and the rate of the cast are ordered and announced. *)
LEMMA StreamStartsStep == MediaInv /\ StreamStarts => MediaInv'
<1> SUFFICES ASSUME MediaInv, StreamStarts
             PROVE  MediaInv'
  OBVIOUS
<1> DEFINE size == Chosen(Native, Caps)
           p == [size |-> size, rate |-> loop.ceiling \div 2, mode |-> loop.params.mode]
           b == IF size = Native THEN <<>> ELSE <<ResolutionCmd(size)>>
<1>1. /\ ~Closed /\ cap' = cap /\ video' = video /\ LoopType /\ SeenType /\ Commands(cmds)
      /\ loop.params.size = Native /\ Settings(loop.params)
      /\ cap.at # "gone" => Turns(cmds, cap.cfg, loop.params)
  BY DEF StreamStarts, Closed, MediaInv, TypeInv, SettingsInv, LoopType
<1>2. /\ loop' = [loop EXCEPT !.params = p,
                    !.phase = IF loop.ceiling < MinBitrate THEN "panicked" ELSE "casting",
                    !.ctl = NewController(loop.ceiling, p.rate, size, p.mode)]
      /\ cmds' = (cmds \o b) \o <<BitrateCmd(p.rate)>>
      /\ seen' = [seen EXCEPT !.told = Started(p)]
  BY DEF StreamStarts
<1>3. Settings(p) /\ p.mode = loop.params.mode /\ p.size = size
  BY DEF Settings
<1> HIDE DEF p
<1>4. b = IF p.size # loop.params.size THEN <<ResolutionCmd(p.size)>> ELSE <<>>
  BY <1>1, <1>3
<1> HIDE DEF b, size
<1>5. /\ DOMAIN loop' = DOMAIN loop /\ loop'.params = p /\ loop'.phase \in {"casting", "panicked"}
      /\ DOMAIN seen' = DOMAIN seen /\ seen'.told = Started(loop'.params)
      /\ seen'.dropped = seen.dropped
  BY <1>1, <1>2 DEF LoopType, SeenType
<1> DEFINE v == [loop.params EXCEPT !.size = p.size]
<1>6. v.size = p.size /\ v.rate = loop.params.rate /\ v.mode = loop.params.mode
  BY <1>1 DEF Settings
<1> HIDE DEF v
<1>7. Commands(b) /\ Turns(b, loop.params, v)
  BY <1>4, <1>6, SizeOrder
<1>8. Commands(<<BitrateCmd(p.rate)>>) /\ Turns(<<BitrateCmd(p.rate)>>, v, p)
  BY <1>3, <1>6, RateOrder
<1>9. Commands(cmds \o b) /\ (cap.at # "gone" => Turns(cmds \o b, cap.cfg, v))
  BY <1>7, OrdersJoin
<1>10. Commands(cmds') /\ (cap.at # "gone" => Turns(cmds', cap.cfg, loop'.params))
  <2> DEFINE q == cmds \o b
             r == <<BitrateCmd(p.rate)>>
  <2>1. cmds' = q \o r /\ loop'.params = p
    BY <1>2, <1>5
  <2>2. Commands(q) /\ Commands(r) /\ Turns(r, v, p) /\ (cap.at # "gone" => Turns(q, cap.cfg, v))
    BY <1>8, <1>9
  <2> HIDE DEF q, r
  <2>3. Commands(q \o r)
    BY <2>2, Joined
  <2>4. cap.at # "gone" => Turns(q \o r, cap.cfg, p)
    BY <2>2, TurnsJoin
  <2> QED
    BY <2>1, <2>3, <2>4
<1> QED
  BY <1>1, <1>3, <1>5, <1>10, Announced

(* UserSetsMode: the settings change with what the receiver is told, or    *)
(* the cast ends.                                                          *)
LEMMA UserSetsModeStep == MediaInv /\ UserSetsMode => MediaInv'
<1> SUFFICES ASSUME MediaInv, UserSetsMode
             PROVE  MediaInv'
  OBVIOUS
<1>1. PICK mode \in {Game, Quality} :
        \/ /\ loop' = Switched(loop, mode)
           /\ cmds' = Append(cmds, [type |-> "Mode", mode |-> mode])
           /\ seen' = [seen EXCEPT !.told.mode = mode]
        \/ /\ loop' = [Switched(loop, mode) EXCEPT !.phase = "ending"]
           /\ cmds' = cmds \o <<[type |-> "Mode", mode |-> mode], Cmd("Stop")>>
           /\ seen' = seen
  BY DEF UserSetsMode
<1>2. /\ loop.phase = "casting" /\ cap' = cap /\ video' = video /\ LoopType /\ SeenType
      /\ Commands(cmds) /\ Settings(loop.params)
      /\ cap.at # "gone" => Turns(cmds, cap.cfg, loop.params)
      /\ seen.told.size = loop.params.size
  BY DEF UserSetsMode, MediaInv, TypeInv, SettingsInv, LoopType
<1> DEFINE p == [loop.params EXCEPT !.mode = mode]
           x == [type |-> "Mode", mode |-> mode]
<1>3. Settings(p) /\ p.size = loop.params.size /\ p.rate = loop.params.rate /\ p.mode = mode
  BY <1>2 DEF Settings
<1>4. Switched(loop, mode) = [loop EXCEPT !.params = p, !.ctl = SetMode(@, mode)]
  BY DEF Switched
<1> HIDE DEF p
<1>5. Command(x) /\ Effect(x, loop.params, p)
  BY <1>3 DEF Command, Effect
<1> HIDE DEF x
<1>6. CASE /\ loop' = Switched(loop, mode)
           /\ cmds' = Append(cmds, x)
           /\ seen' = [seen EXCEPT !.told.mode = mode]
  <2>1. DOMAIN loop' = DOMAIN loop /\ loop'.params = p /\ loop'.phase = "casting"
    BY <1>2, <1>4, <1>6 DEF LoopType
  <2>2. /\ DOMAIN seen' = DOMAIN seen /\ DOMAIN seen'.told = DOMAIN seen.told
        /\ seen'.told.size = seen.told.size /\ seen'.told.mode = mode
        /\ seen'.told.last = seen.told.last /\ seen'.told.synced = seen.told.synced
        /\ seen'.dropped = seen.dropped
    BY <1>2, <1>6 DEF SeenType
  <2>3. LoopType' /\ SeenType'
    BY <1>2, <1>3, <2>1, <2>2 DEF LoopType, SeenType, Settings
  <2>4. Commands(cmds')
    BY <1>2, <1>5, <1>6, Appended
  <2>5. cap.at # "gone" => Turns(cmds', cap.cfg, loop'.params)
    BY <1>2, <1>5, <1>6, <2>1, TurnsAppend
  <2>6. Sent' = Sent
    BY <1>2, <2>1, <2>2 DEF Sent
  <2> QED
    BY <1>2, <1>3, <2>1, <2>2, <2>3, <2>4, <2>5, <2>6, LoopMoves DEF Closed
<1>7. CASE /\ loop' = [Switched(loop, mode) EXCEPT !.phase = "ending"]
           /\ cmds' = cmds \o <<x, Cmd("Stop")>>
           /\ seen' = seen
  <2>1. DOMAIN loop' = DOMAIN loop /\ loop'.params = p /\ loop'.phase = "ending"
    BY <1>2, <1>4, <1>7 DEF LoopType
  <2>2. LoopType' /\ SeenType'
    BY <1>2, <1>3, <1>7, <2>1 DEF LoopType, SeenType
  <2>3. Commands(<<x, Cmd("Stop")>>) /\ Turns(<<x, Cmd("Stop")>>, loop.params, p)
    <3>1. <<x, Cmd("Stop")>> = Append(<<x>>, Cmd("Stop"))
      OBVIOUS
    <3>2. Commands(<<x>>) /\ Turns(<<x>>, loop.params, p)
      BY <1>5, Few, TurnsFew DEF Command
    <3> QED
      BY <3>1, <3>2, OneMore
  <2>4. Commands(cmds') /\ (cap.at # "gone" => Turns(cmds', cap.cfg, loop'.params))
    BY <1>7, <2>1, <2>3, OrdersJoin
  <2>5. Sent' = <<>> /\ ~Closed
    BY <1>2, <2>1 DEF Sent, Closed
  <2> QED
    BY <1>2, <1>7, <2>1, <2>2, <2>4, <2>5, LoopMoves
<1> QED
  BY <1>1, <1>6, <1>7 DEF x

(* A Stats message: what the controller wants, whatever that is, goes to   *)
(* the encoder, and a new size to the receiver; or the cast ends.          *)
RateOrders(w) == IF w.rate # loop.params.rate THEN <<BitrateCmd(w.rate)>> ELSE <<>>
SizeOrders(w) == IF w.size # loop.params.size THEN <<ResolutionCmd(w.size)>> ELSE <<>>
Taken(c, w, t, h) ==
  /\ loop' = [loop EXCEPT !.ctl = c, !.params = w]
  /\ cmds' = cmds \o (RateOrders(w) \o SizeOrders(w))
  /\ seen' = [seen EXCEPT !.told = IF w.size # loop.params.size THEN Started(w) ELSE @,
                          !.troubleAt = t, !.heavy = h]
Refused(c, w) ==
  /\ loop' = [loop EXCEPT !.phase = "ending", !.ctl = c, !.params = w]
  /\ cmds' = cmds \o Append(RateOrders(w) \o SizeOrders(w), Cmd("Stop"))
  /\ seen' = seen

(* ReceiverReports, without how the controller decides. *)
LEMMA Reported ==
  ASSUME ReceiverReports
  PROVE  \E c, w, t, h : /\ w = loop.params \/ w = Followed(loop.params, c)
                         /\ Taken(c, w, t, h) \/ Refused(c, w)
<1>1. PICK r \in Reports, gap \in Gaps :
          LET now     == clock + gap
              c       == OnStats(loop.ctl, r, now)
              decides == c.bitrate # loop.ctl.bitrate \/ Size(c) # Size(loop.ctl)
              params  == IF decides THEN Followed(loop.params, c) ELSE loop.params
              resized == params.size # loop.params.size
              orders  == (IF params.rate # loop.params.rate THEN <<BitrateCmd(params.rate)>> ELSE <<>>)
                         \o (IF resized THEN <<ResolutionCmd(params.size)>> ELSE <<>>)
          IN  /\ clock' = now
              /\ \/ /\ loop' = [loop EXCEPT !.ctl = c, !.params = params]
                    /\ cmds' = cmds \o orders
                    /\ seen' = [seen EXCEPT
                          !.told = IF resized THEN Started(params) ELSE @,
                          !.troubleAt = IF Clean(r) THEN @ ELSE now,
                          !.heavy = IF loop.ctl.mode = Game /\ TooHeavy(loop.ctl, r, now) THEN @ + 1 ELSE @]
                    /\ left' = [left EXCEPT !.reports = @ - 1]
                    /\ UNCHANGED audio
                 \/ /\ resized /\ left.faults > 0
                    /\ loop' = [loop EXCEPT !.phase = "ending", !.ctl = c, !.params = params]
                    /\ cmds' = cmds \o Append(orders, Cmd("Stop"))
                    /\ audio' = [audio EXCEPT !.stop = TRUE]
                    /\ left' = [left EXCEPT !.reports = @ - 1, !.faults = @ - 1]
                    /\ UNCHANGED seen
  BY Zenon DEF ReceiverReports
<1> DEFINE c == OnStats(loop.ctl, r, clock + gap)
           w == IF c.bitrate # loop.ctl.bitrate \/ Size(c) # Size(loop.ctl)
                THEN Followed(loop.params, c) ELSE loop.params
           t == IF Clean(r) THEN seen.troubleAt ELSE clock + gap
           h == IF loop.ctl.mode = Game /\ TooHeavy(loop.ctl, r, clock + gap)
                THEN seen.heavy + 1 ELSE seen.heavy
<1>2. Taken(c, w, t, h) \/ Refused(c, w)
  BY <1>1, Zenon DEF Taken, Refused, RateOrders, SizeOrders
<1>3. w = loop.params \/ w = Followed(loop.params, c)
  OBVIOUS
<1> HIDE DEF c, w, t, h
<1> QED
  BY <1>2, <1>3

(* ReceiverReports: the encoder is ordered what the receiver is told. *)
LEMMA ReceiverReportsStep == MediaInv /\ ReceiverReports => MediaInv'
<1> SUFFICES ASSUME MediaInv, ReceiverReports
             PROVE  MediaInv'
  OBVIOUS
<1>1. PICK c, p, t, h : /\ p = loop.params \/ p = Followed(loop.params, c)
                        /\ Taken(c, p, t, h) \/ Refused(c, p)
  BY Reported
<1>2. /\ loop.phase = "casting" /\ cap' = cap /\ video' = video /\ LoopType /\ SeenType
      /\ Commands(cmds) /\ Settings(loop.params)
      /\ cap.at # "gone" => Turns(cmds, cap.cfg, loop.params)
      /\ seen.told.size = loop.params.size /\ seen.told.mode = loop.params.mode
  BY DEF ReceiverReports, MediaInv, TypeInv, SettingsInv, LoopType
<1>3. Settings(p) /\ p.mode = loop.params.mode
  BY <1>1, <1>2 DEF Settings, Followed
<1> DEFINE orders == RateOrders(p) \o SizeOrders(p)
<1>4. Commands(orders) /\ Turns(orders, loop.params, p)
  <2> DEFINE u == [loop.params EXCEPT !.rate = p.rate]
  <2>1. u.size = loop.params.size /\ u.rate = p.rate /\ u.mode = loop.params.mode
    BY <1>2 DEF Settings
  <2> HIDE DEF u
  <2>2. Commands(RateOrders(p)) /\ Turns(RateOrders(p), loop.params, u)
    BY <2>1, RateOrder DEF RateOrders
  <2>3. Commands(SizeOrders(p)) /\ Turns(SizeOrders(p), u, p)
    BY <1>3, <2>1, SizeOrder DEF SizeOrders
  <2> QED
    BY <2>2, <2>3, Joined, TurnsJoin
<1> HIDE DEF orders
<1>5. CASE Taken(c, p, t, h)
  <2>1. DOMAIN loop' = DOMAIN loop /\ loop'.params = p /\ loop'.phase = "casting"
    BY <1>2, <1>5 DEF LoopType, Taken
  <2>2. Commands(cmds') /\ (cap.at # "gone" => Turns(cmds', cap.cfg, loop'.params))
    BY <1>4, <1>5, <2>1, OrdersJoin DEF Taken, orders
  <2>3. /\ DOMAIN seen' = DOMAIN seen
        /\ seen'.told = IF p.size # loop.params.size THEN Started(p) ELSE seen.told
        /\ seen'.dropped = seen.dropped
    BY <1>2, <1>5 DEF SeenType, Taken
  <2>4. ~Closed
    BY <1>2 DEF Closed
  <2>5. CASE p.size # loop.params.size
    BY <1>2, <1>3, <2>1, <2>2, <2>3, <2>4, <2>5, Announced
  <2>6. CASE p.size = loop.params.size
    <3>1. seen'.told = seen.told
      BY <2>3, <2>6
    <3>2. LoopType' /\ SeenType' /\ Sent' = Sent
      BY <1>2, <1>3, <2>1, <2>3, <3>1 DEF LoopType, SeenType, Sent
    <3> QED
      BY <1>2, <1>3, <2>1, <2>2, <2>3, <2>4, <2>6, <3>1, <3>2, LoopMoves
  <2> QED
    BY <2>5, <2>6
<1>6. CASE Refused(c, p)
  <2>1. DOMAIN loop' = DOMAIN loop /\ loop'.params = p /\ loop'.phase = "ending"
    BY <1>2, <1>6 DEF LoopType, Refused
  <2>2. Commands(Append(orders, Cmd("Stop"))) /\ Turns(Append(orders, Cmd("Stop")), loop.params, p)
    BY <1>4, OneMore
  <2>3. Commands(cmds') /\ (cap.at # "gone" => Turns(cmds', cap.cfg, loop'.params))
    BY <1>6, <2>1, <2>2, OrdersJoin DEF Refused, orders
  <2>4. LoopType' /\ SeenType'
    BY <1>2, <1>3, <1>6, <2>1 DEF LoopType, SeenType, Refused
  <2>5. Sent' = <<>> /\ ~Closed /\ seen' = seen
    BY <1>2, <1>6, <2>1 DEF Sent, Closed, Refused
  <2> QED
    BY <1>2, <2>1, <2>3, <2>4, <2>5, LoopMoves
<1> QED
  BY <1>1, <1>5, <1>6
------------------------------------------------------------------------------
(* The results *)

(* Every step keeps the invariant. *)
LEMMA MediaStep == MediaInv /\ [Next]_vars => MediaInv'
<1> SUFFICES ASSUME MediaInv, [Next]_vars
             PROVE  MediaInv'
  OBVIOUS
<1>1. CASE CaptureNext
  BY <1>1, OpensStep, FailsToOpenStep, ObeysStep, EncoderLostStep, CapturesStep, CaptureSendsStep
     DEF CaptureNext
<1>2. CASE AudioNext
  BY <1>2, AudioStep
<1>3. CASE LoopNext
  BY <1>3, StreamStartsStep, GivingUpStep, SendsFrameStep, QuietStep, ReceiverReportsStep,
     UserSetsModeStep, DrainsVideoStep, ReconnectsStep, CastReturnsStep DEF LoopNext
<1>4. CASE UNCHANGED vars
  BY <1>4, PhaseMoves DEF vars
<1> QED
  BY <1>1, <1>2, <1>3, <1>4 DEF Next

(* No commands are left, so the settings are those of the cast. *)
LEMMA MediaAgrees == MediaInv => SettingsAgree
<1> SUFFICES ASSUME MediaInv, loop.phase = "casting", cap.at \in {"running", "sending"}, cmds = <<>>
             PROVE  /\ cap.enc.size = loop.params.size
                    /\ seen.told.size = loop.params.size /\ seen.told.mode = loop.params.mode
                    /\ cap.enc.kind # "plain" =>
                          cap.enc.rate = loop.params.rate /\ cap.enc.mode = loop.params.mode
  BY DEF SettingsAgree
<1>1. Turns(<<>>, cap.cfg, loop.params) /\ HasSettings(cap.enc, cap.cfg)
  BY DEF MediaInv, SettingsInv
<1>2. DOMAIN <<>> = {}
  OBVIOUS
<1>3. /\ cap.cfg.size = loop.params.size /\ cap.cfg.rate = loop.params.rate
      /\ cap.cfg.mode = loop.params.mode
  BY <1>1, <1>2 DEF Turns, Heads
<1> QED
  BY <1>1, <1>3 DEF HasSettings, MediaInv, SettingsInv

(* The encoder of a cast that has caught up with its commands is set as    *)
(* the parameters say and as the receiver was told (SettingsAgree), for    *)
(* any desktop, capabilities, reports and encoders.                        *)
THEOREM SettingsAlwaysAgree == Spec => []SettingsAgree
<1>1. Spec => []MediaInv
  BY Begins, MediaStep, PTL DEF Spec
<1> QED
  BY <1>1, MediaAgrees, PTL

(* An iteration of the capture thread adds nothing to the history but the  *)
(* frames a failed call lost.                                              *)
LEMMA CapturesHistory ==
  ASSUME MediaInv, Captures
  PROVE  seen'.told = seen.told /\ seen'.heavy = seen.heavy /\ seen'.troubleAt = seen.troubleAt
<1>1. PICK got \in NextFrame : CaptureReopens(got) \/ Encodes(got)
  BY DEF Captures
<1>2. DOMAIN seen = {"told", "troubleAt", "heavy", "dropped"}
  BY DEF MediaInv, TypeInv, SeenType
<1>3. seen' = seen \/ \E lost : seen' = [seen EXCEPT !.dropped = @ \union Names(lost)]
  <2>1. CASE CaptureReopens(got)
    BY <2>1 DEF CaptureReopens
  <2>2. CASE Encodes(got)
    <3>1. \E o \in Calls(cap.enc) : \E r \in {Encoded(cap.enc, o)} :
             seen' = [seen EXCEPT !.dropped = @ \union Names(r.lost)]
      BY <2>2, Zenon DEF Encodes
    <3> QED
      BY <3>1, Zenon
  <2> QED
    BY <1>1, <2>1, <2>2
<1> QED
  BY <1>2, <1>3

(* What is sent after the frame sent last on a stream can be decoded, or   *)
(* refers to a frame that was lost.                                        *)
LEMMA SendsDecodable ==
  MediaInv /\ [Next]_vars =>
    (seen.told.synced /\ seen'.told.synced /\ video # <<>> /\ seen'.told.last # seen.told.last
       => Decodable(Head(video)) \/ Orphan(Head(video)))
<1> SUFFICES ASSUME MediaInv, [Next]_vars, seen.told.synced, seen'.told.synced,
                    video # <<>>, seen'.told.last # seen.told.last
             PROVE  Decodable(Head(video)) \/ Orphan(Head(video))
  OBVIOUS
<1>1. /\ SeenType /\ video \in Seq(Frame) /\ seen.told.last # <<>>
  BY DEF MediaInv, TypeInv, SeenType
<1>2. SendsFrame
  <2>1. seen' # seen
    OBVIOUS
  <2>2. ASSUME NEW p, seen' = [seen EXCEPT !.told = Started(p)]
        PROVE  FALSE
    BY <1>1, <2>2 DEF SeenType, Started
  <2>3. ~StreamStarts /\ ~Reconnects
    BY <2>2 DEF StreamStarts, Reconnects
  <2>4. ~UserSetsMode
    BY <1>1 DEF UserSetsMode, SeenType
  <2>5. ~ReceiverReports
    <3> SUFFICES ASSUME ReceiverReports
                 PROVE  FALSE
      OBVIOUS
    <3>1. PICK c, p, t, h : Taken(c, p, t, h) \/ Refused(c, p)
      BY Reported
    <3>2. Taken(c, p, t, h)
      BY <2>1, <3>1 DEF Refused
    <3>3. seen'.told = seen.told \/ seen'.told = Started(p)
      BY <1>1, <3>2 DEF SeenType, Taken
    <3> QED
      BY <3>3 DEF Started
  <2>6. ~Captures
    BY CapturesHistory
  <2>7. \/ seen' = seen \/ StreamStarts \/ Reconnects \/ UserSetsMode \/ ReceiverReports
        \/ SendsFrame \/ Captures
    BY DEF Next, CaptureNext, AudioNext, LoopNext, vars, CaptureOpens, CaptureFailsToOpen,
           CaptureObeys, EncoderLost, CaptureSends, AudioSends, AudioStops, AudioFails,
           NoCapture, CaptureGone, SendsAudio, ReceiverWantsKeyframe, CastStops, LinkLost,
           DrainsVideo, DrainsAudio, ReconnectFails, CastReturns
  <2> QED
    BY <2>1, <2>3, <2>4, <2>5, <2>6, <2>7
<1>3. Sent = seen.told.last /\ Chain(Sent \o (video \o Coming), seen.dropped)
  BY <1>2 DEF SendsFrame, Sent, Closed, MediaInv, ChainInv
<1>4. Sent \in Seq(Frame) /\ Coming \in Seq(Frame)
  BY WayType DEF MediaInv
<1>5. Head(video) \in Frame /\ Tail(video) \in Seq(Frame) /\ <<Head(video)>> \in Seq(Frame)
      /\ <<Head(video)>> \o Tail(video) = video
  BY <1>1, Behind
<1>6. Chain(Sent \o <<Head(video)>>, seen.dropped)
  <2>1. video \o Coming \in Seq(Frame) /\ Tail(video) \o Coming \in Seq(Frame)
    BY <1>1, <1>4, <1>5, Behind
  <2>2. (<<Head(video)>> \o Tail(video)) \o Coming = <<Head(video)>> \o (Tail(video) \o Coming)
    BY <1>4, <1>5, Regroup, ZenonT(40)
  <2>3. Sent \o (<<Head(video)>> \o (Tail(video) \o Coming))
          = (Sent \o <<Head(video)>>) \o (Tail(video) \o Coming)
    BY <1>4, <1>5, <2>1, Regroup, ZenonT(40)
  <2>4. Chain((Sent \o <<Head(video)>>) \o (Tail(video) \o Coming), seen.dropped)
    BY <1>3, <1>5, <2>2, <2>3
  <2>5. Sent \o <<Head(video)>> \in Seq(Frame)
    BY <1>4, <1>5, Behind
  <2> QED
    BY <2>1, <2>4, <2>5, ChainHalves
<1>7. Follows(Sent[Len(Sent)], Head(video), seen.dropped)
  BY <1>1, <1>3, <1>4, <1>5, <1>6, ChainLinks
<1>8. Len(Sent) \in DOMAIN seen.told.last
  <2>1. Len(Sent) \in Nat \ {0} /\ DOMAIN Sent = 1 .. Len(Sent)
    BY <1>1, <1>3, <1>4, EmptySeq, LenProperties
  <2> QED
    BY <1>3, <2>1
<1> QED
  BY <1>3, <1>7, <1>8 DEF Follows, Decodable, Orphan

(* On an announced stream every frame sent after the first keyframe is a   *)
(* keyframe or refers to the frame sent before it (SentStreamDecodes),     *)
(* however many frames the encoders and the channel hold and whichever     *)
(* calls fail, but for the frame after one that a failed call lost.        *)
THEOREM SentStreamsDecode == Spec => SentStreamDecodes
<1>1. Spec => []MediaInv
  BY Begins, MediaStep, PTL DEF Spec
<1> QED
  BY <1>1, SendsDecodable, PTL DEF Spec, SentStreamDecodes
------------------------------------------------------------------------------
(* Earned steps up *)

(* The least of a set of naturals. *)
LEMMA Least ==
  ASSUME NEW T, T \subseteq Nat, T # {}
  PROVE  \E x \in T : \A y \in T : x <= y
<1> DEFINE R == OpToRel(<, Nat)
<1>1. IsWellFoundedOn(R, Nat)
  BY NatLessThanWellFounded
<1>2. \A y, x \in Nat : <<y, x>> \in R <=> y < x
  BY DEF OpToRel
<1> HIDE DEF R
<1>3. PICK x \in T : \A y \in T : <<y, x>> \notin R
  BY <1>1, WFMin
<1>4. \A y \in T : x \in Nat /\ y \in Nat /\ ~(y < x)
  BY <1>2, <1>3
<1>5. \A y \in T : x <= y
  BY <1>4
<1> QED
  BY <1>3, <1>5

(* The values of Doubled up to n, and those of any such function. *)
Doubling(r, n) == r[0] = CleanStepUp /\ \A i \in 1 .. n : r[i] = 2 * r[i - 1]

LEMMA DoublingExists ==
  ASSUME NEW n \in Nat
  PROVE  \E r : Doubling(r, n)
<1> DEFINE T == {m \in Nat : ~ \E r : Doubling(r, m)}
<1>1. SUFFICES ASSUME T # {} PROVE FALSE
  OBVIOUS
<1>2. PICK m \in T : \A y \in T : m <= y
  <2>1. T \subseteq Nat
    OBVIOUS
  <2> QED
    BY <1>1, <2>1, Least
<1>3. m \in Nat /\ ~ \E r : Doubling(r, m)
  OBVIOUS
<1>4. CASE m = 0
  <2> DEFINE r == [i \in {0} |-> CleanStepUp]
  <2>1. Doubling(r, 0)
    BY DEF Doubling
  <2> QED
    BY <1>3, <1>4, <2>1
<1>5. CASE m > 0
  <2>1. m - 1 \in Nat /\ ~(m <= m - 1)
    BY <1>3, <1>5
  <2>2. PICK q : Doubling(q, m - 1)
    BY <1>2, <2>1
  <2> DEFINE r == [i \in 0 .. m |-> IF i = m THEN 2 * q[m - 1] ELSE q[i]]
  <2>3. r[0] = CleanStepUp
    BY <1>3, <1>5, <2>2 DEF Doubling
  <2>4. ASSUME NEW i \in 1 .. m
        PROVE  r[i] = 2 * r[i - 1]
    <3>1. i \in 0 .. m /\ i - 1 \in 0 .. m /\ i - 1 # m
      BY <1>3, <2>4
    <3>2. r[i - 1] = q[i - 1]
      BY <3>1
    <3>3. CASE i = m
      BY <3>1, <3>2, <3>3
    <3>4. CASE i # m
      <4>1. i \in 1 .. m - 1
        BY <1>3, <3>4
      <4>2. q[i] = 2 * q[i - 1]
        BY <2>2, <4>1 DEF Doubling
      <4>3. r[i] = q[i]
        BY <3>1, <3>4
      <4> QED
        BY <3>2, <4>2, <4>3
    <3> QED
      BY <3>3, <3>4
  <2> HIDE DEF r
  <2>5. Doubling(r, m)
    BY <2>3, <2>4 DEF Doubling
  <2> QED
    BY <1>3, <2>5
<1> QED
  BY <1>3, <1>4, <1>5

(* Such functions agree as far as both go, and their values are numbers.   *)
LEMMA DoublingAgrees ==
  ASSUME NEW m \in Nat, NEW n \in Nat, m <= n, NEW q, NEW r, Doubling(q, m), Doubling(r, n)
  PROVE  q[m] = r[m] /\ r[m] \in Nat
<1> DEFINE T == {i \in 0 .. m : ~(q[i] = r[i] /\ r[i] \in Nat)}
<1>1. CASE T = {}
  <2>1. m \in 0 .. m
    OBVIOUS
  <2> QED
    BY <1>1, <2>1
<1>2. CASE T # {}
  <2>1. PICK i \in T : \A j \in T : i <= j
    <3>1. T \subseteq Nat
      OBVIOUS
    <3> QED
      BY <1>2, <3>1, Least
  <2>2. i \in 0 .. m /\ ~(q[i] = r[i] /\ r[i] \in Nat)
    OBVIOUS
  <2>3. i # 0
    BY <2>2, ControllerAssumption DEF Doubling
  <2>4. i \in 1 .. m /\ i \in 1 .. n /\ i - 1 \in 0 .. m /\ ~(i <= i - 1)
    BY <2>2, <2>3
  <2>5. q[i - 1] = r[i - 1] /\ r[i - 1] \in Nat
    BY <2>1, <2>4
  <2>6. q[i] = 2 * q[i - 1] /\ r[i] = 2 * r[i - 1]
    BY <2>4 DEF Doubling
  <2>7. q[i] = r[i] /\ r[i] \in Nat
    <3> DEFINE a == q[i - 1]
               b == r[i - 1]
    <3>1. q[i] = 2 * a /\ r[i] = 2 * b /\ a = b /\ b \in Nat
      BY <2>5, <2>6
    <3> HIDE DEF a, b
    <3> QED
      BY <3>1
  <2> QED
    BY <2>2, <2>7
<1> QED
  BY <1>1, <1>2

(* The recursive function Doubled is what its definition says.             *)
LEMMA DoubledSteps ==
  /\ Doubled[0] = CleanStepUp
  /\ \A n \in Nat : Doubled[n] \in Nat /\ Doubled[n + 1] = 2 * Doubled[n]
<1> DEFINE Upto(n) == CHOOSE r : Doubling(r, n)
           F == [n \in Nat |-> Upto(n)[n]]
           Body(f) == [n \in Nat |-> IF n = 0 THEN CleanStepUp ELSE 2 * f[n - 1]]
<1>1. ASSUME NEW n \in Nat
      PROVE  Doubling(Upto(n), n)
  BY DoublingExists
<1> HIDE DEF Upto
<1>2. \A n \in Nat : F[n] = Upto(n)[n]
  OBVIOUS
<1>3. ASSUME NEW n \in Nat
      PROVE  F[n] = IF n = 0 THEN CleanStepUp ELSE 2 * F[n - 1]
  <2>1. CASE n = 0
    BY <1>1, <1>2, <2>1 DEF Doubling
  <2>2. CASE n # 0
    <3>1. n - 1 \in Nat /\ n - 1 <= n /\ n \in 1 .. n
      BY <2>2
    <3>2. Upto(n)[n] = 2 * Upto(n)[n - 1]
      BY <1>1, <3>1 DEF Doubling
    <3>3. Upto(n - 1)[n - 1] = Upto(n)[n - 1]
      BY <1>1, <3>1, DoublingAgrees
    <3> QED
      BY <1>2, <2>2, <3>1, <3>2, <3>3
  <2> QED
    BY <2>1, <2>2
<1>4. F = Body(F)
  BY <1>3
<1> HIDE DEF F
<1>5. Doubled = Body(Doubled)
  BY <1>4 DEF Doubled
<1>6. Doubled[0] = CleanStepUp
  BY <1>5
<1>7. ASSUME NEW n \in Nat
      PROVE  Doubled[n + 1] = 2 * Doubled[n]
  <2>1. n + 1 \in Nat /\ n + 1 # 0 /\ (n + 1) - 1 = n
    OBVIOUS
  <2>2. Body(Doubled)[n + 1] = 2 * Doubled[(n + 1) - 1]
    BY <2>1
  <2> QED
    BY <1>5, <2>1, <2>2
<1>8. ASSUME NEW n \in Nat
      PROVE  Doubled[n] \in Nat
  <2>1. Doubling(Doubled, n)
    <3>1. ASSUME NEW i \in 1 .. n
          PROVE  Doubled[i] = 2 * Doubled[i - 1]
      <4>1. i - 1 \in Nat /\ (i - 1) + 1 = i
        OBVIOUS
      <4> QED
        BY <1>7, <4>1
    <3> QED
      BY <1>6, <3>1 DEF Doubling
  <2> QED
    BY <2>1, DoublingAgrees
<1> QED
  BY <1>6, <1>7, <1>8

(* Time does not go back, no time of the controller is ahead of it, clean  *)
(* time begins after the last trouble, and the wait has doubled as often   *)
(* as a rung was too heavy.                                                *)
Bounds(b) == DOMAIN b = {"frames", "sound", "reports", "commands", "faults"} /\ b.reports \in Int
LeftType == Bounds(left)
Times ==
  /\ clock \in Nat /\ seen.troubleAt \in Nat /\ seen.heavy \in Nat
  /\ seen.troubleAt <= clock
Waiting(c, trouble, heavy) ==
  /\ DOMAIN c = {"ceiling", "bitrate", "ladder", "rung", "mode", "lastCut", "cleanSince", "floorSince",
                 "lastRaise", "lastStepUp", "queueSince", "stepUpWait"}
  /\ c.rung \in Nat /\ c.lastStepUp \in Int
  /\ c.cleanSince = Never \/ (c.cleanSince \in Nat /\ trouble <= c.cleanSince)
  /\ c.stepUpWait = Atmost(Doubled[heavy], MaxStepUpWait)
WaitInv ==
  /\ LeftType /\ Times
  /\ loop.phase = "opening" => seen.heavy = 0 /\ seen.troubleAt = 0
  /\ loop.phase \in {"casting", "reconnecting"} => Waiting(loop.ctl, seen.troubleAt, seen.heavy)

(* What the lemmas use of the constants. *)
LEMMA Waits ==
  /\ CleanStepUp \in Nat /\ CleanStepUp > 0 /\ MaxStepUpWait \in Nat /\ CleanStepUp <= MaxStepUpWait
  /\ \A r \in Reports : r.depth \in Nat
  /\ \A gap \in Gaps : gap \in Nat
  BY ControllerAssumption, SenderAssumption

(* A controller as it starts. *)
LEMMA NewWaits ==
  ASSUME NEW ceiling, NEW initial, NEW native, NEW mode
  PROVE  Waiting(NewController(ceiling, initial, native, mode), 0, 0)
<1> DEFINE c == NewController(ceiling, initial, native, mode)
<1>1. c.stepUpWait = CleanStepUp /\ CleanStepUp = Atmost(Doubled[0], MaxStepUpWait)
  BY DoubledSteps, Waits DEF NewController, Atmost
<1> QED
  BY <1>1 DEF Waiting, NewController, Never

(* A wait that doubles, up to its limit. *)
LEMMA WaitDoubles ==
  ASSUME NEW h \in Nat
  PROVE  /\ Atmost(Doubled[h], MaxStepUpWait) \in Nat
         /\ Atmost(Atmost(Doubled[h], MaxStepUpWait) * 2, MaxStepUpWait)
               = Atmost(Doubled[h + 1], MaxStepUpWait)
<1>1. Doubled[h] \in Nat /\ Doubled[h + 1] = 2 * Doubled[h] /\ MaxStepUpWait \in Nat
  BY DoubledSteps, Waits
<1> QED
  BY <1>1 DEF Atmost

(* One report: a rung up is taken only after the wait since the trouble.   *)
LEMMA StatsWait ==
  ASSUME NEW c, NEW r \in Reports, NEW now \in Nat, NEW trouble \in Nat, NEW heavy \in Nat,
         trouble <= now, Waiting(c, trouble, heavy),
         NEW d, d = OnStats(c, r, now)
  PROVE  /\ Waiting(d, IF Clean(r) THEN trouble ELSE now,
                     IF c.mode = Game /\ TooHeavy(c, r, now) THEN heavy + 1 ELSE heavy)
         /\ d.rung < c.rung => Clean(r) /\ now - trouble >= Atmost(Doubled[heavy], MaxStepUpWait)
<1> DEFINE game   == c.mode = "game"
           cut    == CutRate(c, r, now)
           raises == Raises(c, r, cut, now)
           rate   == IF raises THEN Atmost(cut + (c.ceiling \div 20), c.ceiling) ELSE cut
           sunk   == game /\ TooHeavy(c, r, now)
           wait   == StepUpWait(c, sunk)
           down   == IF sunk THEN c.rung + 1 ELSE c.rung
           floor  == game /\ StuckAtFloor(c, rate, down, now)
           lower  == IF floor THEN down + 1 ELSE down
           up     == game /\ lower > 1 /\ Earned(c, r, wait, now)
           since  == CleanSince(c, r, now)
<1>1. /\ DOMAIN d = DOMAIN c
      /\ d.cleanSince = since /\ d.stepUpWait = wait
      /\ d.rung = (IF up THEN lower - 1 ELSE lower)
      /\ d.lastStepUp = (IF up THEN now ELSE c.lastStepUp)
  BY Zenon DEF OnStats, Waiting
<1>2. since = Never \/ (since \in Nat /\ (IF Clean(r) THEN trouble ELSE now) <= since)
  BY DEF CleanSince, Since, Waiting, Never
<1>3. /\ c.rung \in Nat /\ c.lastStepUp \in Int
      /\ c.stepUpWait = Atmost(Doubled[heavy], MaxStepUpWait)
  BY DEF Waiting
<1>4. wait = Atmost(Doubled[IF c.mode = Game /\ TooHeavy(c, r, now) THEN heavy + 1 ELSE heavy], MaxStepUpWait)
  <2> DEFINE w == Atmost(Doubled[heavy], MaxStepUpWait)
             v == Atmost(w * 2, MaxStepUpWait)
  <2>1. v = Atmost(Doubled[heavy + 1], MaxStepUpWait)
    BY WaitDoubles
  <2>2. wait = (IF sunk THEN v ELSE w)
    BY <1>3 DEF StepUpWait
  <2>3. sunk = (c.mode = Game /\ TooHeavy(c, r, now))
    BY DEF Game
  <2> HIDE DEF v, sunk, wait
  <2> QED
    BY <2>1, <2>2, <2>3
<1>5. sunk => ~Clean(r)
  BY Waits DEF TooHeavy, QueueHigh, Deep, Clean
<1>6. up => Clean(r) /\ since # Never /\ now - Atleast(c.lastStepUp, since) >= wait
  BY DEF Earned, CleanSince
<1> HIDE DEF sunk, floor, since, wait, up
<1>7. down \in Nat /\ lower \in Nat /\ lower >= c.rung
  BY <1>3
<1>8. up => lower > 1
  BY DEF up
<1> HIDE DEF down, lower
<1>9. d.rung \in Nat /\ d.lastStepUp \in Int /\ (d.rung < c.rung => up)
  BY <1>1, <1>3, <1>7, <1>8
<1>10. ASSUME up
       PROVE  now - trouble >= Atmost(Doubled[heavy], MaxStepUpWait)
  <2>1. wait = Atmost(Doubled[heavy], MaxStepUpWait)
    BY <1>3, <1>5, <1>6, <1>10 DEF wait, StepUpWait
  <2>2. since \in Nat /\ trouble <= since
    BY <1>2, <1>6, <1>10
  <2>3. Atmost(Doubled[heavy], MaxStepUpWait) \in Nat
    BY WaitDoubles
  <2> QED
    BY <1>3, <1>6, <1>10, <2>1, <2>2, <2>3 DEF Atleast
<1>11. Waiting(d, IF Clean(r) THEN trouble ELSE now,
               IF c.mode = Game /\ TooHeavy(c, r, now) THEN heavy + 1 ELSE heavy)
  BY <1>1, <1>2, <1>4, <1>9, Zenon DEF Waiting
<1> QED
  BY <1>6, <1>9, <1>10, <1>11

(* A step that leaves the controller, the time and the reports alone.      *)
Calm ==
  /\ LeftType' /\ left'.reports = left.reports
  /\ clock' = clock /\ seen'.heavy = seen.heavy /\ seen'.troubleAt = seen.troubleAt
  /\ loop'.ctl = loop.ctl
  /\ loop'.phase = "opening" => loop.phase = "opening"
  /\ loop'.phase \in {"casting", "reconnecting"} => loop.phase \in {"casting", "reconnecting"}

LEMMA CalmStep == WaitInv /\ Calm => WaitInv' /\ ~(left'.reports < left.reports)
<1>1. WaitInv /\ Calm => WaitInv'
  BY DEF WaitInv, Calm, Times
<1>2. WaitInv /\ Calm => ~(left'.reports < left.reports)
  BY DEF WaitInv, Calm, LeftType, Bounds
<1> QED
  BY <1>1, <1>2

(* What is left of the bounds other than that on reports.                  *)
LEMMA Spent ==
  ASSUME NEW b, Bounds(b), NEW e,
         \/ e = b
         \/ e = [b EXCEPT !.faults = @]
         \/ e = [b EXCEPT !.faults = @ - 1]
         \/ e = [b EXCEPT !.frames = @ - 1, !.faults = @]
         \/ e = [b EXCEPT !.frames = @ - 1, !.faults = @ - 1]
         \/ e = [b EXCEPT !.sound = @ - 1]
         \/ e = [b EXCEPT !.commands = @ - 1]
         \/ e = [b EXCEPT !.commands = @ - 1, !.faults = @ - 1]
  PROVE  Bounds(e) /\ e.reports = b.reports
<1>1. CASE e = b
  BY <1>1
<1>2. CASE e = [b EXCEPT !.faults = @]
  BY <1>2 DEF Bounds
<1>3. CASE e = [b EXCEPT !.faults = @ - 1]
  BY <1>3 DEF Bounds
<1>4. CASE e = [b EXCEPT !.frames = @ - 1, !.faults = @]
  BY <1>4 DEF Bounds
<1>5. CASE e = [b EXCEPT !.frames = @ - 1, !.faults = @ - 1]
  BY <1>5 DEF Bounds
<1>6. CASE e = [b EXCEPT !.sound = @ - 1]
  BY <1>6 DEF Bounds
<1>7. CASE e = [b EXCEPT !.commands = @ - 1]
  BY <1>7 DEF Bounds
<1>8. CASE e = [b EXCEPT !.commands = @ - 1, !.faults = @ - 1]
  BY <1>8 DEF Bounds
<1> QED
  BY <1>1, <1>2, <1>3, <1>4, <1>5, <1>6, <1>7, <1>8

LEMMA WaitBegins == Init => WaitInv
<1> SUFFICES ASSUME Init
             PROVE  WaitInv
  OBVIOUS
<1>1. LeftType
  <2>1. left \in Budgets
    BY Zenon DEF Init
  <2> QED
    BY <2>1, SenderAssumption DEF LeftType, Bounds
<1>2. clock = 0 /\ seen.heavy = 0 /\ seen.troubleAt = 0 /\ loop.phase = "opening"
  <2>1. seen = [told |-> Started([size |-> Native, mode |-> None]), troubleAt |-> 0, heavy |-> 0,
                 dropped |-> {}]
    BY Zenon DEF Init
  <2>2. PICK ceiling, params, ctl :
          loop = [phase |-> "opening", ceiling |-> ceiling, params |-> params, ctl |-> ctl,
                  audioAlive |-> TRUE, videoAlive |-> TRUE]
    BY Zenon DEF Init
  <2>3. clock = 0
    BY Zenon DEF Init
  <2> QED
    BY <2>1, <2>2, <2>3
<1> QED
  BY <1>1, <1>2 DEF WaitInv, Times

(* The threads. *)
LEMMA ThreadsCalm == MediaInv /\ WaitInv /\ (CaptureNext \/ AudioNext) => Calm
<1> SUFFICES ASSUME MediaInv, WaitInv, CaptureNext \/ AudioNext
             PROVE  Calm
  OBVIOUS
<1>1. loop' = loop /\ seen'.heavy = seen.heavy /\ seen'.troubleAt = seen.troubleAt /\ clock' = clock
  <2>1. CASE CaptureNext
    <3>1. CASE Captures
      BY <3>1, CapturesHistory DEF Captures
    <3>2. CASE ~Captures
      BY <2>1, <3>2 DEF CaptureNext, CaptureOpens, CaptureFailsToOpen, CaptureObeys, EncoderLost,
                        CaptureSends
    <3> QED
      BY <3>1, <3>2
  <2>2. CASE AudioNext
    BY <2>2 DEF AudioNext, AudioSends, AudioStops, AudioFails
  <2> QED
    BY <2>1, <2>2
<1>2. \/ left' = left
      \/ left' = [left EXCEPT !.faults = @ - 1]
      \/ left' = [left EXCEPT !.frames = @ - 1, !.faults = @]
      \/ left' = [left EXCEPT !.frames = @ - 1, !.faults = @ - 1]
      \/ left' = [left EXCEPT !.sound = @ - 1]
  <2>1. CASE CaptureNext
    BY <2>1, Zenon DEF CaptureNext, CaptureOpens, CaptureFailsToOpen, CaptureObeys, EncoderLost, Captures,
                CaptureReopens, Encodes, CaptureSends
  <2>2. CASE AudioNext
    BY <2>2 DEF AudioNext, AudioSends, AudioStops, AudioFails
  <2> QED
    BY <2>1, <2>2
<1>3. LeftType' /\ left'.reports = left.reports
  BY <1>2, Spent DEF WaitInv, LeftType
<1> QED
  BY <1>1, <1>3 DEF Calm

(* The loop, except where it starts a stream, is told a mode or hears a    *)
(* report.                                                                 *)
LEMMA LoopCalm ==
  MediaInv /\ WaitInv /\ LoopNext /\ ~StreamStarts /\ ~ReceiverReports /\ ~UserSetsMode => Calm
<1> SUFFICES ASSUME MediaInv, WaitInv, LoopNext, ~StreamStarts, ~ReceiverReports, ~UserSetsMode
             PROVE  Calm
  OBVIOUS
<1>1. LoopType /\ SeenType
  BY DEF MediaInv, TypeInv
<1>2. clock' = clock
  BY DEF LoopNext, NoCapture, SendsFrame, CaptureGone, SendsAudio, ReceiverWantsKeyframe, CastStops,
         LinkLost, DrainsVideo, DrainsAudio, Reconnects, ReconnectFails, CastReturns
<1>3. \/ left' = left
      \/ left' = [left EXCEPT !.faults = @ - 1]
      \/ left' = [left EXCEPT !.faults = @]
      \/ left' = [left EXCEPT !.commands = @ - 1]
  BY Zenon DEF LoopNext, NoCapture, SendsFrame, CaptureGone, SendsAudio, ReceiverWantsKeyframe, CastStops,
         LinkLost, DrainsVideo, DrainsAudio, Reconnects, ReconnectFails, CastReturns
<1>4. LeftType' /\ left'.reports = left.reports
  BY <1>3, Spent DEF WaitInv, LeftType
<1>5. \/ seen' = seen
      \/ seen' = [seen EXCEPT !.told.last = <<Head(video)>>, !.told.synced = @ \/ Head(video).key]
      \/ seen' = [seen EXCEPT !.told = Started(loop.params)]
  BY Zenon DEF LoopNext, NoCapture, SendsFrame, CaptureGone, SendsAudio, ReceiverWantsKeyframe, CastStops,
         LinkLost, DrainsVideo, DrainsAudio, Reconnects, ReconnectFails, CastReturns
<1>6. seen'.heavy = seen.heavy /\ seen'.troubleAt = seen.troubleAt
  BY <1>1, <1>5 DEF SeenType
<1>7. \/ loop' = loop
      \/ loop' = [loop EXCEPT !.phase = "ending"]
      \/ loop' = [loop EXCEPT !.audioAlive = FALSE]
      \/ loop' = [loop EXCEPT !.videoAlive = FALSE]
      \/ loop.phase = "casting" /\ loop' = [loop EXCEPT !.phase = "reconnecting", !.videoAlive = TRUE]
      \/ loop.phase = "reconnecting" /\ loop' = [loop EXCEPT !.phase = "casting"]
      \/ loop' = [loop EXCEPT !.phase = "over"]
  BY Zenon DEF LoopNext, NoCapture, SendsFrame, CaptureGone, SendsAudio, ReceiverWantsKeyframe, CastStops,
         LinkLost, DrainsVideo, DrainsAudio, Reconnects, ReconnectFails, CastReturns, GivesUp
<1>8. /\ loop'.ctl = loop.ctl
      /\ loop'.phase = "opening" => loop.phase = "opening"
      /\ loop'.phase \in {"casting", "reconnecting"} => loop.phase \in {"casting", "reconnecting"}
  BY <1>1, <1>7 DEF LoopType
<1> QED
  BY <1>2, <1>4, <1>6, <1>8 DEF Calm

LEMMA StreamStartsWaits == MediaInv /\ WaitInv /\ StreamStarts => WaitInv' /\ left' = left
<1> SUFFICES ASSUME MediaInv, WaitInv, StreamStarts
             PROVE  WaitInv' /\ left' = left
  OBVIOUS
<1>1. LoopType /\ SeenType
  BY DEF MediaInv, TypeInv
<1>2. PICK size, params :
        /\ loop' = [loop EXCEPT
             !.params = params,
             !.phase = IF loop.ceiling < MinBitrate THEN "panicked" ELSE "casting",
             !.ctl = NewController(loop.ceiling, params.rate, size, params.mode)]
        /\ seen' = [seen EXCEPT !.told = Started(params)]
  BY Zenon DEF StreamStarts
<1>3. left' = left /\ clock' = clock /\ loop.phase = "opening"
  BY DEF StreamStarts
<1>4. /\ seen'.heavy = seen.heavy /\ seen'.troubleAt = seen.troubleAt
      /\ loop'.ctl = NewController(loop.ceiling, params.rate, size, params.mode)
      /\ loop'.phase # "opening"
  BY <1>1, <1>2 DEF LoopType, SeenType
<1>5. seen.heavy = 0 /\ seen.troubleAt = 0 /\ LeftType /\ Times
  BY <1>3 DEF WaitInv
<1>6. Waiting(loop'.ctl, seen'.troubleAt, seen'.heavy)
  BY <1>4, <1>5, NewWaits
<1> QED
  BY <1>3, <1>4, <1>5, <1>6 DEF WaitInv, Times, LeftType

LEMMA UserSetsModeWaits ==
  MediaInv /\ WaitInv /\ UserSetsMode => WaitInv' /\ ~(left'.reports < left.reports)
<1> SUFFICES ASSUME MediaInv, WaitInv, UserSetsMode
             PROVE  WaitInv' /\ ~(left'.reports < left.reports)
  OBVIOUS
<1>1. LoopType /\ SeenType
  BY DEF MediaInv, TypeInv
<1>2. PICK mode \in {Game, Quality} :
        /\ \/ loop' = Switched(loop, mode) /\ seen' = [seen EXCEPT !.told.mode = mode]
           \/ loop' = [Switched(loop, mode) EXCEPT !.phase = "ending"] /\ seen' = seen
        /\ \/ left' = [left EXCEPT !.commands = @ - 1]
           \/ left' = [left EXCEPT !.commands = @ - 1, !.faults = @ - 1]
  BY Zenon DEF UserSetsMode
<1>3. clock' = clock /\ loop.phase = "casting"
  BY DEF UserSetsMode
<1>4. LeftType' /\ ~(left'.reports < left.reports)
  <2>1. Bounds(left) /\ Bounds(left') /\ left'.reports = left.reports
    BY <1>2, Spent DEF WaitInv, LeftType
  <2> QED
    BY <2>1 DEF LeftType, Bounds
<1>5. /\ seen'.heavy = seen.heavy /\ seen'.troubleAt = seen.troubleAt
      /\ loop'.ctl = SetMode(loop.ctl, mode) /\ loop'.phase # "opening"
  BY <1>1, <1>2, <1>3 DEF LoopType, SeenType, Switched
<1>6. Waiting(SetMode(loop.ctl, mode), seen.troubleAt, seen.heavy)
  BY <1>3 DEF WaitInv, Waiting, SetMode
<1> QED
  BY <1>3, <1>4, <1>5, <1>6 DEF WaitInv, Times

(* A report, taken or not: the controller is that of OnStats.              *)
LEMMA ReportWaits ==
  ASSUME MediaInv, WaitInv, ReceiverReports
  PROVE  /\ WaitInv'
         /\ loop'.ctl.rung < loop.ctl.rung
              => clock' - seen'.troubleAt >= Atmost(Doubled[seen.heavy], MaxStepUpWait)
<1>1. LoopType /\ SeenType /\ LeftType /\ Times /\ loop.phase = "casting"
      /\ Waiting(loop.ctl, seen.troubleAt, seen.heavy)
  BY DEF MediaInv, TypeInv, WaitInv, ReceiverReports
<1>2. PICK r \in Reports, gap \in Gaps :
          LET now     == clock + gap
              c       == OnStats(loop.ctl, r, now)
              decides == c.bitrate # loop.ctl.bitrate \/ Size(c) # Size(loop.ctl)
              params  == IF decides THEN Followed(loop.params, c) ELSE loop.params
              resized == params.size # loop.params.size
              orders  == (IF params.rate # loop.params.rate THEN <<BitrateCmd(params.rate)>> ELSE <<>>)
                         \o (IF resized THEN <<ResolutionCmd(params.size)>> ELSE <<>>)
          IN  /\ clock' = now
              /\ \/ /\ loop' = [loop EXCEPT !.ctl = c, !.params = params]
                    /\ cmds' = cmds \o orders
                    /\ seen' = [seen EXCEPT
                          !.told = IF resized THEN Started(params) ELSE @,
                          !.troubleAt = IF Clean(r) THEN @ ELSE now,
                          !.heavy = IF loop.ctl.mode = Game /\ TooHeavy(loop.ctl, r, now) THEN @ + 1 ELSE @]
                    /\ left' = [left EXCEPT !.reports = @ - 1]
                    /\ UNCHANGED audio
                 \/ /\ resized /\ left.faults > 0
                    /\ loop' = [loop EXCEPT !.phase = "ending", !.ctl = c, !.params = params]
                    /\ cmds' = cmds \o Append(orders, Cmd("Stop"))
                    /\ audio' = [audio EXCEPT !.stop = TRUE]
                    /\ left' = [left EXCEPT !.reports = @ - 1, !.faults = @ - 1]
                    /\ UNCHANGED seen
  BY Zenon DEF ReceiverReports
<1> DEFINE c == OnStats(loop.ctl, r, clock + gap)
           params == IF c.bitrate # loop.ctl.bitrate \/ Size(c) # Size(loop.ctl)
                     THEN Followed(loop.params, c) ELSE loop.params
           told == IF params.size # loop.params.size THEN Started(params) ELSE seen.told
           trouble == IF Clean(r) THEN seen.troubleAt ELSE clock + gap
           heavy   == IF loop.ctl.mode = Game /\ TooHeavy(loop.ctl, r, clock + gap)
                      THEN seen.heavy + 1 ELSE seen.heavy
<1>3. /\ clock' = clock + gap
       /\ \/ /\ loop' = [loop EXCEPT !.ctl = c, !.params = params]
             /\ seen' = [seen EXCEPT !.told = told, !.troubleAt = trouble, !.heavy = heavy]
             /\ left' = [left EXCEPT !.reports = @ - 1]
          \/ /\ loop' = [loop EXCEPT !.phase = "ending", !.ctl = c, !.params = params]
             /\ seen' = seen
             /\ left' = [left EXCEPT !.reports = @ - 1, !.faults = @ - 1]
  BY <1>2, Zenon
<1> HIDE DEF params, told
<1>4. clock + gap \in Nat /\ clock <= clock + gap /\ seen.troubleAt \in Nat /\ seen.heavy \in Nat
       /\ seen.troubleAt <= clock + gap
  BY <1>1, Waits DEF Times
<1>5. /\ Waiting(c, trouble, heavy)
      /\ c.rung < loop.ctl.rung =>
           Clean(r) /\ (clock + gap) - seen.troubleAt >= Atmost(Doubled[seen.heavy], MaxStepUpWait)
  BY <1>1, <1>4, StatsWait
<1>6. trouble \in Nat /\ heavy \in Nat /\ trouble <= clock + gap
      /\ (Clean(r) => trouble = seen.troubleAt)
  BY <1>4
<1> HIDE DEF c, trouble, heavy
<1>7. LeftType'
  <2>1. CASE left' = [left EXCEPT !.reports = @ - 1]
    BY <1>1, <2>1 DEF LeftType, Bounds
  <2>2. CASE left' = [left EXCEPT !.reports = @ - 1, !.faults = @ - 1]
    BY <1>1, <2>2 DEF LeftType, Bounds
  <2> QED
    BY <1>3, <2>1, <2>2
<1>8. /\ loop'.ctl = c /\ loop'.phase \in {"casting", "ending"}
      /\ seen'.troubleAt \in {trouble, seen.troubleAt} /\ seen'.heavy \in {heavy, seen.heavy}
      /\ loop'.phase = "casting" => seen'.troubleAt = trouble /\ seen'.heavy = heavy
  <2>1. CASE loop' = [loop EXCEPT !.phase = "ending", !.ctl = c, !.params = params] /\ seen' = seen
    BY <1>1, <2>1 DEF LoopType
  <2>2. CASE /\ loop' = [loop EXCEPT !.ctl = c, !.params = params]
             /\ seen' = [seen EXCEPT !.told = told, !.troubleAt = trouble, !.heavy = heavy]
    BY <1>1, <2>2 DEF LoopType, SeenType
  <2> QED
    BY <1>3, <2>1, <2>2
<1>9. Times'
  BY <1>8, <1>6, <1>3, <1>4 DEF Times
<1>10. WaitInv'
  BY <1>7, <1>5, <1>8, <1>9 DEF WaitInv
<1>11. ASSUME loop'.ctl.rung < loop.ctl.rung
       PROVE  clock' - seen'.troubleAt >= Atmost(Doubled[seen.heavy], MaxStepUpWait)
  <2>1. seen'.troubleAt = seen.troubleAt
    BY <1>5, <1>8, <1>6, <1>11
  <2> QED
    BY <1>5, <1>8, <1>11, <1>3, <2>1
<1> QED
  BY <1>10, <1>11

(* The resolution goes up only after a clean time that doubles with every  *)
(* report that showed a rung too heavy (StepUpIsEarned), for any reports   *)
(* at any times, any limits and any changes of mode: the wait the          *)
(* controller keeps is the one the history calls for (Waiting).            *)
THEOREM StepsUpAreEarned == Spec => StepUpIsEarned
<1> DEFINE Inv == MediaInv /\ WaitInv
           Step == loop.phase = "casting" /\ left'.reports < left.reports /\ loop'.ctl.rung < loop.ctl.rung
                     => clock' - seen'.troubleAt >= Atmost(Doubled[seen.heavy], MaxStepUpWait)
<1>1. Init => Inv
  BY Begins, WaitBegins
<1>2. Inv /\ [Next]_vars => WaitInv' /\ Step
  <2> SUFFICES ASSUME Inv, [Next]_vars
               PROVE  WaitInv' /\ Step
    OBVIOUS
  <2>1. CASE CaptureNext \/ AudioNext
    BY <2>1, ThreadsCalm, CalmStep
  <2>2. CASE LoopNext /\ ~StreamStarts /\ ~ReceiverReports /\ ~UserSetsMode
    BY <2>2, LoopCalm, CalmStep
  <2>3. CASE StreamStarts
    <3>1. WaitInv' /\ loop.phase = "opening"
      BY <2>3, StreamStartsWaits DEF StreamStarts
    <3> QED
      BY <3>1
  <2>4. CASE UserSetsMode
    BY <2>4, UserSetsModeWaits
  <2>5. CASE ReceiverReports
    BY <2>5, ReportWaits
  <2>6. CASE UNCHANGED vars
    <3>1. Calm
      BY <2>6 DEF vars, Calm, WaitInv, LeftType
    <3> QED
      BY <3>1, CalmStep
  <2> QED
    BY <2>1, <2>2, <2>3, <2>4, <2>5, <2>6 DEF Next
<1>3. Inv /\ [Next]_vars => Inv'
  BY <1>2, MediaStep
<1>4. Inv /\ [Next]_vars => [Step]_vars
  BY <1>2
<1>5. Spec => [][Step]_vars
  BY <1>1, <1>3, <1>4, PTL DEF Spec
<1> QED
  BY <1>5 DEF StepUpIsEarned
=============================================================================
