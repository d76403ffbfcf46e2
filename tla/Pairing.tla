------------------------------ MODULE Pairing ------------------------------
(***************************************************************************)
(* PIN pairing of castr senders with one receiver: the QUIC accept loop    *)
(* (castr-net/src/transport.rs, castr-receiver/src/pipeline.rs), the       *)
(* SPAKE2 exchange (castr-net/src/pairing.rs), the attempt limiter, the    *)
(* sender's pair_interactive (castr-sender/src/cast.rs) and the files both *)
(* ends keep (castr-net/src/identity.rs).                                  *)
(*                                                                         *)
(* SPAKE2 and HMAC are ideal: a proof carries the PIN, the role and the    *)
(* fingerprint it was made from, and verifies exactly when they agree.     *)
(* A sender's fingerprint is the sender; the receiver's is a number.       *)
(***************************************************************************)
EXTENDS Integers, Sequences, FiniteSets

CONSTANTS
    Senders,             \* senders, each with its own identity
    Pins,                \* the PINs a receiver may draw and a user may type
    PairingMaxFailures,  \* PAIRING_MAX_FAILURES
    PairingWindow,       \* PAIRING_WINDOW, in ticks
    PairingLockout,      \* PAIRING_LOCKOUT, in ticks
    MaxTime,             \* bound on the clock
    MaxAttempts,         \* bound on the connections of all senders
    MaxFaults            \* bound on crashes, lost links and failed writes

ASSUME PairingAssumption ==
    /\ PairingMaxFailures \in Nat \ {0}
    /\ PairingWindow \in Nat \ {0}
    /\ PairingLockout \in Nat \ {0}
    /\ MaxTime \in Nat /\ MaxAttempts \in Nat /\ MaxFaults \in Nat

VARIABLES
    rx,       \* the receiver process: where its serial loop is, its memory
    disk,     \* the receiver's files
    tx,       \* each sender: where it is, its PIN, whom it has stored
    link,     \* each sender's control stream
    clock,    \* Instant::now()
    left,     \* what the bounds leave: attempts and faults
    entitled  \* history: who typed the PIN on screen

vars == <<rx, disk, tx, link, clock, left, entitled>>

None == "none"

------------------------------------------------------------------------------
(* Messages of ControlMessage that pairing uses *)

Msg(t) == [type |-> t]

Proof(pin, role, fp) == [type |-> "PairProof", pin |-> pin, role |-> role, fp |-> fp]

\* Mutant: the keys are not compared
VerifiesRole(msg, pin, role, fp) ==
    msg.type = "PairProof" /\ msg.role = role /\ msg.fp = fp

Verifies(msg, pin, role, fp) == msg = Proof(pin, role, fp)

NoLink == [open |-> FALSE, up |-> <<>>, down |-> <<>>]

\* A link that is closed, by either end or by the network; what an end has not
\* read by then it may still read, and what the closing end had not is gone
Closed(l) == [l EXCEPT !.open = FALSE]

LeftByReceiver(l) == [Closed(l) EXCEPT !.up = <<>>]

LeftBySender(l) == [Closed(l) EXCEPT !.down = <<>>]

\* An end reads the next message of the other
ReadByReceiver(l) == [l EXCEPT !.up = Tail(@)]

ReadBySender(l) == [l EXCEPT !.down = Tail(@)]

ToReceiver(l, m) == IF l.open THEN [l EXCEPT !.up = Append(@, m)] ELSE l

ToSender(l, m) == IF l.open THEN [l EXCEPT !.down = Append(@, m)] ELSE l

------------------------------------------------------------------------------
(* PairingGuard *)

NewGuard == [failures |-> <<>>, lockedUntil |-> 0]

IsLocked(g, now) == now < g.lockedUntil

RecentFailures(g, now) == SelectSeq(g.failures, LAMBDA t : now - t <= PairingWindow)

RecordFailure(g, now) ==
    LET failures == Append(RecentFailures(g, now), now)
    IN IF Len(failures) >= PairingMaxFailures
       THEN [failures |-> <<>>, lockedUntil |-> now + PairingLockout]
       ELSE [g EXCEPT !.failures = failures]

------------------------------------------------------------------------------
(* Start of the receiver: identity and store are read, or the identity made *)

Down == [at |-> "down", peer |-> None, pin |-> None, store |-> {}, guard |-> NewGuard]

Init ==
    /\ rx = Down
    /\ disk = [cert |-> 0, key |-> 0, paired |-> {}, made |-> 0]
    /\ tx = [s \in Senders |-> [at |-> "idle", casting |-> FALSE, target |-> 0, pin |-> None, knows |-> 0]]
    /\ link = [s \in Senders |-> NoLink]
    /\ clock = 0
    /\ left = [attempts |-> MaxAttempts, faults |-> MaxFaults]
    /\ entitled = {}

\* Identity::load_or_create finds both files; PairedStore::load
Load ==
    /\ rx.at = "down" /\ disk.cert # 0 /\ disk.key # 0
    /\ rx' = [Down EXCEPT !.at = "accept", !.store = disk.paired]
    /\ UNCHANGED <<disk, tx, link, clock, left, entitled>>

\* ... or makes a new pair of files: the certificate first
WriteCert ==
    /\ rx.at = "down" /\ ~(disk.cert # 0 /\ disk.key # 0)
    /\ rx' = [rx EXCEPT !.at = "write key"]
    /\ disk' = [disk EXCEPT !.cert = disk.made + 1, !.made = disk.made + 1]
    /\ UNCHANGED <<tx, link, clock, left, entitled>>

WriteKey ==
    /\ rx.at = "write key"
    /\ rx' = [Down EXCEPT !.at = "accept", !.store = disk.paired]
    /\ disk' = [disk EXCEPT !.key = disk.cert]
    /\ UNCHANGED <<tx, link, clock, left, entitled>>

------------------------------------------------------------------------------
(* The receiver's connection handler *)

\* The handler returns: the link is dropped, the serial loop accepts again
Leave(guard) ==
    rx' = [rx EXCEPT !.at = "accept", !.peer = None, !.pin = None, !.guard = guard]

\* FpVerifier::check: the receiver accepts any certificate, a sender only the
\* one whose fingerprint it found by discovery
Trusted(s) == tx[s].target = disk.cert

Accept(s) ==
    /\ rx.at = "accept" /\ tx[s].at = "connecting" /\ Trusted(s)
    /\ rx' = [rx EXCEPT !.at = "hello", !.peer = s]
    /\ tx' = [tx EXCEPT ![s].at = "hello"]
    /\ link' = [link EXCEPT ![s] = [NoLink EXCEPT !.open = TRUE, !.up = <<Msg("Hello")>>]]
    /\ UNCHANGED <<disk, clock, left, entitled>>

\* The receiver has read m from its peer and moves on to `at`, sending reply
Answer(m, at, reply) ==
    /\ rx.peer # None /\ link[rx.peer].up # <<>> /\ m = Head(link[rx.peer].up)
    /\ rx' = [rx EXCEPT !.at = at]
    /\ link' = [link EXCEPT ![rx.peer] = ToSender(ReadByReceiver(@), reply)]

GreetPaired ==
    /\ rx.at = "hello" /\ rx.peer \in rx.store
    /\ Answer(Msg("Hello"), "serve", Msg("HelloAck"))
    /\ UNCHANGED <<disk, tx, clock, left, entitled>>

GreetLocked ==
    /\ rx.at = "hello" /\ rx.peer \notin rx.store /\ IsLocked(rx.guard, clock)
    /\ link[rx.peer].up # <<>> /\ Head(link[rx.peer].up) = Msg("Hello")
    /\ link' = [link EXCEPT ![rx.peer] = LeftByReceiver(ToSender(@, Msg("Error4")))]
    /\ Leave(rx.guard)
    /\ UNCHANGED <<disk, tx, clock, left, entitled>>

\* Error 4 (pairing required), a new PIN on the screen, pair_as_receiver
GreetUnpaired ==
    /\ rx.at = "hello" /\ rx.peer \notin rx.store /\ ~IsLocked(rx.guard, clock)
    /\ link[rx.peer].up # <<>> /\ Head(link[rx.peer].up) = Msg("Hello")
    /\ \E pin \in Pins : rx' = [rx EXCEPT !.at = "init", !.pin = pin]
    /\ link' = [link EXCEPT ![rx.peer] = ToSender(ReadByReceiver(@), Msg("Error4"))]
    /\ UNCHANGED <<disk, tx, clock, left, entitled>>

\* After pairing the loop goes on reading; what is not a Hello is ignored
Ignore ==
    /\ rx.at = "hello" /\ link[rx.peer].up # <<>> /\ Head(link[rx.peer].up) # Msg("Hello")
    /\ link' = [link EXCEPT ![rx.peer] = ReadByReceiver(@)]
    /\ UNCHANGED <<rx, disk, tx, clock, left, entitled>>

PairResp ==
    /\ rx.at = "init"
    /\ Answer(Msg("PairInit"), "proof", Msg("PairResp"))
    /\ UNCHANGED <<disk, tx, clock, left, entitled>>

ProofAccepted ==
    /\ rx.at = "proof"
    /\ \E m \in {Proof(p, "sender", rx.peer) : p \in Pins} :
        /\ Verifies(m, rx.pin, "sender", rx.peer)
        /\ Answer(m, "ok", Proof(rx.pin, "receiver", disk.cert))
    /\ UNCHANGED <<disk, tx, clock, left, entitled>>

\* Any Err of pair_as_receiver: a wrong proof is answered with Error 3
ProofRefused ==
    /\ rx.at = "proof" /\ link[rx.peer].up # <<>>
    /\ ~Verifies(Head(link[rx.peer].up), rx.pin, "sender", rx.peer)
    /\ link' = [link EXCEPT ![rx.peer] = LeftByReceiver(ToSender(@, Msg("Error3")))]
    /\ Leave(RecordFailure(rx.guard, clock))
    /\ UNCHANGED <<disk, tx, clock, left, entitled>>

PairOk ==
    /\ rx.at = "ok"
    /\ Answer(Msg("PairOk"), "add", Msg("PairOk"))
    /\ UNCHANGED <<disk, tx, clock, left, entitled>>

\* Mutant: paired.toml is truncated and rewritten in place
TruncatedInPlace(d) == [d EXCEPT !.paired = {}]

\* store.add, and save up to the synced temporary file
TmpWritten(d) == d

Add ==
    /\ rx.at = "add"
    /\ rx' = [rx EXCEPT !.at = "save", !.store = @ \union {rx.peer}]
    /\ disk' = TmpWritten(disk)
    /\ UNCHANGED <<tx, link, clock, left, entitled>>

\* the rename of write_atomic
Save ==
    /\ rx.at = "save"
    /\ rx' = [rx EXCEPT !.at = "hello", !.pin = None]
    /\ disk' = [disk EXCEPT !.paired = rx.store]
    /\ UNCHANGED <<tx, link, clock, left, entitled>>

SaveFails ==
    /\ rx.at = "save" /\ left.faults > 0
    /\ Leave(rx.guard)
    /\ link' = [link EXCEPT ![rx.peer] = LeftByReceiver(@)]
    /\ left' = [left EXCEPT !.faults = @ - 1]
    /\ UNCHANGED <<disk, tx, clock, entitled>>

\* recv_control fails: in pair_as_receiver that is a failed attempt as well
Pairing == {"init", "proof", "ok"}

\* Mutant: the wait for PairOk does not notice the end of the link
LostBeforeOk == {"init", "proof", "hello", "serve"}

LostWhere == Pairing \union {"hello", "serve"}

Lost ==
    /\ rx.at \in LostWhere /\ ~link[rx.peer].open
    /\ Leave(IF rx.at \in Pairing THEN RecordFailure(rx.guard, clock) ELSE rx.guard)
    /\ link' = [link EXCEPT ![rx.peer] = LeftByReceiver(@)]
    /\ UNCHANGED <<disk, tx, clock, left, entitled>>

\* A paired sender says Goodbye, or its cast is over (CastSession)
Served ==
    /\ rx.at = "serve" /\ link[rx.peer].up # <<>> /\ Head(link[rx.peer].up) = Msg("Goodbye")
    /\ Leave(rx.guard)
    /\ link' = [link EXCEPT ![rx.peer] = LeftByReceiver(@)]
    /\ UNCHANGED <<disk, tx, clock, left, entitled>>

------------------------------------------------------------------------------
(* The sender: cast() and pair_interactive() *)

\* resolve_target finds the receiver, client_for trusts the fingerprint found
Connect(s, casting) ==
    /\ tx[s].at = "idle" /\ rx.at # "down" /\ disk.key # 0 /\ left.attempts > 0
    /\ tx' = [tx EXCEPT ![s].at = "connecting", ![s].casting = casting,
                        ![s].target = disk.cert]
    /\ left' = [left EXCEPT !.attempts = @ - 1]
    /\ UNCHANGED <<rx, disk, link, clock, entitled>>

Ended(s) == [tx EXCEPT ![s].at = "idle", ![s].casting = FALSE, ![s].target = 0, ![s].pin = None]

Stop(s) == tx' = Ended(s) /\ link' = [link EXCEPT ![s] = LeftBySender(@)]

\* The handshake or the control acknowledgement does not come in time
GiveUp(s) ==
    /\ tx[s].at = "connecting"
    /\ tx' = Ended(s)
    /\ UNCHANGED <<rx, disk, link, clock, left, entitled>>

Reads(s, at) == tx[s].at = at /\ link[s].down # <<>>

\* The sender has read its answer, sends reply and moves on
Reply(s, at, reply) ==
    /\ tx' = [tx EXCEPT ![s].at = at]
    /\ link' = [link EXCEPT ![s] = ToReceiver(ReadBySender(@), reply)]

\* cast bails out ("not paired"); pair_interactive asks for the PIN
Unpaired(s) ==
    /\ Reads(s, "hello") /\ Head(link[s].down) = Msg("Error4")
    /\ \/ tx[s].casting /\ Stop(s)
       \/ /\ ~tx[s].casting
          /\ tx' = [tx EXCEPT ![s].at = "prompt"]
          /\ link' = [link EXCEPT ![s] = ReadBySender(@)]
    /\ UNCHANGED <<rx, disk, clock, left, entitled>>

\* Already paired: a cast streams for a while, a probe says Goodbye at once
Greeted(s) ==
    /\ Reads(s, "hello") /\ Head(link[s].down) = Msg("HelloAck")
    /\ tx' = Ended(s)
    /\ link' = [link EXCEPT ![s] = LeftBySender(ToReceiver(@, Msg("Goodbye")))]
    /\ UNCHANGED <<rx, disk, clock, left, entitled>>

\* The user types a PIN: the one on the screen or another
TypePin(s) ==
    /\ tx[s].at = "prompt"
    /\ \E pin \in Pins :
        /\ tx' = [tx EXCEPT ![s].at = "resp", ![s].pin = pin]
        /\ link' = [link EXCEPT ![s] = ToReceiver(@, Msg("PairInit"))]
        /\ entitled' = IF rx.peer = s /\ rx.pin = pin
                       THEN entitled \union {s} ELSE entitled
    /\ UNCHANGED <<rx, disk, clock, left>>

\* read_pin fails: "PIN entry cancelled"
CancelPin(s) ==
    /\ tx[s].at = "prompt"
    /\ Stop(s)
    /\ UNCHANGED <<rx, disk, clock, left, entitled>>

SendProof(s) ==
    /\ Reads(s, "resp") /\ Head(link[s].down) = Msg("PairResp")
    /\ Reply(s, "proof", Proof(tx[s].pin, "sender", s))
    /\ UNCHANGED <<rx, disk, clock, left, entitled>>

SendOk(s) ==
    /\ Reads(s, "proof")
    /\ Verifies(Head(link[s].down), tx[s].pin, "receiver", disk.cert)
    /\ Reply(s, "ok", Msg("PairOk"))
    /\ UNCHANGED <<rx, disk, clock, left, entitled>>

\* An Error from the receiver ends pair_as_sender
Refused(s) ==
    /\ Reads(s, "proof") /\ Head(link[s].down) = Msg("Error3")
    /\ Stop(s)
    /\ UNCHANGED <<rx, disk, clock, left, entitled>>

\* PairOk: load, add and save the sender's own store, then Goodbye
Store(s) ==
    /\ Reads(s, "ok") /\ Head(link[s].down) = Msg("PairOk")
    /\ tx' = [Ended(s) EXCEPT ![s].knows = tx[s].target]
    /\ link' = [link EXCEPT ![s] = LeftBySender(ToReceiver(@, Msg("Goodbye")))]
    /\ UNCHANGED <<rx, disk, clock, left, entitled>>

\* recv_control or send_control fails on a link that is gone
SenderLost(s) ==
    /\ tx[s].at \in {"hello", "resp", "proof", "ok"} /\ ~link[s].open
    /\ Stop(s)
    /\ UNCHANGED <<rx, disk, clock, left, entitled>>

------------------------------------------------------------------------------
(* Environment *)

Crash ==
    /\ rx.at # "down" /\ left.faults > 0
    /\ rx' = Down
    /\ link' = [s \in Senders |-> LeftByReceiver(link[s])]
    /\ left' = [left EXCEPT !.faults = @ - 1]
    /\ UNCHANGED <<disk, tx, clock, entitled>>

\* QUIC's idle timeout, or the sender process dies
DropLink(s) ==
    /\ link[s].open /\ left.faults > 0
    /\ link' = [link EXCEPT ![s] = Closed(@)]
    /\ left' = [left EXCEPT !.faults = @ - 1]
    /\ UNCHANGED <<rx, disk, tx, clock, entitled>>

Tick ==
    /\ clock < MaxTime
    /\ clock' = clock + 1
    /\ UNCHANGED <<rx, disk, tx, link, left, entitled>>

Boot == Load \/ WriteCert \/ WriteKey

Handle ==
    \/ GreetPaired \/ GreetLocked \/ GreetUnpaired \/ Ignore \/ PairResp
    \/ ProofAccepted \/ ProofRefused \/ PairOk \/ Add \/ Save \/ Lost \/ Served

Step(s) ==
    \/ GiveUp(s) \/ Unpaired(s) \/ Greeted(s) \/ TypePin(s) \/ CancelPin(s)
    \/ SendProof(s) \/ SendOk(s) \/ Refused(s) \/ Store(s) \/ SenderLost(s)

Next ==
    \/ Boot \/ Handle \/ SaveFails \/ Crash \/ Tick
    \/ \E s \in Senders :
        Accept(s) \/ Step(s) \/ DropLink(s) \/ \E casting \in BOOLEAN : Connect(s, casting)

Spec == Init /\ [][Next]_vars

\* Both programs run; the user types the PIN or cancels in the end
FairSpec == Spec /\ WF_vars(Boot) /\ WF_vars(Handle) /\ \A s \in Senders : WF_vars(Step(s))

------------------------------------------------------------------------------
(* Properties *)

\* A sender is in the receiver's store, in memory or on disk, only if its user
\* typed the PIN that the receiver showed for that very connection, and a sender
\* has stored only a receiver that proved the same PIN, under the identity the
\* receiver still has.
ProvenBeforeStored ==
    /\ rx.store \union disk.paired \subseteq entitled
    /\ \A s \in Senders : tx[s].knows # 0 => s \in entitled /\ tx[s].knows = disk.key

\* No crash, failed write or later pairing takes a pairing off the disk or
\* gives a receiver that has an identity another one.
PairingsSurvive ==
    [][/\ disk.paired \subseteq disk'.paired
       /\ disk.key # 0 => disk'.cert = disk.cert /\ disk'.key = disk.key]_vars

\* A connection that has to pair always ends: the serial accept loop comes back
\* (or the receiver goes down) whatever becomes of the sender.
AcceptsAgain ==
    rx.at \in Pairing \union {"hello", "add", "save"} ~> rx.at \in {"accept", "serve", "down"}
==============================================================================
