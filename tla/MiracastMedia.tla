--------------------------- MODULE MiracastMedia ---------------------------
(***************************************************************************)
(* The media path of a Miracast cast: castr's source multiplexes access    *)
(* units into MPEG-TS (castr-miracast/src/source/ts_mux.rs, lpcm.rs) and   *)
(* RTP (source/rtp_pack.rs), UDP loses, repeats and reorders, and castr's  *)
(* sink puts the datagrams in order (rtp.rs) and takes the units out again *)
(* (ts.rs).                                                                *)
(*                                                                         *)
(* Payload is a number of bytes of a numbered unit: sizes, padding and     *)
(* continuity are computed as in the code, contents and the table formats  *)
(* are not.  The counter of each PID runs on; what is on the wire of it is *)
(* its remainder by CcModulus.                                             *)
(***************************************************************************)
EXTENDS Integers, SequencesExt

CONSTANTS
    PacketLen,           \* PACKET_LEN, 188 bytes
    PacketsPerDatagram,  \* PACKETS_PER_DATAGRAM
    TableInterval,       \* TABLE_INTERVAL_PACKETS
    CcModulus,           \* values of a continuity counter, 16
    SeqModulus,          \* values of an RTP sequence number, 2^16
    ReorderWindow,       \* window of Reorder
    VideoLengths,        \* sizes of access units the encoder makes
    SamplesPerFrame,     \* SAMPLES_PER_FRAME
    SampleCounts,        \* samples in one delivery of the audio capture
    MaxUnits,            \* bound on the units of a run
    MaxFaults,           \* bound on datagrams lost or repeated
    Reach                \* how many later datagrams may overtake one

ASSUME MediaAssumption ==
    /\ PacketLen \in Nat /\ PacketLen > 32
    /\ PacketsPerDatagram \in Nat \ {0} /\ TableInterval \in Nat \ {0}
    /\ CcModulus \in Nat \ {0, 1} /\ SeqModulus \in Nat \ {0, 1}
    /\ ReorderWindow \in Nat /\ VideoLengths \subseteq Nat \ {0}
    /\ SamplesPerFrame \in Nat \ {0} /\ SampleCounts \subseteq Nat
    /\ Reach \in Nat /\ 2 * (Reach + ReorderWindow) < SeqModulus

VARIABLES
    mux,       \* Muxer and Packetizer
    units,     \* every unit multiplexed so far: kind, size, its packets
    wire,      \* datagrams under way, oldest first
    reorder,   \* Reorder
    demux,     \* Demux
    out,       \* units the session handed on, in order
    faults     \* losses and repetitions left to the network

vars == <<mux, units, wire, reorder, demux, out, faults>>

Pids == {"pat", "pmt", "video", "audio"}
None == -1

------------------------------------------------------------------------------
(* The source *)

PcrField == 7           \* flags and PCR in an adaptation field
PesHeader(pid) == IF pid = "video" THEN 14 ELSE 16   \* audio: two stuffing bytes

\* An LPCM frame: four bytes of header, two for each sample
FrameLength == 4 + 2 * SamplesPerFrame

\* Payload left in a packet with an adaptation field of af bytes (None: no field)
Capacity(af) == PacketLen - 4 - (1 + af)

\* The field grows to pad a short last packet
Field(remaining, af) ==
    IF remaining < Capacity(af) THEN PacketLen - 5 - remaining ELSE af

Piece(remaining, af) ==
    LET field == Field(remaining, af)
    IN [af |-> field,
        take |-> IF remaining < Capacity(field) THEN remaining ELSE Capacity(field)]

MaxPes == 16 + CHOOSE n \in VideoLengths \union {FrameLength} :
                    \A k \in VideoLengths \union {FrameLength} : k <= n

\* The packets after the first of a PES with r bytes still to go
Rest[r \in 0..MaxPes] ==
    IF r = 0 THEN <<>> ELSE LET p == Piece(r, None) IN <<p>> \o Rest[r - p.take]

Pieces(pid, pes) ==
    LET first == Piece(pes, IF pid = "video" THEN PcrField ELSE None)
    IN <<first>> \o Rest[pes - first.take]

\* Transport packets; idx is the PID's counter before the remainder is taken
Packet(pid, idx, unit, start, piece) ==
    [pid |-> pid, idx |-> idx, unit |-> unit, start |-> start,
     af |-> piece.af, take |-> piece.take]

NewMux ==
    [next |-> [pid \in Pids |-> 0], sinceTables |-> 0, pending |-> 0, sequence |-> 0]

TablesDue(m) == ~(m.sinceTables # 0 /\ m.sinceTables < TableInterval)

Tables(m) ==
    IF TablesDue(m)
    THEN << Packet("pat", m.next["pat"], 0, TRUE, [af |-> None, take |-> PacketLen - 4]),
            Packet("pmt", m.next["pmt"], 0, TRUE, [af |-> None, take |-> PacketLen - 4]) >>
    ELSE <<>>

AfterTables(m) ==
    IF TablesDue(m)
    THEN [m EXCEPT !.sinceTables = 0, !.next["pat"] = @ + 1, !.next["pmt"] = @ + 1]
    ELSE m

PesPackets(m, pid, unit, len) ==
    LET pieces == Pieces(pid, len + PesHeader(pid))
    IN [i \in DOMAIN pieces |-> Packet(pid, m.next[pid] + i - 1, unit, i = 1, pieces[i])]

AfterPes(m, pid, packets) ==
    [m EXCEPT !.next[pid] = @ + Len(packets), !.sinceTables = @ + Len(packets)]

\* One PES with the tables ahead of it: <<muxer, packets, units>> grow
MuxPes(acc, pid, len) ==
    LET m == AfterTables(acc.mux)
        ps == PesPackets(m, pid, Len(acc.units) + 1, len)
    IN [mux |-> AfterPes(m, pid, ps),
        packets |-> acc.packets \o Tables(acc.mux) \o ps,
        units |-> Append(acc.units,
                         [pid |-> pid, len |-> len, first |-> m.next[pid],
                          last |-> m.next[pid] + Len(ps) - 1])]

\* Packetizer::push: datagrams of at most PacketsPerDatagram packets
Datagrams(packets, sequence) ==
    LET n == (Len(packets) + PacketsPerDatagram - 1) \div PacketsPerDatagram
        End(i) == IF i * PacketsPerDatagram < Len(packets)
                   THEN i * PacketsPerDatagram ELSE Len(packets)
    IN [i \in 1..n |->
          [sequence |-> (sequence + i - 1) % SeqModulus,
           packets |-> SubSeq(packets, (i - 1) * PacketsPerDatagram + 1, End(i))]]

Emit(acc) ==
    LET ds == Datagrams(acc.packets, acc.mux.sequence)
    IN /\ mux' = [acc.mux EXCEPT !.sequence = (@ + Len(ds)) % SeqModulus]
       /\ units' = acc.units
       /\ wire' = wire \o ds

Nothing == [mux |-> mux, packets |-> <<>>, units |-> units]

PushVideo(len) ==
    /\ Len(units) < MaxUnits
    /\ Emit(MuxPes(Nothing, "video", len))
    /\ UNCHANGED <<reorder, demux, out, faults>>

\* Samples wait until they fill a frame; one delivery may fill several
PushAudio(samples) ==
    LET pending == mux.pending + samples
        frames == pending \div SamplesPerFrame
        Frame(acc, i) == MuxPes(acc, "audio", FrameLength)
    IN /\ Len(units) + frames <= MaxUnits
       /\ Emit(FoldLeft(Frame,
                        [Nothing EXCEPT !.mux.pending = pending % SamplesPerFrame],
                        [i \in 1..frames |-> i]))
       /\ UNCHANGED <<reorder, demux, out, faults>>

------------------------------------------------------------------------------
(* The sink: Reorder *)

NewReorder == [held |-> <<>>, next |-> None, lost |-> 0]

SeqGe(a, b) == (a - b) % SeqModulus < SeqModulus \div 2

Known(r, d) ==
    \/ r.next # None /\ ~SeqGe(d.sequence, r.next)
    \/ \E i \in DOMAIN r.held : r.held[i].sequence = d.sequence

Inserted(held, d) ==
    LET later == {i \in DOMAIN held : SeqGe(held[i].sequence, d.sequence)}
        pos == IF later = {} THEN Len(held) + 1 ELSE CHOOSE i \in later : \A j \in later : i <= j
    IN InsertAt(held, pos, d)

\* A gap at the head and the window full: what is missing is given up
GivesUp(r, held) ==
    r.next # None /\ Head(held).sequence # r.next /\ Len(held) > ReorderWindow

\* The head is released if it is the first, the next or after a gap given up;
\* then all that follow it without a gap (the window is no longer full)
ReleasedBy(r, held) ==
    LET base == IF r.next = None \/ GivesUp(r, held) THEN Head(held).sequence ELSE r.next
        run == {k \in 0..Len(held) :
                  \A i \in 1..k : held[i].sequence = (base + i - 1) % SeqModulus}
    IN SubSeq(held, 1, CHOOSE k \in run : \A j \in run : j <= k)

Reordered(r, d) ==
    LET held == Inserted(r.held, d)
        released == ReleasedBy(r, held)
    IN [held |-> SubSeq(held, Len(released) + 1, Len(held)),
        next |-> IF released = <<>> THEN r.next ELSE (Last(released).sequence + 1) % SeqModulus,
        lost |-> IF GivesUp(r, held)
                 THEN r.lost + ((Head(held).sequence - r.next) % SeqModulus) ELSE r.lost]

------------------------------------------------------------------------------
(* The sink: Demux *)

Empty == [open |-> FALSE, damaged |-> FALSE, bytes |-> 0, of |-> {}, expected |-> None]

NewDemux ==
    [pmt |-> FALSE, streams |-> FALSE, asm |-> [k \in {"video", "audio"} |-> Empty],
     lastCc |-> [pid \in Pids |-> None], errors |-> 0,
     fed |-> {}, blind |-> {}]     \* history: packets read; PIDs with an unseen gap

Payload(p) == PacketLen - (IF p.af = None THEN 4 ELSE 5 + p.af)

Malformed(p) == 4 + (1 + p.af) + p.take # PacketLen \/ Payload(p) <= 0

Expected(d, p) == (d.lastCc[p.pid] + 1) % CcModulus

Jump(d, p) == d.lastCc[p.pid] # None /\ p.idx % CcModulus # Expected(d, p)

\* history: packets of the PID are missing and the counter does not show it
Unseen(d, p) ==
    d.lastCc[p.pid] # None /\ ~Jump(d, p) /\ p.idx # d.lastCc[p.pid] + 1

\* Mutant: the gap is counted but the unit is not marked
ContinuityOnlyCounted(d, p) ==
    [d EXCEPT !.lastCc[p.pid] = p.idx, !.errors = IF Jump(d, p) THEN @ + 1 ELSE @,
              !.blind = IF Unseen(d, p) THEN @ \union {p.pid} ELSE @]

\* The continuity check of every packet with a payload
Continuity(d, p) ==
    LET c == [d EXCEPT !.lastCc[p.pid] = p.idx,
                       !.errors = IF Jump(d, p) THEN @ + 1 ELSE @,
                       !.blind = IF Unseen(d, p) THEN @ \union {p.pid} ELSE @]
    IN IF Jump(d, p) /\ d.streams /\ p.pid \in DOMAIN d.asm
       THEN [c EXCEPT !.asm[p.pid].damaged = TRUE] ELSE c

Appended(a, n, unit) ==
    LET room == IF a.expected = None \/ n < a.expected - a.bytes
                THEN n ELSE a.expected - a.bytes
    IN [a EXCEPT !.bytes = @ + room, !.of = IF room > 0 THEN @ \union {unit} ELSE @]

\* What the header of a PES declares: the bytes of audio, nothing for video
Declared(p) == IF p.pid = "audio" THEN units[p.unit].len ELSE None

\* Mutant: the damage of the old unit also condemns the new one
StartedDamaged(a, p) ==
    Appended([Empty EXCEPT !.open = TRUE, !.damaged = a.damaged,
                           !.expected = Declared(p)],
             Payload(p) - PesHeader(p.pid), p.unit)

\* A packet that starts a PES: a new assembly, with its declared length for audio
Started(a, p) ==
    Appended([Empty EXCEPT !.open = TRUE,
                           !.expected = Declared(p)],
             Payload(p) - PesHeader(p.pid), p.unit)

Handed(pid, a) == [pid |-> pid, of |-> a.of, bytes |-> a.bytes]

\* The unit before, complete because the next one starts
Previous(pid, a, p) ==
    IF p.start /\ a.open /\ ~a.damaged /\ a.bytes > 0 THEN <<Handed(pid, a)>> ELSE <<>>

Complete(a) == a.open /\ a.expected # None /\ a.bytes >= a.expected /\ ~a.damaged

ReadTables(d, p) ==
    IF p.pid = "pat" THEN [d EXCEPT !.pmt = TRUE]
    ELSE IF d.pmt THEN [d EXCEPT !.streams = TRUE] ELSE d

\* Demux::push on <<demux, units handed on>>
Demuxed(acc, p) ==
    LET d == Continuity(acc.demux, p)
        a == d.asm[p.pid]
        b == IF p.start THEN Started(a, p)
             ELSE IF a.open THEN Appended(a, Payload(p), p.unit) ELSE a
        done == Complete(b)
    IN IF Malformed(p) THEN acc
       ELSE IF p.pid \in {"pat", "pmt"} THEN [acc EXCEPT !.demux = ReadTables(d, p)]
       ELSE IF ~d.streams THEN [acc EXCEPT !.demux = d]
       ELSE [demux |-> [d EXCEPT !.asm[p.pid] =
                           IF done THEN [Empty EXCEPT !.damaged = b.damaged] ELSE b,
                                 !.fed = @ \union {<<p.pid, p.idx>>}],
             out |-> acc.out \o Previous(p.pid, a, p)
                             \o (IF done THEN <<Handed(p.pid, b)>> ELSE <<>>)]

Init ==
    /\ mux = NewMux /\ units = <<>> /\ wire = <<>>
    /\ reorder = NewReorder /\ demux = NewDemux /\ out = <<>> /\ faults = MaxFaults

\* on_rtp_datagram_at: what the window releases goes through the demultiplexer
Received(d) ==
    IF Known(reorder, d) THEN UNCHANGED <<reorder, demux, out>>
    ELSE LET held == Inserted(reorder.held, d)
             packets == FlattenSeq([i \in DOMAIN ReleasedBy(reorder, held) |->
                                      ReleasedBy(reorder, held)[i].packets])
             result == FoldLeft(Demuxed, [demux |-> demux, out |-> out], packets)
         IN /\ reorder' = Reordered(reorder, d)
            /\ demux' = result.demux
            /\ out' = result.out

------------------------------------------------------------------------------
(* UDP *)

Arrive(i) ==
    /\ i \in DOMAIN wire /\ (wire[i].sequence - Head(wire).sequence) % SeqModulus <= Reach
    /\ Received(wire[i])
    /\ wire' = RemoveAt(wire, i)
    /\ UNCHANGED <<mux, units, faults>>

Repeat ==
    /\ wire # <<>> /\ faults > 0
    /\ Received(Head(wire))
    /\ faults' = faults - 1
    /\ UNCHANGED <<mux, units, wire>>

Lose ==
    /\ wire # <<>> /\ faults > 0
    /\ wire' = Tail(wire)
    /\ faults' = faults - 1
    /\ UNCHANGED <<mux, units, reorder, demux, out>>

Next ==
    \/ \E len \in VideoLengths : PushVideo(len)
    \/ \E samples \in SampleCounts : PushAudio(samples)
    \/ \E i \in 1..(Reach + 1) : Arrive(i)
    \/ Repeat \/ Lose

Spec == Init /\ [][Next]_vars

------------------------------------------------------------------------------
(* Properties *)

Whole(u) == \E n \in u.of : u.of = {n} /\ u.bytes = units[n].len

\* Whatever is lost, repeated or reordered, the decoder is handed whole access
\* units, each at most once and in the order of the source, never one spliced
\* or padded; except that a loss of a multiple of CcModulus packets of one PID
\* cannot be seen in its counter.
UnitsAreWhole ==
    /\ \A i \in DOMAIN out : Whole(out[i]) \/ out[i].pid \in demux.blind
    /\ \A i, j \in DOMAIN out :
         i < j /\ out[i].pid = out[j].pid => \A m \in out[i].of, n \in out[j].of : m < n
                                               \/ out[i].pid \in demux.blind

\* A unit whose packets all reached the demultiplexer is handed on, whatever was
\* lost before it or on the other PID: audio at its last byte, video when the
\* next access unit starts.
Through(pid, first, last) == \A idx \in first..last : <<pid, idx>> \in demux.fed

WholeUnitsAreDelivered ==
    \A n \in DOMAIN units :
        LET u == units[n]
        IN Through(u.pid, u.first, IF u.pid = "video" THEN u.last + 1 ELSE u.last)
             => \E i \in DOMAIN out : out[i].of = {n} \/ u.pid \in demux.blind
=============================================================================
