------------------------------ MODULE Decoding ------------------------------
(***************************************************************************)
(* The receiver's decode thread (castr-receiver/src/pipeline.rs) and the   *)
(* stateful V4L2 decoder it drives (castr-codec-v4l2): frames from the     *)
(* jitter buffer go into OUTPUT buffers, pictures come back in CAPTURE     *)
(* buffers, and the kernel driver owns a buffer from QBUF to DQBUF.  The   *)
(* driver runs on its own: it decodes, re-formats the CAPTURE queue for a  *)
(* new sequence, reports that later as an event, or goes silent.           *)
(*                                                                         *)
(* The decoder's fields are the record dec, the driver's state the record  *)
(* hw; an operator on them stands for one method.  The thread is a program *)
(* counter with a step wherever the code calls poll or an ioctl after      *)
(* which the driver may have moved.                                        *)
(***************************************************************************)
EXTENDS Naturals, Sequences, FiniteSets

CONSTANTS
  None,            \* Option::None
  OutputBuffers,   \* OUTPUT_BUFFERS
  MaxInFlight,     \* MAX_IN_FLIGHT
  CaptureBuffers,  \* CAPTURE_BUFFERS, or what the driver asks for
  StallInputs,     \* STALL_INPUTS
  StallTime,       \* STALL_POLL_MS
  MaxWait,         \* 4 * STALL_POLL_MS, wait_for_slot's absolute limit
  DrainRounds,     \* DRAIN_ROUNDS
  Choices,         \* the DecoderChoice values the receiver is started with
  ErrorLimit,      \* limit of the thread's ErrorWindow
  DefaultFormat,   \* the driver's format before it has parsed an SPS
  Formats,         \* the coded geometries of the stream
  MaxFrames,       \* bound: frames the jitter buffer hands out
  MaxFaults        \* bound: failures of an ioctl, the device or the stream

VARIABLES
  dec,       \* the V4l2Decoder: output, capture, ready, unanswered, ...
  hw,        \* the driver: jobs, buffers, format, pending events
  kind,      \* which decoder the thread holds
  choice,    \* the DecoderChoice
  pc,        \* where the decode thread is
  loc,       \* the locals of the decoder method it is in
  errors,    \* decode errors in the ErrorWindow
  last,      \* the frame handed out last
  faults,    \* failures left to happen
  shown      \* the picture sent to the UI last

vars == <<dec, hw, kind, choice, pc, loc, errors, last, faults, shown>>

(* The locals: the method, the frame, the pictures it may still copy,      *)
(* drain_to_last's rounds and where drain_events goes on after it, and     *)
(* wait_for_slot's progress flag and times.                                *)
NoLocals == [call |-> "none", frame |-> None, budget |-> 0, rounds |-> 0,
             ret |-> "none", progressed |-> FALSE, waited |-> 0, total |-> 0]

Slots == 1..OutputBuffers
Buffers == 1..CaptureBuffers
(* A frame with another geometry than the last is a keyframe. *)
Frame == [num : 1..MaxFrames, fmt : Formats]
(* A RawFrame: the frame it came from and the geometry it was copied at. *)
Picture == [frame : Frame, fmt : Formats \cup {DefaultFormat}]
Capture == [queued : SUBSET Buffers, fmt : Formats \cup {DefaultFormat},
            provisional : BOOLEAN]
Job == [slot : Slots, frame : Frame]
(* A filled CAPTURE buffer; slot is the OUTPUT buffer it was decoded from, *)
(* frame is None when it carries no picture.                               *)
Filled == [idx : Buffers, slot : Slots \cup {None},
           frame : Frame \cup {None}, last : BOOLEAN]

ASSUME DecodingAssumption ==
  /\ {OutputBuffers, MaxInFlight, CaptureBuffers, ErrorLimit} \subseteq Nat \ {0}
  /\ MaxInFlight < OutputBuffers
  /\ Choices \subseteq {"Auto", "V4l2", "Sw"}
  /\ {StallInputs, StallTime, MaxWait, DrainRounds, MaxFrames, MaxFaults} \subseteq Nat
  /\ DefaultFormat \in Nat /\ Formats \subseteq Nat
  /\ \A f \in Formats : DefaultFormat < f
  /\ None \notin Slots \cup Frame \cup Capture \cup Picture
-----------------------------------------------------------------------------
(* bring_up_capture: buffers at the driver's format, all queued. *)
NewCapture(fmt, provisional) ==
  [queued |-> Buffers, fmt |-> fmt, provisional |-> provisional]

(* with_ops: OUTPUT queue streaming, CAPTURE brought up provisionally. *)
NewDecoder ==
  [outq |-> {}, ready |-> <<>>, unanswered |-> 0, finished |-> FALSE,
   saw_last |-> FALSE, cap |-> NewCapture(DefaultFormat, TRUE)]

(* The driver after allocate and stream_on on a device just opened, the    *)
(* last one having been dropped and released.                              *)
NewDriver ==
  [jobs |-> <<>>, freed |-> {}, held |-> Buffers, done |-> <<>>,
   fmt |-> DefaultFormat, paused |-> FALSE, ended |-> FALSE, on |-> TRUE,
   unreported |-> FALSE, events |-> <<>>, broken |-> FALSE]

Init ==
  /\ dec = NewDecoder /\ hw = NewDriver
  /\ kind = "none" /\ choice \in Choices
  /\ pc = "open" /\ loc = NoLocals
  /\ errors = 0 /\ last = None /\ faults = MaxFaults
  /\ shown = None

-----------------------------------------------------------------------------
(* Any of these may fail while failures are left. *)
Outcome == IF faults > 0 THEN BOOLEAN ELSE {TRUE}
Spend(ok) == faults' = IF ok THEN faults ELSE faults - 1
-----------------------------------------------------------------------------
(* Mutant: dequeue forgets to clear the queued flag. *)
DrainedOutputStillQueued(d, h) == d

(* Queue::dequeue until idle on the OUTPUT queue (drain_output). *)
DrainedOutput(d, h) == [d EXCEPT !.outq = @ \ h.freed]

(* The CAPTURE buffers one collect_capture(limit) takes: it stops at the   *)
(* buffer flagged LAST and at the first one the driver refuses to take     *)
(* back (EINVAL): it has re-formatted the queue and the buffer is now too  *)
(* small.  A format is its size.                                           *)
Refuses(d, h) == d.cap.fmt < h.fmt
Ends(d, h, i) == h.done[i].last \/ Refuses(d, h)
Taken(d, h, limit) ==
  IF d.saw_last \/ d.cap = None THEN 0
  ELSE CHOOSE n \in 0..Len(h.done) :
         /\ n <= limit
         /\ \A i \in 1..(n - 1) : ~Ends(d, h, i)
         /\ n = limit \/ n = Len(h.done) \/ (n > 0 /\ Ends(d, h, n))

(* Mutant: pictures from the provisional queue are handed out. *)
HasPictureProvisional(d, h, i) == h.done[i].frame # None

(* take_capture on done[i]: a picture, unless the queue is provisional or  *)
(* the buffer empty.                                                       *)
HasPicture(d, h, i) == ~d.cap.provisional /\ h.done[i].frame # None
PictureOf(d, h, i) == [frame |-> h.done[i].frame, fmt |-> d.cap.fmt]

(* The pictures of the first n of them, behind those already ready. *)
Readied(d, h, n) ==
  LET ready[i \in 0..n] ==
        IF i = 0 THEN d.ready
        ELSE IF HasPicture(d, h, i)
             THEN Append(ready[i - 1], PictureOf(d, h, i))
             ELSE ready[i - 1]
  IN ready[n]

(* collect_capture: pictures to ready, buffers back to the driver except   *)
(* the LAST or refused one; EPIPE once the sequence is over.  The OUTPUT   *)
(* buffers behind the pictures become dequeuable.                          *)
Collected(d, h, limit) ==
  LET n    == Taken(d, h, limit)
      over == n > 0 /\ Ends(d, h, n)
      epipe == n < limit /\ h.done = SubSeq(h.done, 1, n) /\ h.ended
      back == {h.done[i].idx : i \in {j \in 1..n : ~Ends(d, h, j)}}
      kept == {h.done[i].idx : i \in {j \in 1..n : Ends(d, h, j)}}
  IN IF d.saw_last \/ d.cap = None THEN [d |-> d, h |-> h, any |-> FALSE]
     ELSE [d |-> [d EXCEPT
                    !.saw_last = @ \/ over \/ epipe,
                    !.cap.queued = @ \ kept,
                    !.ready = Readied(d, h, n),
                    !.unanswered = IF \E i \in 1..n : HasPicture(d, h, i)
                                   THEN 0 ELSE @],
           h |-> [h EXCEPT
                    !.done = SubSeq(@, n + 1, Len(@)),
                    !.held = @ \cup back,
                    !.freed = @ \cup ({h.done[i].slot : i \in 1..n} \ {None}),
                    !.ended = @ \/ (n > 0 /\ h.done[n].last)],
           any |-> n > 0]

(* take_capture failing on its first buffer: a DQBUF error, or a picture   *)
(* whose geometry or requeue failed (back: the buffer went back anyway).   *)
CollectError(d, h, back) ==
  IF d.saw_last \/ d.cap = None \/ h.done = <<>> THEN [d |-> d, h |-> h]
  ELSE LET b == Head(h.done) IN
       [d |-> [d EXCEPT !.cap.queued = IF back THEN @ ELSE @ \ {b.idx}],
        h |-> [h EXCEPT !.done = Tail(@),
                        !.held = IF back THEN @ \cup {b.idx} ELSE @,
                        !.freed = @ \cup ({b.slot} \ {None}),
                        !.ended = @ \/ b.last]]
-----------------------------------------------------------------------------
(* ErrorWindow::record: this error and those not older than the window. *)
Recorded == 1..(errors + 1)

(* What a method's Err does to the thread.  decode: the jitter buffer is   *)
(* told to wait for a keyframe (JitterBuffer!RequireKeyframe), and         *)
(* ErrorLimit errors within the window (older ones drop out of it) rebuild *)
(* the decoder.  poll_frame: a warning.                                    *)
Fail ==
  /\ loc' = NoLocals
  /\ IF loc.call = "decode"
     THEN \E n \in Recorded :
            IF n >= ErrorLimit
            THEN errors' = 0 /\ pc' = "reopen"
            ELSE errors' = n /\ pc' = "pop"
     ELSE pc' = "pop" /\ errors' = errors

(* The method goes on, or returns Ok. *)
GoOn(place, l) == pc' = place /\ loc' = l /\ errors' = errors

(* blocking_send(UiEvent::Frame) of the first ready picture, if any. *)
Send(d) ==
  IF d.ready = <<>> THEN dec' = d /\ shown' = shown
  ELSE dec' = [d EXCEPT !.ready = Tail(@)] /\ shown' = Head(d.ready)

(* A rebuild that fails outright leaves the session with openh264. *)
NextChoice(hwOk) ==
  IF choice = "V4l2" /\ ~hwOk /\ pc = "reopen" THEN "Sw" ELSE choice

(* open_decoder, first at the start and then after repeated errors. *)
Open ==
  /\ pc \in {"open", "reopen"}
  /\ \E hwOk \in Outcome, swOk \in Outcome :
       LET hard == choice \in {"Auto", "V4l2"} /\ hwOk
           soft == /\ ~hard /\ swOk
                   /\ choice = "V4l2" => pc = "reopen"
       IN /\ kind' = CASE hard -> "hw" [] soft -> "sw" [] OTHER -> "none"
          /\ choice' = NextChoice(hwOk)
          /\ pc' = IF hard \/ soft THEN "pop" ELSE "quit"
          /\ Spend(hwOk /\ swOk)
  /\ dec' = NewDecoder /\ hw' = NewDriver
  /\ UNCHANGED <<loc, errors, last, shown>>

(* jitter.pop: the next frame to decode. *)
NextFrames == {f \in Frame : f.num = IF last = None THEN 1 ELSE last.num + 1}

(* decode enters; it refuses a finished decoder at once. *)
Pop ==
  /\ pc = "pop"
  /\ \E f \in NextFrames :
       /\ last' = f
       /\ loc' = [NoLocals EXCEPT !.call = "decode", !.frame = f, !.budget = 1]
       /\ pc' = IF dec.finished THEN "fail" ELSE "wait"
  /\ UNCHANGED <<dec, hw, kind, choice, errors, faults, shown>>

DecodeError ==
  /\ pc = "fail"
  /\ Fail
  /\ UNCHANGED <<dec, hw, kind, choice, last, faults, shown>>

(* The software decoder: a picture, nothing, or an error, at once. *)
SwDecode ==
  /\ pc = "wait" /\ kind = "sw"
  /\ \/ /\ shown' = [frame |-> loc.frame, fmt |-> loc.frame.fmt]
        /\ GoOn("pop", NoLocals) /\ faults' = faults
     \/ shown' = shown /\ GoOn("pop", NoLocals) /\ faults' = faults
     \/ shown' = shown /\ Fail /\ faults > 0 /\ faults' = faults - 1
  /\ UNCHANGED <<dec, hw, kind, choice, last>>

(* One poll of wait_for_slot or of poll_frame: POLLERR is an error. *)
Poll ==
  /\ kind = "hw"
  /\ \/ pc = "wait" /\ Cardinality(dec.outq) >= MaxInFlight
     \/ pc = "poll" /\ dec.ready = <<>>
  /\ IF hw.broken THEN Fail
     ELSE GoOn(IF pc = "wait" THEN "waiting" ELSE "polling", loc)
  /\ UNCHANGED <<dec, hw, kind, choice, last, faults, shown>>

Provisional(d) == d.cap # None /\ d.cap.provisional

(* drain_events: EOS finishes the decoder, a resolution change             *)
(* reconfigures CAPTURE, after draining it unless it is provisional.       *)
HandleEvent ==
  /\ pc \in {"waiting", "polling", "after"} /\ hw.events # <<>>
  /\ hw' = [hw EXCEPT !.events = Tail(@)]
  /\ IF Head(hw.events) = "eos"
     THEN /\ dec' = [dec EXCEPT !.finished = TRUE]
          /\ GoOn(pc, [loc EXCEPT !.progressed = TRUE])
     ELSE LET l == [loc EXCEPT !.progressed = TRUE, !.ret = pc, !.rounds = 0] IN
          IF Provisional(dec)
          THEN GoOn("rebuild", l) /\ dec' = dec
          ELSE GoOn("drain", l) /\ dec' = [dec EXCEPT !.saw_last = FALSE]
  /\ UNCHANGED <<kind, choice, last, faults, shown>>

(* drain_to_last: collect, poll, until the sequence ends or DrainRounds    *)
(* polls have gone.                                                        *)
DrainRound ==
  /\ pc = "drain"
  /\ LET c == Collected(dec, hw, Len(hw.done) + 1)
         more == ~c.d.saw_last /\ loc.rounds < DrainRounds
     IN /\ hw' = [c.h EXCEPT !.freed = IF more THEN {} ELSE @]
        /\ dec' = IF more THEN DrainedOutput(c.d, c.h) ELSE c.d
        /\ CASE more /\ hw.broken -> Fail
             [] more /\ ~hw.broken -> GoOn("drain", [loc EXCEPT !.rounds = @ + 1])
             [] OTHER -> GoOn("rebuild", loc)
  /\ UNCHANGED <<kind, choice, last, faults, shown>>

(* STREAMOFF on CAPTURE gives every buffer back and drops what is in them. *)
StreamedOff(h) ==
  [h EXCEPT !.held = {}, !.done = <<>>, !.ended = FALSE, !.on = FALSE,
            !.freed = @ \cup ({h.done[i].slot : i \in DOMAIN h.done} \ {None})]

(* queue_all_and_start. *)
Started(h) == [h EXCEPT !.held = Buffers, !.on = TRUE, !.paused = FALSE]

(* The rest of reconfigure_capture: STREAMOFF, and then the same buffers   *)
(* again or new ones at the new geometry, queued and streaming.  Whatever  *)
(* fails, self.capture has been taken and stays None.                      *)
Rebuild ==
  /\ pc = "rebuild"
  /\ IF dec.cap = None
     THEN Fail /\ UNCHANGED <<dec, hw, faults>>
     ELSE \E off \in Outcome, up \in Outcome :
            LET h == StreamedOff(hw) IN
            /\ Spend(off /\ up)
            /\ IF off /\ up
               THEN /\ hw' = Started(h)
                    /\ dec' = [dec EXCEPT
                                 !.cap = NewCapture(hw.fmt, FALSE),
                                 !.saw_last = FALSE]
                    /\ GoOn(loc.ret, [loc EXCEPT !.rounds = 0, !.ret = "none"])
               ELSE /\ hw' = IF off THEN h ELSE hw
                    /\ dec' = [dec EXCEPT !.cap = None]
                    /\ Fail
  /\ UNCHANGED <<kind, choice, last, shown>>

(* Mutant: no absolute limit, only the one that progress resets. *)
LateWithoutCap(l, got) == ~got /\ l.waited >= StallTime

(* The rest of a round of wait_for_slot, with its two deadlines. *)
Late(l, got) == (~got /\ l.waited >= StallTime) \/ l.total >= MaxWait
WaitRest ==
  /\ pc = "waiting" /\ hw.events = <<>>
  /\ LET d0 == DrainedOutput(dec, hw)
         h0 == [hw EXCEPT !.freed = {}]
         c  == Collected(d0, h0, 1)
         got == loc.progressed \/ d0.outq # dec.outq \/ c.any
     IN IF Cardinality(d0.outq) < MaxInFlight
        THEN dec' = d0 /\ hw' = h0 /\ GoOn("put", loc)
        ELSE /\ dec' = IF c.any THEN DrainedOutput(c.d, c.h) ELSE c.d
             /\ hw' = IF c.any THEN [c.h EXCEPT !.freed = {}] ELSE c.h
             /\ IF Late(loc, got) THEN Fail
                ELSE GoOn("wait", [loc EXCEPT !.progressed = FALSE,
                                              !.budget = IF c.any THEN 0 ELSE @,
                                              !.waited = IF got THEN 0 ELSE @])
  /\ UNCHANGED <<kind, choice, last, faults, shown>>

(* wait_for_slot has returned: the access unit goes into a free OUTPUT     *)
(* buffer, unless it is no Annex B, does not fit or QBUF fails.            *)
Put ==
  /\ kind = "hw"
  /\ pc = "put" \/ (pc = "wait" /\ Cardinality(dec.outq) < MaxInFlight)
  /\ \E ok \in Outcome :
       /\ Spend(ok)
       /\ IF ok
          THEN LET s == CHOOSE s \in Slots \ dec.outq :
                          \A t \in Slots \ dec.outq : s <= t
               IN /\ dec' = [dec EXCEPT
                               !.outq = @ \cup {s},
                               !.unanswered = IF @ < StallInputs THEN @ + 1 ELSE @]
                  /\ hw' = [hw EXCEPT !.jobs = Append(@, [slot |-> s,
                                                         frame |-> loc.frame])]
                  /\ GoOn("after", [loc EXCEPT !.waited = 0, !.total = 0,
                                               !.progressed = FALSE])
          ELSE UNCHANGED <<dec, hw>> /\ Fail
  /\ UNCHANGED <<kind, choice, last, shown>>

(* decode, after its events: collect within the budget, the stall rule,    *)
(* and the first picture to the caller, which then drains the tail.  How   *)
(* long ago the last picture came is left open.                            *)
Stalled(d) == d.ready = <<>> /\ d.unanswered >= StallInputs
Return ==
  /\ pc = "after" /\ hw.events = <<>>
  /\ LET c == Collected(dec, hw, loc.budget)
     IN /\ hw' = c.h
        /\ \/ Stalled(c.d) /\ dec' = c.d /\ shown' = shown /\ Fail
           \/ Send(c.d) /\ GoOn("poll", [NoLocals EXCEPT !.call = "tail"])
  /\ UNCHANGED <<kind, choice, last, faults>>

(* No frame due: one poll_frame, then sleep. *)
PollIdle ==
  /\ pc = "pop" /\ kind = "hw"
  /\ GoOn("poll", [NoLocals EXCEPT !.call = "idle"])
  /\ UNCHANGED <<dec, hw, kind, choice, last, faults, shown>>

(* poll_frame returns; the thread's tail loop goes on until a None. *)
Polled(some) ==
  IF loc.call = "tail" /\ some THEN GoOn("poll", [NoLocals EXCEPT !.call = "tail"])
  ELSE GoOn("pop", NoLocals)

(* poll_frame with a picture already waiting: no ioctl at all. *)
PollReady ==
  /\ pc = "poll" /\ dec.ready # <<>>
  /\ Send(dec) /\ Polled(TRUE)
  /\ UNCHANGED <<hw, kind, choice, last, faults>>

(* The rest of poll_frame. *)
PollRest ==
  /\ pc = "polling" /\ hw.events = <<>>
  /\ LET c == Collected(DrainedOutput(dec, hw), [hw EXCEPT !.freed = {}], 1)
     IN /\ hw' = c.h
        /\ Send(c.d) /\ Polled(c.d.ready # <<>>)
  /\ UNCHANGED <<kind, choice, last, faults>>

(* An error out of take_capture, wherever it is called. *)
TakeFails ==
  /\ pc \in {"waiting", "polling", "after", "drain"} /\ faults > 0
  /\ pc # "drain" => hw.events = <<>>
  /\ ~dec.saw_last /\ hw.done # <<>> /\ dec.cap # None
  /\ \E back \in {b \in BOOLEAN : b => ~Ends(dec, hw, 1)} :
       LET c == CollectError(dec, hw, back) IN dec' = c.d /\ hw' = c.h
  /\ faults' = faults - 1
  /\ Fail
  /\ UNCHANGED <<kind, choice, last, shown>>
-----------------------------------------------------------------------------
(* The driver, as the decoder's comments and its scripted stand-in         *)
(* (fake.rs) describe it.  A finished job holds its OUTPUT buffer until    *)
(* its picture is dequeued.                                                *)
Active == kind = "hw" /\ hw.on /\ ~hw.broken /\ ~hw.paused /\ hw.jobs # <<>>
Keep == UNCHANGED <<dec, kind, choice, pc, loc, errors, last, shown>>

DriverDecodes ==
  /\ Active /\ hw.held # {}
  /\ hw.fmt \in {DefaultFormat, Head(hw.jobs).frame.fmt}
  /\ LET j == Head(hw.jobs)
         b == CHOOSE x \in hw.held : \A y \in hw.held : x <= y
     IN hw' = [hw EXCEPT !.jobs = Tail(@), !.held = @ \ {b},
                         !.done = Append(@, [idx |-> b, slot |-> j.slot,
                                             frame |-> j.frame, last |-> FALSE])]
  /\ faults' = faults /\ Keep

(* An access unit that decodes to nothing. *)
DriverSkips ==
  /\ Active
  /\ hw' = [hw EXCEPT !.jobs = Tail(@), !.freed = @ \cup {Head(hw.jobs).slot}]
  /\ faults' = faults /\ Keep

(* A broken driver: buffers with nothing in them, while the access units   *)
(* it was fed stay in it.                                                  *)
DriverBabbles ==
  /\ kind = "hw" /\ hw.on /\ ~hw.paused /\ hw.held # {} /\ hw.done = <<>>
  /\ Len(hw.jobs) = MaxInFlight
  /\ LET b == CHOOSE x \in hw.held : \A y \in hw.held : x <= y
     IN hw' = [hw EXCEPT !.held = @ \ {b},
                         !.done = Append(@, [idx |-> b, slot |-> None,
                                             frame |-> None, last |-> FALSE])]
  /\ faults' = faults /\ Keep

(* A new geometry: CAPTURE is re-formatted at once, the end of the old     *)
(* sequence is flagged LAST (or, by some drivers, never), and the event is *)
(* reported later.  Nothing more is decoded until CAPTURE is restarted.    *)
DriverReformats ==
  /\ Active /\ hw.fmt # Head(hw.jobs).frame.fmt
  /\ \E mark \in BOOLEAN :
       LET b == CHOOSE x \in hw.held : \A y \in hw.held : x <= y
           n == Len(hw.done)
           h == [hw EXCEPT !.fmt = Head(hw.jobs).frame.fmt, !.paused = TRUE,
                           !.unreported = TRUE]
       IN hw' = CASE ~mark -> h
                  [] mark /\ hw.held # {} ->
                       [h EXCEPT !.held = @ \ {b},
                                 !.done = Append(@, [idx |-> b, slot |-> None,
                                                     frame |-> None, last |-> TRUE])]
                  [] mark /\ hw.held = {} /\ n > 0 -> [h EXCEPT !.done[n].last = TRUE]
                  [] OTHER -> h
  /\ faults' = faults /\ Keep

DriverReports ==
  /\ kind = "hw" /\ hw.unreported
  /\ hw' = [hw EXCEPT !.unreported = FALSE, !.events = Append(@, "change")]
  /\ faults' = faults /\ Keep

(* POLLERR on a job, for good; or, out of jobs, an end-of-stream event. *)
DriverFails ==
  /\ kind = "hw" /\ faults > 0 /\ faults' = faults - 1
  /\ \/ hw.jobs # <<>> /\ hw' = [hw EXCEPT !.broken = TRUE]
     \/ hw.jobs = <<>> /\ hw' = [hw EXCEPT !.events = Append(@, "eos")]
  /\ Keep

(* Time: the deadlines of wait_for_slot. *)
Tick ==
  /\ loc.call = "decode" /\ pc \in {"wait", "waiting", "drain", "rebuild"}
  /\ LET up(t, limit) == IF t < limit THEN t + 1 ELSE t
     IN loc' = [loc EXCEPT !.waited = up(@, StallTime), !.total = up(@, MaxWait)]
  /\ loc' # loc
  /\ UNCHANGED <<dec, hw, kind, choice, pc, errors, last, faults, shown>>

ThreadStep ==
  \/ Open \/ DecodeError \/ SwDecode \/ Poll \/ HandleEvent
  \/ DrainRound \/ Rebuild \/ WaitRest \/ Put \/ Return \/ PollReady \/ PollRest
  \/ TakeFails

Next ==
  \/ Pop \/ PollIdle \/ ThreadStep
  \/ DriverDecodes \/ DriverSkips \/ DriverBabbles \/ DriverReformats \/ DriverReports \/ DriverFails
  \/ Tick

Spec == Init /\ [][Next]_vars

(* The thread keeps running and time passes; nothing is asked of the       *)
(* driver.                                                                 *)
FairSpec == Spec /\ WF_vars(ThreadStep) /\ WF_vars(Tick)
-----------------------------------------------------------------------------
(* The queued flags of Queue agree with the driver: a buffer is flagged    *)
(* exactly while the driver has it, in one place only, through refused     *)
(* requeues, LAST buffers, restarts and failed reconfigurations.  A flag   *)
(* left set loses the buffer for good; one left clear queues it twice.     *)
BuffersHaveOneOwner ==
  kind = "hw" =>
    LET jobSlots == {hw.jobs[i].slot : i \in DOMAIN hw.jobs}
        doneSlots == {hw.done[i].slot : i \in DOMAIN hw.done} \ {None}
        doneIdx == {hw.done[i].idx : i \in DOMAIN hw.done}
    IN /\ dec.outq = jobSlots \cup doneSlots \cup hw.freed
       /\ Cardinality(dec.outq) = Len(hw.jobs) + Cardinality(doneSlots)
                                    + Cardinality(hw.freed)
       /\ dec.cap # None =>
            /\ dec.cap.queued = hw.held \cup doneIdx
            /\ hw.held \cap doneIdx = {}
            /\ Cardinality(doneIdx) = Len(hw.done)

(* A picture reaches the screen once, in stream order, copied at the       *)
(* geometry of the sequence it belongs to: never from the provisional      *)
(* queue, never across a reconfiguration that was still pending.  And one  *)
(* already decoded is not thrown away by the STREAMOFF of                  *)
(* reconfigure_capture (decoder.rs 297-301), unless the driver never ended *)
(* the sequence or refused a buffer during the drain.                      *)
PicturesInOrder ==
  /\ [][shown' # shown =>
          /\ shown'.fmt = shown'.frame.fmt
          /\ shown # None => shown.frame.num < shown'.frame.num]_vars
  /\ [](pc = "rebuild" /\ dec.cap # None /\ ~dec.cap.provisional
          => \/ \A i \in DOMAIN hw.done : hw.done[i].frame = None
             \/ loc.rounds = DrainRounds
             \/ Refuses(dec, hw))

(* decode and poll_frame always come back, whatever the driver does: the   *)
(* wait for a slot, the drain and the tail loop all end.                   *)
DecodeReturns == pc \notin {"pop", "quit"} ~> pc \in {"pop", "quit"}
=============================================================================
