---------------------------- MODULE SenderShell ----------------------------
(***************************************************************************)
(* The sender's window (castr-sender gui/) and its terminal commands       *)
(* (main.rs) around the Miracast runs of CastControl: the two scans, the   *)
(* PIN prompt that castr pairings and Miracast runs share, the cast the    *)
(* window shows, what closing the window does, and the Wi-Fi check.        *)
(*                                                                         *)
(* One frame of the window is one step: it takes a snapshot, draws, and    *)
(* acts on at most one click.  Worker threads and tasks step between       *)
(* frames.  A PIN channel is known by who waits on it: the prompt holds    *)
(* the only sender, so a waiter that is no longer the prompt's and was     *)
(* sent nothing is cancelled.                                              *)
(***************************************************************************)
EXTENDS CastControl, Sequences

CONSTANTS
    None,        \* no cast
    Castr,       \* the window's cast to a castr receiver
    CmdSlots,    \* capacity of a castr cast's command channel (4)
    Pairings,    \* castr pairings the user starts
    Checks       \* Wi-Fi checks the user starts, numbered from 1

ASSUME ShellAssumption == CmdSlots \in Nat \ {0} /\ Checks \subseteq Nat \ {0}

VARIABLES
    window,      \* "open", "closing", "gone"
    active,      \* App.active: a Miracast run, Castr or None
    prompt,      \* Shared.pin_tx: who asked, <<>> when nobody is asked
    sent,        \* the askers a PIN was sent to
    finished,    \* RunState.finished of the window's runs
    pair,        \* the castr pairing tasks
    castr,       \* the castr cast: where it is, its commands
    scan,        \* the scan flags, and which scans have ever reported
    wifi,        \* Panel: generation, running, the check whose report shows
    check        \* the check threads

windowVars == <<window, active, prompt, sent, finished, pair, castr, scan, wifi, check>>

vars == <<controlVars, windowVars>>

NoCastr == [at |-> "none", cmds |-> <<>>]

Init ==
    /\ ControlInit
    /\ window = "open" /\ active = None /\ prompt = <<>> /\ sent = {} /\ finished = {}
    /\ pair = [k \in Pairings |-> "none"]
    /\ castr = NoCastr
    /\ scan = IF left.scans > 0
              THEN [receivers |-> TRUE, displays |-> TRUE, scanned |-> FALSE, heard |-> {}]
              ELSE [receivers |-> FALSE, displays |-> FALSE, scanned |-> TRUE,
                    heard |-> {"receivers", "displays"}]
    /\ wifi = [generation |-> 0, running |-> FALSE, report |-> 0]
    /\ check = [k \in Checks |-> [at |-> "none", mine |-> 0]]

\* The window thread waits in running() while its run looks for another
Looking == \E r \in Runs : cast[r].window /\ At(r, "looking")

Frame == window = "open" /\ ~Looking

\* The buttons of an idle window with nothing to type in
Free == Frame /\ prompt = <<>> /\ active = None
-----------------------------------------------------------------------------
(* Scanning: App::scan *)

ClickScan ==
    /\ Frame /\ ~scan.receivers /\ ~scan.displays
    /\ Spend("scans")
    /\ scan' = [scan EXCEPT !.receivers = TRUE, !.displays = TRUE]
    /\ UNCHANGED <<cast, file, caller, paired, ceremony, window, active, prompt, sent, finished,
                   pair, castr, wifi, check>>

\* A scan is done, with or without a result: both are when the other is not running
Reported(which, other) ==
    scan' = [scan EXCEPT ![which] = FALSE, !.scanned = ~scan[other], !.heard = @ \cup {which}]

ScanEnds ==
    /\ window # "gone"
    /\ \/ scan.receivers /\ Reported("receivers", "displays")
       \/ scan.displays /\ Reported("displays", "receivers")
    /\ UNCHANGED <<controlVars, window, active, prompt, sent, finished, pair, castr, wifi, check>>
-----------------------------------------------------------------------------
(* The PIN prompt *)

Waits(who) == prompt = <<who>>

\* start_pair: the prompt is armed before the task runs
ClickPair(k) ==
    /\ Free /\ pair[k] = "none"
    /\ Spend("pairings")
    /\ pair' = [pair EXCEPT ![k] = "connecting"]
    /\ prompt' = <<k>>
    /\ UNCHANGED <<cast, file, caller, paired, ceremony, window, active, sent, finished, castr,
                   scan, wifi, check>>

\* The end of the task: the prompt goes, whoever's it is by now
PairEnds(k) ==
    /\ pair' = [pair EXCEPT ![k] = "done"]
    /\ prompt' = <<>>

\* pair_interactive up to read_pin: the receiver wants a PIN, or nothing is to be done
PairConnects(k) ==
    /\ window # "gone" /\ pair[k] = "connecting"
    /\ \/ pair' = [pair EXCEPT ![k] = "asking"] /\ UNCHANGED prompt
       \/ PairEnds(k)
    /\ UNCHANGED <<controlVars, window, active, sent, finished, castr, scan, wifi, check>>

\* recv returned: the PIN goes to the receiver, or the entry was cancelled
PairAnswered(k) ==
    /\ window # "gone" /\ pair[k] = "asking"
    /\ \/ k \in sent /\ pair' = [pair EXCEPT ![k] = "pairing"] /\ UNCHANGED prompt
       \/ k \notin sent /\ ~Waits(k) /\ PairEnds(k)
    /\ UNCHANGED <<controlVars, window, active, sent, finished, castr, scan, wifi, check>>

PairDone(k) ==
    /\ window # "gone" /\ pair[k] = "pairing" /\ PairEnds(k)
    /\ UNCHANGED <<controlVars, window, active, sent, finished, castr, scan, wifi, check>>

\* A complete PIN is submitted, or the prompt is cancelled
Submit ==
    /\ Frame /\ prompt # <<>>
    /\ sent' = sent \cup {prompt[1]}
    /\ prompt' = <<>>
    /\ UNCHANGED <<controlVars, window, active, finished, pair, castr, scan, wifi, check>>

Cancel ==
    /\ Frame /\ prompt # <<>>
    /\ prompt' = <<>>
    /\ UNCHANGED <<controlVars, window, active, sent, finished, pair, castr, scan, wifi, check>>

\* ask_pin of a window's run; a terminal's reads standard input
Asks(r) ==
    /\ AsksForPin(r)
    /\ prompt' = IF cast[r].window THEN <<r>> ELSE prompt
    /\ sent' = sent \ {r}
    /\ UNCHANGED <<window, active, finished, pair, castr, scan, wifi, check>>

\* recv in ask_pin: then the prompt is taken down
Answered(r) ==
    /\ IF cast[r].window
       THEN (r \in sent \/ ~Waits(r)) /\ PinComes(r, r \in sent) /\ prompt' = <<>>
       ELSE (\E given \in BOOLEAN : PinComes(r, given)) /\ UNCHANGED prompt
    /\ UNCHANGED <<window, active, sent, finished, pair, castr, scan, wifi, check>>
-----------------------------------------------------------------------------
(* The cast the window shows *)

ClickCastDisplay ==
    /\ Free /\ Spend("casts") /\ StartsCast(TRUE)
    /\ UNCHANGED windowVars

TerminalCast ==
    /\ Spend("terminals") /\ StartsCast(FALSE)
    /\ UNCHANGED windowVars

\* A run steps; an admitted run of the window is what it shows
RunStep(r) ==
    /\ RunSteps(r)
    /\ active' = IF cast[r].window /\ At(r, "looking") /\ cast'[r].at # "over" THEN r ELSE active
    /\ UNCHANGED <<window, prompt, sent, finished, pair, castr, scan, wifi, check>>

\* Mutant: a worker that fails does not say so.
SaysFinishedQuietly(r) == finished' = IF cast[r].stop THEN finished \cup {r} ELSE finished

\* RunState.finished, with or without an error
SaysFinished(r) == finished' = finished \cup {r}

\* The worker's last lines: it is over, and a prompt must not outlive it
WorkerFinishes(r) ==
    /\ window # "gone" /\ active = r /\ At(r, "over") /\ r \notin finished
    /\ SaysFinished(r)
    /\ prompt' = <<>>
    /\ UNCHANGED <<controlVars, window, active, sent, pair, castr, scan, wifi, check>>

\* cast_to_receiver
ClickCastReceiver ==
    /\ Free /\ Spend("casts")
    /\ castr' = [at |-> "casting", cmds |-> <<>>]
    /\ active' = Castr
    /\ UNCHANGED <<cast, file, caller, paired, ceremony, window, prompt, sent, finished, pair,
                   scan, wifi, check>>

\* try_send: a full channel loses the command
Queued(cmd) ==
    castr' = IF Len(castr.cmds) < CmdSlots THEN [castr EXCEPT !.cmds = Append(@, cmd)] ELSE castr

ClickMode ==
    /\ Frame /\ active = Castr /\ Spend("modes")
    /\ Queued("mode")
    /\ UNCHANGED <<cast, file, caller, paired, ceremony, window, active, prompt, sent, finished,
                   pair, scan, wifi, check>>

\* The Stop button, which the prompt hides
ClickStop ==
    /\ Frame /\ prompt = <<>> /\ active # None
    /\ Spend("stops")
    /\ IF active = Castr
       THEN Queued("stop") /\ UNCHANGED <<cast, file, caller, paired, ceremony>>
       ELSE StopsRun(active) /\ UNCHANGED castr
    /\ UNCHANGED <<window, active, prompt, sent, finished, pair, scan, wifi, check>>

CtrlC(r) ==
    /\ ~cast[r].window /\ Spend("stops") /\ StopsRun(r)
    /\ UNCHANGED windowVars

\* A second Ctrl-C, or a crash: no teardown
TerminalDies(r) ==
    /\ ~cast[r].window /\ Alive(r) /\ Spend("kills") /\ Dies(r)
    /\ UNCHANGED windowVars

\* The cast loop takes a command, or the link is lost and made again
CastrSteps ==
    /\ window # "gone"
    /\ \/ /\ castr.at = "casting" /\ castr.cmds # <<>>
          /\ castr' = IF Head(castr.cmds) = "stop" THEN [castr EXCEPT !.at = "over"]
                      ELSE [castr EXCEPT !.cmds = Tail(@)]
       \/ castr.at = "casting" /\ castr' = [castr EXCEPT !.at = "reconnecting"]
       \/ castr.at = "reconnecting" /\ castr' = [castr EXCEPT !.at = "casting"]
       \/ castr.at \in {"casting", "reconnecting"} /\ castr' = [castr EXCEPT !.at = "over"]
    /\ UNCHANGED <<controlVars, window, active, prompt, sent, finished, pair, scan, wifi, check>>

\* Session::finished
Finished ==
    IF active = Castr THEN castr.at = "over" ELSE active \in finished

\* update: a cast that ended puts the window back to idle
GoesIdle ==
    /\ Frame /\ active # None /\ Finished
    /\ active' = None
    /\ UNCHANGED <<controlVars, window, prompt, sent, finished, pair, castr, scan, wifi, check>>

\* on_exit: the prompt's sender is dropped, the cast is told to stop
CloseWindow ==
    /\ Frame /\ Spend("closes")
    /\ window' = "closing"
    /\ prompt' = <<>>
    /\ IF active \in Runs THEN /\ cast' = [cast EXCEPT ![active].stop = TRUE, ![active].asked = TRUE] /\ UNCHANGED castr
       ELSE IF active = Castr THEN Queued("stop") /\ UNCHANGED cast
       ELSE UNCHANGED <<cast, castr>>
    /\ UNCHANGED <<file, caller, paired, ceremony, active, sent, finished, pair, scan, wifi, check>>

\* The worker is done, or has had its five seconds; the process goes and takes it along
WindowGone ==
    /\ window = "closing"
    /\ window' = "gone"
    /\ active' = None
    /\ IF active \in Runs /\ Alive(active) THEN Dies(active) ELSE UNCHANGED <<cast, caller, file, paired, ceremony>>
    /\ UNCHANGED <<left, prompt, sent, finished, pair, castr, scan, wifi, check>>
-----------------------------------------------------------------------------
(* The Wi-Fi check: wifi.rs *)

\* fetch_add(1) + 1
ClickedGeneration == wifi.generation + 1

\* button, start
ClickCheck(k) ==
    /\ Frame /\ ~wifi.running /\ check[k].at = "none" /\ \A j \in Checks : check[j].at = "none" => k <= j
    /\ Spend("checks")
    /\ check' = [check EXCEPT ![k] = [at |-> "probing", mine |-> ClickedGeneration]]
    /\ wifi' = [wifi EXCEPT !.generation = @ + 1, !.running = TRUE]
    /\ UNCHANGED <<cast, file, caller, paired, ceremony, window, active, prompt, sent, finished,
                   pair, castr, scan>>

\* The probe ends, or panics and is caught; the report is written if nothing came between;
\* the guard unlocks the button if nothing came between.  Each look and each write is a step.
CheckSteps(k) ==
    /\ window # "gone"
    /\ \/ /\ check[k].at = "probing"
          /\ check' = [check EXCEPT ![k].at = IF wifi.generation = check[k].mine THEN "report" ELSE "guard"]
          /\ UNCHANGED wifi
       \/ /\ check[k].at = "report"
          /\ check' = [check EXCEPT ![k].at = "guard"]
          /\ wifi' = [wifi EXCEPT !.report = k]
       \/ /\ check[k].at = "guard"
          /\ check' = [check EXCEPT ![k].at = IF wifi.generation = check[k].mine THEN "unlock" ELSE "over"]
          /\ UNCHANGED wifi
       \/ /\ check[k].at = "unlock"
          /\ check' = [check EXCEPT ![k].at = "over"]
          /\ wifi' = [wifi EXCEPT !.running = FALSE]
    /\ UNCHANGED <<controlVars, window, active, prompt, sent, finished, pair, castr, scan>>

\* Close: the report goes, a check under way is disowned
ClickClose ==
    /\ Frame /\ wifi.report # 0
    /\ wifi' = [generation |-> wifi.generation + 1, running |-> FALSE, report |-> 0]
    /\ UNCHANGED <<controlVars, window, active, prompt, sent, finished, pair, castr, scan, check>>
-----------------------------------------------------------------------------
Commands(c) == (Reads(c) \/ Command(c)) /\ UNCHANGED windowVars

Next ==
    \/ ClickScan \/ ScanEnds
    \/ \E k \in Pairings : ClickPair(k) \/ PairConnects(k) \/ PairAnswered(k) \/ PairDone(k)
    \/ Submit \/ Cancel
    \/ \E r \in Runs : Asks(r) \/ Answered(r) \/ RunStep(r) \/ WorkerFinishes(r) \/ CtrlC(r) \/ TerminalDies(r)
    \/ ClickCastDisplay \/ TerminalCast \/ ClickCastReceiver \/ ClickMode \/ ClickStop
    \/ CastrSteps \/ GoesIdle \/ CloseWindow \/ WindowGone
    \/ \E k \in Checks : ClickCheck(k) \/ CheckSteps(k)
    \/ ClickClose
    \/ \E c \in Runs \cup Users : Commands(c)

Spec == Init /\ [][Next]_vars

(* Threads, tasks and processes run; every wait in them has a limit, but   *)
(* for the PIN, which somebody types or cancels, or the end of the stream, *)
(* which is waited for only where a Stop is there.  A lost castr link may  *)
(* be lost again for ever, so nothing is assumed of the castr loop.        *)
RunThread(r) ==
    \/ RunStep(r) /\ (At(r, "casting") => cast[r].stop)
    \/ Asks(r) \/ Answered(r) \/ WorkerFinishes(r)
    \/ Reads(r) /\ UNCHANGED windowVars

FairSpec ==
    /\ Spec
    /\ \A r \in Runs : WF_vars(RunThread(r))
    /\ \A c \in Users : WF_vars(Reads(c) /\ UNCHANGED windowVars)
    /\ \A k \in Pairings : WF_vars(PairConnects(k) \/ PairAnswered(k) \/ PairDone(k))
    /\ \A k \in Checks : WF_vars(CheckSteps(k))
    /\ WF_vars(Submit \/ Cancel) /\ WF_vars(GoesIdle) /\ WF_vars(WindowGone)
-----------------------------------------------------------------------------
(* miracast-stop reaches the cast whose record it read, if that cast still  *)
(* serves: behind other clients, one at a time, and although the command   *)
(* may have given up waiting for the answer (server.rs serve, client.rs     *)
(* talk).  No run is stopped that nobody asked to: not by the record of a   *)
(* cast that is over or was killed and whose port was handed out again.     *)
StopReachesItsCast ==
    /\ [](\A r \in Runs : cast[r].stop => cast[r].asked)
    /\ \A r \in Runs, c \in Users :
          (/\ caller[c].at = "connect" /\ caller[c].req = "stop" /\ caller[c].run = r
           /\ cast[r].ctl = "open")
          ~> (cast[r].stop \/ cast[r].ctl # "open")

(* A run told to stop ends, wherever it was when it was told: at the radio, *)
(* at the PIN, dialling or casting (main.rs and gui Stop, server.rs).      *)
StopIsObeyed == \A r \in Runs : cast[r].stop ~> At(r, "over")

(* A display that pairs by button is reached although it has forgotten     *)
(* the pairing Windows kept, if the radio works and nobody else casts to   *)
(* it: the pairing is forgotten and made again (radio.rs connect).         *)
StalePairingHeals ==
    \A r \in Runs :
      (/\ At(r, "bring_up") /\ ceremony = "PushButton"
       /\ cast[r].was /\ left.faults = 0 /\ left.kills = 0)
      ~> \/ cast[r].group \/ window # "open"
         \/ \E other \in Runs \ {r} : Alive(other)

(* The window is never stuck.  It leaves a cast that is over, however it   *)
(* ended (gui/mod.rs worker, cast.rs set_state), and the Wi-Fi button      *)
(* unlocks after every check, with any number of checks closed and started *)
(* while others run (wifi.rs RunGuard).                                    *)
WindowRecovers ==
    /\ \A r \in Runs : (active = r /\ At(r, "over")) ~> active # r
    /\ (active = Castr /\ castr.at = "over") ~> active # Castr
    /\ wifi.running ~> (~wifi.running \/ window = "gone")
=============================================================================
