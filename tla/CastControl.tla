---------------------------- MODULE CastControl ----------------------------
(***************************************************************************)
(* Miracast casts as runs of their own, and how other processes find them: *)
(* castr-sender control/{server,client,record,wire}.rs, the life of a run  *)
(* around miracast_cast.rs::cast_to, and castr-wifidirect-win's            *)
(* radio::connect, which brings up the Wi-Fi Direct group a run holds.     *)
(*                                                                         *)
(* Every run shares one record file.  A run writes it when its control     *)
(* socket is up and removes it when the cast ends; a command reads it,     *)
(* connects to the port it names and sends the token it names.  A run is   *)
(* its token, so the record is the run that wrote it.  Reading, connecting *)
(* and removing are separate steps of separate processes.  All runs cast   *)
(* to one display.                                                         *)
(***************************************************************************)
EXTENDS Naturals, FiniteSets

CONSTANTS
    Runs,        \* the casts that may be started, numbered from 1
    Users,       \* miracast-stop and miracast-status commands
    Ports,       \* loopback ports the system hands out, over and over
    Budgets      \* the display at the start, whether a terminal names it by address,
                 \* and bounds on what a behaviour does

ASSUME ControlAssumption ==
    /\ Runs \subseteq Nat \ {0} /\ Runs # {} /\ Runs \cap Users = {}
    /\ Ports \subseteq Nat \ {0}

VARIABLES
    cast,        \* for each run, where it is and what it holds; history: whether anybody
                 \* asked it to stop
    file,        \* miracast-cast.toml: the run that wrote it, and whether all of it is there
    caller,      \* the processes reading the record: the runs starting up and the commands
    paired,      \* what Windows has stored for the display: "no", "good", or "stale"
    ceremony,    \* select::choose_ceremony for the display
    left         \* what the bounds leave

controlVars == <<cast, file, caller, paired, ceremony, left>>

NoRecord == [run |-> 0, whole |-> TRUE]

Idle == [at |-> "idle", req |-> "none", run |-> 0, sock |-> 0]

NotStarted == [at |-> "none", window |-> FALSE, port |-> 0, ctl |-> "none", stop |-> FALSE,
               asked |-> FALSE, was |-> FALSE, again |-> FALSE, group |-> FALSE]

\* choose_ceremony: the caller's preference, or a button when the display has one
ChooseCeremony(button, preference) ==
    CASE preference = "ForcePin" -> "Pin"
      [] preference = "ForcePushButton" -> "PushButton"
      [] preference = "Auto" -> IF button THEN "PushButton" ELSE "Pin"

ControlInit ==
    /\ cast = [r \in Runs |-> NotStarted]
    /\ file = NoRecord
    /\ caller = [c \in Runs \cup Users |-> Idle]
    /\ left \in Budgets
    /\ paired = left.paired
    /\ ceremony = ChooseCeremony(left.button, "Auto")

Spend(what) == left[what] > 0 /\ left' = [left EXCEPT ![what] = @ - 1]

At(r, where) == cast[r].at = where

Goes(r, where) == cast' = [cast EXCEPT ![r].at = where]

Alive(r) == cast[r].at \notin {"none", "over"}

\* The socket accepts connections from the bind until its thread has left
Listening(r) == cast[r].ctl \in {"open", "closing"}
-----------------------------------------------------------------------------
(* Reading the record: client.rs look, talk and running *)

\* A stop command that finds a run's record asks that run, whoever it talks to later
StopWanted(c) ==
    IF caller[c].req = "stop" /\ file.run # 0 /\ file.whole
    THEN [cast EXCEPT ![file.run].asked = TRUE] ELSE cast

\* read_to_string, Record::parse
Looks(c) ==
    /\ caller[c].at = "look"
    /\ caller' = [caller EXCEPT ![c].at = IF file.run = 0 THEN "absent"
                                          ELSE IF ~file.whole THEN "discard" ELSE "connect",
                                ![c].run = file.run]
    /\ cast' = StopWanted(c)
    /\ UNCHANGED <<file, paired, ceremony, left>>

\* connect_timeout and record::interpret: only a port that answers is alive
Connects(c) ==
    /\ caller[c].at = "connect"
    /\ LET there == {r \in Runs : Listening(r) /\ cast[r].port = cast[caller[c].run].port}
       IN  IF there = {}
           THEN caller' = [caller EXCEPT ![c].at = "discard"]
           ELSE \E r \in there :
                  caller' = [caller EXCEPT ![c].sock = r,
                               ![c].at = IF caller[c].req = "run" THEN "live" ELSE "send"]
    /\ UNCHANGED <<cast, file, paired, ceremony, left>>

\* discard: whatever the file says by now
Discards(c) ==
    /\ caller[c].at = "discard"
    /\ file' = NoRecord
    /\ caller' = [caller EXCEPT ![c].at = "absent"]
    /\ UNCHANGED <<cast, paired, ceremony, left>>

\* talk: the request goes out with the record's token
Sends(c) ==
    /\ caller[c].at = "send"
    /\ caller' = [caller EXCEPT ![c].at = "asked"]
    /\ UNCHANGED <<cast, file, paired, ceremony, left>>

\* Mutant: the port alone says whose request it is.
ParsesAnyRequest(c, r) == caller[c].sock = r

\* wire::parse_request: the token has to be this run's
ParsesRequest(c, r) == caller[c].run = r

\* Mutant: a client that has given up is passed over.
HeardIfWaiting(r, c) == caller[c].sock = r /\ caller[c].at = "asked"

\* read_line in serve: what a client sent is read, whether it still waits or not
Heard(r, c) == caller[c].sock = r /\ caller[c].at \in {"asked", "late"}

\* serve: one client after another, each until it has spoken
Serves(r, c) ==
    /\ cast[r].ctl = "open"
    /\ Heard(r, c)
    /\ cast' = IF ParsesRequest(c, r) /\ caller[c].req = "stop"
               THEN [cast EXCEPT ![r].stop = TRUE] ELSE cast
    /\ caller' = [caller EXCEPT ![c] = Idle]
    /\ UNCHANGED <<file, paired, ceremony, left>>

\* read_line times out: another connection keeps the server.  What was sent stays sent.
TimesOut(c) ==
    /\ caller[c].at = "asked"
    /\ \E other \in Users \ {c} : caller[other].sock = caller[c].sock /\ caller[other].at = "send"
    /\ caller' = [caller EXCEPT ![c].at = "late"]
    /\ UNCHANGED <<cast, file, paired, ceremony, left>>

\* The listener went with the connection in it: an empty line, or an error
Dropped(c) ==
    /\ caller[c].at \in {"send", "asked", "late"}
    /\ cast[caller[c].sock].ctl = "closed"
    /\ caller' = [caller EXCEPT ![c].sock = 0,
                    ![c].at = IF caller[c].at = "asked" THEN "discard" ELSE "absent"]
    /\ UNCHANGED <<cast, file, paired, ceremony, left>>

\* NoCast or Stale is printed, and the command is done
Prints(c) ==
    /\ c \in Users /\ caller[c].at = "absent"
    /\ caller' = [caller EXCEPT ![c] = Idle]
    /\ UNCHANGED <<cast, file, paired, ceremony, left>>

\* miracast-stop, miracast-status
Command(c) ==
    /\ c \in Users /\ caller[c] = Idle
    /\ c = CHOOSE u \in Users : caller[u] = Idle
    /\ Spend("commands")
    /\ \E req \in {"stop", "status"} : caller' = [caller EXCEPT ![c] = [Idle EXCEPT !.at = "look", !.req = req]]
    /\ UNCHANGED <<cast, file, paired, ceremony>>

Reads(c) ==
    \/ Looks(c) \/ Connects(c) \/ Discards(c) \/ Sends(c) \/ TimesOut(c) \/ Dropped(c) \/ Prints(c)
    \/ \E r \in Runs : Serves(r, c)
-----------------------------------------------------------------------------
(* A run starts: main.rs MiracastCast, gui cast_to_display *)

Fresh == CHOOSE r \in Runs : At(r, "none") /\ \A q \in Runs : At(q, "none") => r <= q

\* The check for a running cast comes first
StartsCast(window) ==
    /\ \E r \in Runs : At(r, "none")
    /\ cast' = [cast EXCEPT ![Fresh].at = "looking", ![Fresh].window = window]
    /\ caller' = [caller EXCEPT ![Fresh] = [Idle EXCEPT !.at = "look", !.req = "run"]]
    /\ UNCHANGED <<file, paired, ceremony>>

\* running() found a cast: this one is refused
Refused(r) ==
    /\ At(r, "looking") /\ caller[r].at = "live"
    /\ Goes(r, "over")
    /\ caller' = [caller EXCEPT ![r] = Idle]
    /\ UNCHANGED <<file, paired, ceremony, left>>

\* Nobody is casting: to the radio, or, from a terminal, straight to an address
Admitted(r) ==
    /\ At(r, "looking") /\ caller[r].at = "absent"
    /\ Goes(r, IF ~cast[r].window /\ left.address THEN "establish" ELSE "find")
    /\ caller' = [caller EXCEPT ![r] = Idle]
    /\ UNCHANGED <<file, paired, ceremony, left>>
-----------------------------------------------------------------------------
(* radio::connect *)

\* find: the display is there under that name, or one minute is over, or the name
\* fits several devices or one that is no display
Finds(r) ==
    /\ At(r, "find")
    /\ \/ cast' = [cast EXCEPT ![r].at = "bring_up", ![r].was = paired # "no"] /\ UNCHANGED left
       \/ Goes(r, "over") /\ Spend("faults")
    /\ UNCHANGED <<file, caller, paired, ceremony>>

\* Mutant: only the radio's words decide.
TriesAgainByWords(r, stale) == cast[r].was /\ ~cast[r].again /\ stale

\* connect: forget the pairing once, if pairing again is free or the words are a stale pairing's
TriesAgain(r, stale) ==
    cast[r].was /\ ~cast[r].again /\ (ceremony = "PushButton" \/ stale)

\* bring_up failed, and its device with it; stale: looks_like_stale_credentials
BringUpFails(r) ==
    \E stale \in BOOLEAN :
      cast' = [cast EXCEPT ![r].group = FALSE,
                           ![r].at = IF TriesAgain(r, stale) THEN "unpair" ELSE "over"]

\* unpair, which may fail, and bring_up again
Unpairs(r) ==
    /\ At(r, "unpair")
    /\ \/ /\ cast' = [cast EXCEPT ![r].at = "bring_up", ![r].again = TRUE]
          /\ paired' = "no"
          /\ UNCHANGED left
       \/ Goes(r, "over") /\ Spend("faults") /\ UNCHANGED paired
    /\ UNCHANGED <<file, caller, ceremony>>

\* pair_with_push_button
PairsByButton(r) ==
    /\ At(r, "bring_up") /\ paired = "no" /\ ceremony = "PushButton"
    /\ \/ Goes(r, "form") /\ paired' = "good" /\ UNCHANGED left
       \/ BringUpFails(r) /\ Spend("faults") /\ UNCHANGED paired
    /\ UNCHANGED <<file, caller, ceremony>>

\* pair_with_pin: Windows asks for the PIN once the display shows one
AsksForPin(r) ==
    /\ At(r, "bring_up") /\ paired = "no" /\ ceremony = "Pin"
    /\ Goes(r, "asking")
    /\ UNCHANGED <<file, caller, paired, ceremony, left>>

\* AcceptWithPin, or the prompt was refused and the pairing with it
PinComes(r, given) ==
    /\ At(r, "asking")
    /\ \/ given /\ Goes(r, "form") /\ paired' = "good"
       \/ BringUpFails(r) /\ UNCHANGED paired
    /\ UNCHANGED <<file, caller, ceremony, left>>

\* FromIdAsync: the group, unless the stored pairing is worth nothing
Forms(r) ==
    /\ At(r, "form") \/ (At(r, "bring_up") /\ paired # "no")
    /\ \/ paired = "good" /\ cast' = [cast EXCEPT ![r].at = "address", ![r].group = TRUE]
          /\ UNCHANGED left
       \/ paired = "stale" /\ BringUpFails(r) /\ UNCHANGED left
       \/ BringUpFails(r) /\ Spend("faults")
    /\ UNCHANGED <<file, caller, paired, ceremony>>

\* address_of: within ten seconds, or not
GetsAddress(r) ==
    /\ At(r, "address")
    /\ \/ Goes(r, "establish") /\ UNCHANGED left
       \/ BringUpFails(r) /\ Spend("faults")
    /\ UNCHANGED <<file, caller, paired, ceremony>>
-----------------------------------------------------------------------------
(* cast_to *)

\* establish: dial and listen for 20 s
Establishes(r) ==
    /\ At(r, "establish")
    /\ \/ Goes(r, "control") /\ UNCHANGED left
       \/ Goes(r, "release") /\ Spend("faults")
    /\ UNCHANGED <<file, caller, paired, ceremony>>

\* ControlServer::start: bind, and the record file is created; without a port or a file
\* the cast runs all the same
OpensControl(r) ==
    /\ At(r, "control")
    /\ \/ \E p \in {q \in Ports : \A o \in Runs : Listening(o) => cast[o].port # q} :
            /\ cast' = [cast EXCEPT ![r].at = "record", ![r].ctl = "open", ![r].port = p]
            /\ file' = [run |-> r, whole |-> FALSE]
            /\ UNCHANGED left
       \/ Goes(r, "casting") /\ Spend("faults") /\ UNCHANGED file
    /\ UNCHANGED <<caller, paired, ceremony>>

\* The rest of fs::write; a file removed meanwhile stays removed
WritesRecord(r) ==
    /\ At(r, "record")
    /\ file' = IF file.run = r THEN [file EXCEPT !.whole = TRUE] ELSE file
    /\ Goes(r, "casting")
    /\ UNCHANGED <<caller, paired, ceremony, left>>

\* Mutant: Stop is only looked at while the display is silent.
LeavesLoopDeaf(r) == At(r, "casting") /\ ~cast[r].stop

\* Stop, the end of --duration, an error or a display that leaves: TEARDOWN on every path
LeavesLoop(r) == At(r, "casting")

Ends(r) ==
    /\ LeavesLoop(r)
    /\ Goes(r, IF cast[r].ctl = "open" THEN "unrecord" ELSE "release")
    /\ UNCHANGED <<file, caller, paired, ceremony, left>>

\* Drop for ControlServer: the record first
DropsRecord(r) ==
    /\ At(r, "unrecord")
    /\ file' = NoRecord
    /\ Goes(r, "shutdown")
    /\ UNCHANGED <<caller, paired, ceremony, left>>

\* then the flag, and a connection to wake the thread
ShutsDown(r) ==
    /\ At(r, "shutdown")
    /\ cast' = [cast EXCEPT ![r].at = "release", ![r].ctl = "closing"]
    /\ UNCHANGED <<file, caller, paired, ceremony, left>>

\* The control thread sees the flag at its next connection
ThreadLeaves(r) ==
    /\ cast[r].ctl = "closing"
    /\ cast' = [cast EXCEPT ![r].ctl = "closed"]
    /\ UNCHANGED <<file, caller, paired, ceremony, left>>

\* drop(connection): the group goes, and with some displays the pairing
Releases(r) ==
    /\ At(r, "release")
    /\ cast' = [cast EXCEPT ![r].at = "over", ![r].group = FALSE]
    /\ paired' \in {paired} \cup (IF cast[r].group /\ paired = "good" THEN {"stale"} ELSE {})
    /\ UNCHANGED <<file, caller, ceremony, left>>

\* Ctrl-C once, or the window's Stop: a Stop the loop finds when it runs
StopsRun(r) ==
    /\ Alive(r) /\ ~At(r, "looking") /\ ~cast[r].stop
    /\ cast' = [cast EXCEPT ![r].stop = TRUE, ![r].asked = TRUE]
    /\ UNCHANGED <<file, caller, paired, ceremony>>

\* The process is gone, wherever the run was; its record stays
Dies(r) ==
    /\ cast' = [cast EXCEPT ![r].at = "over", ![r].group = FALSE,
                            ![r].ctl = IF @ = "none" THEN @ ELSE "closed"]
    /\ caller' = [caller EXCEPT ![r] = Idle]
    /\ UNCHANGED <<file, paired, ceremony>>

RunSteps(r) ==
    \/ Refused(r) \/ Admitted(r) \/ Finds(r) \/ Unpairs(r) \/ PairsByButton(r) \/ Forms(r)
    \/ GetsAddress(r) \/ Establishes(r) \/ OpensControl(r) \/ WritesRecord(r) \/ Ends(r)
    \/ DropsRecord(r) \/ ShutsDown(r) \/ ThreadLeaves(r) \/ Releases(r)
=============================================================================
