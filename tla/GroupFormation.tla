--------------------------- MODULE GroupFormation ---------------------------
(***************************************************************************)
(* The radio under the Miracast sink: sink.rs's passes (ensure_supplicant, *)
(* one_group, serve's first half, GroupGuard), p2p.rs's control connection *)
(* to wpa_supplicant, supplicant_conf.rs's working configuration with the  *)
(* stored group in it, pairing.rs's PIN and its registration window, and   *)
(* dhcp.rs's one lease.                                                    *)
(*                                                                         *)
(* The sink thread sends one command at a time and waits for its answer on *)
(* a socket that carries events too; the supplicant, external, answers in  *)
(* its own time and outlives a pass.  A kill of the service takes both     *)
(* down and leaves the disk.  Credentials are the number of the group they *)
(* open.  RTSP, the display and the peer of a session are MiracastSink's.  *)
(***************************************************************************)
EXTENDS Naturals, Sequences, SequencesExt

CONSTANTS
    Nothing,
    Sources,     \* the sources around
    WalkTime,    \* WPS_WALK_TIME, in ticks of the clock
    Rearm,       \* WPS_REARM, in ticks
    Budgets      \* the machine at the start, and bounds on what a behaviour does

\* Sources that paired before did it with the first of the groups stored, group 1.
ASSUME GroupAssumption ==
    /\ Nothing \notin Sources
    /\ WalkTime \in Nat /\ Rearm \in 1 .. WalkTime
    /\ \A b \in Budgets :
         /\ {"conf", "paired", "writable"} \subseteq DOMAIN b
         /\ b.conf \in [tmpl : Nat, nets : Seq(Nat \ {0})]
         /\ b.paired # {} => b.conf.nets # <<>> /\ Head(b.conf.nets) = 1

VARIABLES
    disk,        \* the deployed template's version, the working configuration and its stamp
    sup,         \* the supplicant, its socket file and its group
    radio,       \* the sources: who is in the group, with which credentials and address
    sink,        \* the sink thread: where it is and the locals of one_group and serve
    wire,        \* lines the supplicant wrote on each control and the sink has not read
    pending,     \* Control.pending of each control
    asked,       \* commands the supplicant has not answered
    lost,        \* a rewrite of the configuration was cut short, or an answer came late
    left         \* what the bounds leave

groupVars == <<disk, sup, radio, sink, wire, pending, asked, lost, left>>

Empty == [tmpl |-> 0, nets |-> <<>>]

NoSupplicant == [up |-> FALSE, sock |-> FALSE, saves |-> FALSE, tmpl |-> 0, nets |-> <<>>,
                 forming |-> 0, group |-> 0, pin |-> 0, walk |-> 0, hears |-> {}]

NewPass == [at |-> "ensure", waits |-> FALSE, desired |-> Empty, file |-> "working",
            stored |-> 0, guard |-> FALSE, pin |-> 0, wps |-> Rearm, clients |-> {},
            session |-> FALSE, todo |-> <<>>, stop |-> FALSE]

Quiet == [w |-> <<>>, g |-> <<>>]

GroupInit ==
    /\ left \in Budgets
    /\ disk = [tmpl |-> 1, conf |-> left.conf, stamp |-> left.conf.tmpl]
    /\ sup = NoSupplicant
    /\ radio = [in |-> {}, creds |-> [m \in Sources |-> IF m \in left.paired THEN 1 ELSE 0],
                lease |-> [m \in Sources |-> "none"], asks |-> {}, enrolling |-> Nothing,
                digits |-> 0, made |-> Len(left.conf.nets)]
    /\ sink = NewPass
    /\ wire = Quiet
    /\ pending = Quiet
    /\ asked = <<>>
    /\ lost = FALSE

At(where) == sink.at = where

Goes(where) == sink' = [sink EXCEPT !.at = where]

Spend(what) == left[what] > 0 /\ left' = [left EXCEPT ![what] = @ - 1]

\* A control that is dropped hears no more; what it asked is still carried out
Orphaned(cmds) == [i \in DOMAIN cmds |-> [cmds[i] EXCEPT !.ctl = "gone"]]

\* Mutant: nothing removes the group of a pass that failed.
LeavesPassUnguarded ==
    /\ sink' = [NewPass EXCEPT !.at = "pause", !.stop = sink.stop]
    /\ wire' = Quiet /\ pending' = Quiet
    /\ asked' = Orphaned(asked)
    /\ sup' = [sup EXCEPT !.hears = {}]

\* one_group returns: the locals go, the guard's drop first
LeavesPass ==
    /\ sink' = [NewPass EXCEPT !.at = IF sink.guard THEN "remove" ELSE "pause",
                               !.stop = sink.stop]
    /\ wire' = Quiet /\ pending' = Quiet
    /\ asked' = Orphaned(asked)
    /\ sup' = [sup EXCEPT !.hears = {}]

Fails == LeavesPass /\ Spend("faults")
-----------------------------------------------------------------------------
(* The working configuration and the supplicant's start *)

FromTemplate == [tmpl |-> disk.tmpl, nets |-> <<>>]

\* Mutant: a new template starts from nothing.
ReseedBare(existing) == [tmpl |-> disk.tmpl, nets |-> <<>>]

\* reseed: the new settings, the groups of the old file (network_blocks)
Reseed(existing) == [tmpl |-> disk.tmpl, nets |-> existing.nets]

\* ensure_supplicant: a socket file is taken for a running supplicant
EnsureSupplicant ==
    /\ At("ensure")
    /\ Goes(IF sup.sock THEN "open" ELSE "conf")
    /\ UNCHANGED <<disk, sup, radio, wire, pending, asked, lost, left>>

\* The working copy is there and comes from the template that is deployed
Derived == disk.conf # Empty /\ disk.stamp = disk.tmpl

\* working_conf: the file is derived once, and again for a changed template
WorkingConf ==
    /\ At("conf")
    /\ \/ ~left.writable
          /\ sink' = [sink EXCEPT !.at = "spawn", !.file = "template"]
          /\ UNCHANGED disk
       \/ left.writable /\ Derived
          /\ Goes("spawn")
          /\ UNCHANGED disk
       \/ left.writable /\ ~Derived
          /\ sink' = [sink EXCEPT !.at = "write", !.desired = IF disk.conf = Empty
                        THEN FromTemplate ELSE Reseed(disk.conf)]
          /\ disk' = [disk EXCEPT !.conf = Empty]
    /\ UNCHANGED <<sup, radio, wire, pending, asked, lost, left>>

\* fs::write truncated the file when it opened it; a full disk leaves it so
Writes ==
    /\ At("write")
    /\ \/ disk' = [disk EXCEPT !.conf = sink.desired]
          /\ Goes("stamp")
          /\ UNCHANGED <<lost, left>>
       \/ Spend("faults")
          /\ lost' = TRUE
          /\ sink' = [sink EXCEPT !.at = "spawn", !.file = "template"]
          /\ UNCHANGED disk
    /\ UNCHANGED <<sup, radio, wire, pending, asked>>

Stamps ==
    /\ At("stamp")
    /\ disk' = [disk EXCEPT !.stamp = disk.tmpl]
    /\ Goes("spawn")
    /\ UNCHANGED <<sup, radio, wire, pending, asked, lost, left>>

\* wpa_supplicant -B, and its socket within five seconds
Spawns ==
    /\ At("spawn")
    /\ \/ /\ sup' = IF sink.file = "working"
                    THEN [NoSupplicant EXCEPT !.up = TRUE, !.sock = TRUE, !.saves = TRUE,
                            !.tmpl = disk.conf.tmpl, !.nets = disk.conf.nets]
                    ELSE [NoSupplicant EXCEPT !.up = TRUE, !.sock = TRUE, !.tmpl = disk.tmpl]
          /\ Goes("open")
          /\ UNCHANGED <<wire, pending, asked, left>>
       \/ Fails
    /\ UNCHANGED <<disk, radio, lost>>

\* Control::open on wlan0: nobody answers on the socket of a dead supplicant
Opens ==
    /\ At("open")
    /\ \/ sup.up /\ Goes("attach") /\ UNCHANGED <<sup, wire, pending, asked>>
       \/ ~sup.up /\ LeavesPass
    /\ UNCHANGED <<disk, radio, lost, left>>
-----------------------------------------------------------------------------
(* Control::request *)

\* The control each command goes out on: wlan0's or the group's
ControlOf == [attach |-> "w", set |-> "w", scan |-> "w", list |-> "w", add |-> "w",
              g_attach |-> "g", first |-> "g", mint |-> "g", rearm |-> "g", show |-> "g",
              remove |-> "w"]

Commands == DOMAIN ControlOf

\* The next statement of one_group, serve or the guard
Then == [attach |-> "set", set |-> "scan", scan |-> "list", list |-> "add", add |-> "wait",
         g_attach |-> "pin", first |-> "poll", mint |-> "drain", rearm |-> "drain",
         show |-> "handle", remove |-> "pause"]

\* apply_pin and the re-arming: WPS_PIN with the PIN on the screen
Armings == {"first", "mint", "rearm", "show"}

\* Commands whose failure the code goes on from
Shrugged == {"scan", "list", "rearm", "remove"}

Argument(cmd) == IF cmd = "add" THEN sink.stored ELSE IF cmd \in Armings THEN sink.pin ELSE 0

\* say and its callers.  stored_persistent_group finds nothing in an answer without a row.
Answered(cmd, ok, row, rest) ==
    \/ /\ ok \/ cmd \in Shrugged
       /\ sink' = [sink EXCEPT !.at = Then[cmd], !.waits = FALSE,
                     !.stored = IF cmd = "list" THEN row ELSE @,
                     !.wps = IF ok /\ cmd \in {"mint", "rearm"} THEN 0 ELSE @]
       /\ wire' = rest
       /\ UNCHANGED <<sup, pending, asked>>
    \/ ~ok /\ cmd \notin Shrugged /\ LeavesPass

\* A socket whose supplicant is gone refuses the datagram
Sends(cmd) ==
    /\ At(cmd) /\ ~sink.waits
    /\ \/ /\ sup.up
          /\ asked' = Append(asked, [ctl |-> ControlOf[cmd], cmd |-> cmd, n |-> Argument(cmd)])
          /\ sink' = [sink EXCEPT !.waits = TRUE]
          /\ UNCHANGED <<sup, wire, pending>>
       \/ ~sup.up /\ Answered(cmd, FALSE, 0, wire)
    /\ UNCHANGED <<disk, radio, lost, left>>

IsEvent(line) == line.e \notin {"OK", "FAIL", "NETS"}

\* The next line on the control: an event is kept, anything else is the answer
ReadsLine(cmd) ==
    LET c == ControlOf[cmd]
        line == Head(wire[c])
        rest == [wire EXCEPT ![c] = Tail(@)]
    IN  /\ At(cmd) /\ sink.waits
        /\ wire[c] # <<>>
        /\ \/ /\ IsEvent(line)
              /\ wire' = rest
              /\ pending' = [pending EXCEPT ![c] = Append(@, line)]
              /\ UNCHANGED <<sup, sink, asked>>
           \/ /\ ~IsEvent(line)
              /\ Answered(cmd, line.e # "FAIL", line.n, rest)
        /\ UNCHANGED <<disk, radio, lost, left>>

\* Five seconds without an answer
TimesOut(cmd) ==
    /\ At(cmd) /\ sink.waits
    /\ wire[ControlOf[cmd]] = <<>>
    /\ \/ ~sup.up /\ UNCHANGED <<lost, left>>
       \/ sup.up /\ Spend("late") /\ lost' = TRUE
    /\ Answered(cmd, FALSE, 0, wire)
    /\ UNCHANGED <<disk, radio>>
-----------------------------------------------------------------------------
(* wpa_supplicant *)

Line(e, m, n) == [e |-> e, m |-> m, n |-> n]

\* Every control attached gets the line, but for those of the group's own business
Tells(line, controls) ==
    wire' = [c \in {"w", "g"} |-> IF c \in controls \cap sup.hears
                                 THEN Append(wire[c], line) ELSE wire[c]]

Replies(c, line) == wire' = IF c = "gone" THEN wire ELSE [wire EXCEPT ![c] = Append(@, line)]

Scattered == [radio EXCEPT !.in = {}, !.asks = {}, !.enrolling = Nothing,
                           !.lease = [m \in Sources |-> "none"]]

\* P2P_GROUP_ADD needs the radio to itself; persistent=<id> keeps the credentials
AddsGroup(ask) ==
    \/ /\ sup.group = 0 /\ sup.forming = 0
       /\ IF ask.n # 0
          THEN sup' = [sup EXCEPT !.forming = ask.n] /\ UNCHANGED radio
          ELSE /\ sup' = [sup EXCEPT !.forming = radio.made + 1]
               /\ radio' = [radio EXCEPT !.made = @ + 1]
       /\ Replies(ask.ctl, Line("OK", Nothing, 0))
    \/ /\ sup.group # 0 \/ sup.forming # 0
       /\ Replies(ask.ctl, Line("FAIL", Nothing, 0))
       /\ UNCHANGED <<sup, radio>>

Obeys(ask) ==
    \/ /\ ask.cmd \in {"attach", "g_attach"}
       /\ sup' = [sup EXCEPT !.hears = IF ask.ctl = "gone" THEN @ ELSE @ \cup {ask.ctl}]
       /\ Replies(ask.ctl, Line("OK", Nothing, 0)) /\ UNCHANGED radio
    \/ /\ ask.cmd \in {"set", "scan"}
       /\ Replies(ask.ctl, Line("OK", Nothing, 0)) /\ UNCHANGED <<sup, radio>>
    \/ /\ ask.cmd = "list"
       /\ Replies(ask.ctl, Line("NETS", Nothing, IF sup.nets = <<>> THEN 0 ELSE Head(sup.nets)))
       /\ UNCHANGED <<sup, radio>>
    \/ ask.cmd = "add" /\ AddsGroup(ask)
    \/ /\ ask.cmd \in Armings
       /\ IF sup.group # 0
          THEN /\ sup' = [sup EXCEPT !.pin = ask.n, !.walk = WalkTime]
               /\ Replies(ask.ctl, Line("OK", Nothing, 0))
          ELSE Replies(ask.ctl, Line("FAIL", Nothing, 0)) /\ UNCHANGED sup
       /\ UNCHANGED radio
    \/ /\ ask.cmd = "remove"
       /\ sup' = [sup EXCEPT !.group = 0, !.forming = 0, !.pin = 0, !.walk = 0]
       /\ radio' = Scattered
       /\ Replies(ask.ctl, Line("OK", Nothing, 0))

\* The oldest command, carried out or refused
Answers ==
    /\ sup.up
    /\ asked # <<>>
    /\ asked' = Tail(asked)
    /\ \/ Obeys(Head(asked)) /\ UNCHANGED left
       \/ /\ Head(asked).cmd \in {"set", "add"} \cup Armings
          /\ Spend("faults")
          /\ Replies(Head(asked).ctl, Line("FAIL", Nothing, 0))
          /\ UNCHANGED <<sup, radio>>
    /\ UNCHANGED <<disk, sink, pending, lost>>

\* The group is up, and a new one stored where update_config allows it
GroupComesUp ==
    /\ sup.up /\ sup.forming # 0
    /\ LET nets == IF sup.forming \in ToSet(sup.nets) THEN sup.nets
                   ELSE Append(sup.nets, sup.forming)
       IN  /\ sup' = [sup EXCEPT !.group = sup.forming, !.forming = 0, !.nets = nets]
           /\ disk' = IF sup.saves THEN [disk EXCEPT !.conf.nets = nets] ELSE disk
    /\ Tells(Line("GroupStarted", Nothing, 0), {"w"})
    /\ UNCHANGED <<radio, sink, pending, asked, lost, left>>

\* The radio drops the group
GroupFails ==
    /\ sup.up /\ sup.group # 0
    /\ Spend("drops")
    /\ sup' = [sup EXCEPT !.group = 0, !.pin = 0, !.walk = 0]
    /\ radio' = Scattered
    /\ Tells(Line("GroupRemoved", Nothing, 0), {"w", "g"})
    /\ UNCHANGED <<disk, sink, pending, asked, lost>>

\* The supplicant alone dies: no event, and its socket file stays behind
SupplicantDies ==
    /\ sup.up
    /\ Spend("deaths")
    /\ sup' = [NoSupplicant EXCEPT !.sock = TRUE]
    /\ radio' = Scattered
    /\ asked' = <<>>
    /\ UNCHANGED <<disk, sink, wire, pending, lost>>
-----------------------------------------------------------------------------
(* The sources *)

\* A source that holds the group's credentials comes back without a PIN
Joins(m) ==
    /\ sup.group # 0 /\ m \notin radio.in
    /\ radio.creds[m] = sup.group
    /\ m \in left.near /\ Spend("joins")
    /\ \E address \in {"none", "other"} :
         radio' = [radio EXCEPT !.in = @ \cup {m}, !.lease[m] = address]
    /\ Tells(Line("Connected", m, 0), {"w", "g"})
    /\ UNCHANGED <<disk, sup, sink, pending, asked, lost>>

Leaves(m) ==
    /\ m \in radio.in
    /\ Spend("leaves")
    /\ radio' = [radio EXCEPT !.in = @ \ {m}, !.asks = @ \ {m}, !.lease[m] = "none"]
    /\ Tells(Line("Disconnected", m, 0), {"w", "g"})
    /\ UNCHANGED <<disk, sup, sink, pending, asked, lost>>

\* A source without them, whose viewer has read the PIN off the screen
Provisions(m) ==
    /\ sup.group # 0 /\ m \notin radio.in
    /\ radio.creds[m] # sup.group
    /\ radio.enrolling = Nothing
    /\ m \in left.near /\ Spend("pairings")
    /\ radio' = [radio EXCEPT !.enrolling = m, !.digits = sink.pin]
    /\ Tells(Line("ProvisionRequest", m, 0), {"g"})
    /\ UNCHANGED <<disk, sup, sink, pending, asked, lost>>

\* The registrar enrols the source, refuses mistyped digits, or is not there at all
Enrols ==
    LET m == radio.enrolling
    IN  /\ m # Nothing
        /\ \/ /\ sup.walk > 0 /\ sup.pin = radio.digits
              /\ sup' = [sup EXCEPT !.pin = 0, !.walk = 0]
              /\ radio' = [radio EXCEPT !.enrolling = Nothing, !.creds[m] = sup.group,
                                        !.in = @ \cup {m}]
              /\ Tells(Line("Connected", m, 0), {"w", "g"})
              /\ UNCHANGED left
           \/ /\ sup.walk > 0
              /\ \/ sup.pin # radio.digits /\ UNCHANGED left
                 \/ Spend("typos")
              /\ radio' = [radio EXCEPT !.enrolling = Nothing]
              /\ Tells(Line("WpsFail", Nothing, 0), {"g"})
              /\ UNCHANGED sup
           \/ /\ sup.walk = 0
              /\ radio' = [radio EXCEPT !.enrolling = Nothing]
              /\ UNCHANGED <<sup, wire, left>>
        /\ UNCHANGED <<disk, sink, pending, asked, lost>>

\* DHCPDISCOVER, or DHCPREQUEST for the address the source holds or was offered
Asks(m) ==
    /\ m \in radio.in \ radio.asks
    /\ radio.lease[m] # "ours"
    /\ radio' = [radio EXCEPT !.asks = @ \cup {m}]
    /\ UNCHANGED <<disk, sup, sink, wire, pending, asked, lost, left>>
-----------------------------------------------------------------------------
(* The rest of one_group *)

\* wait_for_group: other events are only logged, and twenty seconds or a stop give up
WaitsForGroup ==
    /\ At("wait")
    /\ \/ /\ pending.w \o wire.w # <<>>
          /\ LET lines == pending.w \o wire.w
             IN  /\ sink' = IF Head(lines).e = "GroupStarted"
                            THEN [sink EXCEPT !.at = "iface", !.guard = TRUE] ELSE sink
                 /\ pending' = [pending EXCEPT !.w = IF @ = <<>> THEN @ ELSE Tail(@)]
                 /\ wire' = [wire EXCEPT !.w = IF pending.w = <<>> THEN Tail(@) ELSE @]
          /\ UNCHANGED <<sup, asked, lost, left>>
       \/ /\ pending.w \o wire.w = <<>>
          /\ \/ sup.up /\ ~sink.stop /\ Spend("late") /\ lost' = TRUE
             \/ (~sup.up \/ sink.stop \/ (sup.forming = 0 /\ asked = <<>>))
                /\ UNCHANGED <<lost, left>>
          /\ LeavesPass
    /\ UNCHANGED <<disk, radio>>

\* configure_interface and the sockets, then the group's own control
ConfiguresInterface ==
    /\ At("iface")
    /\ \/ sup.up /\ Goes("g_attach") /\ UNCHANGED <<sup, wire, pending, asked, left>>
       \/ ~sup.up /\ LeavesPass /\ UNCHANGED left
       \/ Fails
    /\ UNCHANGED <<disk, radio, lost>>

\* Pairing::group_up and failed: other digits than the last
Fresh == CHOOSE p \in 1 .. 3 : p \notin {sink.pin, sup.pin}

\* The PIN of a group is on the screen before the registrar has it
MintsFirst ==
    /\ At("pin")
    /\ sink' = [sink EXCEPT !.at = "first", !.pin = Fresh]
    /\ UNCHANGED <<disk, sup, radio, wire, pending, asked, lost, left>>

\* run: five seconds after a failure, two in any case
Pauses ==
    /\ At("pause")
    /\ Goes(IF sink.stop THEN "stopped" ELSE "ensure")
    /\ UNCHANGED <<disk, sup, radio, wire, pending, asked, lost, left>>

Stops ==
    /\ ~sink.stop
    /\ Spend("stops")
    /\ sink' = [sink EXCEPT !.stop = TRUE]
    /\ UNCHANGED <<disk, sup, radio, wire, pending, asked, lost>>
-----------------------------------------------------------------------------
(* A pass of serve's loop *)

IdleScreen == ~sink.session /\ sink.clients = {}

\* Mutant: the window is thought to last for ever.
DueNever == FALSE

\* WpsWindow::due
Due == sink.wps >= Rearm

StartsPass ==
    /\ At("poll")
    /\ \/ sink.stop /\ LeavesPass
       \/ /\ ~sink.stop
          /\ sink' = IF IdleScreen /\ sink.pin = 0
                     THEN [sink EXCEPT !.at = "mint", !.pin = Fresh]
                     ELSE [sink EXCEPT !.at = IF IdleScreen /\ Due THEN "rearm" ELSE "drain"]
          /\ UNCHANGED <<sup, wire, pending, asked>>
    /\ UNCHANGED <<disk, radio, lost, left>>

\* events.dedup: neighbours that are the same
Deduped(lines) ==
    FoldLeft(LAMBDA kept, line : IF kept # <<>> /\ Last(kept) = line THEN kept
                                 ELSE Append(kept, line), <<>>, lines)

\* poll_event until wlan0's control is dry: what was queued comes first
DrainsWlan ==
    /\ At("drain")
    /\ sink' = [sink EXCEPT !.at = "drain_group", !.todo = pending.w \o wire.w]
    /\ wire' = [wire EXCEPT !.w = <<>>] /\ pending' = [pending EXCEPT !.w = <<>>]
    /\ UNCHANGED <<disk, sup, radio, asked, lost, left>>

\* ... and the group's
DrainsGroup ==
    /\ At("drain_group")
    /\ sink' = [sink EXCEPT !.at = "handle", !.todo = Deduped(@ \o pending.g \o wire.g)]
    /\ wire' = [wire EXCEPT !.g = <<>>] /\ pending' = [pending EXCEPT !.g = <<>>]
    /\ UNCHANGED <<disk, sup, radio, asked, lost, left>>

\* One event.  Which of the leavers ends the session is MiracastSink's.
Handles ==
    LET ev == Head(sink.todo)
        s == [sink EXCEPT !.todo = Tail(@)]
    IN  /\ At("handle") /\ ~sink.waits
        /\ sink.todo # <<>>
        /\ \/ /\ ev.e = "ProvisionRequest"
              /\ sink' = IF sink.pin = 0 THEN [s EXCEPT !.pin = Fresh, !.at = "show"] ELSE s
              /\ UNCHANGED <<sup, wire, pending, asked>>
           \/ /\ ev.e = "WpsFail"
              /\ sink' = [s EXCEPT !.pin = Fresh, !.at = "show"]
              /\ UNCHANGED <<sup, wire, pending, asked>>
           \/ /\ ev.e = "Connected"
              /\ sink' = [s EXCEPT !.clients = @ \cup {ev.m}, !.pin = 0]
              /\ UNCHANGED <<sup, wire, pending, asked>>
           \/ /\ ev.e = "Disconnected"
              /\ \E session \in {sink.session, FALSE} :
                   sink' = [s EXCEPT !.clients = @ \ {ev.m}, !.session = session]
              /\ UNCHANGED <<sup, wire, pending, asked>>
           \/ ev.e = "GroupRemoved" /\ LeavesPass
           \/ /\ ev.e \notin {"ProvisionRequest", "WpsFail", "Connected", "Disconnected",
                              "GroupRemoved"}
              /\ sink' = s
              /\ UNCHANGED <<sup, wire, pending, asked>>
        /\ UNCHANGED <<disk, radio, lost, left>>

\* dhcp::parse: what a source that holds such an address sends
Request(address) ==
    IF address = "none" THEN [kind |-> "Discover", ip |-> Nothing]
    ELSE [kind |-> "Request", ip |-> address]

\* dhcp::reply: an offer, an acknowledgement, or a refusal that makes the source start over
Reply(r) == CASE r.kind = "Discover" -> "offered" [] r.ip = "other" -> "none"
              [] r.kind = "Request" /\ r.ip # "other" -> "ours"

\* The end of the pass: DHCP, and the session that opens or ends meanwhile
Addresses ==
    /\ At("handle") /\ ~sink.waits
    /\ sink.todo = <<>>
    /\ radio' = [radio EXCEPT !.asks = {},
                   !.lease = [m \in Sources |-> IF m \in radio.asks THEN Reply(Request(@[m])) ELSE @[m]]]
    /\ \/ Goes("poll") /\ UNCHANGED left
       \/ ~sink.session /\ sink.clients # {} /\ Spend("sessions")
          /\ sink' = [sink EXCEPT !.at = "poll", !.session = TRUE]
       \/ sink.session /\ UNCHANGED left
          /\ sink' = [sink EXCEPT !.at = "poll", !.session = FALSE]
    /\ UNCHANGED <<disk, sup, wire, pending, asked, lost>>
-----------------------------------------------------------------------------
(* Time, deploys and power *)

\* Nothing is left to do in this pass or the next: a loop passes five times a second
Settled ==
    /\ At("poll") /\ ~sink.stop
    /\ wire = Quiet /\ pending = Quiet /\ asked = <<>>
    /\ ~(IdleScreen /\ (sink.pin = 0 \/ Due))

Tick ==
    /\ Settled
    /\ sink.wps < Rearm \/ sup.walk > 0
    /\ sink' = [sink EXCEPT !.wps = IF @ < Rearm THEN @ + 1 ELSE @]
    /\ sup' = [sup EXCEPT !.walk = IF @ > 0 THEN @ - 1 ELSE @]
    /\ UNCHANGED <<disk, radio, wire, pending, asked, lost, left>>

\* What a file being written is when the writer dies: some of its groups, or nothing
CutShort ==
    IF At("write")
    THEN \/ UNCHANGED disk
         \/ \E k \in 0 .. Len(sink.desired.nets) :
              disk' = [disk EXCEPT !.conf = [sink.desired EXCEPT
                                               !.nets = SubSeq(@, 1, k)]]
    ELSE UNCHANGED disk

\* The service is killed, supplicant and all, or the power fails
Killed ==
    /\ Spend("kills")
    /\ CutShort
    /\ lost' = (lost \/ At("write"))
    /\ \/ sup' = [NoSupplicant EXCEPT !.sock = sup.sock /\ ~sup.up]
       \/ sup' = NoSupplicant
    /\ sink' = NewPass
    /\ radio' = Scattered
    /\ wire' = Quiet /\ pending' = Quiet /\ asked' = <<>>

\* setup.sh installs another template and restarts the service
Deploys ==
    /\ Spend("deploys")
    /\ ~At("write")
    /\ disk' = [disk EXCEPT !.tmpl = @ + 1]
    /\ sup' = [NoSupplicant EXCEPT !.sock = sup.sock /\ ~sup.up]
    /\ sink' = NewPass
    /\ radio' = Scattered
    /\ wire' = Quiet /\ pending' = Quiet /\ asked' = <<>>
    /\ UNCHANGED lost
-----------------------------------------------------------------------------
SinkThread ==
    \/ EnsureSupplicant \/ WorkingConf \/ Writes \/ Stamps \/ Spawns \/ Opens
    \/ \E cmd \in Commands : Sends(cmd) \/ ReadsLine(cmd)
    \/ WaitsForGroup \/ ConfiguresInterface \/ MintsFirst \/ Pauses
    \/ StartsPass \/ DrainsWlan \/ DrainsGroup \/ Handles \/ Addresses

GroupNext ==
    \/ SinkThread
    \/ \E cmd \in Commands : TimesOut(cmd)
    \/ Answers \/ GroupComesUp \/ GroupFails \/ SupplicantDies
    \/ \E m \in Sources : Joins(m) \/ Leaves(m) \/ Provisions(m) \/ Asks(m)
    \/ Enrols \/ Stops \/ Tick \/ Killed \/ Deploys

GroupSpec == GroupInit /\ [][GroupNext]_groupVars

\* The sink's thread and the supplicant run, a request to a dead one times out, and sources
\* in the group ask for an address until they have one
GroupFairSpec ==
    /\ GroupSpec
    /\ WF_groupVars(SinkThread \/ \E cmd \in Commands : ~sup.up /\ TimesOut(cmd))
    /\ WF_groupVars(Answers \/ GroupComesUp)
    /\ WF_groupVars(\E m \in Sources : Asks(m))
-----------------------------------------------------------------------------
(* "Reusing it is the only way a source that paired once gets back in without *)
(* being asked for a PIN again" (p2p.rs:85): through restarts, deploys, lost   *)
(* groups and kills at any step, the group that comes up opens to the          *)
(* credentials every paired source holds, unless a kill or a full disk cut the *)
(* rewriting of the file short or the supplicant answered too late.            *)
PairedSourcesReturn ==
    sup.saves /\ ~lost /\ sup.group # 0 =>
        \A m \in Sources : radio.creds[m] \in {0, sup.group}

(* "The screen and the supplicant must never disagree" (sink.rs:961).  Once    *)
(* serve has read all there is, it knows who is in the group: no joining or    *)
(* leaving is lost on two controls, between a command and its answer, or       *)
(* before the group's own control was there.  And "Arming it once makes the    *)
(* offer true for two minutes and a lie thereafter" (pairing.rs:27): while     *)
(* nobody is here, the registrar takes exactly the PIN that is on the screen.  *)
SinkKnowsItsGroup ==
    /\ At("poll") /\ sup.group # 0 /\ wire = Quiet /\ pending = Quiet =>
           sink.clients = radio.in
    /\ Settled /\ IdleScreen /\ sup.group # 0 => sup.pin = sink.pin /\ sup.walk > 0

Serving == At("poll") /\ sup.group # 0

(* A supplicant that died alone leaves a socket file ensure_supplicant trusts. *)
Abandoned == ~sup.up /\ sup.sock

(* "Try the whole sequence again rather than leaving the sink dead"            *)
(* (sink.rs:183): after every failure the sink is back in the cast list, as    *)
(* long as the supplicant lives and answers in time.                           *)
SinkComesBack == []<>(Serving \/ sink.stop \/ lost \/ Abandoned)
=============================================================================
