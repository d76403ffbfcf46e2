-------------------------- MODULE MCGroupFormation --------------------------
(* Two sources, the first paired where the machine has a group stored; a tick is 30 s. *)
EXTENDS GroupFormation

CONSTANTS s1, s2

Fresh1 == [conf |-> Empty, paired |-> {}, near |-> {s1}, writable |-> TRUE, faults |-> 0, drops |-> 0,
           deaths |-> 0, late |-> 0, joins |-> 0, leaves |-> 0, pairings |-> 0, typos |-> 0,
           sessions |-> 0, stops |-> 0, kills |-> 0, deploys |-> 0]

Used == [Fresh1 EXCEPT !.conf = [tmpl |-> 1, nets |-> <<1>>], !.paired = {s1}, !.near = Sources]

MCBudgets == {
    [Used EXCEPT !.deploys = 1, !.kills = 2, !.pairings = 1, !.near = {s2}],
    [Used EXCEPT !.late = 1, !.faults = 1, !.stops = 1, !.joins = 1],
    [Fresh1 EXCEPT !.pairings = 1, !.kills = 1, !.faults = 1],
    [Fresh1 EXCEPT !.writable = FALSE, !.pairings = 2, !.typos = 1],
    [Used EXCEPT !.joins = 2, !.leaves = 2, !.drops = 1, !.sessions = 1],
    [Used EXCEPT !.joins = 1, !.pairings = 1],
    [Used EXCEPT !.deaths = 1, !.kills = 1, !.joins = 1, !.stops = 1]}
=============================================================================
