--------------------------- MODULE MCSenderShell ---------------------------
(* Two runs, two ports, two commands; each behaviour stays within one budget. *)
EXTENDS SenderShell

Within(paired0, button0) ==
    [casts |-> 0, terminals |-> 0, commands |-> 0, stops |-> 0, kills |-> 0, faults |-> 0,
     scans |-> 0, pairings |-> 0, modes |-> 0, closes |-> 0, checks |-> 0,
     address |-> FALSE, paired |-> paired0, button |-> button0]

MCBudgets == {
    [Within("good", TRUE) EXCEPT !.terminals = 2, !.address = TRUE, !.commands = 1, !.kills = 1],
    [Within("good", TRUE) EXCEPT !.terminals = 1, !.commands = 2, !.stops = 1],
    [Within("no", FALSE) EXCEPT !.casts = 1, !.pairings = 1, !.stops = 1],
    [Within("no", FALSE) EXCEPT !.terminals = 1, !.stops = 1, !.faults = 1],
    [Within("stale", FALSE) EXCEPT !.casts = 1, !.stops = 1, !.closes = 1],
    [Within("stale", TRUE) EXCEPT !.address = TRUE, !.casts = 1, !.terminals = 1, !.stops = 1],
    [Within("good", TRUE) EXCEPT !.casts = 1, !.stops = 1, !.faults = 2],
    [Within("good", TRUE) EXCEPT !.casts = 2, !.modes = 2, !.stops = 1],
    [Within("no", TRUE) EXCEPT !.pairings = 2, !.casts = 1],
    [Within("good", TRUE) EXCEPT !.checks = 3, !.scans = 1, !.closes = 1]}
=============================================================================
