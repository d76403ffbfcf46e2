--------------------------- MODULE MCSenderMedia ---------------------------
(* A 1920x802 desktop for a receiver of 1600x1200: three rungs. *)
EXTENDS SenderMedia

MCNative == [w |-> 1920, h |-> 802]

MCCaps == [w |-> 1600, h |-> 1200, bitrate |-> 20]

MCReports == {[loss |-> "none", depth |-> 0], [loss |-> "none", depth |-> 4],
              [loss |-> "high", depth |-> 0]}

Budget(f, s, r, c, x) ==
    [frames |-> f, sound |-> s, reports |-> r, commands |-> c, faults |-> x]

MCBudgets == {Budget(0, 0, 5, 0, 0), Budget(2, 0, 2, 1, 0), Budget(3, 0, 0, 1, 1),
              Budget(1, 2, 0, 0, 2), Budget(1, 0, 2, 0, 1)}
=============================================================================
