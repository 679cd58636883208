---------------------------- MODULE MCEstimates -----------------------------
(***************************************************************************)
(* Estimates for TLC: a full turn is eight half units, so the tables have  *)
(* sixteen headings, with sines in tenths.                                 *)
(***************************************************************************)
EXTENDS Estimates

MCCos == [a \in 0 .. 15 |-> <<10, 9, 7, 4, 0, -4, -7, -9, -10, -9, -7, -4, 0, 4, 7, 9>>[a + 1]]
MCSin == [a \in 0 .. 15 |-> MCCos[(a + 12) % 16]]

MCReading(gyro, encoder, vx, want_vx, want_wz, settled, knock) ==
    [speed |-> [c \in Channels |-> CASE c = "gyro" -> gyro [] c = "encoder" -> encoder [] OTHER -> vx],
     request |-> [vx |-> want_vx, wz |-> want_wz],
     settled |-> settled, knock |-> knock, valid |-> TRUE]

MCStill == MCReading(0, 0, 0, 0, 0, FALSE, FALSE)

\* Nothing read; turning on the spot, slipping, not yet shaped or with a knock; driving
\* straight or not yet; rolling to a stop; standing.
MCReadings ==
    {[MCStill EXCEPT !.valid = FALSE],
     MCReading(1, 2, 0, 0, 1, TRUE, FALSE),
     MCReading(0, 2, 0, 0, 1, TRUE, TRUE),
     MCReading(1, 1, 0, 0, 1, FALSE, FALSE),
     MCReading(0, 0, -1, -1, 0, FALSE, FALSE),
     MCReading(0, 0, 1, 0, 0, FALSE, TRUE),
     MCStill}

MCReports ==
    {[vx |-> 1, wz |-> 0, valid |-> TRUE], [vx |-> 1, wz |-> 1, valid |-> TRUE],
     [vx |-> 0, wz |-> -1, valid |-> TRUE], [vx |-> 0, wz |-> 0, valid |-> FALSE]}
=============================================================================
