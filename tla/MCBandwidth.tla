---------------------------- MODULE MCBandwidth ----------------------------
EXTENDS Bandwidth

MCUserOf == [t \in {"t1", "t2"} |-> IF t = "t1" THEN "ann" ELSE "bob"]
Setting(global, guaranteed, max, burst, memory, reads1, reads2) ==
  [global |-> global, guaranteed |-> guaranteed, max |-> max, burst |-> burst, memory |-> memory,
   reads |-> [t \in {"t1", "t2"} |-> IF t = "t1" THEN reads1 ELSE reads2]]
\* Two users in a link too narrow for both; no guarantee, and a read larger than
\* the burst; a guarantee above the maximum; demands that the link cannot meet.
MCConfigs ==
  {Setting(1, 1, 1, 1, 1, {1}, {1}), Setting(2, 0, 1, 1, 1, {1}, {2}),
   Setting(4, 2, 1, 2, 2, {2}, {}), Setting(9, 4, 6, 4, 1, {4}, {})}
=============================================================================
