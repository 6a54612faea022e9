------------------------- MODULE MCKillSwitchFilters -------------------------
(* Instances of KillSwitchFilters for TLC: the first and last address of   *)
(* each range, and the neighbours outside.                                 *)
EXTENDS KillSwitchFilters

MCServers == {V4(203, 0, 113, 7), V6(36, 1, 7)}

MCEdges == {V4(10, 0, 0, 0), V4(11, 0, 0, 0), V4(127, 255, 255, 255),
            V4(172, 15, 255, 255), V4(172, 31, 255, 255), V4(172, 32, 0, 0),
            V4(192, 168, 0, 1), V4(192, 169, 0, 0), V4(169, 254, 1, 1),
            V4(224, 0, 0, 251), V4(255, 255, 255, 255), V4(198, 18, 0, 1), V4(8, 8, 8, 8),
            V6(0, 0, 1), V6(0, 0, 2), V6(253, 0, 1), V6(254, 128, 1), V6(254, 192, 1),
            V6(255, 2, 1), V6(36, 0, 1)}
=============================================================================
