-------------------------- MODULE MCFanMonitor5712 --------------------------
(* Small values for FanMonitor5712: temperatures on both sides of every     *)
(* threshold of the two tables, the average of two of them included.        *)
EXTENDS FanMonitor5712

MCTemps == {0, 42700, 42702, 47700, 49500, 52702, 53000, 57500, 60000}
MCCliDuties == {0, 80}
=============================================================================
