---------------------------- MODULE MCFanPolicies ----------------------------
(* Small values for FanPolicies: all sensors cool, in a middle row, one of   *)
(* them hot by itself, all hot, and on AS7816-64X at a limit.                *)
EXTENDS FanPolicies

MCBoards == {"as6712_32x", "as7312_54x", "as7816_64x"}
All(n, t) == [s \in 1..n |-> t]
MCReadings(b) ==
  IF b = "as7816_64x"
  THEN {All(6, 43000 - 1), All(6, 46000), All(6, 46000 + 1), All(6, 57000 + 1)}
  ELSE {All(3, 35000 - 1), <<45000 + 1, 20000, 20000>>, All(3, 45000 + 1)}
MCFaulty == {{}, {2}}
MCDirs == {0, 1}
\* In the register of AS7312-54X and AS7816-64X this is 5, too.
MCOperator == {40}
\* "The default FAN speed is 5" (accton_as7816_monitor.py:56).
MCBootRegs == {5}
AtLimit(b) == {All(6, 43000 - 1), All(6, 46000)}
OnlyAs7816 == {"as7816_64x"}
At35(b) == {All(3, 35000 - 1), All(3, 35000)}
OnlyAs6712 == {"as6712_32x"}
NoFaults == {{}}
=============================================================================
