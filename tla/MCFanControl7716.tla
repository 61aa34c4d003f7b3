-------------------------- MODULE MCFanControl7716 --------------------------
(* Small values for FanControl7716: sums of temperature of the second row   *)
(* and above the limit of the last row of the front to back table; a fan    *)
(* that may stand still; a duty cycle whose register wraps around.          *)
EXTENDS FanControl7716

MCTemps == {177999, 190001}
MCFaulty == {{}, {1}}
MCOperator == {0}
F2B == {1}

\* For the configurations beside the run: below, inside and above each
\* hysteresis band; heat alone; and the second row of the other direction.
MCAllTemps == {-1, 169999, 188000, 190001}
MCHot == {190001}
MCCoolOrHot == {130000, 140001}
NoFaults == {{}}
MCSecondRow == {38}
B2F == {0}
=============================================================================
