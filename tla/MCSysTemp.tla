------------------------------ MODULE MCSysTemp ------------------------------
(* The six boards, every sensor cool or hot, an LM75 of something else, and   *)
(* a stack on which a 0 stands.                                               *)
EXTENDS SysTemp, TLC

CONSTANTS r1, r2

MCReaders == {r1, r2}
MCOneReader == {r1}
Symmetry == Permutations(MCReaders)
MCBoards == {"as7312_54x", "as7326_56x", "as7712_32x", "as7716_32x", "as7716_32xb",
             "as7726_32x"}
MCOtherLm75 == {79}
MCTemps == {25000, 60000}
MCGarbage == {0}
=============================================================================
