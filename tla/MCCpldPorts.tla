----------------------------- MODULE MCCpldPorts -----------------------------
(***************************************************************************)
(* CpldPorts with two processes, every driver, and ports at the boundaries  *)
(* of registers, devices and connectors.                                    *)
(***************************************************************************)
EXTENDS CpldPorts, TLC

CONSTANTS p1, p2

ActorDef == {p1, p2}
Symmetry == Permutations(ActorDef)
DriversDef == AllDrivers
PortsDef == {1, 2, 33, 51, 57}
\* -EIO as a byte.
ErrnoBytesDef == {{0, 1, 3, 4, 5, 6, 7}}
=============================================================================
