-------------------------- MODULE ChannelRegisters --------------------------
(***************************************************************************)
(* What the sysfs files of the CPLDs promise: each CPLD has a register of  *)
(* bits, one for each port; setting a port's file sets or clears that bit  *)
(* and no other, in one step, and writing `access' replaces the register   *)
(* by one of the values operators write.                                   *)
(***************************************************************************)
CONSTANTS
  Cplds,
  Ports,   \* the ports a register has a bit for
  Values   \* what operators write to `access': sets of ports

VARIABLE register

RegInit == register = [m \in Cplds |-> {}]

SetBit(m, p) == register' = [register EXCEPT ![m] = @ \cup {p}]

ClearBit(m, p) == register' = [register EXCEPT ![m] = @ \ {p}]

Access(m, v) == register' = [register EXCEPT ![m] = v]

RegNext ==
  \E m \in Cplds :
    \/ \E p \in Ports : SetBit(m, p) \/ ClearBit(m, p)
    \/ \E v \in Values : Access(m, v)

RegSpec == RegInit /\ [][RegNext]_register

=============================================================================
