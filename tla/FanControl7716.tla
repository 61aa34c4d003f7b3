--------------------------- MODULE FanControl7716 ---------------------------
(***************************************************************************)
(* Fan control on the AS7716-32X: the daemon accton_as7716_monitor.py over *)
(* the driver accton_as7716_32x_fan.c.  The daemon does not remember what  *)
(* it commanded: each second it reads the duty cycle back through the      *)
(* driver, finds it in a table of four rows, and moves one row up or down  *)
(* when the sum of three temperatures is above or below what the row       *)
(* allows.  The driver rounds a duty cycle to a 4 bit register and answers *)
(* reads from a snapshot of the registers up to 1.5 s old, which a write   *)
(* does not invalidate.                                                    *)
(*                                                                         *)
(* A refresh of the snapshot is one step here (the lock and the order of   *)
(* its register reads are those of FanDriver5712), and so is the reading   *)
(* of the three temperatures.                                              *)
(***************************************************************************)
EXTENDS Integers

CONSTANTS
  Temps,     \* sums of the three LM75, in 1/1000 degree
  NumFans,   \* FAN_NUM_ON_MAIN_BROAD
  Dirs,      \* air flow of fan 1: 1 is front to back, 0 back to front
  Faulty,    \* the sets of fans that may stand still together
  Operator,  \* duty cycles others may write to the driver's node
  NONE       \* Python's None

ASSUME TempsAssumption    == Temps \subseteq Int
ASSUME NumFansAssumption  == NumFans \in Nat \ {0}
ASSUME DirsAssumption     == Dirs \subseteq 0..1
ASSUME FaultyAssumption   == Faulty \subseteq SUBSET (1..NumFans)
ASSUME OperatorAssumption == Operator \subseteq 0..100
ASSUME NoneAssumption     == NONE \notin Int

VARIABLES
  temp,      \* the sum of the temperatures
  hw,        \* the registers: [reg, faults, dir]
  cache,     \* the driver's copy of them
  valid,
  expired,   \* the copy is more than 1.5 s old
  pc,        \* where manage_fans is; "dead" once an exception ended the process
  get_temp, cur_duty_cycle, x, new_duty_cycle,   \* its local variables
  writer     \* history: who moved the fans last

vars   == <<temp, hw, cache, valid, expired, pc, get_temp, cur_duty_cycle,
            x, new_duty_cycle, writer>>
driver == <<cache, valid, expired>>
locals == <<get_temp, cur_duty_cycle, x, new_duty_cycle>>

-----------------------------------------------------------------------------
(* The driver: u8 arithmetic of the duty cycle register.                   *)

FAN_DUTY_CYCLE_REG_MASK == 15

\* Mutant: rounds down when it reads back.
DutyRoundedDown(reg) == ((reg % (FAN_DUTY_CYCLE_REG_MASK + 1)) * 625) \div 100

reg_val_to_duty_cycle(reg) ==
  (((reg % (FAN_DUTY_CYCLE_REG_MASK + 1)) + 1) * 625 + 75) \div 100

\* Mutant: the register is computed in a wider type.
DutyToRegWide(duty) == (duty * 100) \div 625 - 1

duty_cycle_to_reg_val(duty) == ((duty * 100) \div 625 - 1) % 256

\* How fast the fans turn: the bits the controller looks at.
Speed(reg) == reg % (FAN_DUTY_CYCLE_REG_MASK + 1)

(* as7716_32x_fan_update_device: served from the copy, refreshed, or, when *)
(* a register cannot be read, left invalid.                                *)
UpdateDevice ==
  \/ /\ valid /\ ~expired
     /\ UNCHANGED driver
  \/ /\ ~valid \/ expired
     /\ cache' = hw /\ valid' = TRUE /\ expired' = FALSE
  \/ /\ ~valid \/ expired
     /\ valid' = FALSE
     /\ UNCHANGED <<cache, expired>>

(* set_duty_cycle: the result of the write is not looked at, the copy not  *)
(* invalidated.                                                            *)
SetDutyCycle(duty, who) ==
  \/ /\ hw' = [hw EXCEPT !.reg = duty_cycle_to_reg_val(duty)]
     /\ writer' = who
  \/ UNCHANGED <<hw, writer>>

-----------------------------------------------------------------------------
(* The tables: duty cycle, lower and upper limit of each row.              *)

fan_policy_f2b == [i \in 0..3 |->
  CASE i = 0 -> [duty |-> 32, down |-> 0,      up |-> 174000]
    [] i = 1 -> [duty |-> 38, down |-> 170000, up |-> 182000]
    [] i = 2 -> [duty |-> 50, down |-> 178000, up |-> 190000]
    [] i = 3 -> [duty |-> 63, down |-> 186000, up |-> 0]]

fan_policy_b2f == [i \in 0..3 |->
  CASE i = 0 -> [duty |-> 32, down |-> 0,      up |-> 140000]
    [] i = 1 -> [duty |-> 38, down |-> 135000, up |-> 150000]
    [] i = 2 -> [duty |-> 50, down |-> 145000, up |-> 160000]
    [] i = 3 -> [duty |-> 69, down |-> 15500,  up |-> 0]]

FaultDuty == 45

Duties == {fan_policy_f2b[i].duty : i \in 0..3} \cup {fan_policy_b2f[i].duty : i \in 0..3}

\* The search for the row leaves its variable at 3 when no row matches.
RowOf(duty) ==
  IF \E i \in 0..3 : fan_policy_f2b[i].duty = duty
  THEN CHOOSE i \in 0..3 : fan_policy_f2b[i].duty = duty
  ELSE 3

\* Mutant: the top row is taken to be the third.
F2BDutyShort(row, t, cur) ==
  IF t > fan_policy_f2b[row].up /\ row < 2 THEN fan_policy_f2b[row + 1].duty
  ELSE IF row # 0 /\ t < fan_policy_f2b[row].down THEN fan_policy_f2b[row - 1].duty
  ELSE cur

F2BDuty(row, t, cur) ==
  IF t > fan_policy_f2b[row].up /\ row # 3 THEN fan_policy_f2b[row + 1].duty
  ELSE IF row # 0 /\ t < fan_policy_f2b[row].down THEN fan_policy_f2b[row - 1].duty
  ELSE cur

\* Back to front, the limit that is compared is one column to the left.
B2FDuty(row, t, cur) ==
  IF t > fan_policy_b2f[row].down /\ row # 3 THEN fan_policy_b2f[row + 1].duty
  ELSE IF t < fan_policy_b2f[row].duty /\ row # 0 THEN fan_policy_b2f[row - 1].duty
  ELSE cur

\* Below 0 in the bottom row, front to back, the table is asked for row -1.
NoSuchRow(dir, row, t) == dir = 1 /\ row = 0 /\ t < fan_policy_f2b[0].down

Init ==
  /\ temp \in Temps
  /\ hw \in [reg : {15}, faults : Faulty, dir : Dirs]
  /\ cache = [reg |-> 0, faults |-> {}, dir |-> 0]
  /\ valid = FALSE /\ expired = TRUE
  /\ pc = "sleep"
  /\ get_temp = 0 /\ cur_duty_cycle = 0 /\ x = 1 /\ new_duty_cycle = 0
  /\ writer = "boot"

-----------------------------------------------------------------------------
(* manage_fans.                                                            *)

\* A sensor that cannot be read ends the process: None + int, or IOError.
ReadTemp ==
  /\ pc = "sleep"
  /\ \/ get_temp' = temp /\ pc' = "duty"
     \/ pc' = "dead" /\ UNCHANGED get_temp
  /\ UNCHANGED <<temp, hw, driver, cur_duty_cycle, x, new_duty_cycle, writer>>

\* An empty answer ends the process: int('').
ReadDuty ==
  /\ pc = "duty"
  /\ UpdateDevice
  /\ \/ /\ valid'
        /\ cur_duty_cycle' = reg_val_to_duty_cycle(cache'.reg)
        /\ x' = 1
        /\ pc' = "fan"
     \/ /\ ~valid'
        /\ pc' = "dead"
        /\ UNCHANGED <<cur_duty_cycle, x>>
  /\ UNCHANGED <<temp, hw, get_temp, new_duty_cycle, writer>>

NextFan ==
  /\ pc' = IF x < NumFans THEN "fan" ELSE "dir"
  /\ x' = IF x < NumFans THEN x + 1 ELSE x

\* get_fan_status: an empty answer is no fault.  (It reads the node twice; of
\* the first reading only matters that there is one.)
CheckFan ==
  /\ pc = "fan"
  /\ UpdateDevice
  /\ \/ /\ valid' /\ x \in cache'.faults
        /\ pc' = "fault"
        /\ UNCHANGED x
     \/ /\ ~valid' \/ x \notin cache'.faults
        /\ NextFan
  /\ UNCHANGED <<temp, hw, get_temp, cur_duty_cycle, new_duty_cycle, writer>>

\* Mutant: the answer to a fault is forgotten.
SetFaultDutyNot ==
  /\ pc = "fault"
  /\ pc' = "sleep"
  /\ UNCHANGED <<temp, hw, writer, driver, locals>>

SetFaultDuty ==
  /\ pc = "fault"
  /\ SetDutyCycle(FaultDuty, "fault")
  /\ pc' = "sleep"
  /\ UNCHANGED <<temp, driver, locals>>

\* An empty answer is None, which is not 1 and so means back to front.
DirRead == IF valid' THEN cache'.dir ELSE NONE

\* The row that was read, one up or one down, by the table of the direction.
Choose(dir) ==
  /\ x' = RowOf(cur_duty_cycle)
  /\ IF NoSuchRow(dir, x', get_temp)
     THEN pc' = "dead" /\ UNCHANGED new_duty_cycle
     ELSE /\ new_duty_cycle' = IF dir = 1 THEN F2BDuty(x', get_temp, cur_duty_cycle)
                               ELSE B2FDuty(x', get_temp, cur_duty_cycle)
          /\ pc' = IF new_duty_cycle' = cur_duty_cycle THEN "sleep"
                   ELSE IF dir = 1 THEN "set f2b" ELSE "set b2f"

Decide ==
  /\ pc = "dir"
  /\ UpdateDevice
  /\ Choose(DirRead)
  /\ UNCHANGED <<temp, hw, get_temp, cur_duty_cycle, writer>>

\* The node cannot be opened: the duty cycle is False, which is 0, the fan is
\* taken to turn, the direction is None.
NodeMissing ==
  /\ \/ /\ pc = "duty"
        /\ cur_duty_cycle' = 0 /\ x' = 1 /\ pc' = "fan"
        /\ UNCHANGED new_duty_cycle
     \/ /\ pc = "fan"
        /\ NextFan
        /\ UNCHANGED <<cur_duty_cycle, new_duty_cycle>>
     \/ /\ pc = "dir"
        /\ Choose(NONE)
        /\ UNCHANGED cur_duty_cycle
  /\ UNCHANGED <<temp, hw, driver, get_temp, writer>>

SetPolicyDuty ==
  /\ pc \in {"set f2b", "set b2f"}
  /\ SetDutyCycle(new_duty_cycle, pc)
  /\ pc' = "sleep"
  /\ UNCHANGED <<temp, driver, locals>>

manage_fans ==
  ReadTemp \/ ReadDuty \/ CheckFan \/ SetFaultDuty \/ Decide \/ SetPolicyDuty
  \/ NodeMissing

-----------------------------------------------------------------------------
(* The rest of the world.                                                  *)

\* Somebody else reads a node of the driver.
OtherReader ==
  /\ UpdateDevice
  /\ UNCHANGED <<temp, hw, pc, locals, writer>>

\* Somebody else writes the duty cycle node.
OperatorSets ==
  /\ \E d \in Operator : SetDutyCycle(d, "operator")
  /\ UNCHANGED <<temp, driver, pc, locals>>

\* The snapshot passes the age of 1.5 s.
Expire ==
  /\ expired' = TRUE
  /\ UNCHANGED <<temp, hw, cache, valid, pc, locals, writer>>

TempChange ==
  /\ temp' \in Temps
  /\ UNCHANGED <<hw, driver, pc, locals, writer>>

\* Fans stop, start, or are exchanged for others that blow the other way.
FansChange ==
  /\ \E f \in Faulty, d \in Dirs : hw' = [hw EXCEPT !.faults = f, !.dir = d]
  /\ UNCHANGED <<temp, driver, pc, locals, writer>>

\* systemd starts the daemon again only when it is told to.
Restart ==
  /\ pc' = "sleep"
  /\ get_temp' = 0 /\ cur_duty_cycle' = 0 /\ x' = 1 /\ new_duty_cycle' = 0
  /\ UNCHANGED <<temp, hw, driver, writer>>

Next ==
  \/ manage_fans
  \/ OtherReader \/ OperatorSets \/ Expire
  \/ TempChange \/ FansChange \/ Restart

(* The daemon loops for ever, time passes, and an i2c access that is tried *)
(* again and again works once.                                             *)
Works == valid' /\ cache' = hw

SeesFaults == valid' /\ cache'.faults = hw.faults

Fairness ==
  /\ WF_vars(manage_fans)
  /\ WF_vars(Expire)
  /\ SF_vars(SetPolicyDuty /\ hw' # hw)
  /\ SF_vars(SetFaultDuty /\ hw' # hw)
  /\ SF_vars(ReadDuty /\ Works)
  /\ \A i \in 1..NumFans : SF_vars(x = i /\ CheckFan /\ SeesFaults)
  /\ SF_vars(Decide /\ Works)

Spec == Init /\ [][Next]_vars

FairSpec == Spec /\ Fairness

-----------------------------------------------------------------------------
(* Properties.                                                             *)

Locations == {"sleep", "duty", "fan", "fault", "dir", "set f2b", "set b2f", "dead"}

Registers == [reg : 0..255, faults : SUBSET (1..NumFans), dir : 0..1]

\* The shape of the state: the one type invariant of the module.
TypeOK ==
  /\ temp \in Temps /\ get_temp \in Int
  /\ hw \in Registers /\ cache \in Registers
  /\ valid \in BOOLEAN /\ expired \in BOOLEAN
  /\ pc \in Locations
  /\ x \in Nat
  /\ cur_duty_cycle \in 0..100 /\ new_duty_cycle \in 0..100
  /\ writer \in {"boot", "fault", "set f2b", "set b2f", "operator"}

\* The duty cycle that would be read back is one of a row.
Listed == reg_val_to_duty_cycle(hw.reg) \in Duties

\* The daemon keeps no state but the register, so a duty cycle it commanded
\* must come back from the driver's two roundings as a row of its table: while
\* the policy was the last to move the fans, the register reads as a policy
\* duty, and the choice that is about to be written is one too.
OnTable ==
  /\ writer \in {"set f2b", "set b2f"} => Listed
  /\ pc \in {"set f2b", "set b2f"} => new_duty_cycle \in Duties

\* What has to hold from some time on for the policy to have its way, whoever
\* moved the fans before: the boot, the policy, the answer to a fault, others.
Steady(dir) == pc # "dead" /\ hw.faults = {} /\ hw.dir = dir

\* The fans turn at the speed of a row of one of the tables.
AtRow == Speed(hw.reg) \in {Speed(duty_cycle_to_reg_val(d)) : d \in Duties}

\* From some time on nobody else writes the duty cycle or starts the daemon anew.
LeftAlone == <>[][~OperatorSets /\ ~Restart]_vars

\* Front to back, with every fan turning and the sum of the temperatures above
\* the limit of the last row: fans that turn at the speed of a row when they are
\* left to the policy come to turn at the last row or faster and stay there,
\* though writes and reads are lost on the way and passes decide from stale
\* rows. Else they stay at a speed that is in no row, which the daemon keeps
\* (accton_as7716_monitor.py:144-160: the search ends at row 3, which has no next
\* one): the answer to an earlier fault, register 6 that reads as 44, is one.
HeatAnswered ==
  <>[](Steady(1) /\ temp > 190000) /\ LeftAlone
    => \/ <>[](Speed(hw.reg) >= 9)
       \/ <>[](~AtRow)

\* A fan that stays still is answered again and again with the fault duty,
\* though reads that fail are taken for a turning fan and others write the duty
\* cycle, unless the daemon is started anew over and over.
FaultAnswered ==
  <>[](pc # "dead" /\ hw.faults # {}) /\ <>[][~Restart]_vars
    => []<>(hw.reg = duty_cycle_to_reg_val(FaultDuty))

IInv == TypeOK /\ OnTable

-----------------------------------------------------------------------------
(* What comments of the daemon say, and the code does otherwise.           *)

\* accton_as7716_monitor.py:50: "If any fan fail, please fan speed register to
\* 15": fans that were last moved by the answer to a fault turn at 15.
FaultRegister15 == writer = "fault" => Speed(hw.reg) = 15

\* accton_as7716_monitor.py:56-62: "> 174 => set Fan speed value from 4 to 5" and
\* so on: front to back, a command of the policy moves the fans from the row
\* they turn at to the next or the previous one.
OneRowAtATime ==
  [][\A i, j \in 0..3 :
       /\ pc = "set f2b" /\ pc' = "sleep"
       /\ hw.reg = duty_cycle_to_reg_val(fan_policy_f2b[i].duty)
       /\ hw'.reg = duty_cycle_to_reg_val(fan_policy_f2b[j].duty)
       => j \in {i - 1, i, i + 1}]_vars

\* accton_as7716_monitor.py:74-75: "If no matched fan speed is found from the
\* policy, use FAN_DUTY_CYCLE_MIN as default speed": fans that turn at a speed
\* of no row are brought back to one.
UnmatchedComesBack == <>[](Steady(1)) /\ LeftAlone => []<>AtRow

\* accton_as7716_monitor.py:68: "< 135  => set Fan speed value from 5 to 4":
\* back to front, fans that stay cool do not stay at 5.
CoolsDownB2F ==
  <>[](Steady(0) /\ temp < 135000) /\ LeftAlone => ~<>[](Speed(hw.reg) = 5)

=============================================================================
