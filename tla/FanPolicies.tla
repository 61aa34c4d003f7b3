----------------------------- MODULE FanPolicies -----------------------------
(***************************************************************************)
(* The fan control daemons of AS6712-32X, AS7312-54X and AS7816-64X, over   *)
(* their fan drivers.  Every ten seconds a pass looks for a fan that stands *)
(* still and sets all to full speed for it; otherwise the sum (the average  *)
(* on AS7816-64X) of the sensors, and on two boards also each sensor alone, *)
(* ask for a row of the board's table, and the duty cycle is set to the     *)
(* larger, if the driver does not show that it is set already.  A behaviour *)
(* is about one board, drv.                                                 *)
(*                                                                         *)
(* A refresh of the driver's snapshot is one step here, as is one reading   *)
(* of all sensors; CachedDrivers has the statements of the drivers.         *)
(***************************************************************************)
EXTENDS Integers, Sequences, FiniteSetsExt

CONSTANTS
  PolicyBoards, \* the boards a run looks at
  Readings(_), \* what the sensors of a board may show, in 1/1000 degree
  NumFans,     \* FAN_NUM_ON_MAIN_BROAD
  Dirs,        \* what the direction register may say of fan 1
  Faulty,      \* the sets of fans that may stand still together
  Operator,    \* duty cycles others may write to the driver's node
  BootRegs,    \* what the register may hold when the daemon starts, full speed aside
  NONE         \* Python's None, and a copy that is not valid

ASSUME NumFansAssumption  == NumFans \in Nat \ {0}
ASSUME FaultyAssumption   == Faulty \subseteq SUBSET (1..NumFans)
ASSUME OperatorAssumption == Operator \subseteq 0..100
ASSUME BootRegsAssumption == BootRegs \subseteq 0..15
ASSUME NoneAssumption     == NONE \notin Dirs
ASSUME PolicyBoardsAssumption == PolicyBoards \subseteq {"as6712_32x", "as7312_54x", "as7816_64x"}
\* A board has sensors.
ASSUME ReadingsAssumption ==
  \A b \in PolicyBoards : \A t \in Readings(b) : t \in Seq(Int) /\ Len(t) > 0

max_duty == 100

VARIABLES
  drv,       \* the board
  temp,      \* what each sensor would show now
  hw,        \* the registers: [reg, faults, dir]
  cache,     \* the driver's copy of them, if it is valid
  expired,   \* the copy is more than 1.5 s old
  stage,     \* where manage_fans is; "dead" once an exception ended the process
  x, policy, single_result, cur_duty_cycle,   \* its local variables
  new_duty_cycle

world == <<drv, temp>>
driver == <<cache, expired>>
locals == <<x, policy, single_result, cur_duty_cycle, new_duty_cycle>>
policyVars == <<world, hw, driver, stage, locals>>

-----------------------------------------------------------------------------
(* The drivers: a duty cycle in a register, and back.                       *)

\* Mutant: the steps of AS7312-54X are counted from 1.
StepsFromOne(duty) ==
  CASE drv = "as6712_32x" -> duty \div 5
    [] drv = "as7312_54x" -> ((duty * 100) \div 625) % 256
    [] drv = "as7816_64x" /\ duty < 16 -> 0
    [] drv = "as7816_64x" /\ duty \in 16..99 -> (duty - 10) \div 6
    [] drv = "as7816_64x" /\ duty = 100 -> 15

duty_cycle_to_reg_val(duty) ==
  CASE drv = "as6712_32x" -> duty \div 5
    [] drv = "as7312_54x" -> ((duty * 100) \div 625 - 1) % 256
    [] drv = "as7816_64x" /\ duty < 16 -> 0
    [] drv = "as7816_64x" /\ duty \in 16..99 -> (duty - 10) \div 6
    [] drv = "as7816_64x" /\ duty = 100 -> 15

reg_val_to_duty_cycle(reg) ==
  CASE drv = "as6712_32x" -> reg * 5
    [] drv = "as7312_54x" -> (((reg % 16) + 1) * 625 + 75) \div 100
    [] drv = "as7816_64x" /\ reg % 16 = 0 -> 0
    [] drv = "as7816_64x" /\ reg % 16 \in 1..14 -> (reg % 16) * 6 + 10
    [] drv = "as7816_64x" /\ reg % 16 = 15 -> 100

Duty == reg_val_to_duty_cycle(hw.reg)

\* What a refresh may take for the registers: the driver of AS6712-32X does
\* not see that the direction could not be read.
Seen ==
  IF drv = "as6712_32x" THEN {[hw EXCEPT !.dir = d] : d \in Dirs \cup {hw.dir}} ELSE {hw}

(* update_device: served from the copy, refreshed, or, when a register      *)
(* cannot be read, left invalid.                                            *)
valid == cache # NONE

UpdateDevice ==
  \/ /\ valid /\ ~expired
     /\ UNCHANGED driver
  \/ /\ ~valid \/ expired
     /\ cache' \in Seen \cup {NONE} /\ expired' = FALSE

(* set_duty_cycle: the result of the write is not looked at.  The driver of *)
(* AS6712-32X then invalidates its copy, without the lock: a refresh that   *)
(* is under way makes it valid again.  The others leave it as it is.        *)
SetDutyCycle(duty) ==
  /\ \/ hw' = [hw EXCEPT !.reg = duty_cycle_to_reg_val(duty)]
     \/ UNCHANGED hw
  /\ cache' \in IF drv = "as6712_32x" THEN {NONE, cache} ELSE {cache}
  /\ UNCHANGED expired

-----------------------------------------------------------------------------
(* The tables.  Rows are numbered from 1; a row holds from its lower limit, *)
(* the upper one of the row before, to its upper limit.                     *)

fan_policy_f2b ==
  CASE drv = "as6712_32x" -> <<30, 50, 65, max_duty>>
    [] drv = "as7312_54x" -> <<32, 50, 63, max_duty>>
    [] drv = "as7816_64x" -> <<52, 64, 76, 88, max_duty>>

fan_policy_b2f ==
  CASE drv = "as6712_32x" -> <<40, 60, 75, max_duty>>
    [] drv = "as7312_54x" -> <<44, 63, 75, max_duty>>

limits ==
  IF drv = "as7816_64x" THEN <<43000, 46000, 52000, 57000>> ELSE <<105000, 120000, 135000>>

fan_policy_single == <<40000, 45000, 50000>>

ChecksSingle == drv \in {"as6712_32x", "as7312_54x"}

\* No direction, or an empty answer, is back to front.
PolicyOf(dir) ==
  IF \/ drv = "as6712_32x" /\ dir = 0
     \/ drv = "as7312_54x" /\ dir = 1
     \/ drv = "as7816_64x"
  THEN fan_policy_f2b ELSE fan_policy_b2f

\* A temperature that is a limit is in no row, except on AS6712-32X.
InRow(row, t) ==
  /\ IF row = 1 THEN t > 0 ELSE t > limits[row - 1]
  /\ \/ row > Len(limits)
     \/ row <= Len(limits) /\ t < limits[row]
     \/ row <= Len(limits) /\ t = limits[row] /\ drv = "as6712_32x"

Rows == 1..(Len(limits) + 1)
InSomeRow(t) == \E row \in Rows : InRow(row, t)
RowOf(t) == CHOOSE row \in Rows : InRow(row, t)

get_thermal_temp ==
  LET sum == FoldFunction(+, 0, temp)
  IN  IF drv = "as7816_64x" THEN sum \div Len(temp) ELSE sum

\* The row one sensor alone asks for.
SingleRow(t) == 1 + Cardinality({y \in DOMAIN fan_policy_single : t > fan_policy_single[y]})

\* Mutant: the last sensor decides.
SingleOfLast(pol) == pol[SingleRow(temp[Len(temp)])]

SingleResult(pol) == Max({pol[SingleRow(temp[s])] : s \in DOMAIN temp})

\* Mutant: the sum never slows the fans.
SumKeeps(pol, t, cur) == IF InSomeRow(t) THEN Max({cur, pol[RowOf(t)]}) ELSE cur

\* Without a row the duty cycle stays what it is.
SumResult(pol, t, cur) == IF InSomeRow(t) THEN pol[RowOf(t)] ELSE cur

-----------------------------------------------------------------------------
NoLocals ==
  /\ x' = 1 /\ policy' = <<>> /\ single_result' = 0
  /\ cur_duty_cycle' = 0 /\ new_duty_cycle' = 0

PolicyInit ==
  /\ drv \in PolicyBoards
  /\ temp \in Readings(drv)
  /\ hw \in [reg : BootRegs \cup {duty_cycle_to_reg_val(max_duty)}, faults : Faulty, dir : Dirs]
  /\ cache = NONE /\ expired = FALSE
  /\ stage = "fan"
  /\ x = 1 /\ policy = <<>> /\ single_result = 0
  /\ cur_duty_cycle = 0 /\ new_duty_cycle = 0

(* manage_fans.                                                            *)

NextFan ==
  /\ stage' = IF x < NumFans THEN "fan" ELSE "dir"
  /\ x' = IF x < NumFans THEN x + 1 ELSE 1
  /\ UNCHANGED <<policy, single_result, cur_duty_cycle, new_duty_cycle>>

\* get_fan_status: an empty answer is no fault.  (It reads the node twice and
\* goes by the second answer.)
CheckFan ==
  /\ stage = "fan"
  /\ UpdateDevice
  /\ IF valid' /\ x \in cache'.faults
     THEN stage' = "fault" /\ UNCHANGED locals
     ELSE NextFan
  /\ UNCHANGED <<world, hw>>

\* Mutant: the answer to a fault is forgotten.
SetMaxDutyNot ==
  /\ stage = "fault"
  /\ stage' = "fan" /\ NoLocals
  /\ UNCHANGED <<world, hw, driver>>

SetMaxDuty ==
  /\ stage = "fault"
  /\ SetDutyCycle(max_duty)
  /\ stage' = "fan" /\ NoLocals
  /\ UNCHANGED world

ChoosePolicy(dir) ==
  /\ policy' = PolicyOf(dir)
  /\ stage' = IF ChecksSingle THEN "single" ELSE "duty"
  /\ UNCHANGED <<x, single_result, cur_duty_cycle, new_duty_cycle>>

\* The daemon of AS7816-64X does not ask for the direction.
ReadDir ==
  /\ stage = "dir"
  /\ IF drv = "as7816_64x" THEN UNCHANGED driver ELSE UpdateDevice
  /\ ChoosePolicy(IF valid' THEN cache'.dir ELSE NONE)
  /\ UNCHANGED <<world, hw>>

\* A sensor that cannot be read ends the process (IOError, or a file that was
\* never opened), here or at the sum (None + int).  That its file is found and
\* cannot be opened here, but can at the sum, is left out.
Dies ==
  /\ stage' = "dead" /\ NoLocals
  /\ UNCHANGED <<world, hw, driver>>

ReadSingle ==
  /\ stage = "single"
  /\ \/ /\ single_result' = SingleResult(policy)
        /\ stage' = "duty"
        /\ UNCHANGED <<world, hw, driver, x, policy, cur_duty_cycle, new_duty_cycle>>
     \/ Dies

\* An empty answer ends the process: int('').  (The search of the duty cycle in
\* the table that follows has no effect: its index is never the table's length.)
ReadDuty ==
  /\ stage = "duty"
  /\ UpdateDevice
  /\ IF valid'
     THEN /\ cur_duty_cycle' = reg_val_to_duty_cycle(cache'.reg)
          /\ stage' = "sum"
          /\ UNCHANGED <<x, policy, single_result, new_duty_cycle>>
     ELSE stage' = "dead" /\ NoLocals
  /\ UNCHANGED <<world, hw>>

\* A node that cannot be opened, as when the driver is being loaded again: no
\* fault, no direction, and of the duty cycle False, which Python takes for 0.
\* (A set that cannot open it is SetDutyCycle's lost write.)
NodeMissing ==
  /\ \/ stage = "fan" /\ NextFan
     \/ stage = "dir" /\ drv # "as7816_64x" /\ ChoosePolicy(NONE)
     \/ /\ stage = "duty"
        /\ cur_duty_cycle' = 0 /\ stage' = "sum"
        /\ UNCHANGED <<x, policy, single_result, new_duty_cycle>>
  /\ UNCHANGED <<world, hw, driver>>

Decide ==
  /\ stage = "sum"
  /\ \/ LET new == Max({SumResult(policy, get_thermal_temp, cur_duty_cycle), single_result})
        IN  /\ IF new = cur_duty_cycle
               THEN stage' = "fan" /\ NoLocals
               ELSE /\ stage' = "set" /\ new_duty_cycle' = new
                    /\ x' = 1 /\ policy' = <<>> /\ single_result' = 0 /\ cur_duty_cycle' = 0
            /\ UNCHANGED <<world, hw, driver>>
     \/ Dies

SetPolicyDuty ==
  /\ stage = "set"
  /\ SetDutyCycle(new_duty_cycle)
  /\ stage' = "fan" /\ NoLocals
  /\ UNCHANGED world

manage_fans ==
  \/ CheckFan \/ SetMaxDuty \/ ReadDir \/ ReadSingle \/ ReadDuty \/ NodeMissing
  \/ Decide \/ SetPolicyDuty

-----------------------------------------------------------------------------
(* The rest of the world.                                                  *)

\* Somebody else reads a node of the driver.
OtherReader ==
  /\ UpdateDevice
  /\ UNCHANGED <<world, hw, stage, locals>>

\* Somebody else writes the duty cycle node.
OperatorSets ==
  /\ \E d \in Operator : SetDutyCycle(d)
  /\ UNCHANGED <<world, stage, locals>>

\* The snapshot passes the age of 1.5 s.
Expire ==
  /\ valid /\ expired' = TRUE
  /\ UNCHANGED <<world, hw, cache, stage, locals>>

TempChange ==
  /\ temp' \in Readings(drv)
  /\ UNCHANGED <<drv, hw, driver, stage, locals>>

\* Fans stop, start, or are exchanged.
FansChange ==
  /\ \E f \in Faulty : hw' = [hw EXCEPT !.faults = f]
  /\ UNCHANGED <<world, driver, stage, locals>>

\* The daemon is stopped, anywhere; systemd starts it again only when it is told
\* to.
Kill == Dies

Restart ==
  /\ stage = "dead" /\ stage' = "fan" /\ NoLocals
  /\ UNCHANGED <<world, hw, driver>>

PolicyNext ==
  \/ manage_fans
  \/ OtherReader \/ OperatorSets \/ Expire
  \/ TempChange \/ FansChange \/ Kill \/ Restart

(* The daemon loops for ever and time passes.  A fault that can be read again *)
(* and again is read once as it is, and a write that is tried again and again *)
(* takes effect once.                                                        *)
SeesFault == CheckFan /\ x \in hw.faults /\ stage' = "fault"

Fairness ==
  /\ WF_policyVars(manage_fans)
  /\ WF_policyVars(Expire)
  /\ SF_policyVars(SetPolicyDuty /\ hw' # hw)
  /\ SF_policyVars(SetMaxDuty /\ hw' # hw)
  /\ SF_policyVars(SeesFault)

PolicySpec == PolicyInit /\ [][PolicyNext]_policyVars

PolicyFairSpec == PolicySpec /\ Fairness

-----------------------------------------------------------------------------
(* Properties.                                                             *)

Registers == [reg : 0..255, faults : SUBSET (1..NumFans), dir : Dirs]

\* The shape of the state.
PolicyTypeOK ==
  /\ drv \in PolicyBoards /\ temp \in Readings(drv)
  /\ hw \in Registers /\ cache \in Registers \cup {NONE}
  /\ expired \in BOOLEAN
  /\ stage \in {"fan", "fault", "dir", "single", "duty", "sum", "set", "dead"}
  /\ x \in 1..NumFans
  /\ policy \in {<<>>, fan_policy_f2b} \cup (IF ChecksSingle THEN {fan_policy_b2f} ELSE {})
  /\ {single_result, cur_duty_cycle, new_duty_cycle} \subseteq 0..100

\* The daemon runs and every fan turns.
Running == stage # "dead" /\ hw.faults = {}

\* And the temperatures are inside a row.  On a limit between two rows code and
\* comments disagree: LimitAnswered and At35Answered are about that.
Calm ==
  Running /\ InSomeRow(get_thermal_temp) /\ get_thermal_temp \notin Range(limits)

\* From some time on nobody else sets the fans.
LeftAlone == <>[][~OperatorSets]_policyVars

\* The row the temperatures ask for, if they are in one.
Asked ==
  IF ChecksSingle
  THEN Max({RowOf(get_thermal_temp)} \cup {SingleRow(temp[s]) : s \in DOMAIN temp})
  ELSE RowOf(get_thermal_temp)

\* The duty cycles of a row: a direction that cannot be read may be taken for
\* either.
DutiesOf(row) ==
  {fan_policy_f2b[row]} \cup (IF ChecksSingle THEN {fan_policy_b2f[row]} ELSE {})

SumAsks(row) == InSomeRow(get_thermal_temp) /\ RowOf(get_thermal_temp) >= row
SensorAsks(s, row) == ChecksSingle /\ s \in DOMAIN temp /\ SingleRow(temp[s]) >= row

\* When the sum, or one and the same sensor, asks for a row or a higher one and
\* goes on doing so, the fans come to turn as fast as the row says and stay
\* there, though they were slower, writes are lost, reads fail, nodes are
\* missing, and what the driver shows is out of date or the answer to an older
\* fault.  (It need not be so when now the sum and now a sensor asks: a pass
\* takes them from different readings.)
HeatAnswered ==
  \A row \in 2..5 :
    /\ LeftAlone /\ <>[](Calm /\ row \in Rows)
    /\ \/ <>[]SumAsks(row)
       \/ \E s \in 1..3 : <>[]SensorAsks(s, row)
    => <>[](row \in Rows => \E d \in DutiesOf(row) : Duty >= d)

\* Cool fans do not stay at the speed a fault, heat or an operator gave them:
\* as long as the temperatures are in the first row, the fans come back to it
\* again and again.
CoolsDown ==
  LeftAlone /\ <>[](Calm /\ Asked = 1) => []<>(Duty \in DutiesOf(1))

\* A fan that stays still is answered again and again with full speed, though
\* reads that fail are taken for a turning fan.
FaultAnswered ==
  <>[](stage # "dead" /\ hw.faults # {}) => []<>(Duty = max_duty)

\* What the daemon decides on, its driver shows when it is written, though the
\* registers have only a few steps and both ways are rounded: else each pass
\* would find another duty cycle than the one it asked for, and write it again.
\* (It is not so for what others write: on AS7312-54X 80 is shown as 75.)
DecidedIsShown ==
  stage = "set" =>
    reg_val_to_duty_cycle(duty_cycle_to_reg_val(new_duty_cycle)) = new_duty_cycle

\* accton_as7816_monitor.py:52: "43<T<= 46 C, set fan speed to 9 (64.7%)": also
\* at the upper limit of a row the fans come to turn as fast as it says.
LimitAnswered ==
  LeftAlone /\ <>[](drv = "as7816_64x" /\ Running /\ get_thermal_temp = limits[2])
    => <>[](Duty >= fan_policy_f2b[2])

\* accton_as6712_monitor.py:53: "If TMP>=35 [...] All fans run with duty 50%",
\* TMP being the average of the three sensors: also on the limit itself.
At35Answered ==
  LeftAlone /\ <>[](drv = "as6712_32x" /\ Running /\ get_thermal_temp \div 3 >= 35000)
    => <>[](Duty >= 50)

-----------------------------------------------------------------------------
(* The inductive invariant behind DecidedIsShown and the types.             *)

Policies == {fan_policy_f2b} \cup (IF ChecksSingle THEN {fan_policy_b2f} ELSE {})

TableDuties == {pol[row] : pol \in Policies, row \in Rows}

\* No pass takes a duty cycle over from the registers: what it sets is in a
\* table, though a sum without a row asks for what was read.
DecideInv ==
  /\ stage \in {"single", "duty", "sum"} => policy \in Policies
  /\ stage = "single" => ChecksSingle
  /\ ChecksSingle /\ stage \in {"duty", "sum"} => single_result \in TableDuties
  /\ ~ChecksSingle => single_result = 0
  /\ stage = "set" => new_duty_cycle \in TableDuties

\* The registers of AS6712-32X count in steps of 5.
StepsInv ==
  drv = "as6712_32x" => hw.reg <= 20 /\ (valid => cache.reg <= 20)

PolicyIInv == PolicyTypeOK /\ DecideInv /\ StepsInv
=============================================================================
