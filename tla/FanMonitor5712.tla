--------------------------- MODULE FanMonitor5712 ---------------------------
(***************************************************************************)
(* The fan control daemon of the AS5712-54X                                *)
(* (as5712-54x/utils/accton_as5712_monitor.py).  Once a second it reads    *)
(* two temperature sensors and the fault nodes of every fan, chooses a     *)
(* duty cycle from a pair of tables (one for a rising, one for a falling   *)
(* temperature) and writes it when it differs from the one it last wrote.  *)
(*                                                                         *)
(* Every reading is an arbitrary value of its set here, so whatever the    *)
(* driver of FanDriver5712 may answer (a stale value, an empty line) is    *)
(* among the answers.                                                      *)
(***************************************************************************)
EXTENDS Integers

CONSTANTS
  Temps,      \* the values a temperature node may hold, in 1/1000 degree
  NumFans,    \* FAN_NUM_ON_MAIN_BROAD
  CliDuties,  \* duty cycles an operator may write past the daemon
  NONE        \* Python's None

ASSUME TempsAssumption   == Temps \subseteq Int
ASSUME NumFansAssumption == NumFans \in Nat \ {0}
ASSUME CliAssumption     == CliDuties \subseteq 0..100
ASSUME NoneAssumption    == NONE \notin Int

VARIABLES
  stage,     \* where manage_fans is; "dead" once an exception ended the process
  temp1,     \* the first reading of the pass
  new_temp,  \* the average of the pass
  fan,       \* the fan the loop looks at
  ori_temp,  \* _ori_temp, _new_perc, _ori_perc: kept between passes
  new_perc,
  ori_perc,
  hwDuty,    \* the duty cycle the fans are really driven with
  parted,    \* history: an operator wrote, or a write of this daemon was lost,
             \* and none of its writes has arrived since
  sawFault,  \* history: the pass has read a fault
  completed  \* history: the last pass to end returned True

monitorVars == <<stage, temp1, new_temp, fan, ori_temp, new_perc, ori_perc,
                 hwDuty, parted, sawFault, completed>>
memory == <<ori_temp, new_perc, ori_perc>>
fans   == <<hwDuty, parted>>

-----------------------------------------------------------------------------
(* The two tables.                                                         *)

FAN_LEV1_UP_TEMP   == 57500
FAN_LEV2_UP_TEMP   == 53000
FAN_LEV2_DOWN_TEMP == 52700
FAN_LEV3_UP_TEMP   == 49500
FAN_LEV3_DOWN_TEMP == 47700
FAN_LEV4_DOWN_TEMP == 42700

FAN_LEV1_SPEED_PERC == 100
FAN_LEV2_SPEED_PERC == 80
FAN_LEV3_SPEED_PERC == 65
FAN_LEV4_SPEED_PERC == 40

UpPerc(t) ==
  IF      t >= FAN_LEV1_UP_TEMP THEN FAN_LEV1_SPEED_PERC
  ELSE IF t >= FAN_LEV2_UP_TEMP THEN FAN_LEV2_SPEED_PERC
  ELSE IF t >= FAN_LEV3_UP_TEMP THEN FAN_LEV3_SPEED_PERC
  ELSE FAN_LEV4_SPEED_PERC

\* Mutant: the cooling table is one level too low in its upper half.
DownPercOneLow(t) ==
  IF      t <= FAN_LEV3_DOWN_TEMP THEN FAN_LEV4_SPEED_PERC
  ELSE IF t <= FAN_LEV2_DOWN_TEMP THEN FAN_LEV3_SPEED_PERC
  ELSE FAN_LEV2_SPEED_PERC

DownPerc(t) ==
  IF      t <= FAN_LEV4_DOWN_TEMP THEN FAN_LEV4_SPEED_PERC
  ELSE IF t <= FAN_LEV3_DOWN_TEMP THEN FAN_LEV3_SPEED_PERC
  ELSE IF t <= FAN_LEV2_DOWN_TEMP THEN FAN_LEV2_SPEED_PERC
  ELSE FAN_LEV1_SPEED_PERC

Levels == {FAN_LEV4_SPEED_PERC, FAN_LEV3_SPEED_PERC,
           FAN_LEV2_SPEED_PERC, FAN_LEV1_SPEED_PERC}

\* The duty chosen for a temperature that moved from ori to new.
PolicyPerc(ori, new) == IF new - ori >= 0 THEN UpPerc(new) ELSE DownPerc(new)

(* FanUtil.  A fault node reads 0, 1 or nothing at all; get_fan_status     *)
(* reads it twice, and a node that cannot be read does not count as a      *)
(* fault: None > 0 is False in Python 2.                                   *)
FaultReading == {0, 1, NONE}

ReadsFault(first, second) == first # NONE /\ second # NONE /\ second > 0

get_fan_status(f1, f2, r1, r2) == ~(ReadsFault(f1, f2) \/ ReadsFault(r1, r2))

-----------------------------------------------------------------------------
MonitorInit ==
  /\ stage = "sleep"
  /\ temp1 = 0 /\ new_temp = 0 /\ fan = 1
  /\ ori_temp = 0 /\ new_perc = 0 /\ ori_perc = 0
  /\ hwDuty \in {0, 100}
  /\ parted = FALSE /\ sawFault = FALSE /\ completed = FALSE

(* A sensor node that cannot be opened, or is empty, gives None and the    *)
(* pass returns False.                                                     *)
ReadTemp1 ==
  /\ stage = "sleep"
  /\ \/ \E t \in Temps : temp1' = t /\ stage' = "temp2"
     \/ UNCHANGED <<temp1, stage>>
  /\ sawFault' = FALSE /\ completed' = FALSE
  /\ UNCHANGED <<new_temp, fan, memory, fans>>

ReadTemp2 ==
  /\ stage = "temp2"
  /\ \/ \E t \in Temps : /\ new_temp' = (temp1 + t) \div 2
                         /\ fan' = 1
                         /\ stage' = "fan"
     \/ stage' = "sleep" /\ UNCHANGED <<new_temp, fan>>
  /\ UNCHANGED <<temp1, memory, fans, sawFault, completed>>

(* A read the kernel fails raises IOError, which nothing catches.          *)
ReadRaises ==
  /\ stage \in {"sleep", "temp2"}
  /\ stage' = "dead"
  /\ UNCHANGED <<temp1, new_temp, fan, memory, fans, sawFault, completed>>

\* Mutant: the loop over the fans has no break, and the policy overrules the fault.
CheckFanNoBreak ==
  /\ stage = "fan"
  /\ \E f1, f2, r1, r2 \in FaultReading :
       LET ok == get_fan_status(f1, f2, r1, r2)
       IN /\ stage' = IF fan < NumFans THEN "fan" ELSE "policy"
          /\ fan' = IF fan < NumFans THEN fan + 1 ELSE fan
          /\ new_perc' = IF ok THEN new_perc ELSE FAN_LEV1_SPEED_PERC
          /\ sawFault' = (sawFault \/ ~ok)
  /\ UNCHANGED <<temp1, new_temp, ori_temp, ori_perc, fans, completed>>

\* One turn of the loop over the fans; a fault asks for full speed and leaves it.
CheckFan ==
  /\ stage = "fan"
  /\ \E f1, f2, r1, r2 \in FaultReading :
       \/ /\ get_fan_status(f1, f2, r1, r2)
          /\ stage' = IF fan < NumFans THEN "fan" ELSE "policy"
          /\ fan' = IF fan < NumFans THEN fan + 1 ELSE fan
          /\ UNCHANGED <<new_perc, sawFault>>
       \/ /\ ~get_fan_status(f1, f2, r1, r2)
          /\ new_perc' = FAN_LEV1_SPEED_PERC
          /\ stage' = "set"
          /\ sawFault' = TRUE
          /\ UNCHANGED fan
  /\ UNCHANGED <<temp1, new_temp, ori_temp, ori_perc, fans, completed>>

\* All fans answered healthy, and the temperature is the remembered one.
TempUnchanged ==
  /\ stage = "policy"
  /\ new_temp - ori_temp = 0
  /\ stage' = "sleep" /\ completed' = TRUE
  /\ UNCHANGED <<temp1, new_temp, fan, memory, fans, sawFault>>

Policy ==
  /\ stage = "policy"
  /\ new_temp - ori_temp # 0
  /\ new_perc' = PolicyPerc(ori_temp, new_temp)
  /\ stage' = "set"
  /\ UNCHANGED <<temp1, new_temp, fan, ori_temp, ori_perc, fans, sawFault, completed>>

DutyUnchanged ==
  /\ stage = "set"
  /\ ori_perc = new_perc
  /\ stage' = "sleep" /\ completed' = TRUE
  /\ UNCHANGED <<temp1, new_temp, fan, memory, fans, sawFault>>

\* Mutant: the duty is remembered before it is written, and the old one is sent.
SetDutyOld ==
  /\ stage = "set"
  /\ ori_perc # new_perc
  /\ \E ok \in BOOLEAN :
       /\ hwDuty' = IF ok THEN ori_perc ELSE hwDuty
       /\ parted' = ~ok
  /\ ori_perc' = new_perc /\ ori_temp' = new_temp
  /\ stage' = "sleep" /\ completed' = TRUE
  /\ UNCHANGED <<temp1, new_temp, fan, new_perc, sawFault>>

(* The write may be lost (no device node, or a CPLD that does not answer): *)
(* the result is logged and the pass goes on as if it had succeeded.       *)
SetDuty ==
  /\ stage = "set"
  /\ ori_perc # new_perc
  /\ \E ok \in BOOLEAN :
       /\ hwDuty' = IF ok THEN new_perc ELSE hwDuty
       /\ parted' = ~ok
  /\ ori_perc' = new_perc /\ ori_temp' = new_temp
  /\ stage' = "sleep" /\ completed' = TRUE
  /\ UNCHANGED <<temp1, new_temp, fan, new_perc, sawFault>>

(* "accton_as5712_util.py set fan N" writes the same node, unknown to the  *)
(* daemon.                                                                 *)
CliSetFan ==
  /\ \E d \in CliDuties : hwDuty' = d
  /\ parted' = TRUE
  /\ UNCHANGED <<stage, temp1, new_temp, fan, memory, sawFault, completed>>

(* The service is stopped by SIGKILL, or died, and is started again: the   *)
(* class variables are new and the fans keep the duty they had.            *)
Restart ==
  /\ stage' = "sleep"
  /\ temp1' = 0 /\ new_temp' = 0 /\ fan' = 1
  /\ ori_temp' = 0 /\ new_perc' = 0 /\ ori_perc' = 0
  /\ parted' = FALSE /\ sawFault' = FALSE /\ completed' = FALSE
  /\ UNCHANGED hwDuty

manage_fans ==
  \/ ReadTemp1 \/ ReadTemp2 \/ ReadRaises
  \/ CheckFan \/ TempUnchanged \/ Policy
  \/ DutyUnchanged \/ SetDuty

MonitorNext == manage_fans \/ CliSetFan \/ Restart

MonitorSpec == MonitorInit /\ [][MonitorNext]_monitorVars

-----------------------------------------------------------------------------
(* Properties.                                                             *)

\* The shape of the daemon's state: the one type invariant of the module.
MonitorTypeOK ==
  /\ stage \in {"sleep", "temp2", "fan", "policy", "set", "dead"}
  /\ temp1 \in Int /\ new_temp \in Int /\ ori_temp \in Int
  /\ fan \in 1..NumFans
  /\ new_perc \in Levels \cup {0}
  /\ ori_perc \in Levels \cup {0}
  /\ hwDuty \in 0..100
  /\ parted \in BOOLEAN /\ sawFault \in BOOLEAN /\ completed \in BOOLEAN

\* Whatever sequence of rises, falls, faults, aborted passes and early
\* returns came before, a pass of manage_fans that returns True leaves a duty
\* at least as high as the heating table asks for the temperature it read, and
\* full speed if it read a fault.  The early return for an unchanged
\* temperature, and a remembered temperature that is refreshed only when the
\* duty changes, are what could break it.  (0 is the temperature a fresh
\* daemon believes it has handled already: at exactly 0 it commands nothing.)
AdequateDuty ==
  stage = "sleep" /\ completed =>
    /\ new_temp # 0 \/ sawFault => ori_perc >= UpPerc(new_temp)
    /\ sawFault => ori_perc = FAN_LEV1_SPEED_PERC

\* The fans themselves turn as fast as AdequateDuty asks once a pass has
\* returned True, also when the duty they had before it came from an earlier
\* daemon that was killed, whose duty the new one knows nothing of: what it
\* forgets must never make it leave them slow.  Only while an operator's duty
\* stands, or a write of this daemon was lost and no later one arrived, is
\* nothing promised: manage_fans takes what it sent for what the fans have
\* (accton_as5712_monitor.py:152-165) and sends nothing until its choice changes.
FansAdequate ==
  stage = "sleep" /\ completed /\ (new_temp # 0 \/ sawFault) /\ ~parted =>
    /\ hwDuty >= UpPerc(new_temp)
    /\ sawFault => hwDuty = FAN_LEV1_SPEED_PERC

\* manage_fans lowers the duty of the fans only in a pass in which no fan
\* showed a fault, and never below what the heating table asks at the
\* temperature of that pass.
NoUnsafeStepDown ==
  [][hwDuty' < hwDuty /\ ~parted' => ~sawFault /\ hwDuty' >= UpPerc(new_temp)]_monitorVars

-----------------------------------------------------------------------------
(* The inductive invariant behind them.                                    *)

\* What was last commanded was adequate for the remembered temperature.
Remembered ==
  \/ ori_perc = 0 /\ ori_temp = 0
  \/ ori_perc \in Levels /\ ori_perc >= UpPerc(ori_temp)

\* _new_perc and _ori_perc agree except between a choice and its write.
Choice ==
  /\ stage # "set" => new_perc = ori_perc
  /\ stage = "set" => new_perc \in Levels /\ new_perc >= UpPerc(new_temp)
  /\ stage = "set" /\ sawFault => new_perc = FAN_LEV1_SPEED_PERC
  /\ stage \in {"temp2", "fan", "policy"} => ~sawFault
  /\ stage = "temp2" => ~completed

\* A daemon that has commanded a duty, and lost none, has its fans there.
Driven == ~parted => ori_perc = 0 \/ hwDuty = ori_perc

MonitorIInv == MonitorTypeOK /\ Remembered /\ Choice /\ AdequateDuty /\ Driven

=============================================================================
