-------------------------- MODULE Fan5712_proofs --------------------------
(***************************************************************************)
(* Proofs about the fans of the AS5712-54X: the driver, for any number of   *)
(* readers, writers and fans, and the daemon above it, for every set of     *)
(* temperatures and every duty an operator may write.                       *)
(***************************************************************************)
EXTENDS FanDriver5712, FanMonitor5712, TLAPS

-----------------------------------------------------------------------------
(* The driver.                                                             *)

\* What is stored for a fan has the types of the cache.
LEMMA DecodeType ==
  ASSUME NEW r \in Registers, NEW f
  PROVE  Decode(r, f) \in [status : BOOLEAN, r_status : BOOLEAN, duty_cycle : 0..100]
<1>1. r.pwm * 5 \in 0..100
  BY DEF Registers
<1>2. (f \in r.fault) \in BOOLEAN /\ (f \in r.r_fault) \in BOOLEAN
  OBVIOUS
<1> QED
  BY <1>1, <1>2 DEF Decode, FAN_SPEED_PRECENT_TO_CPLD_STEP

LEMMA NoRegsType == NoRegs \in Registers
BY DEF NoRegs, Registers

\* A duty in range becomes a register value in range.
LEMMA DutyRegister ==
  ASSUME NEW d \in 0..100
  PROVE  d \div FAN_SPEED_PRECENT_TO_CPLD_STEP \in 0..20
BY DEF FAN_SPEED_PRECENT_TO_CPLD_STEP

-----------------------------------------------------------------------------
(* Type correctness.                                                       *)

LEMMA InitTypeOK == Init => TypeOK
<1> SUFFICES ASSUME Init PROVE TypeOK
  OBVIOUS
<1>1. hw \in Registers
  BY HwFaultsAssumption DEF Init, Registers
<1>2. data \in [Fans -> [status : BOOLEAN, r_status : BOOLEAN, duty_cycle : 0..100]]
  BY DecodeType, NoRegsType DEF Init
<1>3. reg \in [Readers -> Registers] /\ snap \in Registers
  BY NoRegsType DEF Init
<1>4. arg \in [Writers -> 0..100] /\ todo \in [Readers -> SUBSET Fans]
  BY DEF Init
<1>5. pc \in [Procs -> Refreshing \cup {"idle", "lock", "check", "show", "write", "invalidate"}]
  BY DEF Init
<1>6. valid \in BOOLEAN /\ expired \in BOOLEAN /\ filled \in BOOLEAN /\ lock \in Readers \cup {NoOne}
  BY DEF Init
<1> QED
  BY <1>1, <1>2, <1>3, <1>4, <1>5, <1>6 DEF TypeOK

LEMMA NextTypeOK == TypeOK /\ [Next]_vars => TypeOK'
<1> SUFFICES ASSUME TypeOK, [Next]_vars PROVE TypeOK'
  OBVIOUS
<1> USE DEF TypeOK, Goto, Leave, Refreshing, Procs
<1>1. ASSUME NEW p \in Readers, fan_show_value(p) PROVE TypeOK'
  <2>1. CASE Enter(p)
    BY <2>1 DEF Enter
  <2>2. CASE CacheHit(p)
    BY <2>2 DEF CacheHit
  <2>3. CASE StartRefresh(p)
    BY <2>3 DEF StartRefresh
  <2>4. CASE ReadRegister(p)
    <3>1. reg' \in [Readers -> Registers]
      BY <2>4 DEF ReadRegister, Registers
    <3>2. pc' \in [Procs -> Refreshing \cup {"idle", "lock", "check", "show", "write", "invalidate"}]
      BY <2>4 DEF ReadRegister
    <3> QED
      BY <2>4, <3>1, <3>2 DEF ReadRegister
  <2>5. CASE ReadFails(p)
    BY <2>5, NoRegsType DEF ReadFails
  <2>6. CASE StoreFan(p)
    <3>1. PICK f \in todo[p] : /\ data' = [data EXCEPT ![f] = Decode(reg[p], f)]
                               /\ todo' = [todo EXCEPT ![p] = @ \ {f}]
      BY <2>6 DEF StoreFan
    <3>2. data' \in [Fans -> [status : BOOLEAN, r_status : BOOLEAN, duty_cycle : 0..100]]
      BY <3>1, DecodeType
    <3>3. todo' \in [Readers -> SUBSET Fans]
      BY <3>1
    <3> QED
      BY <2>6, <3>2, <3>3 DEF StoreFan
  <2>7. CASE ReadSpeeds(p)
    BY <2>7 DEF ReadSpeeds
  <2>8. CASE FinishRefresh(p)
    BY <2>8, NoRegsType DEF FinishRefresh
  <2>9. CASE CheckValid(p)
    BY <2>9 DEF CheckValid
  <2>10. CASE Show(p)
    BY <2>10 DEF Show
  <2> QED
    BY <1>1, <2>1, <2>2, <2>3, <2>4, <2>5, <2>6, <2>7, <2>8, <2>9, <2>10
       DEF fan_show_value
<1>2. ASSUME NEW w \in Writers, fan_set_duty_cycle(w) PROVE TypeOK'
  <2>1. CASE SetAccepted(w)
    <3>1. PICK v \in Inputs : /\ v >= 0 /\ v <= 100
                              /\ arg' = [arg EXCEPT ![w] = v]
      BY <2>1 DEF SetAccepted, FAN_DUTY_CYCLE_MIN, FAN_DUTY_CYCLE_MAX
    <3>2. v \in 0..100
      BY <3>1, InputsAssumption
    <3>3. arg' \in [Writers -> 0..100]
      BY <3>1, <3>2
    <3> QED
      BY <2>1, <3>3 DEF SetAccepted
  <2>2. CASE WriteRegister(w)
    <3>1. arg[w] \div FAN_SPEED_PRECENT_TO_CPLD_STEP \in 0..20
      BY DutyRegister
    <3>2. hw' \in Registers
      BY <2>2, <3>1 DEF WriteRegister, Registers
    <3> QED
      BY <2>2, <3>2 DEF WriteRegister
  <2>3. CASE Invalidate(w)
    <3>1. arg' \in [Writers -> 0..100]
      BY <2>3 DEF Invalidate
    <3>2. valid' \in BOOLEAN
      BY <2>3 DEF Invalidate
    <3> QED
      BY <2>3, <3>1, <3>2 DEF Invalidate
  <2> QED
    BY <1>2, <2>1, <2>2, <2>3 DEF fan_set_duty_cycle
<1>3. CASE HwChange
  <2>1. hw' \in Registers
    BY <1>3, HwFaultsAssumption DEF HwChange, Registers
  <2> QED
    BY <1>3, <2>1 DEF HwChange
<1>4. CASE Expire
  BY <1>4 DEF Expire
<1>5. CASE UNCHANGED vars
  BY <1>5 DEF vars
<1> QED
  BY <1>1, <1>2, <1>3, <1>4, <1>5 DEF Next

\* The cache, the registers and the processes keep their types.
THEOREM TypeCorrect == Spec => []TypeOK
<1> QED
  BY InitTypeOK, NextTypeOK, PTL DEF Spec

-----------------------------------------------------------------------------
(* The inductive invariant.                                                *)

LEMMA InitIInv == Init => IInv
<1> SUFFICES ASSUME Init PROVE IInv
  OBVIOUS
<1>1. TypeOK
  BY InitTypeOK
<1>2. LockInv
  BY ProcsAssumption DEF Init, LockInv, Refreshing, Procs
<1>3. StoreInv
  BY DEF Init, StoreInv, Procs
<1>4. FilledInv /\ ValidIsOneRefresh
  BY DEF Init, FilledInv, NoneShownBeforeFilled, ValidIsOneRefresh, Procs
<1> QED
  BY <1>1, <1>2, <1>3, <1>4 DEF IInv

\* A step of the one process that holds the lock leaves the others outside
\* update_device, where they do not touch what it stores.
LEMMA ReaderKeepsIInv ==
  ASSUME IInv, TypeOK', NEW p \in Readers, fan_show_value(p)
  PROVE  LockInv' /\ StoreInv' /\ FilledInv' /\ ValidIsOneRefresh'
<1>0. TypeOK /\ p # NoOne /\ p \in Procs
  BY ProcsAssumption DEF IInv, Procs
<1>l. \A q \in Readers : pc[q] \in Refreshing <=> lock = q
  BY DEF IInv, LockInv
<1>p. \A q \in Readers : q \in Procs
  BY DEF Procs
<1> USE DEF Goto, Leave, Refreshing
<1>1. CASE Enter(p)
  BY <1>0, <1>1, <1>p DEF Enter, IInv, TypeOK, LockInv, StoreInv, FilledInv,
                    NoneShownBeforeFilled, ValidIsOneRefresh
<1>2. CASE CacheHit(p)
  BY <1>0, <1>2, <1>p DEF CacheHit, IInv, TypeOK, LockInv, StoreInv, FilledInv,
                    NoneShownBeforeFilled, ValidIsOneRefresh
<1>3. CASE StartRefresh(p)
  <2>1. valid' = FALSE
    BY <1>3 DEF StartRefresh
  <2>2. \A q \in Readers : pc'[q] \in Refreshing <=> lock' = q
    BY <1>0, <1>3, <1>p, <1>l, ProcsAssumption DEF StartRefresh, TypeOK
  <2>3. StoreInv'
    BY <1>0, <1>3, <1>p DEF StartRefresh, IInv, TypeOK, StoreInv
  <2>4. FilledInv' /\ ValidIsOneRefresh'
    BY <1>0, <1>3, <1>p, <2>1 DEF StartRefresh, IInv, TypeOK, FilledInv,
                    NoneShownBeforeFilled, ValidIsOneRefresh
  <2> QED
    BY <2>1, <2>2, <2>3, <2>4 DEF LockInv
<1>4. CASE ReadRegister(p)
  <2>1. lock = p /\ ~valid
    BY <1>0, <1>4 DEF ReadRegister, IInv, LockInv
  <2>2. LockInv'
    BY <1>0, <1>4, <1>p, <2>1 DEF ReadRegister, IInv, TypeOK, LockInv
  <2>3. StoreInv'
    <3> SUFFICES ASSUME NEW q \in Readers
                 PROVE  /\ pc'[q] \in {"store", "speed", "finish"} =>
                             \A f \in Fans \ todo'[q] : data'[f] = Decode(reg'[q], f)
                        /\ pc'[q] = "finish" => todo'[q] = {}
      BY DEF StoreInv
    <3>1. CASE q = p
      <4>1. todo'[p] = Fans /\ pc'[p] # "finish"
        BY <1>0, <1>4 DEF ReadRegister, TypeOK
      <4> QED
        BY <3>1, <4>1
    <3>2. CASE q # p
      <4>1. pc'[q] = pc[q] /\ pc[q] \notin Refreshing
        BY <1>0, <1>4, <1>l, <1>p, <2>1, <3>2 DEF ReadRegister, TypeOK
      <4> QED
        BY <4>1
    <3> QED
      BY <3>1, <3>2
  <2>4. FilledInv' /\ ValidIsOneRefresh'
    BY <1>0, <1>4, <1>p, <2>1 DEF ReadRegister, IInv, TypeOK, FilledInv,
                    NoneShownBeforeFilled, ValidIsOneRefresh
  <2> QED
    BY <2>2, <2>3, <2>4
<1>5. CASE ReadFails(p)
  <2>1. lock = p /\ ~valid /\ ~valid' /\ lock' = NoOne
    BY <1>0, <1>5, <1>l DEF ReadFails, IInv, LockInv
  <2>2. \A q \in Readers : pc'[q] \in Refreshing <=> lock' = q
    BY <1>0, <1>5, <1>p, <1>l, <2>1, ProcsAssumption DEF ReadFails, TypeOK
  <2>3. StoreInv'
    BY <1>0, <1>5, <1>p DEF ReadFails, IInv, TypeOK, StoreInv
  <2>4. FilledInv' /\ ValidIsOneRefresh'
    BY <1>0, <1>5, <1>p, <2>1 DEF ReadFails, IInv, TypeOK, FilledInv,
                    NoneShownBeforeFilled, ValidIsOneRefresh
  <2> QED
    BY <2>1, <2>2, <2>3, <2>4 DEF LockInv
<1>6. CASE StoreFan(p)
  <2>1. lock = p /\ ~valid /\ valid' = valid
    BY <1>0, <1>6 DEF StoreFan, IInv, LockInv
  <2>2. LockInv'
    BY <1>0, <1>6, <1>p, <2>1 DEF StoreFan, IInv, TypeOK, LockInv
  <2>3. PICK f \in todo[p] : /\ data' = [data EXCEPT ![f] = Decode(reg[p], f)]
                             /\ todo' = [todo EXCEPT ![p] = @ \ {f}]
    BY <1>6 DEF StoreFan
  <2>4. StoreInv'
    <3> SUFFICES ASSUME NEW q \in Readers
                 PROVE  /\ pc'[q] \in {"store", "speed", "finish"} =>
                             \A g \in Fans \ todo'[q] : data'[g] = Decode(reg'[q], g)
                        /\ pc'[q] = "finish" => todo'[q] = {}
      BY DEF StoreInv
    <3>1. CASE q = p
      <4>1. pc'[p] = "speed" /\ pc[p] = "store" /\ reg' = reg
        BY <1>0, <1>6 DEF StoreFan, TypeOK
      <4>2. \A g \in Fans \ todo[p] : data[g] = Decode(reg[p], g)
        BY <4>1 DEF IInv, StoreInv
      <4>3. \A g \in Fans \ todo'[p] : data'[g] = Decode(reg[p], g)
        BY <1>0, <2>3, <4>2 DEF TypeOK
      <4> QED
        BY <3>1, <4>1, <4>3
    <3>2. CASE q # p
      <4>1. pc'[q] = pc[q] /\ pc[q] \notin Refreshing
        BY <1>0, <1>6, <1>l, <1>p, <2>1, <3>2 DEF StoreFan, TypeOK
      <4> QED
        BY <4>1
    <3> QED
      BY <3>1, <3>2
  <2>5. FilledInv' /\ ValidIsOneRefresh'
    BY <1>0, <1>6, <1>p, <2>1 DEF StoreFan, IInv, TypeOK, FilledInv,
                    NoneShownBeforeFilled, ValidIsOneRefresh
  <2> QED
    BY <2>2, <2>4, <2>5
<1>7. CASE ReadSpeeds(p)
  BY <1>0, <1>7, <1>p DEF ReadSpeeds, IInv, TypeOK, LockInv, StoreInv, FilledInv,
                    NoneShownBeforeFilled, ValidIsOneRefresh
<1>8. CASE FinishRefresh(p)
  <2>1. lock = p
    BY <1>8, <1>l DEF FinishRefresh
  <2>2. \A f \in Fans : data[f] = Decode(reg[p], f)
    BY <1>0, <1>8 DEF FinishRefresh, IInv, StoreInv
  <2>3. LockInv'
    <3>1. lock' = NoOne
      BY <1>8 DEF FinishRefresh
    <3>2. \A q \in Readers : pc'[q] \in Refreshing <=> lock' = q
      BY <1>0, <1>8, <1>p, <1>l, <2>1, <3>1, ProcsAssumption DEF FinishRefresh, TypeOK
    <3> QED
      BY <3>1, <3>2 DEF LockInv
  <2>4. StoreInv'
    BY <1>0, <1>8, <1>p, <1>l, <2>1 DEF FinishRefresh, IInv, TypeOK, StoreInv
  <2>5. FilledInv' /\ ValidIsOneRefresh'
    BY <1>0, <1>8, <2>2 DEF FinishRefresh, IInv, FilledInv,
                    NoneShownBeforeFilled, ValidIsOneRefresh
  <2> QED
    BY <2>3, <2>4, <2>5
<1>9. CASE CheckValid(p)
  BY <1>0, <1>9, <1>p DEF CheckValid, IInv, TypeOK, LockInv, StoreInv, FilledInv,
                    NoneShownBeforeFilled, ValidIsOneRefresh
<1>10. CASE Show(p)
  BY <1>0, <1>10, <1>p DEF Show, IInv, TypeOK, LockInv, StoreInv, FilledInv,
                    NoneShownBeforeFilled, ValidIsOneRefresh
<1> QED
  BY <1>1, <1>2, <1>3, <1>4, <1>5, <1>6, <1>7, <1>8, <1>9, <1>10
     DEF fan_show_value

\* A writer clears valid at any moment, and touches nothing a refresh stores.
LEMMA WriterKeepsIInv ==
  ASSUME IInv, NEW w \in Writers, fan_set_duty_cycle(w)
  PROVE  LockInv' /\ StoreInv' /\ FilledInv' /\ ValidIsOneRefresh'
<1>1. \A p \in Readers : pc'[p] = pc[p]
  BY ProcsAssumption DEF fan_set_duty_cycle, SetAccepted, WriteRegister,
     Invalidate, Goto, IInv, TypeOK, Procs
<1>2. /\ UNCHANGED <<lock, data, reg, todo, filled, snap>>
      /\ valid' => valid
  BY DEF fan_set_duty_cycle, SetAccepted, WriteRegister, Invalidate
<1> QED
  BY <1>1, <1>2 DEF IInv, LockInv, StoreInv, FilledInv, NoneShownBeforeFilled,
                    ValidIsOneRefresh

LEMMA NextIInv == IInv /\ [Next]_vars => IInv'
<1> SUFFICES ASSUME IInv, [Next]_vars PROVE IInv'
  OBVIOUS
<1>0. TypeOK'
  BY NextTypeOK DEF IInv
<1>1. ASSUME NEW p \in Readers, fan_show_value(p) PROVE IInv'
  BY <1>0, <1>1, ReaderKeepsIInv DEF IInv
<1>2. ASSUME NEW w \in Writers, fan_set_duty_cycle(w) PROVE IInv'
  BY <1>0, <1>2, WriterKeepsIInv DEF IInv
<1>3. CASE HwChange \/ Expire \/ UNCHANGED vars
  <2>1. UNCHANGED <<lock, valid, data, pc, reg, todo, filled, snap>>
    BY <1>3 DEF HwChange, Expire, vars
  <2>2. LockInv' /\ StoreInv'
    BY <2>1 DEF IInv, LockInv, StoreInv
  <2>3. FilledInv' /\ ValidIsOneRefresh'
    BY <2>1 DEF IInv, FilledInv, NoneShownBeforeFilled, ValidIsOneRefresh
  <2> QED
    BY <1>0, <2>2, <2>3 DEF IInv
<1> QED
  BY <1>1, <1>2, <1>3 DEF Next

THEOREM Inductive == Spec => []IInv
<1> QED
  BY InitIInv, NextIInv, PTL DEF Spec

\* A valid cache is what one complete refresh read, whatever number of
\* processes read and write the nodes.
THEOREM Coherent == Spec => []ValidIsOneRefresh
<1>1. IInv => ValidIsOneRefresh
  BY DEF IInv
<1> QED
  BY <1>1, Inductive, PTL

\* No reader is let past the test of valid before a refresh has completed.
THEOREM NothingUnfilled == Spec => []NoneShownBeforeFilled
<1>1. IInv => NoneShownBeforeFilled
  BY DEF IInv, FilledInv
<1> QED
  BY <1>1, Inductive, PTL

-----------------------------------------------------------------------------
(* The daemon.                                                             *)

USE DEF FAN_LEV1_UP_TEMP, FAN_LEV2_UP_TEMP, FAN_LEV2_DOWN_TEMP,
        FAN_LEV3_UP_TEMP, FAN_LEV3_DOWN_TEMP, FAN_LEV4_DOWN_TEMP,
        FAN_LEV1_SPEED_PERC, FAN_LEV2_SPEED_PERC,
        FAN_LEV3_SPEED_PERC, FAN_LEV4_SPEED_PERC

-----------------------------------------------------------------------------
(* The tables.                                                             *)

\* Both tables only ever name one of the four levels.
LEMMA TableLevels ==
  ASSUME NEW t \in Int
  PROVE  UpPerc(t) \in Levels /\ DownPerc(t) \in Levels
BY DEF UpPerc, DownPerc, Levels

\* At every temperature the cooling table (accton_as5712_monitor.py:142-149)
\* asks for at least what the heating table (:132-139) asks for.
THEOREM CoolingCoversHeating ==
  ASSUME NEW t \in Int
  PROVE  DownPerc(t) >= UpPerc(t)
BY DEF UpPerc, DownPerc

\* The duty chosen for a temperature that moved is a level, and adequate.
LEMMA PolicyAdequate ==
  ASSUME NEW ori \in Int, NEW new \in Int
  PROVE  /\ PolicyPerc(ori, new) \in Levels
         /\ PolicyPerc(ori, new) >= UpPerc(new)
BY TableLevels, CoolingCoversHeating DEF PolicyPerc, UpPerc, DownPerc, Levels

\* Full speed is adequate at every temperature.
LEMMA FullAdequate ==
  ASSUME NEW t \in Int
  PROVE  FAN_LEV1_SPEED_PERC \in Levels /\ FAN_LEV1_SPEED_PERC >= UpPerc(t)
BY DEF UpPerc, Levels

-----------------------------------------------------------------------------
(* Type correctness.                                                       *)

LEMMA FanIndex ==
  /\ 1 \in 1..NumFans
  /\ \A x \in 1..NumFans : x < NumFans => x + 1 \in 1..NumFans
<1>1. NumFans \in Int /\ NumFans >= 1
  BY NumFansAssumption
<1> QED
  BY <1>1

LEMMA InitMonitorTypeOK == MonitorInit => MonitorTypeOK
<1> SUFFICES ASSUME MonitorInit PROVE MonitorTypeOK
  OBVIOUS
<1>1. stage \in {"sleep", "temp2", "fan", "policy", "set", "dead"}
  BY DEF MonitorInit
<1>2. temp1 \in Int /\ new_temp \in Int /\ ori_temp \in Int
  BY DEF MonitorInit
<1>3. fan \in 1..NumFans
  BY FanIndex DEF MonitorInit
<1>4. new_perc \in Levels \cup {0} /\ ori_perc \in Levels \cup {0}
  BY DEF MonitorInit
<1>5. hwDuty \in 0..100
  BY DEF MonitorInit
<1>6. parted \in BOOLEAN /\ sawFault \in BOOLEAN /\ completed \in BOOLEAN
  BY DEF MonitorInit
<1> QED
  BY <1>1, <1>2, <1>3, <1>4, <1>5, <1>6 DEF MonitorTypeOK

LEMMA NextMonitorTypeOK == MonitorTypeOK /\ [MonitorNext]_monitorVars => MonitorTypeOK'
<1> SUFFICES ASSUME MonitorTypeOK, [MonitorNext]_monitorVars PROVE MonitorTypeOK'
  OBVIOUS
<1> USE DEF MonitorTypeOK
<1>1. CASE ReadTemp1
  BY <1>1, TempsAssumption DEF ReadTemp1, memory, fans
<1>2. CASE ReadTemp2
  <2>1. ASSUME NEW t \in Temps PROVE (temp1 + t) \div 2 \in Int
    BY <2>1, TempsAssumption
  <2> QED
    BY <1>2, <2>1, FanIndex DEF ReadTemp2, memory, fans
<1>3. CASE ReadRaises
  BY <1>3 DEF ReadRaises, memory, fans
<1>4. CASE CheckFan
  <2>1. fan' \in 1..NumFans
    BY <1>4, FanIndex DEF CheckFan
  <2>2. new_perc' \in Levels \cup {0}
    BY <1>4 DEF CheckFan, Levels
  <2>3. stage' \in {"fan", "policy", "set"} /\ sawFault' \in BOOLEAN
    BY <1>4 DEF CheckFan
  <2> QED
    BY <1>4, <2>1, <2>2, <2>3 DEF CheckFan, fans
<1>5. CASE TempUnchanged
  BY <1>5 DEF TempUnchanged, memory, fans
<1>6. CASE Policy
  BY <1>6, PolicyAdequate DEF Policy, fans
<1>7. CASE DutyUnchanged
  BY <1>7 DEF DutyUnchanged, memory, fans
<1>8. CASE SetDuty
  BY <1>8 DEF SetDuty, Levels
<1>9. CASE CliSetFan
  BY <1>9, CliAssumption DEF CliSetFan, memory
<1>10. CASE Restart
  <2>1. fan' \in 1..NumFans
    BY <1>10, FanIndex DEF Restart
  <2>2. parted' \in BOOLEAN /\ sawFault' \in BOOLEAN /\ completed' \in BOOLEAN
    BY <1>10 DEF Restart
  <2> QED
    BY <1>10, <2>1, <2>2 DEF Restart
<1>11. CASE UNCHANGED monitorVars
  BY <1>11 DEF monitorVars
<1> QED
  BY <1>1, <1>2, <1>3, <1>4, <1>5, <1>6, <1>7, <1>8, <1>9, <1>10, <1>11
     DEF MonitorNext, manage_fans

\* The daemon's variables keep their types, whatever is read or written.
THEOREM MonitorTypeCorrect == MonitorSpec => []MonitorTypeOK
<1> QED
  BY InitMonitorTypeOK, NextMonitorTypeOK, PTL DEF MonitorSpec

-----------------------------------------------------------------------------
(* The inductive invariant.                                                *)

LEMMA InitMonitor == MonitorInit => MonitorIInv
BY InitMonitorTypeOK DEF MonitorInit, MonitorIInv, Remembered, Choice, AdequateDuty, Driven

LEMMA NextMonitor == MonitorIInv /\ [MonitorNext]_monitorVars => MonitorIInv'
<1> SUFFICES ASSUME MonitorIInv, [MonitorNext]_monitorVars PROVE MonitorIInv'
  OBVIOUS
<1>0. MonitorTypeOK /\ MonitorTypeOK'
  BY NextMonitorTypeOK DEF MonitorIInv
<1> USE DEF MonitorIInv, Remembered, Choice, AdequateDuty, Driven
<1>1. CASE ReadTemp1
  BY <1>0, <1>1 DEF ReadTemp1, memory, fans
<1>2. CASE ReadTemp2
  BY <1>0, <1>2 DEF ReadTemp2, memory, fans
<1>3. CASE ReadRaises
  BY <1>0, <1>3 DEF ReadRaises, memory, fans
<1>4. CASE CheckFan
  <2>1. new_temp \in Int
    BY <1>0 DEF MonitorTypeOK
  <2> QED
    BY <1>0, <1>4, <2>1, FullAdequate DEF CheckFan, fans
<1>5. CASE TempUnchanged
  <2>1. new_temp = ori_temp
    BY <1>0, <1>5 DEF TempUnchanged, MonitorTypeOK
  <2>2. new_temp # 0 => ori_perc >= UpPerc(new_temp)
    BY <2>1
  <2> QED
    BY <1>0, <1>5, <2>2 DEF TempUnchanged, memory, fans
<1>6. CASE Policy
  <2>1. new_perc' \in Levels /\ new_perc' >= UpPerc(new_temp)
    BY <1>0, <1>6, PolicyAdequate DEF Policy, MonitorTypeOK
  <2> QED
    BY <1>0, <1>6, <2>1 DEF Policy, fans
<1>7. CASE DutyUnchanged
  BY <1>0, <1>7 DEF DutyUnchanged, memory, fans
<1>8. CASE SetDuty
  BY <1>0, <1>8 DEF SetDuty
<1>9. CASE CliSetFan
  BY <1>0, <1>9 DEF CliSetFan, memory
<1>10. CASE Restart
  BY <1>0, <1>10 DEF Restart
<1>11. CASE UNCHANGED monitorVars
  BY <1>0, <1>11 DEF monitorVars
<1> QED
  BY <1>1, <1>2, <1>3, <1>4, <1>5, <1>6, <1>7, <1>8, <1>9, <1>10, <1>11
     DEF MonitorNext, manage_fans

THEOREM MonitorInductive == MonitorSpec => []MonitorIInv
<1> QED
  BY InitMonitor, NextMonitor, PTL DEF MonitorSpec

-----------------------------------------------------------------------------
(* What a reader wants to know.                                            *)

\* Every completed pass of manage_fans leaves a duty that is at least what
\* the heating table asks at its temperature, and full speed after a fault.
THEOREM Adequate == MonitorSpec => []AdequateDuty
<1>1. MonitorIInv => AdequateDuty
  BY DEF MonitorIInv
<1> QED
  BY <1>1, MonitorInductive, PTL

\* The fans turn at least as fast as the completed pass asks, unless an
\* operator's duty stands or the last write was lost.
THEOREM FansFollow == MonitorSpec => []FansAdequate
<1>1. ASSUME MonitorIInv PROVE FansAdequate
  <2> SUFFICES ASSUME stage = "sleep", completed, new_temp # 0 \/ sawFault, ~parted
               PROVE  /\ hwDuty >= UpPerc(new_temp)
                      /\ sawFault => hwDuty = FAN_LEV1_SPEED_PERC
    BY DEF FansAdequate
  <2>1. /\ ori_perc >= UpPerc(new_temp)
        /\ sawFault => ori_perc = FAN_LEV1_SPEED_PERC
    BY <1>1 DEF MonitorIInv, AdequateDuty
  <2>2. ori_perc # 0
    BY <1>1, <2>1, TableLevels DEF MonitorIInv, MonitorTypeOK, Levels
  <2>3. hwDuty = ori_perc
    BY <1>1, <2>2 DEF MonitorIInv, Driven
  <2> QED
    BY <2>1, <2>3
<1> QED
  BY <1>1, MonitorInductive, PTL

LEMMA StepDown ==
  MonitorIInv /\ [MonitorNext]_monitorVars =>
    [hwDuty' < hwDuty /\ ~parted' => ~sawFault /\ hwDuty' >= UpPerc(new_temp)]_monitorVars
<1> SUFFICES ASSUME MonitorIInv, MonitorNext, hwDuty' < hwDuty, ~parted'
             PROVE  ~sawFault /\ hwDuty' >= UpPerc(new_temp)
  OBVIOUS
<1>1. MonitorTypeOK /\ hwDuty' # hwDuty
  BY DEF MonitorIInv, MonitorTypeOK
<1>2. SetDuty
  BY <1>1 DEF MonitorNext, manage_fans, ReadTemp1, ReadTemp2, ReadRaises, CheckFan,
              TempUnchanged, Policy, DutyUnchanged, CliSetFan, Restart, fans
<1>3. hwDuty' = new_perc /\ hwDuty = hwDuty
  BY <1>1, <1>2 DEF SetDuty
<1>4. new_perc >= UpPerc(new_temp)
  BY <1>2 DEF SetDuty, MonitorIInv, Choice
<1>5. ~sawFault
  <2>1. SUFFICES ASSUME sawFault PROVE FALSE
    OBVIOUS
  <2>2. hwDuty' = 100
    BY <1>2, <1>3, <2>1 DEF SetDuty, MonitorIInv, Choice
  <2> QED
    BY <1>1, <2>2 DEF MonitorTypeOK
<1> QED
  BY <1>3, <1>4, <1>5

\* manage_fans slows the fans only in a pass without a fault, and never below
\* what its temperature asks for.
THEOREM StepsDownSafely == MonitorSpec => NoUnsafeStepDown
<1> QED
  BY MonitorInductive, StepDown, PTL DEF MonitorSpec, NoUnsafeStepDown
=============================================================================
