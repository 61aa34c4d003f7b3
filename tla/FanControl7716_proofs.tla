------------------------ MODULE FanControl7716_proofs ------------------------
(***************************************************************************)
(* Proofs about FanControl7716, for any number of fans, any temperatures   *)
(* and any writers of the driver's node.                                   *)
(***************************************************************************)
EXTENDS FanControl7716, TLAPS

-----------------------------------------------------------------------------
(* The two roundings of the driver.                                        *)

\* What the driver reads back is a percentage, whatever the register holds.
LEMMA ReadBackIsPercent ==
  ASSUME NEW r \in 0..255
  PROVE  reg_val_to_duty_cycle(r) \in 0..100
<1>1. r % 16 \in 0..15
  OBVIOUS
<1>2. ASSUME NEW n \in 0..15 PROVE ((n + 1) * 625 + 75) \div 100 \in 0..100
  BY <1>2
<1>3. QED
  BY <1>1, <1>2 DEF reg_val_to_duty_cycle, FAN_DUTY_CYCLE_REG_MASK

\* What it writes fits the register, the wrap of the duty cycles below 7 included.
LEMMA WrittenIsByte ==
  ASSUME NEW d \in 0..100
  PROVE  duty_cycle_to_reg_val(d) \in 0..255
BY DEF duty_cycle_to_reg_val

LEMMA DutiesAre == Duties = {32, 38, 50, 63, 69}
<1>1. \A i \in 0..3 : i = 0 \/ i = 1 \/ i = 2 \/ i = 3
  OBVIOUS
<1>2. /\ fan_policy_f2b[0].duty = 32 /\ fan_policy_f2b[1].duty = 38
      /\ fan_policy_f2b[2].duty = 50 /\ fan_policy_f2b[3].duty = 63
  BY DEF fan_policy_f2b
<1>3. /\ fan_policy_b2f[0].duty = 32 /\ fan_policy_b2f[1].duty = 38
      /\ fan_policy_b2f[2].duty = 50 /\ fan_policy_b2f[3].duty = 69
  BY DEF fan_policy_b2f
<1>4. QED
  BY <1>1, <1>2, <1>3 DEF Duties

\* A duty cycle of the tables is a duty cycle of the tables again after both.
LEMMA RoundTrip ==
  ASSUME NEW d \in Duties
  PROVE  reg_val_to_duty_cycle(duty_cycle_to_reg_val(d)) \in Duties
<1>1. /\ duty_cycle_to_reg_val(32) = 4 /\ duty_cycle_to_reg_val(38) = 5
      /\ duty_cycle_to_reg_val(50) = 7 /\ duty_cycle_to_reg_val(63) = 9
      /\ duty_cycle_to_reg_val(69) = 10
  BY DEF duty_cycle_to_reg_val
<1>2. /\ reg_val_to_duty_cycle(4) = 32 /\ reg_val_to_duty_cycle(5) = 38
      /\ reg_val_to_duty_cycle(7) = 50 /\ reg_val_to_duty_cycle(9) = 63
      /\ reg_val_to_duty_cycle(10) = 69
  BY DEF reg_val_to_duty_cycle, FAN_DUTY_CYCLE_REG_MASK
<1>3. QED
  BY <1>1, <1>2, DutiesAre

LEMMA RowExists ==
  ASSUME NEW d
  PROVE  RowOf(d) \in 0..3
BY DEF RowOf

LEMMA RowDuty ==
  ASSUME NEW i \in 0..3
  PROVE  fan_policy_f2b[i].duty \in Duties /\ fan_policy_b2f[i].duty \in Duties
BY DEF Duties

\* A choice is the duty cycle of a row, or the one the fans have.
LEMMA ChoiceInTable ==
  ASSUME NEW row \in 0..3, NEW t \in Int, NEW cur
  PROVE  /\ F2BDuty(row, t, cur) \in Duties \cup {cur}
         /\ B2FDuty(row, t, cur) \in Duties \cup {cur}
<1>1. row # 3 => row + 1 \in 0..3
  OBVIOUS
<1>2. row # 0 => row - 1 \in 0..3
  OBVIOUS
<1>3. F2BDuty(row, t, cur) \in Duties \cup {cur}
  BY <1>1, <1>2, RowDuty DEF F2BDuty
<1>4. B2FDuty(row, t, cur) \in Duties \cup {cur}
  BY <1>1, <1>2, RowDuty DEF B2FDuty
<1>5. QED
  BY <1>3, <1>4

-----------------------------------------------------------------------------
(* The two operations of the driver.                                       *)

LEMMA UpdateDeviceTyped ==
  ASSUME TypeOK, UpdateDevice
  PROVE  cache' \in Registers /\ valid' \in BOOLEAN /\ expired' \in BOOLEAN
BY DEF TypeOK, UpdateDevice, driver

LEMMA SetDutyCycleTyped ==
  ASSUME TypeOK, NEW d \in 0..100, NEW who, SetDutyCycle(d, who)
  PROVE  /\ hw' \in Registers
         /\ \/ hw'.reg = duty_cycle_to_reg_val(d) /\ writer' = who
            \/ UNCHANGED <<hw, writer>>
BY WrittenIsByte DEF TypeOK, SetDutyCycle, Registers

\* Whatever the direction was read as, what is chosen has the types of the
\* state, and is a duty of the tables when it is about to be written.
LEMMA ChooseTyped ==
  ASSUME TypeOK, NEW dir, Choose(dir)
  PROVE  /\ x' \in Nat /\ new_duty_cycle' \in 0..100 /\ pc' \in Locations
         /\ pc' \in {"set f2b", "set b2f"} => new_duty_cycle' \in Duties
<1>1. x' \in 0..3 /\ get_temp \in Int /\ cur_duty_cycle \in 0..100
  BY RowExists DEF Choose, TypeOK
<1>2. /\ F2BDuty(x', get_temp, cur_duty_cycle) \in Duties \cup {cur_duty_cycle}
      /\ B2FDuty(x', get_temp, cur_duty_cycle) \in Duties \cup {cur_duty_cycle}
  BY <1>1, ChoiceInTable
<1>3. new_duty_cycle' \in 0..100
  <2>1. Duties \cup {cur_duty_cycle} \subseteq 0..100
    BY <1>1, DutiesAre
  <2>2. /\ F2BDuty(x', get_temp, cur_duty_cycle) \in 0..100
        /\ B2FDuty(x', get_temp, cur_duty_cycle) \in 0..100
        /\ new_duty_cycle \in 0..100
    BY <1>2, <2>1 DEF TypeOK
  <2> QED
    BY <2>2 DEF Choose
<1>4. pc' \in Locations
  BY DEF Choose, Locations
<1>5. x' \in Nat
  BY ONLY <1>1
<1>6. pc' \in {"set f2b", "set b2f"} => new_duty_cycle' \in Duties
  BY <1>2 DEF Choose
<1>7. QED
  BY <1>3, <1>4, <1>5, <1>6

-----------------------------------------------------------------------------
(* The inductive invariant.                                                *)

LEMMA InitIInv == Init => IInv
<1> SUFFICES ASSUME Init PROVE IInv
  OBVIOUS
<1>1. hw \in Registers
  <2>1. PICK f \in Faulty, d \in Dirs : hw = [reg |-> 15, faults |-> f, dir |-> d]
    BY DEF Init
  <2>2. f \in SUBSET (1..NumFans) /\ d \in 0..1
    BY FaultyAssumption, DirsAssumption
  <2>3. QED
    BY <2>1, <2>2 DEF Registers
<1>2. cache \in Registers
  BY DEF Init, Registers
<1>3. x \in Nat
  BY DEF Init
<1>4. TypeOK
  <2>1. temp \in Temps /\ get_temp \in Int
    BY DEF Init
  <2>2. cur_duty_cycle \in 0..100 /\ new_duty_cycle \in 0..100
    BY DEF Init
  <2>3. pc \in Locations /\ valid \in BOOLEAN /\ expired \in BOOLEAN
    BY DEF Init, Locations
  <2>4. writer \in {"boot", "fault", "set f2b", "set b2f", "operator"}
    BY DEF Init
  <2>5. QED
    BY <1>1, <1>2, <1>3, <2>1, <2>2, <2>3, <2>4 DEF TypeOK
<1>5. OnTable
  BY DEF Init, OnTable
<1>6. QED
  BY <1>4, <1>5 DEF IInv

\* One step per action: first the types, then the duty cycle.
LEMMA NextTypeOK == IInv /\ [Next]_vars => TypeOK'
<1> SUFFICES ASSUME IInv, [Next]_vars PROVE TypeOK'
  OBVIOUS
<1>0. TypeOK
  BY DEF IInv
<1> USE <1>0
<1>1. CASE ReadTemp
  BY <1>1, TempsAssumption DEF ReadTemp, TypeOK, driver, Locations
<1>2. CASE ReadDuty
  <2>1. cache'.reg \in 0..255
    BY <1>2, UpdateDeviceTyped DEF ReadDuty, Registers
  <2>2. cur_duty_cycle' \in 0..100
    <3>1. reg_val_to_duty_cycle(cache'.reg) \in 0..100
      BY <2>1, ReadBackIsPercent
    <3>2. QED
      BY <1>2, <3>1 DEF ReadDuty, TypeOK
  <2>3. x' \in Nat
    <3>1. x' = 1 \/ x' = x
      BY <1>2 DEF ReadDuty
    <3>2. x \in Nat
      BY DEF TypeOK
    <3>3. QED
      BY ONLY <3>1, <3>2
  <2>4. QED
    BY <1>2, <2>2, <2>3, UpdateDeviceTyped DEF ReadDuty, TypeOK, Locations
<1>3. CASE CheckFan
  <2>1. x' \in Nat
    <3>1. x' = x \/ (x < NumFans /\ x' = x + 1)
      BY <1>3 DEF CheckFan, NextFan
    <3>2. x \in Nat
      BY DEF TypeOK
    <3>3. QED
      BY ONLY <3>1, <3>2, NumFansAssumption
  <2>2. QED
    BY <1>3, <2>1, UpdateDeviceTyped DEF CheckFan, NextFan, TypeOK, Locations
<1>4. CASE SetFaultDuty
  <2>1. hw' \in Registers /\ writer' \in {writer, "fault"}
    BY <1>4, SetDutyCycleTyped DEF SetFaultDuty, FaultDuty
  <2>2. QED
    BY <1>4, <2>1 DEF SetFaultDuty, TypeOK, driver, locals, Locations
<1>5. CASE Decide
  <2>1. x' \in Nat /\ new_duty_cycle' \in 0..100 /\ pc' \in Locations
    BY <1>5, ChooseTyped DEF Decide
  <2>2. QED
    BY <1>5, <2>1, UpdateDeviceTyped DEF Decide, TypeOK
<1>6. CASE SetPolicyDuty
  <2>1. hw' \in Registers /\ writer' \in {writer, "set f2b", "set b2f"}
    BY <1>6, SetDutyCycleTyped DEF SetPolicyDuty, TypeOK
  <2>2. QED
    BY <1>6, <2>1 DEF SetPolicyDuty, TypeOK, driver, locals, Locations
<1>7. CASE OtherReader
  BY <1>7, UpdateDeviceTyped DEF OtherReader, TypeOK, locals
<1>8. CASE OperatorSets
  <2>1. hw' \in Registers /\ writer' \in {writer, "operator"}
    BY <1>8, SetDutyCycleTyped, OperatorAssumption DEF OperatorSets
  <2>2. QED
    BY <1>8, <2>1 DEF OperatorSets, TypeOK, driver, locals
<1>9. CASE Expire
  BY <1>9 DEF Expire, TypeOK, locals
<1>10. CASE TempChange
  BY <1>10 DEF TempChange, TypeOK, driver, locals
<1>11. CASE FansChange
  <2>1. hw' \in Registers
    BY <1>11, FaultyAssumption, DirsAssumption DEF FansChange, TypeOK, Registers
  <2>2. QED
    BY <1>11, <2>1 DEF FansChange, TypeOK, driver, locals
<1>12. CASE Restart
  <2>1. x' \in Nat
    BY <1>12 DEF Restart
  <2>2. /\ get_temp' \in Int
        /\ cur_duty_cycle' \in 0..100 /\ new_duty_cycle' \in 0..100
    BY <1>12 DEF Restart
  <2>3. pc' \in Locations
    BY <1>12 DEF Restart, Locations
  <2>4. UNCHANGED <<temp, hw, cache, valid, expired, writer>>
    BY <1>12 DEF Restart, driver
  <2>5. QED
    BY <2>1, <2>2, <2>3, <2>4 DEF TypeOK
<1>13. CASE NodeMissing
  <2>1. /\ UNCHANGED <<temp, hw, cache, valid, expired, get_temp, writer>>
        /\ cur_duty_cycle' \in 0..100
    <3>1. UNCHANGED <<temp, hw, cache, valid, expired, get_temp, writer>>
      BY <1>13 DEF NodeMissing, driver
    <3>2. cur_duty_cycle' \in {0, cur_duty_cycle}
      BY <1>13, Zenon DEF NodeMissing
    <3>3. cur_duty_cycle \in 0..100
      BY DEF TypeOK
    <3>4. cur_duty_cycle' \in 0..100
      BY ONLY <3>2, <3>3
    <3>5. QED
      BY <3>1, <3>4, Zenon
  <2>2. CASE pc = "duty" /\ x' = 1 /\ pc' = "fan" /\ UNCHANGED new_duty_cycle
    BY <2>1, <2>2 DEF TypeOK, Locations
  <2>3. CASE pc = "fan" /\ NextFan /\ UNCHANGED new_duty_cycle
    <3>1. x' = x \/ (x < NumFans /\ x' = x + 1)
      BY <2>3 DEF NextFan
    <3>2. x \in Nat
      BY DEF TypeOK
    <3>3. x' \in Nat
      BY ONLY <3>1, <3>2, NumFansAssumption
    <3>4. QED
      BY <2>1, <2>3, <3>3 DEF NextFan, TypeOK, Locations
  <2>4. CASE pc = "dir" /\ Choose(NONE)
    BY <2>1, <2>4, ChooseTyped DEF TypeOK
  <2>5. QED
    BY <1>13, <2>2, <2>3, <2>4 DEF NodeMissing
<1>15. CASE UNCHANGED vars
  BY <1>15 DEF vars, TypeOK
<1>16. QED
  BY <1>1, <1>2, <1>3, <1>4, <1>5, <1>6, <1>7, <1>8, <1>9, <1>10, <1>11, <1>12,
     <1>13, <1>15 DEF Next, manage_fans

LEMMA NextOnTable == IInv /\ [Next]_vars => OnTable'
<1> SUFFICES ASSUME IInv, [Next]_vars PROVE OnTable'
  OBVIOUS
<1>0. TypeOK /\ OnTable
  BY DEF IInv
<1> USE <1>0
<1>1. CASE ReadTemp
  BY <1>1 DEF ReadTemp, OnTable, Listed
<1>2. CASE ReadDuty
  BY <1>2 DEF ReadDuty, OnTable, Listed
<1>3. CASE CheckFan
  BY <1>3 DEF CheckFan, NextFan, OnTable, Listed
<1>4. CASE SetFaultDuty
  <2>1. writer' = "fault" \/ UNCHANGED <<hw, writer>>
    BY <1>4 DEF SetFaultDuty, SetDutyCycle
  <2>2. QED
    BY <1>4, <2>1 DEF SetFaultDuty, OnTable, Listed
<1>5. CASE Decide
  <2>1. pc' \in {"set f2b", "set b2f"} => new_duty_cycle' \in Duties
    BY <1>5, ChooseTyped DEF Decide
  <2>2. QED
    BY <1>5, <2>1 DEF Decide, OnTable, Listed
<1>6. CASE SetPolicyDuty
  <2>1. new_duty_cycle \in Duties
    BY <1>6 DEF SetPolicyDuty, OnTable
  <2>2. \/ hw'.reg = duty_cycle_to_reg_val(new_duty_cycle)
        \/ UNCHANGED <<hw, writer>>
    BY <1>6, SetDutyCycleTyped DEF SetPolicyDuty, TypeOK
  <2>3. CASE hw'.reg = duty_cycle_to_reg_val(new_duty_cycle)
    BY <1>6, <2>1, <2>3, RoundTrip DEF SetPolicyDuty, OnTable, Listed
  <2>4. CASE UNCHANGED <<hw, writer>>
    BY <1>6, <2>4 DEF SetPolicyDuty, OnTable, Listed
  <2>5. QED
    BY <2>2, <2>3, <2>4
<1>7. CASE OtherReader
  BY <1>7 DEF OtherReader, OnTable, Listed, locals
<1>8. CASE OperatorSets
  <2>1. writer' = "operator" \/ UNCHANGED <<hw, writer>>
    BY <1>8 DEF OperatorSets, SetDutyCycle
  <2>2. QED
    BY <1>8, <2>1 DEF OperatorSets, OnTable, Listed, locals
<1>9. CASE Expire
  BY <1>9 DEF Expire, OnTable, Listed, locals
<1>10. CASE TempChange
  BY <1>10 DEF TempChange, OnTable, Listed, locals
<1>11. CASE FansChange
  <2>1. hw'.reg = hw.reg
    BY <1>11 DEF FansChange, TypeOK, Registers
  <2>2. QED
    BY <1>11, <2>1 DEF FansChange, OnTable, Listed, locals
<1>12. CASE Restart
  BY <1>12 DEF Restart, OnTable, Listed
<1>13. CASE NodeMissing
  <2>1. UNCHANGED <<hw, writer>>
    BY <1>13 DEF NodeMissing
  <2>2. pc' \in {"set f2b", "set b2f"} => new_duty_cycle' \in Duties
    BY <1>13, ChooseTyped DEF NodeMissing, NextFan
  <2>3. QED
    BY <2>1, <2>2 DEF OnTable, Listed
<1>15. CASE UNCHANGED vars
  BY <1>15 DEF vars, OnTable, Listed
<1>16. QED
  BY <1>1, <1>2, <1>3, <1>4, <1>5, <1>6, <1>7, <1>8, <1>9, <1>10, <1>11, <1>12,
     <1>13, <1>15 DEF Next, manage_fans

\* The inductive invariant holds in every state the daemon and the driver reach.
THEOREM Inductive == Spec => []IInv
<1>1. IInv /\ [Next]_vars => IInv'
  BY NextTypeOK, NextOnTable DEF IInv
<1>2. QED
  BY <1>1, InitIInv, PTL DEF Spec

\* Type correctness: no register holds more than a byte and no duty cycle is
\* out of range, for every value the operator may write.
THEOREM TypeCorrect == Spec => []TypeOK
<1>1. IInv => TypeOK
  BY DEF IInv
<1>2. QED
  BY <1>1, Inductive, PTL

\* A duty cycle the policy commanded comes back as a row of its table, for any
\* temperatures, fans, faults, lost writes, restarts and other writers.
THEOREM TableKept == Spec => []OnTable
<1>1. IInv => OnTable
  BY DEF IInv
<1>2. QED
  BY <1>1, Inductive, PTL

=============================================================================
