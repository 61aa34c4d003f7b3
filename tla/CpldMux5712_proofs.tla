------------------------- MODULE CpldMux5712_proofs -------------------------
(***************************************************************************)
(* Proofs about CpldMux5712, for any number of CPLDs, ports and tasks, any *)
(* calls and any number of attempts.                                       *)
(***************************************************************************)
EXTENDS CpldMux5712, TLAPS

\* The parts of a call.
LEMMA JobParts ==
  ASSUME NEW j \in Calls
  PROVE  /\ j.cpld \in Cplds
         /\ j.op \in Sysfs \cup {"xfer", "exported"}
         /\ j.op \in {"xfer", "set", "clear"} => j.arg \in Ports
         /\ j.op = "access" => j.arg \in Values
<1>1. j \in Jobs
  BY CallsAssumption
<1>2. CASE j \in [op : {"xfer", "set", "clear"}, cpld : Cplds, arg : Ports]
  BY <1>2 DEF Sysfs
<1>3. CASE j \in [op : {"show", "exported"}, cpld : Cplds, arg : {Deselected}]
  BY <1>3 DEF Sysfs
<1>4. CASE j \in [op : {"access"}, cpld : Cplds, arg : Values]
  BY <1>4 DEF Sysfs
<1> QED
  BY <1>1, <1>2, <1>3, <1>4 DEF Jobs

\* A task that is inside a call has one, with the parts its place asks for.
LEMMA InCall ==
  ASSUME TypeOK, CallInv, NEW t \in Tasks, pc[t] # "idle"
  PROVE  /\ job[t] \in Calls
         /\ job[t].cpld \in Cplds
         /\ job[t].op \in {"xfer", "set", "clear"} => job[t].arg \in Ports
         /\ job[t].op = "access" => job[t].arg \in Values
         /\ job[t].op \in Sysfs \cup {"xfer", "exported"}
BY JobParts DEF CallInv

\* The value a writer writes is a set of ports.
LEMMA NewValueType ==
  ASSUME TypeOK, CallInv, NEW t \in Tasks, pc[t] = "write"
  PROVE  NewValue(t) \in SUBSET Ports
<1>1. job[t].op \in {"set", "clear", "access"} /\ status[t] \in SUBSET Ports
  BY DEF TypeOK, CallInv, Sysfs
<1> QED
  BY <1>1, InCall, ValuesAssumption DEF NewValue

-----------------------------------------------------------------------------
(* Type correctness.                                                       *)

LEMMA InitIInv == Init => IInv
<1> SUFFICES ASSUME Init PROVE IInv
  OBVIOUS
<1>1. TypeOK
  BY RetryAssumption DEF Init, TypeOK, Labels
<1>2. \A t \in Tasks : pc[t] = "idle"
  BY DEF Init
<1>3. CallInv
  BY <1>2 DEF CallInv
<1>4. LockInv
  BY <1>2, NoOneAssumption DEF Init, LockInv
<1>5. ChannelInv
  BY DEF Init, ChannelInv
<1> QED
  BY <1>1, <1>2, <1>3, <1>4, <1>5 DEF IInv, OwnChannel, ExportedIsListed, StatusInv

\* The label a task goes to is one.
LEMMA GotoType ==
  ASSUME TypeOK, NEW t \in Tasks, NEW l \in Labels, Goto(t, l)
  PROVE  pc' \in [Tasks -> Labels]
BY DEF TypeOK, Goto

LEMMA ReturnType ==
  ASSUME TypeOK, NEW t \in Tasks, Return(t)
  PROVE  pc' \in [Tasks -> Labels] /\ job' \in [Tasks -> Calls \cup {NoJob}]
         /\ pc' = [pc EXCEPT ![t] = "idle"] /\ job' = [job EXCEPT ![t] = NoJob]
BY DEF TypeOK, Return, Goto, Labels

\* What a write that may have arrived leaves.
LEMMA MayArriveType ==
  ASSUME NEW S, NEW reg, reg \in [Cplds -> S], NEW new \in S, NEW m \in Cplds,
         NEW reg2, reg2 \in {reg, [reg EXCEPT ![m] = new]}
  PROVE  reg2 \in [Cplds -> S] /\ \A n \in Cplds \ {m} : reg2[n] = reg[n]
         /\ reg2[m] \in {reg[m], new}
OBVIOUS

LEMMA NextTypeOK == TypeOK /\ CallInv /\ [Next]_vars => TypeOK'
<1> SUFFICES ASSUME TypeOK, CallInv, [Next]_vars PROVE TypeOK'
  OBVIOUS
<1> USE RetryAssumption DEF TypeOK, Labels
<1>1. ASSUME NEW t \in Tasks, Call(t) PROVE TypeOK'
  BY <1>1 DEF Call, Goto, locks
<1>2. ASSUME NEW t \in Tasks, TakeBus(t) PROVE TypeOK'
  BY <1>2 DEF TakeBus, Goto
<1>3. ASSUME NEW t \in Tasks, mux_select_chan(t) PROVE TypeOK'
  <2>1. job[t].cpld \in Cplds /\ job[t].arg \in Ports
    BY <1>3, InCall DEF mux_select_chan, CallInv
  <2>2. channel' \in [Cplds -> Ports \cup {Deselected}]
    BY <1>3, <2>1 DEF mux_select_chan, MayArrive
  <2>3. last_chan' \in [Cplds -> Ports \cup {Deselected}]
    BY <1>3, <2>1 DEF mux_select_chan
  <2>4. pc' \in [Tasks -> Labels] /\ \A u \in Tasks : pc'[u] \in {"read", "write"} => pc[u] = pc'[u]
    BY <1>3 DEF mux_select_chan, Goto
  <2> QED
    BY <1>3, <2>2, <2>3, <2>4 DEF mux_select_chan, locks
<1>4. ASSUME NEW t \in Tasks, Transfer(t) PROVE TypeOK'
  BY <1>4 DEF Transfer, Goto, locks
<1>5. ASSUME NEW t \in Tasks, mux_deselect(t) PROVE TypeOK'
  <2>1. job[t].cpld \in Cplds
    BY <1>5, InCall DEF mux_deselect
  <2>2. channel' \in [Cplds -> Ports \cup {Deselected}]
    BY <1>5, <2>1 DEF mux_deselect, MayArrive
  <2>3. last_chan' \in [Cplds -> Ports \cup {Deselected}]
    BY <1>5, <2>1 DEF mux_deselect
  <2>4. stray' \in [Cplds -> BOOLEAN]
    BY <1>5, <2>1 DEF mux_deselect
  <2>5. pc' \in [Tasks -> Labels] /\ job' \in [Tasks -> Calls \cup {NoJob}]
    BY <1>5, ReturnType DEF mux_deselect
  <2>6. \A u \in Tasks : pc'[u] \in {"read", "write"} => pc[u] = pc'[u] /\ job'[u] = job[u]
    BY <1>5 DEF mux_deselect, Return, Goto
  <2> QED
    BY <1>5, <2>2, <2>3, <2>4, <2>5, <2>6 DEF mux_deselect
<1>6. ASSUME NEW t \in Tasks, Lock(t) PROVE TypeOK'
  <2>1. job[t].cpld \in Cplds /\ job[t].op \in Sysfs
    BY <1>6, InCall DEF Lock, CallInv
  <2> QED
    BY <1>6, <2>1 DEF Lock, Goto
<1>7. ASSUME NEW t \in Tasks, Unlock(t), pc[t] # "idle" 
      PROVE  /\ update_lock' \in [Cplds -> Tasks \cup {NoOne}]
             /\ pc' \in [Tasks -> Labels] /\ job' \in [Tasks -> Calls \cup {NoJob}]
             /\ status' \in [Tasks -> SUBSET Ports]
             /\ retry' \in [Tasks -> 0..I2C_RW_RETRY_COUNT]
             /\ \A u \in Tasks : pc'[u] \in {"read", "write"} => job'[u].op \in Sysfs /\ retry'[u] > 0
  <2>1. job[t].cpld \in Cplds
    BY <1>7, InCall
  <2>2. pc' = [pc EXCEPT ![t] = "idle"] /\ job' = [job EXCEPT ![t] = NoJob]
    BY <1>7 DEF Unlock, Return, Goto
  <2>3. update_lock' \in [Cplds -> Tasks \cup {NoOne}]
    BY <1>7, <2>1 DEF Unlock
  <2>4. status' \in [Tasks -> SUBSET Ports] /\ retry' \in [Tasks -> 0..I2C_RW_RETRY_COUNT]
    BY <1>7 DEF Unlock
  <2>5. \A u \in Tasks : pc'[u] \in {"read", "write"} => job'[u].op \in Sysfs /\ retry'[u] > 0
    BY <1>7, <2>2 DEF Unlock
  <2> QED
    BY <2>2, <2>3, <2>4, <2>5
<1>8. ASSUME NEW t \in Tasks, Again(t)
      PROVE  /\ update_lock' = update_lock /\ pc' = pc /\ job' = job /\ status' = status
             /\ retry' \in [Tasks -> 0..I2C_RW_RETRY_COUNT]
             /\ \A u \in Tasks : retry[u] > 0 => retry'[u] > 0
  BY <1>8 DEF Again
<1>9. ASSUME NEW t \in Tasks, ReadRegister(t) PROVE TypeOK'
  <2>1. job[t].cpld \in Cplds
    BY <1>9, InCall DEF ReadRegister
  <2>2. CASE job[t].op = "show"
    BY <1>7, <1>9, <2>2 DEF ReadRegister
  <2>3. CASE job[t].op # "show"
    BY <1>9, <2>1, <2>3 DEF ReadRegister, Stay, Goto
  <2> QED
    BY <2>2, <2>3
<1>10. ASSUME NEW t \in Tasks, ReadFails(t) PROVE TypeOK'
  <2>1. CASE Again(t)
    BY <1>8, <1>10, <2>1 DEF ReadFails
  <2>2. CASE Unlock(t)
    BY <1>7, <1>10, <2>2 DEF ReadFails
  <2> QED
    BY <1>10, <2>1, <2>2 DEF ReadFails
<1>11. ASSUME NEW t \in Tasks, WriteRegister(t) PROVE TypeOK'
  <2>1. job[t].cpld \in Cplds /\ NewValue(t) \in SUBSET Ports
    BY <1>11, InCall, NewValueType DEF WriteRegister
  <2>2. tx_disable' \in [Cplds -> SUBSET Ports]
    BY <1>11, <2>1 DEF WriteRegister
  <2> QED
    BY <1>7, <1>11, <2>2 DEF WriteRegister
<1>12. ASSUME NEW t \in Tasks, WriteFails(t) PROVE TypeOK'
  <2>1. job[t].cpld \in Cplds /\ NewValue(t) \in SUBSET Ports
    BY <1>12, InCall, NewValueType DEF WriteFails
  <2>2. tx_disable' \in [Cplds -> SUBSET Ports]
    BY <1>12, <2>1 DEF WriteFails, MayArrive
  <2>3. CASE Again(t)
    BY <1>8, <1>12, <2>2, <2>3 DEF WriteFails
  <2>4. CASE Unlock(t)
    BY <1>7, <1>12, <2>2, <2>4 DEF WriteFails
  <2> QED
    BY <1>12, <2>3, <2>4 DEF WriteFails
<1>13. ASSUME NEW t \in Tasks, Search(t) PROVE TypeOK'
  BY <1>13 DEF Search, Stay, Return, Goto
<1>14. ASSUME NEW t \in Tasks, Exported(t) PROVE TypeOK'
  BY <1>14 DEF Exported, Return, Goto
<1>15. ASSUME NEW m \in Cplds, remove_client(m) PROVE TypeOK'
  BY <1>15 DEF remove_client, locks
<1>16. ASSUME NEW m \in Cplds, mux_remove(m) PROVE TypeOK'
  BY <1>16 DEF mux_remove, locks
<1>17. ASSUME NEW m \in Cplds, mux_probe(m) PROVE TypeOK'
  BY <1>17 DEF mux_probe
<1>18. CASE UNCHANGED vars
  BY <1>18 DEF vars, locks
<1> QED
  BY <1>1, <1>2, <1>3, <1>4, <1>5, <1>6, <1>9, <1>10, <1>11, <1>12, <1>13, <1>14,
     <1>15, <1>16, <1>17, <1>18 DEF Next, Step, InTransfer, InFile

-----------------------------------------------------------------------------
(* What a task does is what it called for.                                 *)

\* A step leaves the other tasks where they are.
LEMMA OwnStep ==
  ASSUME TypeOK, NEW t \in Tasks, Call(t) \/ Step(t)
  PROVE  \A u \in Tasks \ {t} : /\ pc'[u] = pc[u] /\ job'[u] = job[u]
                                /\ status'[u] = status[u]
<1> USE DEF TypeOK, Goto, Stay, Return
<1>1. CASE Call(t)
  BY <1>1 DEF Call
<1>2. CASE TakeBus(t)
  BY <1>2 DEF TakeBus
<1>3. CASE InTransfer(t)
  BY <1>3 DEF InTransfer, mux_select_chan, Transfer, mux_deselect
<1>4. CASE Lock(t)
  BY <1>4 DEF Lock
<1>5. CASE InFile(t)
  BY <1>5 DEF InFile, ReadRegister, ReadFails, WriteRegister, WriteFails, Unlock, Again
<1>6. CASE Search(t) \/ Exported(t)
  BY <1>6 DEF Search, Exported
<1> QED
  BY <1>1, <1>2, <1>3, <1>4, <1>5, <1>6 DEF Step

\* And the probed CPLDs too.
LEMMA StepProbed ==
  ASSUME NEW t \in Tasks, Call(t) \/ Step(t)
  PROVE  probed' = probed /\ client_list' = client_list
BY DEF Step, Call, TakeBus, InTransfer, mux_select_chan, Transfer, mux_deselect, Lock,
       InFile, ReadRegister, ReadFails, WriteRegister, WriteFails, Search, Exported

LEMMA NextCallInv == TypeOK /\ CallInv /\ [Next]_vars => CallInv'
<1> SUFFICES ASSUME TypeOK, CallInv, [Next]_vars PROVE CallInv'
  OBVIOUS
<1> DEFINE Good(u) ==
      /\ pc[u] # "idle" => job[u] \in Calls
      /\ pc[u] \in {"bus", "select", "xfer", "deselect"} => job[u].op = "xfer"
      /\ pc[u] = "lock" => job[u].op \in Sysfs
      /\ pc[u] = "write" => job[u].op # "show"
      /\ pc[u] \in {"search", "exported"} => job[u].op = "exported"
      /\ pc[u] \notin {"idle", "search", "exported"} => job[u].cpld \in probed
<1>1. ASSUME NEW t \in Tasks, Call(t) \/ Step(t), Good(t)' PROVE CallInv'
  <2>1. \A u \in Tasks \ {t} : Good(u)'
    BY <1>1, OwnStep, StepProbed DEF CallInv
  <2> QED
    BY <1>1, <2>1 DEF CallInv
<1>2. ASSUME NEW t \in Tasks, Call(t) PROVE Good(t)'
  <2>1. PICK j \in Calls : /\ j.op # "exported" => j.cpld \in probed
                           /\ job' = [job EXCEPT ![t] = j]
                           /\ Goto(t, IF j.op = "xfer" THEN "bus"
                                      ELSE IF j.op = "exported" THEN "search" ELSE "lock")
    BY <1>2 DEF Call
  <2>2. job'[t] = j /\ pc'[t] = IF j.op = "xfer" THEN "bus"
                                ELSE IF j.op = "exported" THEN "search" ELSE "lock"
    BY <2>1 DEF TypeOK, Goto
  <2>3. j.op \in Sysfs \cup {"xfer", "exported"}
    BY JobParts
  <2> QED
    BY <1>2, <2>1, <2>2, <2>3 DEF Call
<1>3. ASSUME NEW t \in Tasks, Step(t) PROVE Good(t)'
  <2> USE DEF TypeOK, CallInv, Goto, Stay, Return
  <2>1. probed' = probed
    BY <1>3, StepProbed
  <2>2. CASE TakeBus(t)
    BY <2>1, <2>2 DEF TakeBus
  <2>3. CASE InTransfer(t)
    BY <2>1, <2>3 DEF InTransfer, mux_select_chan, Transfer, mux_deselect
  <2>4. CASE Lock(t)
    BY <2>1, <2>4 DEF Lock
  <2>5. CASE InFile(t)
    BY <2>1, <2>5 DEF InFile, ReadRegister, ReadFails, WriteRegister, WriteFails, Unlock, Again
  <2>6. CASE Search(t) \/ Exported(t)
    BY <2>1, <2>6 DEF Search, Exported
  <2> QED
    BY <1>3, <2>2, <2>3, <2>4, <2>5, <2>6 DEF Step
<1>4. ASSUME NEW m \in Cplds, remove_client(m) \/ mux_remove(m) \/ mux_probe(m) PROVE CallInv'
  <2>1. CASE remove_client(m)
    BY <2>1 DEF remove_client, CallInv
  <2>2. CASE mux_remove(m)
    <3>1. \A u \in Tasks : pc[u] \notin {"idle", "search", "exported"} => job[u].cpld # m
      BY <2>2 DEF mux_remove, CallInv, TypeOK, Labels, Sysfs
    <3> QED
      BY <2>2, <3>1 DEF mux_remove, CallInv
  <2>3. CASE mux_probe(m)
    BY <2>3 DEF mux_probe, CallInv
  <2> QED
    BY <1>4, <2>1, <2>2, <2>3
<1>5. CASE UNCHANGED vars
  BY <1>5 DEF vars, CallInv
<1> QED
  BY <1>1, <1>2, <1>3, <1>4, <1>5 DEF Next

-----------------------------------------------------------------------------
(* Who is inside holds the lock.                                           *)

LEMMA NextLockInv == TypeOK /\ CallInv /\ LockInv /\ [Next]_vars => LockInv'
<1> SUFFICES ASSUME TypeOK, CallInv, LockInv, [Next]_vars PROVE LockInv'
  OBVIOUS
<1> USE NoOneAssumption DEF TypeOK
<1>1. ASSUME NEW t \in Tasks, Call(t) PROVE LockInv'
  <2>1. pc[t] = "idle" /\ pc'[t] \in {"bus", "search", "lock"}
    BY <1>1 DEF Call, Goto
  <2> QED
    BY <1>1, <2>1, OwnStep DEF Call, LockInv, locks
<1>2. ASSUME NEW t \in Tasks, TakeBus(t) PROVE LockInv'
  BY <1>2 DEF TakeBus, LockInv, Goto
<1>3. ASSUME NEW t \in Tasks, mux_select_chan(t) \/ Transfer(t) PROVE LockInv'
  <2>1. /\ pc[t] \in {"select", "xfer"} /\ pc'[t] \in {"xfer", "deselect"}
        /\ UNCHANGED locks
    BY <1>3 DEF mux_select_chan, Transfer, Goto
  <2> QED
    BY <1>3, <2>1, OwnStep DEF LockInv, locks, Step, InTransfer
<1>4. ASSUME NEW t \in Tasks, mux_deselect(t) PROVE LockInv'
  <2>1. pc[t] = "deselect" /\ pc'[t] = "idle" /\ bus = t /\ bus' = NoOne
        /\ UNCHANGED <<update_lock, list_lock>>
    BY <1>4 DEF mux_deselect, Return, Goto, LockInv
  <2> QED
    BY <1>4, <2>1, OwnStep DEF LockInv, Step, InTransfer
<1>5. ASSUME NEW t \in Tasks, Lock(t) PROVE LockInv'
  <2>1. job[t].cpld \in Cplds
    BY <1>5, InCall DEF Lock
  <2>2. /\ pc'[t] \in {"read", "write"} /\ job' = job
        /\ update_lock' = [update_lock EXCEPT ![job[t].cpld] = t]
        /\ update_lock[job[t].cpld] = NoOne
        /\ UNCHANGED <<bus, list_lock>>
    BY <1>5 DEF Lock, Goto
  <2>3. \A u \in Tasks \ {t} : pc'[u] = pc[u]
    BY <1>5, OwnStep DEF Step
  <2> QED
    BY <1>5, <2>1, <2>2, <2>3 DEF LockInv, Lock
<1>6. ASSUME NEW t \in Tasks, InFile(t) PROVE LockInv'
  <2>1. pc[t] \in {"read", "write"} /\ UNCHANGED <<bus, list_lock>>
    BY <1>6 DEF InFile, ReadRegister, ReadFails, WriteRegister, WriteFails
  <2>2. job[t].cpld \in Cplds /\ update_lock[job[t].cpld] = t
    BY <2>1, InCall DEF LockInv
  <2>3. \/ /\ pc'[t] \in {"read", "write"} /\ job'[t] = job[t]
           /\ update_lock' = update_lock
        \/ /\ pc'[t] = "idle"
           /\ update_lock' = [update_lock EXCEPT ![job[t].cpld] = NoOne]
    BY <1>6 DEF InFile, ReadRegister, ReadFails, WriteRegister, WriteFails, Unlock, Again,
                Return, Stay, Goto
  <2>4. \A u \in Tasks \ {t} : pc'[u] = pc[u] /\ job'[u] = job[u]
    BY <1>6, OwnStep DEF Step
  <2>5. \A u \in Tasks \ {t} : pc[u] \in {"read", "write"} => job[u].cpld # job[t].cpld
    BY <2>2 DEF LockInv
  <2>6. \A u \in Tasks : pc'[u] \in {"read", "write"} => update_lock'[job'[u].cpld] = u
    <3>1. CASE pc'[t] = "idle"
      <4> SUFFICES ASSUME NEW u \in Tasks, pc'[u] \in {"read", "write"}
                   PROVE  update_lock'[job'[u].cpld] = u
        OBVIOUS
      <4>1. pc[u] \in {"read", "write"} /\ job'[u] = job[u] /\ job[u].cpld # job[t].cpld
        BY <2>4, <2>5, <3>1
      <4>2. job[u].cpld \in Cplds /\ update_lock[job[u].cpld] = u
        BY <4>1, InCall DEF LockInv
      <4>3. update_lock' = [update_lock EXCEPT ![job[t].cpld] = NoOne]
        BY <2>3, <3>1
      <4> QED
        BY <4>1, <4>2, <4>3
    <3>2. CASE pc'[t] \in {"read", "write"}
      BY <2>2, <2>3, <2>4, <3>2 DEF LockInv
    <3> QED
      BY <2>3, <3>1, <3>2
  <2>7. \A u \in Tasks : pc'[u] \in {"select", "xfer", "deselect", "exported"} <=>
                         pc[u] \in {"select", "xfer", "deselect", "exported"}
    BY <2>1, <2>3, <2>4
  <2> QED
    BY <2>1, <2>3, <2>4, <2>6, <2>7 DEF LockInv
<1>7. ASSUME NEW t \in Tasks, Search(t) PROVE LockInv'
  BY <1>7, OwnStep DEF Search, LockInv, Stay, Return, Goto, Step
<1>8. ASSUME NEW t \in Tasks, Exported(t) PROVE LockInv'
  BY <1>8, OwnStep DEF Exported, LockInv, Return, Goto, Step
<1>9. ASSUME NEW m \in Cplds, remove_client(m) \/ mux_remove(m) PROVE LockInv'
  BY <1>9 DEF remove_client, mux_remove, LockInv, locks
<1>10. ASSUME NEW m \in Cplds, mux_probe(m) PROVE LockInv'
  <2>1. \A u \in Tasks : pc[u] \in {"read", "write"} => job[u].cpld # m
    BY <1>10 DEF mux_probe, CallInv
  <2> QED
    BY <1>10, <2>1 DEF mux_probe, LockInv
<1>11. CASE UNCHANGED vars
  BY <1>11 DEF vars, locks, LockInv
<1> QED
  BY <1>1, <1>2, <1>3, <1>4, <1>5, <1>6, <1>7, <1>8, <1>9, <1>10, <1>11
     DEF Next, Step, InTransfer

-----------------------------------------------------------------------------
(* A transfer sees its own channel.                                        *)

\* Only a selection or a deselection touches a channel.
LEMMA ChannelKept ==
  ASSUME TypeOK, NEW t \in Tasks,
         Call(t) \/ TakeBus(t) \/ Lock(t) \/ InFile(t) \/ Search(t) \/ Exported(t)
  PROVE  /\ channel' = channel /\ last_chan' = last_chan /\ stray' = stray
         /\ \A u \in Tasks : pc[u] \in {"xfer", "deselect"} => pc'[u] = pc[u] /\ job'[u] = job[u]
         /\ \A u \in Tasks : pc'[u] = "xfer" => pc[u] = "xfer" /\ job'[u] = job[u]
<1> USE DEF TypeOK, Goto, Stay, Return
<1>1. CASE Call(t)
  BY <1>1 DEF Call
<1>2. CASE TakeBus(t)
  BY <1>2 DEF TakeBus
<1>3. CASE Lock(t)
  BY <1>3 DEF Lock
<1>4. CASE InFile(t)
  BY <1>4 DEF InFile, ReadRegister, ReadFails, WriteRegister, WriteFails, Unlock, Again
<1>5. CASE Search(t) \/ Exported(t)
  BY <1>5 DEF Search, Exported
<1> QED
  BY <1>1, <1>2, <1>3, <1>4, <1>5

LEMMA NextChannels ==
  TypeOK /\ CallInv /\ LockInv /\ ChannelInv /\ OwnChannel /\ [Next]_vars
    => ChannelInv' /\ OwnChannel'
<1> SUFFICES ASSUME TypeOK, CallInv, LockInv, ChannelInv, OwnChannel, [Next]_vars
             PROVE  ChannelInv' /\ OwnChannel'
  OBVIOUS
<1>1. ASSUME NEW t \in Tasks,
             Call(t) \/ TakeBus(t) \/ Lock(t) \/ InFile(t) \/ Search(t) \/ Exported(t)
      PROVE  ChannelInv' /\ OwnChannel'
  <2>1. \A m \in Cplds : Selected(m) => Selected(m)'
    BY <1>1, ChannelKept DEF Selected
  <2> QED
    BY <1>1, <2>1, ChannelKept DEF ChannelInv, OwnChannel
<1>2. ASSUME NEW t \in Tasks, mux_select_chan(t) PROVE ChannelInv' /\ OwnChannel'
  <2> DEFINE m == job[t].cpld
  <2>1. m \in Cplds /\ job[t].arg \in Ports /\ bus = t
    BY <1>2, InCall DEF mux_select_chan, CallInv, LockInv
  <2>2. \A u \in Tasks : pc[u] \notin {"xfer", "deselect"} \/ u = t
    BY <2>1 DEF LockInv
  <2>3. last_chan[m] # job[t].arg
    BY <1>2, <2>1, <2>2, DeselectedAssumption DEF mux_select_chan, ChannelInv, Selected
  <2>4. pc'[t] \in {"xfer", "deselect"} /\ job' = job
        /\ \A u \in Tasks \ {t} : pc'[u] = pc[u]
    BY <1>2 DEF mux_select_chan, Goto, TypeOK
  <2>5. \A n \in Cplds \ {m} : channel'[n] = channel[n] /\ last_chan'[n] = last_chan[n]
    BY <1>2, <2>1 DEF mux_select_chan, MayArrive, TypeOK
  <2>6. ChannelInv'
    <3>1. Selected(m)'
      BY <2>4 DEF Selected
    <3>2. \A n \in Cplds \ {m} : ~Selected(n)
      BY <1>2, <2>2 DEF Selected, mux_select_chan
    <3> QED
      BY <1>2, <2>5, <3>1, <3>2 DEF ChannelInv, mux_select_chan
  <2>7. OwnChannel'
    <3>1. pc'[t] = "xfer" => channel'[m] = job[t].arg
      BY <1>2, <2>1, <2>3 DEF mux_select_chan, TypeOK, Goto
    <3>2. \A u \in Tasks \ {t} : pc'[u] # "xfer"
      BY <2>2, <2>4
    <3> QED
      BY <2>4, <3>1, <3>2 DEF OwnChannel
  <2> QED
    BY <2>6, <2>7
<1>3. ASSUME NEW t \in Tasks, Transfer(t) PROVE ChannelInv' /\ OwnChannel'
  <2>1. \A u \in Tasks : /\ pc[u] \in {"xfer", "deselect"} => pc'[u] \in {"xfer", "deselect"}
                         /\ pc'[u] = "xfer" => pc[u] = "xfer"
    BY <1>3 DEF Transfer, Goto, TypeOK
  <2>2. \A m \in Cplds : Selected(m) => Selected(m)'
    BY <1>3, <2>1 DEF Selected, Transfer
  <2> QED
    BY <1>3, <2>1, <2>2 DEF ChannelInv, OwnChannel, Transfer
<1>4. ASSUME NEW t \in Tasks, mux_deselect(t) PROVE ChannelInv' /\ OwnChannel'
  <2> DEFINE m == job[t].cpld
  <2>1. m \in Cplds /\ bus = t
    BY <1>4, InCall DEF mux_deselect, LockInv
  <2>2. \A u \in Tasks : pc[u] \notin {"xfer", "deselect"} \/ u = t
    BY <2>1 DEF LockInv
  <2>3. pc'[t] = "idle" /\ \A u \in Tasks \ {t} : pc'[u] = pc[u]
    BY <1>4 DEF mux_deselect, Return, Goto, TypeOK
  <2>4. OwnChannel'
    BY <2>2, <2>3 DEF OwnChannel
  <2>5. last_chan'[m] = Deselected /\ (channel'[m] = Deselected \/ stray'[m])
    BY <1>4, <2>1 DEF mux_deselect, TypeOK
  <2>6. \A n \in Cplds \ {m} : /\ channel'[n] = channel[n] /\ last_chan'[n] = last_chan[n]
                               /\ stray'[n] = stray[n]
    BY <1>4, <2>1 DEF mux_deselect, MayArrive, TypeOK
  <2>7. \A n \in Cplds \ {m} : ~Selected(n)
    BY <1>4, <2>2 DEF Selected
  <2> QED
    BY <2>4, <2>5, <2>6, <2>7 DEF ChannelInv
<1>5. ASSUME NEW m \in Cplds, remove_client(m) \/ mux_remove(m) PROVE ChannelInv' /\ OwnChannel'
  BY <1>5 DEF remove_client, mux_remove, ChannelInv, OwnChannel, Selected
<1>6. ASSUME NEW m \in Cplds, mux_probe(m) PROVE ChannelInv' /\ OwnChannel'
  <2>1. ~Selected(m)
    BY <1>6 DEF mux_probe, Selected, CallInv
  <2>2. \A n \in Cplds : Selected(n)' <=> Selected(n)
    BY <1>6 DEF mux_probe, Selected
  <2> QED
    BY <1>6, <2>1, <2>2 DEF mux_probe, ChannelInv, OwnChannel, TypeOK
<1>7. CASE UNCHANGED vars
  BY <1>7 DEF vars, ChannelInv, OwnChannel, Selected
<1> QED
  BY <1>1, <1>2, <1>3, <1>4, <1>5, <1>6, <1>7 DEF Next, Step, InTransfer

-----------------------------------------------------------------------------
(* Exported accesses, and the register a writer works on.                  *)

LEMMA NextListed ==
  TypeOK /\ LockInv /\ ExportedIsListed /\ [Next]_vars => ExportedIsListed'
<1> SUFFICES ASSUME TypeOK, LockInv, ExportedIsListed, [Next]_vars PROVE ExportedIsListed'
  OBVIOUS
<1> USE NoOneAssumption DEF TypeOK, ExportedIsListed
<1>1. ASSUME NEW t \in Tasks, Call(t) \/ Step(t) PROVE ExportedIsListed'
  <2>1. client_list' = client_list
    BY <1>1, StepProbed
  <2>2. pc'[t] = "exported" => job'[t] = job[t] /\ job[t].cpld \in client_list
    BY <1>1 DEF Step, Call, TakeBus, InTransfer, mux_select_chan, Transfer, mux_deselect, Lock,
                InFile, ReadRegister, ReadFails, WriteRegister, WriteFails, Unlock, Again,
                Search, Exported, Goto, Stay, Return
  <2> QED
    BY <1>1, <2>1, <2>2, OwnStep
<1>2. ASSUME NEW m \in Cplds, remove_client(m) \/ mux_remove(m) \/ mux_probe(m)
      PROVE  ExportedIsListed'
  BY <1>2 DEF remove_client, mux_remove, mux_probe, LockInv
<1>3. CASE UNCHANGED vars
  BY <1>3 DEF vars
<1> QED
  BY <1>1, <1>2, <1>3 DEF Next

\* What a register may be after an access to a file.
LEMMA RegisterSteps ==
  ASSUME TypeOK, CallInv, NEW t \in Tasks, InFile(t)
  PROVE  \/ tx_disable' = tx_disable
         \/ /\ pc[t] = "write"
            /\ tx_disable' = [tx_disable EXCEPT ![job[t].cpld] = NewValue(t)]
BY DEF InFile, ReadRegister, ReadFails, WriteRegister, WriteFails, MayArrive

\* Nobody else does.
LEMMA RegisterKept ==
  ASSUME NEW t \in Tasks, Call(t) \/ TakeBus(t) \/ InTransfer(t) \/ Lock(t) \/ Search(t) \/ Exported(t)
  PROVE  tx_disable' = tx_disable /\ status' = status
BY DEF Call, TakeBus, InTransfer, mux_select_chan, Transfer, mux_deselect, Lock, Search, Exported

LEMMA NextStatusInv ==
  TypeOK /\ CallInv /\ LockInv /\ StatusInv /\ [Next]_vars => StatusInv'
<1> SUFFICES ASSUME TypeOK, CallInv, LockInv, StatusInv, [Next]_vars,
                    NEW u \in Tasks, pc'[u] = "write", job'[u].op # "access"
             PROVE  tx_disable'[job'[u].cpld] \in {status'[u], NewValue(u)'}
  BY DEF StatusInv
<1>1. ASSUME NEW t \in Tasks,
             Call(t) \/ TakeBus(t) \/ InTransfer(t) \/ Lock(t) \/ Search(t) \/ Exported(t)
      PROVE  tx_disable'[job'[u].cpld] \in {status'[u], NewValue(u)'}
  <2>1. pc[u] = "write" /\ job'[u] = job[u]
    BY <1>1, OwnStep DEF Call, TakeBus, InTransfer, mux_select_chan, Transfer, mux_deselect,
          Lock, Search, Exported, Goto, Stay, Return, TypeOK, CallInv, Step
  <2> QED
    BY <1>1, <2>1, RegisterKept DEF StatusInv, NewValue
<1>2. ASSUME NEW t \in Tasks, InFile(t)
      PROVE  tx_disable'[job'[u].cpld] \in {status'[u], NewValue(u)'}
  <2>1. job[t].cpld \in Cplds /\ update_lock[job[t].cpld] = t
    BY <1>2, InCall DEF InFile, ReadRegister, ReadFails, WriteRegister, WriteFails, LockInv
  <2>2. CASE u = t
    <3>1. CASE pc[t] = "read"
      <4>1. job'[t] = job[t] /\ status'[t] = tx_disable[job[t].cpld] /\ tx_disable' = tx_disable
        BY <1>2, <2>2, <3>1 DEF InFile, ReadRegister, ReadFails, WriteRegister, WriteFails,
             Unlock, Again, Stay, Return, Goto, TypeOK
      <4> QED
        BY <2>2, <4>1
    <3>2. CASE pc[t] = "write"
      <4>1. job'[t] = job[t] /\ status'[t] = status[t]
        BY <1>2, <2>2, <3>2 DEF InFile, ReadRegister, ReadFails, WriteRegister, WriteFails,
             Unlock, Again, Stay, Return, Goto, TypeOK
      <4>2. NewValue(t)' = NewValue(t)
        BY <4>1 DEF NewValue
      <4> QED
        BY <1>2, <2>1, <2>2, <3>2, <4>1, <4>2, RegisterSteps DEF StatusInv, TypeOK
    <3> QED
      BY <1>2, <3>1, <3>2 DEF InFile, ReadRegister, ReadFails, WriteRegister, WriteFails
  <2>3. CASE u # t
    <3>1. pc[u] = "write" /\ job'[u] = job[u] /\ status'[u] = status[u]
      BY <1>2, <2>3, OwnStep DEF Step
    <3>2. job[u].cpld # job[t].cpld
      BY <2>1, <2>3, <3>1 DEF LockInv
    <3>3. tx_disable'[job[u].cpld] = tx_disable[job[u].cpld]
      <4>1. job[u].cpld \in Cplds
        BY <3>1, InCall
      <4>2. \/ tx_disable' = tx_disable
            \/ tx_disable' = [tx_disable EXCEPT ![job[t].cpld] = NewValue(t)]
        BY <1>2, RegisterSteps
      <4> QED
        BY <3>2, <4>1, <4>2 DEF TypeOK
    <3>4. NewValue(u)' = NewValue(u)
      BY <3>1 DEF NewValue
    <3> QED
      BY <3>1, <3>3, <3>4 DEF StatusInv
  <2> QED
    BY <2>2, <2>3
<1>3. ASSUME UNCHANGED <<pc, job, status, tx_disable>>
      PROVE  tx_disable'[job'[u].cpld] \in {status'[u], NewValue(u)'}
  BY <1>3 DEF StatusInv, NewValue
<1> QED
  BY <1>1, <1>2, <1>3 DEF Next, Step, remove_client, mux_remove, mux_probe, vars

-----------------------------------------------------------------------------
(* The theorems.                                                           *)

\* The driver's state keeps its shape and its invariant: the induction all the
\* others rest on.
THEOREM Inductive == Spec => []IInv
<1>1. IInv /\ [Next]_vars => IInv'
  BY NextTypeOK, NextCallInv, NextLockInv, NextChannels, NextListed, NextStatusInv DEF IInv
<1> QED
  BY InitIInv, <1>1, PTL DEF Spec

\* The driver's state keeps its shape for any calls and any number of attempts.
THEOREM TypeCorrect == Spec => []TypeOK
<1>1. IInv => TypeOK
  BY DEF IInv
<1> QED
  BY Inductive, <1>1, PTL

\* mux_select_chan: a transfer finds its own channel connected, whatever failed.
THEOREM OwnConnected == Spec => []OwnChannel
<1>1. IInv => OwnChannel
  BY DEF IInv
<1> QED
  BY Inductive, <1>1, PTL

\* mux_deselect: it finds no other mux connected unless a deselection failed.
THEOREM OthersOff == Spec => []OtherMuxesOff
<1>1. IInv => OtherMuxesOff
  <2> SUFFICES ASSUME IInv, NEW t \in Tasks, pc[t] = "xfer",
                      NEW m \in Cplds \ {job[t].cpld}
               PROVE  channel[m] = Deselected \/ stray[m]
    BY DEF OtherMuxesOff
  <2>1. \A u \in Tasks : pc[u] \in {"xfer", "deselect"} => u = t
    BY DEF IInv, LockInv
  <2>2. ~Selected(m)
    BY <2>1 DEF Selected
  <2> QED
    BY <2>2 DEF IInv, ChannelInv
<1> QED
  BY Inductive, <1>1, PTL

\* as5712_54x_cpld_read and _write use only CPLDs that are in the list.
THEOREM Listed == Spec => []ExportedIsListed
<1>1. IInv => ExportedIsListed
  BY DEF IInv
<1> QED
  BY Inductive, <1>1, PTL

\* The files of the CPLDs implement registers whose bits are set one at a time.
THEOREM Refines == Spec => RegistersAtomic
<1>1. Init => Atomic!RegInit
  BY DEF Init, Atomic!RegInit
<1>2. IInv /\ [Next]_vars => [Atomic!RegNext]_tx_disable
  <2> SUFFICES ASSUME IInv, [Next]_vars, tx_disable' # tx_disable PROVE Atomic!RegNext
    OBVIOUS
  <2>1. PICK t \in Tasks : InFile(t)
    BY RegisterKept DEF Next, Step, remove_client, mux_remove, mux_probe, vars
  <2> DEFINE m == job[t].cpld
  <2>2. pc[t] = "write" /\ tx_disable' = [tx_disable EXCEPT ![m] = NewValue(t)]
    BY <2>1, RegisterSteps DEF IInv
  <2>3. /\ m \in Cplds
        /\ job[t].op \in {"set", "clear"} => job[t].arg \in Ports
        /\ job[t].op = "access" => job[t].arg \in Values
        /\ job[t].op \in {"set", "clear", "access"}
    BY <2>2, InCall DEF IInv, CallInv, TypeOK, Sysfs
  <2>4. job[t].op # "access" => tx_disable[m] \in {status[t], NewValue(t)}
    BY <2>2 DEF IInv, StatusInv
  <2>5. CASE job[t].op = "set"
    <3>1. NewValue(t) = tx_disable[m] \cup {job[t].arg}
      BY <2>4, <2>5 DEF NewValue
    <3> QED
      BY <2>2, <2>3, <2>5, <3>1 DEF Atomic!RegNext, Atomic!SetBit
  <2>6. CASE job[t].op = "clear"
    <3>1. NewValue(t) = tx_disable[m] \ {job[t].arg}
      BY <2>4, <2>6 DEF NewValue
    <3> QED
      BY <2>2, <2>3, <2>6, <3>1 DEF Atomic!RegNext, Atomic!ClearBit
  <2>7. CASE job[t].op = "access"
    <3>1. NewValue(t) = job[t].arg
      BY <2>7 DEF NewValue
    <3> QED
      BY <2>2, <2>3, <2>7, <3>1 DEF Atomic!RegNext, Atomic!Access
  <2> QED
    BY <2>3, <2>5, <2>6, <2>7
<1> QED
  BY <1>1, <1>2, Inductive, PTL DEF Spec, RegistersAtomic, Atomic!RegSpec

=============================================================================
