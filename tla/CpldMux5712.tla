----------------------------- MODULE CpldMux5712 -----------------------------
(***************************************************************************)
(* The CPLD and mux driver of the AS5712-54X                               *)
(* (i2c-mux-accton_as5712_54x_cpld.c, as built for kernels before 4.7).    *)
(* CPLD2 and CPLD3 sit on one i2c bus.  Behind each is a mux to the        *)
(* optical modules, all at the same addresses, so a transfer must find its *)
(* own channel connected and no other.  The i2c core holds the bus from    *)
(* the selection to the deselection.  Each CPLD also has registers with a  *)
(* bit for each port, which sysfs files read and change under the CPLD's   *)
(* update_lock, and serves the other drivers through exported functions,   *)
(* which find it in a list under list_lock.                                *)
(*                                                                         *)
(* Every access to a register of a CPLD takes the bus for one step and may *)
(* fail; a write that reports a failure may have arrived all the same.     *)
(***************************************************************************)
EXTENDS Naturals

CONSTANTS
  Cplds,
  Ports,     \* the channels of a mux, and the ports its register has bits for
  Values,    \* what operators write to `access': sets of ports
  Tasks,
  Calls,     \* the calls they make: [op, cpld, arg]
  I2C_RW_RETRY_COUNT,
  Deselected,  \* CPLD_DESELECT_CHANNEL
  NoOne

ASSUME NoOneAssumption      == NoOne \notin Tasks
ASSUME DeselectedAssumption == Deselected \notin Ports
ASSUME RetryAssumption      == I2C_RW_RETRY_COUNT \in Nat \ {0}
ASSUME ValuesAssumption     == Values \subseteq SUBSET Ports

Sysfs == {"set", "clear", "show", "access"}

Jobs ==
  [op : {"xfer", "set", "clear"}, cpld : Cplds, arg : Ports]
    \cup [op : {"show", "exported"}, cpld : Cplds, arg : {Deselected}]
    \cup [op : {"access"}, cpld : Cplds, arg : Values]

ASSUME CallsAssumption      == Calls \subseteq Jobs

VARIABLES
  channel,      \* the channel each mux really connects
  tx_disable,   \* the register of each CPLD, as the set of its bits
  last_chan,    \* the channel the driver believes to be connected
  bus,          \* who holds the parent adapter
  update_lock,  \* who holds the lock of each CPLD
  list_lock,
  client_list,  \* cpld_client_list
  probed,       \* the CPLDs whose driver data exists
  pc,
  job,          \* the call each task is in: [op, cpld, arg]
  status,       \* the register value it has read
  retry,        \* the attempts it has left
  stray         \* history: the last deselection of a mux failed

locks == <<bus, update_lock, list_lock>>
vars  == <<channel, tx_disable, last_chan, locks, client_list, probed,
           pc, job, status, retry, stray>>

NoJob == [op |-> "none", cpld |-> NoOne, arg |-> NoOne]

Init ==
  /\ channel = [m \in Cplds |-> Deselected]
  /\ tx_disable = [m \in Cplds |-> {}]
  /\ last_chan = [m \in Cplds |-> Deselected]
  /\ bus = NoOne /\ list_lock = NoOne
  /\ update_lock = [m \in Cplds |-> NoOne]
  /\ client_list = Cplds /\ probed = Cplds
  /\ pc = [t \in Tasks |-> "idle"]
  /\ job = [t \in Tasks |-> NoJob]
  /\ status = [t \in Tasks |-> {}]
  /\ retry = [t \in Tasks |-> 0]
  /\ stray = [m \in Cplds |-> FALSE]

Goto(t, label) == pc' = [pc EXCEPT ![t] = label]

Stay(t, label) == Goto(t, label) /\ UNCHANGED job

Return(t) ==
  /\ Goto(t, "idle")
  /\ job' = [job EXCEPT ![t] = NoJob]

\* A task calls into the driver; its files and channels exist while it is probed.
Call(t) ==
  /\ pc[t] = "idle"
  /\ \E j \in Calls :
       /\ j.op # "exported" => j.cpld \in probed
       /\ job' = [job EXCEPT ![t] = j]
       /\ Goto(t, IF j.op = "xfer" THEN "bus"
                  ELSE IF j.op = "exported" THEN "search" ELSE "lock")
  /\ UNCHANGED <<channel, tx_disable, last_chan, locks, client_list, probed,
                 status, retry, stray>>

-----------------------------------------------------------------------------
(* A transfer on a channel: the i2c core takes the parent adapter, selects,*)
(* transfers if the selection worked, and deselects in any case.           *)

TakeBus(t) ==
  /\ pc[t] = "bus"
  /\ bus = NoOne
  /\ bus' = t
  /\ Goto(t, "select")
  /\ UNCHANGED <<channel, tx_disable, last_chan, update_lock, list_lock,
                 client_list, probed, job, status, retry, stray>>

\* What is left of a register write that failed: the old value or the new one.
MayArrive(reg, m, new) == reg' \in {reg, [reg EXCEPT ![m] = new]}

\* Mutant: a selection that failed is not followed by a deselection.
SelectNoUndo(t) ==
  LET m == job[t].cpld
      chan == job[t].arg
  IN /\ pc[t] = "select"
     /\ last_chan' = [last_chan EXCEPT ![m] = chan]
     /\ \/ /\ last_chan[m] = chan
           /\ Stay(t, "xfer") /\ UNCHANGED <<bus, channel>>
        \/ /\ last_chan[m] # chan
           /\ channel' = [channel EXCEPT ![m] = chan]
           /\ Stay(t, "xfer") /\ UNCHANGED bus
        \/ /\ last_chan[m] # chan
           /\ MayArrive(channel, m, chan)
           /\ Return(t) /\ bus' = NoOne
     /\ UNCHANGED <<tx_disable, update_lock, list_lock, client_list, probed,
                    status, retry, stray>>

mux_select_chan(t) ==
  LET m == job[t].cpld
      chan == job[t].arg
  IN /\ pc[t] = "select"
     /\ last_chan' = [last_chan EXCEPT ![m] = chan]
     /\ \/ /\ last_chan[m] = chan
           /\ Goto(t, "xfer") /\ UNCHANGED channel
        \/ /\ last_chan[m] # chan
           /\ channel' = [channel EXCEPT ![m] = chan]
           /\ Goto(t, "xfer")
        \/ /\ last_chan[m] # chan
           /\ MayArrive(channel, m, chan)
           /\ Goto(t, "deselect")
     /\ UNCHANGED <<tx_disable, locks, client_list, probed, job, status, retry, stray>>

\* The device answers or it does not; either way the channel is deselected.
Transfer(t) ==
  /\ pc[t] = "xfer"
  /\ Goto(t, "deselect")
  /\ UNCHANGED <<channel, tx_disable, last_chan, locks, client_list, probed,
                 job, status, retry, stray>>

\* Mutant: the driver goes on believing that the channel is connected.
DeselectForgotten(t) ==
  LET m == job[t].cpld
  IN /\ pc[t] = "deselect"
     /\ \/ channel' = [channel EXCEPT ![m] = Deselected]
        \/ MayArrive(channel, m, Deselected)
     /\ stray' = [stray EXCEPT ![m] = channel'[m] # Deselected]
     /\ bus' = NoOne
     /\ Return(t)
     /\ UNCHANGED <<tx_disable, last_chan, update_lock, list_lock,
                    client_list, probed, status, retry>>

mux_deselect(t) ==
  LET m == job[t].cpld
  IN /\ pc[t] = "deselect"
     /\ last_chan' = [last_chan EXCEPT ![m] = Deselected]
     /\ \/ channel' = [channel EXCEPT ![m] = Deselected]
        \/ MayArrive(channel, m, Deselected)
     /\ stray' = [stray EXCEPT ![m] = channel'[m] # Deselected]
     /\ bus' = NoOne
     /\ Return(t)
     /\ UNCHANGED <<tx_disable, update_lock, list_lock, client_list, probed,
                    status, retry>>

InTransfer(t) == mux_select_chan(t) \/ Transfer(t) \/ mux_deselect(t)

-----------------------------------------------------------------------------
(* The sysfs files: set_tx_disable, set_lp_mode, set_mode_reset, access,   *)
(* and the files that show a bit.                                          *)

\* Mutant: the lock is not waited for.
LockIgnored(t) ==
  /\ pc[t] = "lock"
  /\ update_lock' = [update_lock EXCEPT ![job[t].cpld] = t]
  /\ retry' = [retry EXCEPT ![t] = I2C_RW_RETRY_COUNT]
  /\ Goto(t, IF job[t].op = "access" THEN "write" ELSE "read")
  /\ UNCHANGED <<channel, tx_disable, last_chan, bus, list_lock, client_list,
                 probed, job, status, stray>>

Lock(t) ==
  /\ pc[t] = "lock"
  /\ update_lock[job[t].cpld] = NoOne
  /\ update_lock' = [update_lock EXCEPT ![job[t].cpld] = t]
  /\ retry' = [retry EXCEPT ![t] = I2C_RW_RETRY_COUNT]
  /\ Goto(t, IF job[t].op = "access" THEN "write" ELSE "read")
  /\ UNCHANGED <<channel, tx_disable, last_chan, bus, list_lock, client_list,
                 probed, job, status, stray>>

Unlock(t) ==
  /\ update_lock' = [update_lock EXCEPT ![job[t].cpld] = NoOne]
  /\ retry' = [retry EXCEPT ![t] = 0]
  /\ status' = [status EXCEPT ![t] = {}]
  /\ Return(t)

\* Mutant: one attempt more than there are.
AgainOnce(t) ==
  /\ retry[t] > 0
  /\ retry' = [retry EXCEPT ![t] = @ - 1]
  /\ UNCHANGED <<update_lock, pc, job, status>>

Again(t) ==
  /\ retry[t] > 1
  /\ retry' = [retry EXCEPT ![t] = @ - 1]
  /\ UNCHANGED <<update_lock, pc, job, status>>

\* read_internal, and what follows its return.
ReadRegister(t) ==
  /\ pc[t] = "read"
  /\ bus = NoOne
  /\ IF job[t].op = "show"
     THEN Unlock(t)
     ELSE /\ status' = [status EXCEPT ![t] = tx_disable[job[t].cpld]]
          /\ retry' = [retry EXCEPT ![t] = I2C_RW_RETRY_COUNT]
          /\ Stay(t, "write")
          /\ UNCHANGED update_lock
  /\ UNCHANGED <<channel, tx_disable, last_chan, bus, list_lock, client_list,
                 probed, stray>>

\* Mutant: after the last attempt the lock is kept.
ReadFailsLocked(t) ==
  /\ pc[t] = "read"
  /\ bus = NoOne
  /\ Again(t) \/ (retry[t] = 1 /\ Return(t) /\ UNCHANGED <<update_lock, status, retry>>)
  /\ UNCHANGED <<channel, tx_disable, last_chan, bus, list_lock, client_list,
                 probed, stray>>

ReadFails(t) ==
  /\ pc[t] = "read"
  /\ bus = NoOne
  /\ Again(t) \/ (retry[t] = 1 /\ Unlock(t))
  /\ UNCHANGED <<channel, tx_disable, last_chan, bus, list_lock, client_list,
                 probed, stray>>

NewValue(t) ==
  CASE job[t].op = "set"   -> status[t] \cup {job[t].arg}
    [] job[t].op = "clear" -> status[t] \ {job[t].arg}
    [] OTHER               -> job[t].arg

\* write_internal.
WriteRegister(t) ==
  /\ pc[t] = "write"
  /\ bus = NoOne
  /\ tx_disable' = [tx_disable EXCEPT ![job[t].cpld] = NewValue(t)]
  /\ Unlock(t)
  /\ UNCHANGED <<channel, last_chan, bus, list_lock, client_list, probed, stray>>

WriteFails(t) ==
  /\ pc[t] = "write"
  /\ bus = NoOne
  /\ MayArrive(tx_disable, job[t].cpld, NewValue(t))
  /\ Again(t) \/ (retry[t] = 1 /\ Unlock(t))
  /\ UNCHANGED <<channel, last_chan, bus, list_lock, client_list, probed, stray>>

InFile(t) == ReadRegister(t) \/ ReadFails(t) \/ WriteRegister(t) \/ WriteFails(t)

-----------------------------------------------------------------------------
(* as5712_54x_cpld_read and _write, which the fan, LED and PSU drivers     *)
(* call for registers of their own.                                        *)

Search(t) ==
  /\ pc[t] = "search"
  /\ list_lock = NoOne
  /\ IF job[t].cpld \in client_list
     THEN /\ list_lock' = t
          /\ retry' = [retry EXCEPT ![t] = I2C_RW_RETRY_COUNT]
          /\ Stay(t, "exported")
     ELSE Return(t) /\ UNCHANGED <<list_lock, retry>>
  /\ UNCHANGED <<channel, tx_disable, last_chan, bus, update_lock, client_list,
                 probed, status, stray>>

Exported(t) ==
  /\ pc[t] = "exported"
  /\ bus = NoOne
  /\ \/ /\ list_lock' = NoOne
        /\ retry' = [retry EXCEPT ![t] = 0]
        /\ Return(t)
     \/ /\ retry[t] > 1
        /\ retry' = [retry EXCEPT ![t] = @ - 1]
        /\ UNCHANGED <<list_lock, pc, job>>
  /\ UNCHANGED <<channel, tx_disable, last_chan, bus, update_lock, client_list,
                 probed, status, stray>>

-----------------------------------------------------------------------------
(* A CPLD is unbound and bound again.                                      *)

\* Mutant: the list is changed without its lock.
RemoveUnlocked(m) ==
  /\ m \in client_list
  /\ client_list' = client_list \ {m}
  /\ UNCHANGED <<channel, tx_disable, last_chan, locks, probed, pc, job,
                 status, retry, stray>>

remove_client(m) ==
  /\ m \in client_list
  /\ list_lock = NoOne
  /\ client_list' = client_list \ {m}
  /\ UNCHANGED <<channel, tx_disable, last_chan, locks, probed, pc, job,
                 status, retry, stray>>

\* The kernel waits until nobody is in a file or on a channel of the CPLD.
mux_remove(m) ==
  /\ m \in probed \ client_list
  /\ \A t \in Tasks : job[t].op = "exported" \/ job[t].cpld # m
  /\ probed' = probed \ {m}
  /\ UNCHANGED <<channel, tx_disable, last_chan, locks, client_list, pc, job,
                 status, retry, stray>>

\* The mux register is not written: a channel left connected stays so.
mux_probe(m) ==
  /\ m \notin probed
  /\ list_lock = NoOne
  /\ last_chan' = [last_chan EXCEPT ![m] = Deselected]
  /\ update_lock' = [update_lock EXCEPT ![m] = NoOne]
  /\ probed' = probed \cup {m}
  /\ client_list' = client_list \cup {m}
  /\ UNCHANGED <<channel, tx_disable, bus, list_lock, pc, job, status, retry, stray>>

-----------------------------------------------------------------------------
Step(t) ==
  TakeBus(t) \/ InTransfer(t) \/ Lock(t) \/ InFile(t) \/ Search(t) \/ Exported(t)

Next ==
  \/ \E t \in Tasks : Call(t) \/ Step(t)
  \/ \E m \in Cplds : remove_client(m) \/ mux_remove(m) \/ mux_probe(m)

(* A task that holds the bus runs on; the bus and the mutexes are handed   *)
(* to those who wait for them.                                             *)
Fairness == \A t \in Tasks : SF_vars(Step(t))

Spec == Init /\ [][Next]_vars

FairSpec == Spec /\ Fairness

-----------------------------------------------------------------------------
(* Properties.                                                             *)

Labels == {"idle", "bus", "select", "xfer", "deselect", "lock", "read", "write",
           "search", "exported"}

\* The shape of the state: the one type invariant of the module.
TypeOK ==
  /\ channel \in [Cplds -> Ports \cup {Deselected}]
  /\ last_chan \in [Cplds -> Ports \cup {Deselected}]
  /\ tx_disable \in [Cplds -> SUBSET Ports]
  /\ bus \in Tasks \cup {NoOne} /\ list_lock \in Tasks \cup {NoOne}
  /\ update_lock \in [Cplds -> Tasks \cup {NoOne}]
  /\ client_list \subseteq probed /\ probed \subseteq Cplds
  /\ pc \in [Tasks -> Labels]
  /\ job \in [Tasks -> Calls \cup {NoJob}]
  /\ status \in [Tasks -> SUBSET Ports]
  /\ retry \in [Tasks -> 0..I2C_RW_RETRY_COUNT]
  /\ \A t \in Tasks : pc[t] \in {"read", "write"} => job[t].op \in Sysfs /\ retry[t] > 0
  /\ stray \in [Cplds -> BOOLEAN]

\* A transfer finds the channel it asked for connected, though the driver
\* skips the write for a channel it believes to be connected, and selections
\* and deselections before it failed.
OwnChannel ==
  \A t \in Tasks : pc[t] = "xfer" => channel[job[t].cpld] = job[t].arg

\* And it finds no channel of another mux connected, unless a deselection of
\* that mux failed: modules have the same addresses on all channels.
OtherMuxesOff ==
  \A t \in Tasks : pc[t] = "xfer" =>
    \A m \in Cplds \ {job[t].cpld} : channel[m] = Deselected \/ stray[m]

\* An exported access works on a CPLD whose driver is not being removed.
ExportedIsListed ==
  \A t \in Tasks : pc[t] = "exported" => job[t].cpld \in client_list

\* Concurrent writers of one register, failing and repeated writes included,
\* change it as if each set or cleared its own bit at one moment: no bit that
\* another port set is lost.
Atomic == INSTANCE ChannelRegisters WITH register <- tx_disable
RegistersAtomic == Atomic!RegSpec

\* Every call returns.
CallReturns == \A t \in Tasks : pc[t] # "idle" ~> pc[t] = "idle"

-----------------------------------------------------------------------------
(* The inductive invariant behind them.                                    *)

\* What a task does is what it called for, on a CPLD that exists.
CallInv ==
  \A t \in Tasks :
    /\ pc[t] # "idle" => job[t] \in Calls
    /\ pc[t] \in {"bus", "select", "xfer", "deselect"} => job[t].op = "xfer"
    /\ pc[t] = "lock" => job[t].op \in Sysfs
    /\ pc[t] = "write" => job[t].op # "show"
    /\ pc[t] \in {"search", "exported"} => job[t].op = "exported"
    /\ pc[t] \notin {"idle", "search", "exported"} => job[t].cpld \in probed

\* Who is inside holds the lock.
LockInv ==
  \A t \in Tasks :
    /\ pc[t] \in {"select", "xfer", "deselect"} <=> bus = t
    /\ pc[t] \in {"read", "write"} => update_lock[job[t].cpld] = t
    /\ pc[t] = "exported" => list_lock = t

\* A channel is connected, or believed to be, only around a transfer, or
\* because a deselection failed.
Selected(m) ==
  \E t \in Tasks : pc[t] \in {"xfer", "deselect"} /\ job[t].cpld = m

ChannelInv ==
  \A m \in Cplds :
    Selected(m) \/ (last_chan[m] = Deselected /\ (channel[m] = Deselected \/ stray[m]))

\* A writer's value is one bit away from the register, or has arrived already.
StatusInv ==
  \A t \in Tasks : pc[t] = "write" /\ job[t].op # "access" =>
    tx_disable[job[t].cpld] \in {status[t], NewValue(t)}

IInv == TypeOK /\ CallInv /\ LockInv /\ ChannelInv /\ OwnChannel /\ ExportedIsListed /\ StatusInv

=============================================================================
