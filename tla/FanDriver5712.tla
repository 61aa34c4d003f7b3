---------------------------- MODULE FanDriver5712 ----------------------------
(***************************************************************************)
(* The fan driver of the AS5712-54X                                        *)
(* (as5712-54x/modules/accton_as5712_54x_fan.c): a cache of the fan        *)
(* registers of a CPLD.  A process that reads a sysfs node refreshes the   *)
(* cache, under update_lock, when it is older than 1.5 s or invalid, and   *)
(* then looks at it after the lock is released; a process that writes a    *)
(* duty cycle writes the register and invalidates the cache, without the   *)
(* lock.                                                                   *)
(*                                                                         *)
(* Each access to the CPLD is one step (it is serialised by the list_lock  *)
(* of the CPLD driver and retried there; here it answers or fails).        *)
(* Tachometer values and the direction bits, which take the same path as   *)
(* the fault bits, are left out; the tachometer reads that may fail are    *)
(* kept.                                                                   *)
(***************************************************************************)
EXTENDS Integers

CONSTANTS
  Readers,    \* processes that read a node
  Writers,    \* processes that write a duty cycle
  Fans,       \* 0..FAN_MAX_NUMBER-1 in the code
  HwFaults,   \* the pairs [fault, r_fault] the hardware may show
  Inputs,     \* what may be written to a duty cycle node
  NoOne

FAN_DUTY_CYCLE_MIN == 0
FAN_DUTY_CYCLE_MAX == 100
FAN_SPEED_PRECENT_TO_CPLD_STEP == 5

Registers == [fault : SUBSET Fans, r_fault : SUBSET Fans, pwm : 0..20]

ASSUME HwFaultsAssumption ==
  HwFaults \subseteq [fault : SUBSET Fans, r_fault : SUBSET Fans]
ASSUME InputsAssumption == Inputs \subseteq Int
ASSUME ProcsAssumption  == Readers \cap Writers = {} /\ NoOne \notin Readers

VARIABLES
  hw,        \* the registers of the CPLD
  lock,      \* the holder of update_lock
  valid,     \* fan_data->valid
  expired,   \* last_updated is more than 1.5 s ago
  data,      \* the cached values of every fan
  pc,        \* where each process is
  reg,       \* the register values a refresh has read so far
  todo,      \* the fans a refresh has still to store
  arg,       \* the value a writer was given
  filled,    \* history: some refresh ran to its end
  snap       \* history: what the last one that did read

vars == <<hw, lock, valid, expired, data, pc, reg, todo, arg, filled, snap>>

Procs == Readers \cup Writers

\* What update_device stores for one fan: its bits, and the duty in percent.
Decode(r, f) == [status     |-> f \in r.fault,
                 r_status   |-> f \in r.r_fault,
                 duty_cycle |-> r.pwm * FAN_SPEED_PRECENT_TO_CPLD_STEP]

NoRegs == [fault |-> {}, r_fault |-> {}, pwm |-> 0]

Goto(p, label) == pc' = [pc EXCEPT ![p] = label]

Init ==
  /\ hw \in {[fault |-> h.fault, r_fault |-> h.r_fault, pwm |-> 0] : h \in HwFaults}
  /\ lock = NoOne
  /\ valid = FALSE
  /\ expired \in BOOLEAN
  /\ data = [f \in Fans |-> Decode(NoRegs, f)]
  /\ pc = [p \in Procs |-> "idle"]
  /\ reg = [p \in Readers |-> NoRegs]
  /\ todo = [p \in Readers |-> {}]
  /\ arg = [w \in Writers |-> 0]
  /\ filled = FALSE /\ snap = NoRegs

-----------------------------------------------------------------------------
(* Reading a node: fan_show_value and update_device.                       *)

Enter(p) ==
  /\ pc[p] = "idle"
  /\ Goto(p, "lock")
  /\ UNCHANGED <<hw, lock, valid, expired, data, reg, todo, arg, filled, snap>>

\* mutex_lock, and nothing to do: the cache is valid and young enough.
CacheHit(p) ==
  /\ pc[p] = "lock"
  /\ lock = NoOne
  /\ valid /\ ~expired
  /\ Goto(p, "check")
  /\ UNCHANGED <<hw, lock, valid, expired, data, reg, todo, arg, filled, snap>>

\* Mutant: the old contents stay valid while they are overwritten.
StartRefreshKeepValid(p) ==
  /\ pc[p] = "lock"
  /\ lock = NoOne
  /\ expired \/ ~valid
  /\ lock' = p
  /\ Goto(p, "fault")
  /\ UNCHANGED <<hw, valid, expired, data, reg, todo, arg, filled, snap>>

\* Mutant: only an invalid cache is refreshed, never an old one.
StartRefreshNoLimit(p) ==
  /\ pc[p] = "lock"
  /\ lock = NoOne
  /\ ~valid
  /\ lock' = p
  /\ valid' = FALSE
  /\ Goto(p, "fault")
  /\ UNCHANGED <<hw, expired, data, reg, todo, arg, filled, snap>>

StartRefresh(p) ==
  /\ pc[p] = "lock"
  /\ lock = NoOne
  /\ expired \/ ~valid
  /\ lock' = p
  /\ valid' = FALSE
  /\ Goto(p, "fault")
  /\ UNCHANGED <<hw, expired, data, reg, todo, arg, filled, snap>>

\* The registers in the order in which they are read.
ReadRegister(p) ==
  /\ \/ /\ pc[p] = "fault"
        /\ reg' = [reg EXCEPT ![p].fault = hw.fault]
        /\ Goto(p, "r_fault")
     \/ /\ pc[p] = "r_fault"
        /\ reg' = [reg EXCEPT ![p].r_fault = hw.r_fault]
        /\ Goto(p, "pwm")
     \/ /\ pc[p] = "pwm"
        /\ reg' = [reg EXCEPT ![p].pwm = hw.pwm]
        /\ Goto(p, "store")
  /\ todo' = [todo EXCEPT ![p] = Fans]
  /\ UNCHANGED <<hw, lock, valid, expired, data, arg, filled, snap>>

\* update_device returns, and its local variables are gone.
Leave(p) ==
  /\ Goto(p, "check")
  /\ reg' = [reg EXCEPT ![p] = NoRegs]
  /\ todo' = [todo EXCEPT ![p] = {}]

\* Mutant: the error path returns with update_lock held.
ReadFailsLocked(p) ==
  /\ pc[p] \in {"pwm", "speed"}
  /\ Leave(p)
  /\ UNCHANGED <<hw, lock, valid, expired, data, arg, filled, snap>>

\* A register or a tachometer that does not answer ends the refresh; for the
\* registers that is found out once all of them have been tried.
ReadFails(p) ==
  /\ pc[p] \in {"pwm", "speed"}
  /\ lock' = NoOne
  /\ Leave(p)
  /\ UNCHANGED <<hw, valid, expired, data, arg, filled, snap>>

\* The fans are stored one by one, each before its two tachometers are read.
StoreFan(p) ==
  /\ pc[p] = "store"
  /\ \E f \in todo[p] :
       /\ \A g \in todo[p] : f <= g
       /\ data' = [data EXCEPT ![f] = Decode(reg[p], f)]
       /\ todo' = [todo EXCEPT ![p] = @ \ {f}]
  /\ Goto(p, "speed")
  /\ UNCHANGED <<hw, lock, valid, expired, reg, arg, filled, snap>>

ReadSpeeds(p) ==
  /\ pc[p] = "speed"
  /\ Goto(p, IF todo[p] = {} THEN "finish" ELSE "store")
  /\ UNCHANGED <<hw, lock, valid, expired, data, reg, todo, arg, filled, snap>>

FinishRefresh(p) ==
  /\ pc[p] = "finish"
  /\ valid' = TRUE
  /\ expired' = FALSE
  /\ filled' = TRUE /\ snap' = reg[p]
  /\ lock' = NoOne
  /\ Leave(p)
  /\ UNCHANGED <<hw, data, arg>>

\* Mutant: the cache is shown whether it was filled or not.
CheckValidAlways(p) ==
  /\ pc[p] = "check"
  /\ Goto(p, "show")
  /\ UNCHANGED <<hw, lock, valid, expired, data, reg, todo, arg, filled, snap>>

\* Outside the lock: an invalid cache gives an empty answer.
CheckValid(p) ==
  /\ pc[p] = "check"
  /\ Goto(p, IF valid THEN "show" ELSE "idle")
  /\ UNCHANGED <<hw, lock, valid, expired, data, reg, todo, arg, filled, snap>>

\* The value of one field of one fan, whatever it is now, is given out.
Show(p) ==
  /\ pc[p] = "show"
  /\ Goto(p, "idle")
  /\ UNCHANGED <<hw, lock, valid, expired, data, reg, todo, arg, filled, snap>>

fan_show_value(p) ==
  \/ Enter(p) \/ CacheHit(p) \/ StartRefresh(p)
  \/ ReadRegister(p) \/ ReadFails(p)
  \/ StoreFan(p) \/ ReadSpeeds(p) \/ FinishRefresh(p)
  \/ CheckValid(p) \/ Show(p)

-----------------------------------------------------------------------------
(* Writing a duty cycle: fan_set_duty_cycle.                               *)

\* A value out of range is refused (-EINVAL) and changes nothing.
SetAccepted(w) ==
  /\ pc[w] = "idle"
  /\ \E value \in Inputs :
       /\ value >= FAN_DUTY_CYCLE_MIN /\ value <= FAN_DUTY_CYCLE_MAX
       /\ arg' = [arg EXCEPT ![w] = value]
  /\ Goto(w, "write")
  /\ UNCHANGED <<hw, lock, valid, expired, data, reg, todo, filled, snap>>

\* The CPLD may not answer; the result is not looked at.
WriteRegister(w) ==
  /\ pc[w] = "write"
  /\ \/ hw' = [hw EXCEPT !.pwm = arg[w] \div FAN_SPEED_PRECENT_TO_CPLD_STEP]
     \/ UNCHANGED hw
  /\ Goto(w, "invalidate")
  /\ UNCHANGED <<lock, valid, expired, data, reg, todo, arg, filled, snap>>

Invalidate(w) ==
  /\ pc[w] = "invalidate"
  /\ valid' = FALSE
  /\ Goto(w, "idle")
  /\ arg' = [arg EXCEPT ![w] = 0]
  /\ UNCHANGED <<hw, lock, expired, data, reg, todo, filled, snap>>

fan_set_duty_cycle(w) == SetAccepted(w) \/ WriteRegister(w) \/ Invalidate(w)

-----------------------------------------------------------------------------
(* The surroundings.                                                       *)

\* A fan breaks down, is pulled out or comes back.
HwChange ==
  /\ \E h \in HwFaults :
       hw' = [hw EXCEPT !.fault = h.fault, !.r_fault = h.r_fault]
  /\ UNCHANGED <<lock, valid, expired, data, pc, reg, todo, arg, filled, snap>>

\* 1.5 s pass since last_updated.
Expire ==
  /\ expired' = TRUE
  /\ UNCHANGED <<hw, lock, valid, data, pc, reg, todo, arg, filled, snap>>

Next ==
  \/ \E p \in Readers : fan_show_value(p)
  \/ \E w \in Writers : fan_set_duty_cycle(w)
  \/ HwChange \/ Expire

(* A process in the driver runs on, and time passes.  A kernel mutex is    *)
(* handed on in the order of arrival, so a process that waits for it gets  *)
(* it: strong fairness of the two steps that take it.  Nodes are polled    *)
(* (the daemon does so once a second).                                     *)
Fairness ==
  /\ \A p \in Readers : /\ WF_vars(fan_show_value(p))
                        /\ SF_vars(CacheHit(p) \/ StartRefresh(p))
  /\ \A w \in Writers : WF_vars(WriteRegister(w) \/ Invalidate(w))
  /\ WF_vars(Expire)

Spec == Init /\ [][Next]_vars

FairSpec == Spec /\ Fairness

-----------------------------------------------------------------------------
(* Properties.                                                             *)

Refreshing == {"fault", "r_fault", "pwm", "store", "speed", "finish"}

\* The shape of the driver's state: the one type invariant of the module.
TypeOK ==
  /\ hw \in Registers
  /\ lock \in Readers \cup {NoOne}
  /\ valid \in BOOLEAN /\ expired \in BOOLEAN
  /\ data \in [Fans -> [status : BOOLEAN, r_status : BOOLEAN, duty_cycle : 0..100]]
  /\ pc \in [Procs -> Refreshing \cup {"idle", "lock", "check", "show", "write", "invalidate"}]
  /\ reg \in [Readers -> Registers]
  /\ todo \in [Readers -> SUBSET Fans]
  /\ arg \in [Writers -> 0..100]
  /\ filled \in BOOLEAN /\ snap \in Registers

\* While fan_data->valid is set, everything cached, for every fan, was read by
\* one and the same refresh that ran to its end: refreshes that fail half way,
\* writers that invalidate at any moment and several readers that start
\* refreshes never leave a mixture marked valid.
ValidIsOneRefresh ==
  valid => \A f \in Fans : data[f] = Decode(snap, f)

\* A reader is past the test of valid only after some refresh was completed:
\* fan_show_value never gives out the zeroes the structure was allocated with.
NoneShownBeforeFilled ==
  \A p \in Readers : pc[p] = "show" => filled

\* Once the registers stop changing and nobody sets a duty, whatever a valid
\* cache shows becomes, and stays, what the registers hold: an invalidation
\* that was lost to a running refresh is made good by the 1.5 s limit.
EventuallyCurrent ==
  (<>[][FALSE]_hw) /\ (<>[](\A w \in Writers : pc[w] = "idle"))
    => <>[](valid => \A f \in Fans : data[f] = Decode(hw, f))

\* Every read of a node returns, whatever registers fail to answer.
ReadReturns == \A p \in Readers : pc[p] # "idle" ~> pc[p] = "idle"

-----------------------------------------------------------------------------
(* The inductive invariant behind ValidIsOneRefresh.                       *)

\* A process is inside update_device exactly while it holds the lock, and the
\* cache is invalid all that time.
LockInv ==
  /\ \A p \in Readers : pc[p] \in Refreshing <=> lock = p
  /\ valid => lock = NoOne

\* The fans a refresh is done with hold what it read.
StoreInv ==
  \A p \in Readers :
    /\ pc[p] \in {"store", "speed", "finish"} =>
         \A f \in Fans \ todo[p] : data[f] = Decode(reg[p], f)
    /\ pc[p] = "finish" => todo[p] = {}

FilledInv == (valid => filled) /\ NoneShownBeforeFilled

IInv == TypeOK /\ LockInv /\ StoreInv /\ FilledInv /\ ValidIsOneRefresh

=============================================================================
