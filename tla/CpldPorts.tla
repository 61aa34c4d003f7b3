------------------------------ MODULE CpldPorts ------------------------------
(***************************************************************************)
(* The port files of the CPLD drivers, and the port device of AS7712-32X,   *)
(* which stores in the same registers.  A show locks the device, reads a    *)
(* register and answers with one bit of it; a store reads the register,     *)
(* changes one bit and writes it back; access writes a register as it is    *)
(* told.  Every transfer may fail and is tried I2C_RW_RETRY_COUNT times.    *)
(* A behaviour is about one driver, drv, and the files the processes of     *)
(* Actor have open; PortTables says where their bits are.                   *)
(***************************************************************************)
EXTENDS PortTables

CONSTANTS Actor,      \* processes, each with one file open
          Drivers,    \* the drivers a run looks at
          Ports,      \* the ports whose files are opened
          I2C_RW_RETRY_COUNT,
          ErrnoBytes  \* the low bytes an error number may have, as sets of bits

ASSUME RetryAssumption == I2C_RW_RETRY_COUNT \in Nat \ {0}
ASSUME ErrnoAssumption == ErrnoBytes \subseteq SUBSET (0..7)

Byte == SUBSET (0..7)   \* a register: the set of the bits that are 1
None == 2               \* neither 0 nor 1

CpldDrivers == {"as7312_54x", "as7326_56x", "as7726_32x", "as7716_32x", "as6712_32x"}
AllDrivers == CpldDrivers \cup Models \cup {"as7716_32xb", "as7712_32x_sfp"}

ASSUME DriversAssumption == Drivers \subseteq AllDrivers

\* The drivers that look at the result of a read before they use it, and hold
\* one lock over the read and the write of a register.
Careful(d) == d \in CpldDrivers \cup {"as7716_32xb"}

-----------------------------------------------------------------------------
(* The files of a driver, and the bits a show reads and a store writes.      *)

attributes(d) ==
  CASE d = "as7312_54x"  -> as7312_54x_attributes
    [] d = "as7326_56x"  -> as7326_56x_attributes
    [] d = "as7726_32x"  -> as7726_32x_attributes
    [] d = "as7716_32x"  -> as7716_32x_attributes
    [] d = "as7716_32xb" -> as7716_32xb_attributes
    [] d = "as6712_32x"  -> as6712_32x_attributes
    [] d \in Models      -> add_attributes_portly(d)
    [] d = "as7712_32x_sfp" -> as7712_32x_sfp_attributes

ShownAt(d, f) ==
  CASE d = "as7312_54x"  -> as7312_54x_show_status(f)
    [] d = "as7326_56x"  -> as7326_56x_show_status(f)
    [] d = "as7726_32x"  -> as7726_32x_show_status(f)
    [] d = "as7716_32x" /\ f.kind = "present" -> as7716_32x_show_present(f.port)
    [] d = "as7716_32x" /\ f.kind = "reset" -> as7716_32x_get_mode_reset(f.port)
    [] d = "as7716_32xb" -> as7716_32xb_sfp_value_show(f)
    [] d = "as6712_32x"  -> as6712_32x_show_status(f)
    [] d \in Models      -> common_show_bit(d, f)
    [] d = "as7712_32x_sfp" /\ f.kind = "present" -> as7712_32x_sfp_show_present(f.port)
    [] d = "as7712_32x_sfp" /\ f.kind = "reset" -> as7712_32x_sfp_show_port_reset(f.port)

\* A file that may be stored in: a reset or transmit disable of a port, and
\* every file of the memory of AS7716-32XB.
Writable(d, f) == d = "as7716_32xb" \/ f.kind \in {"reset", "txdisable"}

StoredAt(d, f) ==
  CASE d = "as7312_54x" /\ f.kind = "reset"     -> as7312_54x_set_reset(f.port)
    [] d = "as7312_54x" /\ f.kind = "txdisable" -> as7312_54x_set_tx_disable(f.port)
    [] d = "as7326_56x"  -> as7326_56x_set_tx_disable(f.port)
    [] d = "as7726_32x" /\ f.kind = "reset"     -> as7726_32x_set_reset(f.port)
    [] d = "as7726_32x" /\ f.kind = "txdisable" -> as7726_32x_set_tx_disable(f.port)
    [] d = "as7716_32x"  -> as7716_32x_set_mode_reset(f.port)
    [] d = "as7716_32xb" -> as7716_32xb_sfp_value_store(f)
    [] d = "as6712_32x"  -> as6712_32x_set_status(f.port)
    [] d \in Models      -> common_show_bit(d, f)
    [] d = "as7712_32x_sfp" -> as7712_32x_sfp_set_port_reset(f.port)

\* A bit that is 0 is shown as 1: everywhere for what is present, except for
\* the ports 57 and 58 of AS7326-56X, and for the resets of some.
ShowInverts(d, f) ==
  \/ f.kind = "present" /\ d # "as7716_32xb" /\ ~(d = "as7326_56x" /\ f.port > 56)
  \/ f.kind = "reset" /\ d \in {"as7716_32x", "as6712_32x", "as7712_32x_sfp"} \cup Models

\* A store of 1 clears the bit.
StoreInverts(d, f) ==
  f.kind = "reset" /\ d \in {"as7726_32x", "as7716_32x", "as6712_32x",
                             "as7712_32x_sfp"} \cup Models

\* Mutant: the line of what is present is given as it is in the registers.
LineInvertsNothing(d, kind) == FALSE

\* The lines of all ports: what is present is complemented, rxlos is not; the
\* shared driver gives both as they are in the registers.
LineInverts(d, kind) == kind = "present" /\ d \notin Models

BitOf(v, inverts) == (v = 1) # inverts   \* is the bit for the value v a 1?
ValueOf(isOne, inverts) == IF isOne # inverts THEN 1 ELSE 0

\* Files guarded by one lock: those of a device of the driver; a port device
\* has a lock of its own, and the memory of AS7716-32XB one for both arrays.
SameLock(d, f, g) ==
  CASE d = "as7712_32x_sfp" -> f.port = g.port
    [] d = "as7716_32xb"    -> TRUE
    [] OTHER -> StoredAt(d, f).dev = StoredAt(d, g).dev

\* How often a transfer is tried: the port device uses the exported functions
\* of the shared driver, which try once.
Tries(d) == IF d = "as7712_32x_sfp" THEN 1 ELSE I2C_RW_RETRY_COUNT

-----------------------------------------------------------------------------
VARIABLES drv,    \* the driver
          file,   \* the file each process has open
          chip,   \* the registers those files are in
          pc, op, \* where a process is, and in what operation
          want,   \* what it was told to store
          seen,   \* the register as it read it
          tries,  \* transfers it may still try
          held,   \* the processes that hold the lock of their device
          stored, \* the value last stored in a file, None when not known
          shown   \* what a show answers, in the step it returns in

vars == <<drv, file, chip, pc, op, want, seen, tries, held, stored, shown>>

Place(l) == [dev |-> l.dev, reg |-> l.reg]
Places(d, fs) == UNION {{Place(ShownAt(d, f)), Place(StoredAt(d, f))} : f \in fs}

OpenFiles == {file[p] : p \in Actor}

TypeOK ==
  /\ drv \in Drivers
  /\ \A p \in Actor : file[p] \in attributes(drv) /\ Writable(drv, file[p])
  /\ chip \in [Places(drv, OpenFiles) -> Byte]
  /\ pc \in [Actor -> {"idle", "lock", "read", "write"}]
  /\ op \in [Actor -> {"show", "store", "access"}]
  /\ want \in [Actor -> {0, 1}]
  /\ seen \in [Actor -> Byte]
  /\ tries \in [Actor -> 0..I2C_RW_RETRY_COUNT]
  /\ held \subseteq Actor
  /\ stored \in [OpenFiles -> {0, 1, None}]
  /\ shown \in [Actor -> {0, 1, None}]

Init ==
  /\ drv \in Drivers
  /\ file \in [Actor -> {f \in attributes(drv) : f.port \in Ports /\ Writable(drv, f)}]
  /\ chip = [r \in Places(drv, OpenFiles) |-> IF drv = "as7716_32xb" THEN {} ELSE 0..7]
  /\ pc = [p \in Actor |-> "idle"]
  /\ op = [p \in Actor |-> "show"]
  /\ want = [p \in Actor |-> 0]
  /\ seen = [p \in Actor |-> {}]
  /\ tries = [p \in Actor |-> 0]
  /\ held = {}
  /\ stored = [f \in OpenFiles |-> None]
  /\ shown = [p \in Actor |-> None]

\* The register of the operation of process p.
Shows(p) == ShownAt(drv, file[p])
Stores(p) == StoredAt(drv, file[p])
Target(p) == IF op[p] = "show" THEN Shows(p) ELSE Stores(p)

NoAnswer == shown' = [p \in Actor |-> None]

\* A process calls show, store or access; access has no place in the memory
\* of AS7716-32XB and none in a port device.
Call(p) ==
  /\ pc[p] = "idle"
  /\ pc' = [pc EXCEPT ![p] = "lock"]
  /\ \/ op' = [op EXCEPT ![p] = "show"] /\ UNCHANGED want
     \/ op' = [op EXCEPT ![p] = "store"] /\ \E v \in {0, 1} : want' = [want EXCEPT ![p] = v]
     \/ /\ drv \notin {"as7716_32xb", "as7712_32x_sfp"}
        /\ op' = [op EXCEPT ![p] = "access"]
        /\ \E v \in {0, 1} : want' = [want EXCEPT ![p] = v]
  /\ NoAnswer
  /\ UNCHANGED <<drv, file, chip, seen, tries, held, stored>>

\* mutex_lock of update_lock.  A store in the memory of AS7716-32XB and access
\* read nothing first.
\* Mutant: nobody asks who holds the lock.
LockIgnored(p) ==
  /\ pc[p] = "lock"
  /\ held' = held \cup {p}
  /\ tries' = [tries EXCEPT ![p] = Tries(drv)]
  /\ pc' = [pc EXCEPT ![p] = IF op[p] = "access" \/ (drv = "as7716_32xb" /\ op[p] = "store")
                             THEN "write" ELSE "read"]
  /\ NoAnswer
  /\ UNCHANGED <<drv, file, chip, op, want, seen, stored>>

Lock(p) ==
  /\ pc[p] = "lock"
  /\ \A q \in held : ~SameLock(drv, file[p], file[q])
  /\ held' = held \cup {p}
  /\ tries' = [tries EXCEPT ![p] = Tries(drv)]
  /\ pc' = [pc EXCEPT ![p] = IF op[p] = "access" \/ (drv = "as7716_32xb" /\ op[p] = "store")
                             THEN "write" ELSE "read"]
  /\ NoAnswer
  /\ UNCHANGED <<drv, file, chip, op, want, seen, stored>>

\* The operation returns: mutex_unlock, and the process is done.
Return(p) ==
  /\ held' = held \ {p}
  /\ pc' = [pc EXCEPT ![p] = "idle"]
  /\ tries' = [tries EXCEPT ![p] = 0]
  /\ seen' = [seen EXCEPT ![p] = {}]
  /\ op' = [op EXCEPT ![p] = "show"]
  /\ want' = [want EXCEPT ![p] = 0]

\* With a register read as byte, a show answers and a store goes on.
Use(p, byte) ==
  IF op[p] = "show"
  THEN /\ shown' = [q \in Actor |->
                      IF q = p THEN ValueOf(Shows(p).bit \in byte, ShowInverts(drv, file[p]))
                      ELSE None]
       /\ Return(p)
  ELSE /\ seen' = [seen EXCEPT ![p] = byte]
       /\ tries' = [tries EXCEPT ![p] = Tries(drv)]
       /\ pc' = [pc EXCEPT ![p] = "write"]
       /\ NoAnswer
       /\ UNCHANGED <<op, want, held>>

Read(p) ==
  /\ pc[p] = "read"
  /\ Use(p, chip[Place(Target(p))])
  /\ UNCHANGED <<drv, file, chip, stored>>

\* A transfer fails and is tried again.
Retry(p) ==
  /\ tries[p] > 1
  /\ tries' = [tries EXCEPT ![p] = @ - 1]
  /\ NoAnswer
  /\ UNCHANGED <<pc, op, want, seen, held>>

\* What a driver makes of the last failed read.  The shared driver keeps the
\* error number as if it were the register, in an int or a u8; so does a store
\* of the port device, while its show has cleared the bits it collects.
GoesOn(p) ==
  \/ drv \in Models /\ \E byte \in ErrnoBytes : Use(p, byte)
  \/ drv = "as7712_32x_sfp" /\ op[p] = "store" /\ \E byte \in ErrnoBytes : Use(p, byte)
  \/ drv = "as7712_32x_sfp" /\ op[p] = "show" /\ Use(p, {})

ReadFails(p) ==
  /\ pc[p] = "read"
  /\ drv # "as7716_32xb"
  /\ \/ Retry(p)
     \/ tries[p] = 1 /\ Careful(drv) /\ Return(p) /\ NoAnswer
     \/ tries[p] = 1 /\ ~Careful(drv) /\ GoesOn(p)
  /\ UNCHANGED <<drv, file, chip, stored>>

\* What the write puts in the register.
\* Mutant: a store writes its bit alone.
NewByteBlank(p) ==
  CASE op[p] = "access" -> IF want[p] = 1 THEN 0..7 ELSE {}
    [] op[p] = "store" -> IF BitOf(want[p], StoreInverts(drv, file[p])) THEN {Stores(p).bit} ELSE {}

NewByte(p) ==
  CASE op[p] = "access" -> IF want[p] = 1 THEN 0..7 ELSE {}
    [] op[p] = "store" /\ BitOf(want[p], StoreInverts(drv, file[p])) -> seen[p] \cup {Stores(p).bit}
    [] op[p] = "store" /\ ~BitOf(want[p], StoreInverts(drv, file[p])) -> seen[p] \ {Stores(p).bit}

Put(p) == chip' = [chip EXCEPT ![Place(Stores(p))] = NewByte(p)]

\* What is known of the files after process p wrote: the value it was told to
\* store, and nothing of the files in a register access has overwritten.
Known(p, v) ==
  [f \in OpenFiles |->
     IF op[p] = "store" /\ f = file[p] THEN v
     ELSE IF op[p] = "access" /\ Place(StoredAt(drv, f)) = Place(Stores(p)) THEN None
     ELSE stored[f]]

Write(p) ==
  /\ pc[p] = "write"
  /\ Put(p)
  /\ stored' = Known(p, want[p])
  /\ Return(p)
  /\ NoAnswer
  /\ UNCHANGED <<drv, file>>

\* A write that is reported to fail may have reached the register.  The port
\* device does not look and returns as if all were well.
WriteFails(p) ==
  /\ pc[p] = "write"
  /\ drv # "as7716_32xb"
  /\ Put(p) \/ UNCHANGED chip
  /\ Retry(p) \/ (tries[p] = 1 /\ Return(p) /\ NoAnswer)
  /\ stored' = Known(p, IF drv = "as7712_32x_sfp" THEN want[p] ELSE None)
  /\ UNCHANGED <<drv, file>>

\* A step of the operation process p is in.
Step(p) == Lock(p) \/ Read(p) \/ ReadFails(p) \/ Write(p) \/ WriteFails(p)

Next == \E p \in Actor : Call(p) \/ Step(p)

Spec == Init /\ [][Next]_vars

-----------------------------------------------------------------------------
(* Properties.                                                               *)

\* A bit has the value that was last stored in its file, whoever stored in
\* other files of the register meanwhile and whatever transfers failed: the
\* lock is held from the read to the write.  A store whose result is not known
\* (it failed) or that access overwrote promises nothing.
NoLostUpdate ==
  Careful(drv) =>
    \A f \in OpenFiles : stored[f] # None =>
      (StoredAt(drv, f).bit \in chip[Place(StoredAt(drv, f))])
        = BitOf(stored[f], StoreInverts(drv, f))

\* A store changes no bit but the one of its file, even when transfers fail
\* and are tried again: the resets and transmit disables of the other ports
\* of the register stay as they are.
OnlyOwnBit ==
  [][Careful(drv) =>
       \A r \in DOMAIN chip :
         \A b \in (chip[r] \ chip'[r]) \cup (chip'[r] \ chip[r]) :
           \E p \in Actor : /\ pc[p] = "write"
                            /\ op[p] = "access" \/ Stores(p) = At(r.dev, r.reg, b)]_vars

\* What was stored in a file is what a show of it answers.  It is not so for
\* module_reset of AS7312-54X, whose show looks at the bit of another port,
\* and of AS7726-32X, whose store clears the bit the show does not invert.
ShownIsStored ==
  [][Careful(drv) =>
       \A p \in Actor :
         LET f == file[p]
         IN  (/\ ~(drv \in {"as7312_54x", "as7726_32x"} /\ f.kind = "reset")
              /\ shown'[p] # None /\ stored[f] # None)
             => shown'[p] = stored[f]]_vars

show_present_all(d, dev) ==
  CASE d = "as7312_54x"  -> as7312_54x_show_present_all(dev)
    [] d = "as7326_56x"  -> as7326_56x_show_present_all(dev)
    [] d = "as7726_32x"  -> as7726_32x_show_present_all(dev)
    [] d = "as7716_32x"  -> as7716_32x_show_present_all(dev)
    [] d = "as7716_32xb" -> as7716_32xb_show_present_all(dev)
    [] d = "as6712_32x"  -> as6712_32x_show_present_all(dev)
    [] d \in Models      -> common_show_presnet_all(d, dev)

show_rxlos_all(d, dev) ==
  CASE d = "as7312_54x" -> as7312_54x_show_rxlos_all(dev)
    [] d = "as7326_56x" -> as7326_56x_show_rxlos_all(dev)
    [] d = "as7726_32x" -> as7726_32x_show_rxlos_all(dev)

Line(d, kind, dev) == IF kind = "present" THEN show_present_all(d, dev) ELSE show_rxlos_all(d, dev)

\* The ports a device of the driver has files of a kind for.
PortsOf(d, kind, dev) ==
  {f.port : f \in {g \in attributes(d) : g.kind = kind /\ ShownAt(d, g).dev = dev}}

Rank(S, p) == Cardinality({q \in S : q <= p})

\* Where the file f of a driver is in the line of all ports of its device.
InLine(d, f) ==
  LET dev == ShownAt(d, f).dev
  IN  Line(d, f.kind, dev)[Rank(PortsOf(d, f.kind, dev), f.port)] = ShownAt(d, f)

\* The files of a driver that are in a line as well.
LineFiles(d) == {f \in attributes(d) : f.kind \in {"present", "rxlos"}}

InOrder == {d \in AllDrivers \ {"as7712_32x_sfp"} : \A f \in LineFiles(d) : InLine(d, f)}

\* The drivers whose line is complemented where, and only where, the files are.
SameValues ==
  {d \in AllDrivers : \A f \in LineFiles(d) : LineInverts(d, f.kind) = ShowInverts(d, f)}

\* module_present_all and rx_los_all give in one line, in the order of the
\* ports, the bits the files module_present_n and module_rx_los_n of a CPLD
\* give one by one, and with the values of the files: line and files are read
\* through tables of their own, and complemented in places of their own.  The
\* line of the shared driver has the bits in order but is the complement of its
\* files, which invert what the line does not.  (For AS7326-56X and AS7816-64X
\* the line is made of other registers; on AS7716-32XB the files of the ports
\* are not those of the CPLD; the driver gives AS7312-54X no files of ports.)
AllInOrder ==
  /\ drv \in {"as7312_54x", "as7726_32x", "as7716_32x", "as6712_32x"} => drv \in InOrder \cap SameValues
  /\ drv \in {"cpld_as7712", "cpld_as7716"} => drv \in InOrder \ SameValues

\* "Return values 1 -> 56 in order", of the lines of all ports on AS7326-56X.
ReturnsValuesInOrder == drv = "as7326_56x" => drv \in InOrder

-----------------------------------------------------------------------------
(* The inductive invariant behind OnlyOwnBit and NoLostUpdate.               *)

FileInv ==
  /\ DOMAIN pc = Actor /\ DOMAIN op = Actor /\ DOMAIN seen = Actor
  /\ \A p \in Actor : file[p] \in attributes(drv) /\ Writable(drv, file[p])
  /\ \A p \in Actor : op[p] \in {"show", "store", "access"}
  /\ DOMAIN chip = Places(drv, OpenFiles)

\* Who reads or writes a register holds the lock of its device, alone.
LockInv ==
  /\ held = {p \in Actor : pc[p] \in {"read", "write"}}
  /\ \A p, q \in held : p # q => ~SameLock(drv, file[p], file[q])

\* The register a store is about to write is as it has read it, but for the
\* bit of its file, which a failed write may have put there already.
SeenInv ==
  \A p \in Actor : pc[p] = "write" =>
    /\ op[p] \in {"store", "access"}
    /\ op[p] = "store" =>
         chip[Place(Stores(p))] \ {Stores(p).bit} = seen[p] \ {Stores(p).bit}

\* A store in the memory of AS7716-32XB reads nothing and writes its cell whole.
MemoryInv ==
  drv = "as7716_32xb" =>
    /\ \A p \in Actor : op[p] # "access" /\ seen[p] = {} /\ (pc[p] = "read" => op[p] = "show")
    /\ \A r \in DOMAIN chip : chip[r] \subseteq {0}

IInv == FileInv /\ (Careful(drv) => LockInv /\ SeenInv /\ MemoryInv)

\* What NoLostUpdate and ShownIsStored need besides: that the values are bits.
StoredInv ==
  /\ want \in [Actor -> {0, 1}]
  /\ \A f \in OpenFiles : stored[f] \in {0, 1, None}
=============================================================================
