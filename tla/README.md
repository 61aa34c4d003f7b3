# SONiC platform modules for Accton switches: TLA+ models

The repository holds, for each of twelve Accton switches, the Linux drivers of
the board's CPLDs, fans, power supplies, LEDs and optical cages (`modules/*.c`),
the Python classes that read and write their sysfs nodes (`classes/*.py`), an
installer and command line (`utils/*_util.py`), the daemons that control the
fans and watch for alarms (`utils/*_monitor*.py`), and the systemd units that
start them (`service/*`). This directory models the parts of it that hold state
and meet concurrency or failure, checks the models with TLC on small instances,
and proves what matters most with TLAPS.

## 1. The system

| part | state it keeps | operations | meets |
|---|---|---|---|
| fan control daemon | remembered temperature and duty (AS5712), or none at all (the others read the duty back) | one pass of `manage_fans` a second (ten seconds on AS6712, AS7312, AS7816): temperatures, faults, choice, write | the fan driver (through sysfs), an operator who writes the same node, systemd |
| fan driver | a cache of the fan registers, `valid`, `last_updated`, `update_lock` | show a node (refreshing the cache when it is 1.5 s old), set the duty | daemon, other readers, the CPLD |
| `sys_temp` node | two accumulators in the driver's structure | one walk over all i2c devices | every reader of the node |
| optoe (module EEPROM) | `dev_class`, a lock; the page register is in the module | read, write, set the class | callers of the file, the module, its exchange |
| CPLD and mux drivers | `last_chan`, `update_lock` for each client, `list_lock` over all; for every port, the place of its bits in tables | select and deselect a channel, show and change a bit of a register, lines of all ports, exported read and write | the fan, PSU, LED and SFP drivers, the i2c core |
| SFP drivers | presence and EEPROM caches for each port | refresh, transmit disable, reset, low power | CPLD drivers |
| PSU and PMBus drivers | a cache of registers, each with its own error | refresh, show in fixed-point formats | i2c |
| LED drivers | cached registers that several LEDs share | set and get colour, probe | CPLD drivers |
| alarm daemons | last alarm state of each fan, PSU, sensor | poll, log on an edge | driver nodes |
| management controller path (AS7716-32XB) | caches that a user process fills | poll IPMI, write nodes | `drv_handler`, drivers |
| installers | which modules and devices exist | install, clean, set | kernel, systemd |

They interact through function calls (drivers), through sysfs nodes (daemons and
command line to drivers), through the i2c bus they share, and through systemd,
which runs the installer and then the daemon and does not restart it.

What is hard in this code:
* several processes in one driver, with state tested or changed outside the
  lock (`valid`, the sums of `sys_temp`);
* a snapshot that outlives the write that made it stale;
* i2c accesses that fail at any point of a sequence, and the state left then;
* control loops whose decision rests on what an earlier pass left, over long
  sequences of temperatures, faults and lost writes;
* byte arithmetic between a percentage and a register;
* the page register of a module, which nobody may assume when a restore failed
  or the module was exchanged;
* registers shared by eight ports or several LEDs, changed by read, change and
  write;
* tables: the place of a port's bit, a LED's mode, a refresh's cells, each
  written down twice or more for each of a dozen boards;
* probes that fail after some of their steps, and files in use while a driver
  goes.

`PROJECT.json` lists every component, modelled or not, and under `hazards` each
of these at its line with the properties that watch over it.

What makes each component correct:
* daemons: the fans are never left too slow for the temperature that was read or
  for a fault, and they are not slowed down without reason;
* fan drivers: a cache marked valid is one complete reading; it becomes current;
  readers always return; a duty reads back as what was set;
* optoe: bytes move through the page their offset lies in; the result tells what
  moved; calls return;
* mux: a transfer sees the channel it asked for and no other;
* register writers: nobody's bit is lost; calls return;
* port files: what is stored is what is shown, and lines of all ports agree with
  the files of each;
* drivers with a cache: what is valid is what the device has, a show answers what
  was stored, and nothing is shown that was never read;
* modules: probe and init undo exactly what they did, and whoever is inside finds
  what he uses.

## 2. Modules

| module | models | builds on |
|---|---|---|
| `FanMonitor5712` | `accton_as5712_monitor.py`, `FanUtil`, `ThermalUtil` | |
| `FanDriver5712` | `accton_as5712_54x_fan.c`, with every register access a step | |
| `FanControl7716` | `accton_as7716_monitor.py` composed with `accton_as7716_32x_fan.c` | |
| `FanPolicies` | the monitors of AS6712-32X, AS7312-54X and AS7816-64X composed with their fan drivers | |
| `SysTemp` | `get_sys_temp` of six fan drivers | |
| `Optoe` | `optoe.c` | |
| `CpldMux5712` | `i2c-mux-accton_as5712_54x_cpld.c` | instance of `ChannelRegisters` |
| `ChannelRegisters` | what its files promise: registers whose bits are set one at a time | |
| `PortTables` | files of ports and the registers and bits they stand for, of every CPLD driver | |
| `CpldPorts` | show, store and access of those files, concurrently and with failing transfers | `PortTables` |
| `CacheSteps` | the statements a driver with a cache is written in | |
| `LedTables`, `CacheTables`, `PmbusTables` | the refresh and the files of ten LED drivers; of fan and PSU drivers; of the PMBus drivers and those of AS7716-32XB | `CacheSteps` |
| `CacheRules` | all of them in one table, and the rules their functions keep | the three |
| `CachedDrivers` | runs them: two processes, one statement at a time, a device that changes, accesses that fail | `CacheRules` |
| `DriverTables` | what init, probe, remove and exit of each driver acquire and give back, and where a failure goes | |
| `DriverLifecycle` | load, probe, use, delete and unload, with any step failing | `DriverTables` |
| `MC*` | the small values of each run | the module checked |
| `*_proofs` | theorems (`Fan5712_proofs`: of the driver and the daemon of the AS5712-54X; `Thermal_proofs`: of `SysTemp` and `FanPolicies`) | the modules proved about |

A module of tables says how the drivers of a kind differ, in one record or
operator for each, and one specification says what they do with it. A behaviour
chooses its driver (`drv`) once, in `Init`.

Actions carry the name of the function, or of the step of it, that they model;
`map` in `PROJECT.json` gives the lines of each definition. Operators whose
comment begins with "Mutant" are plausible errors: each shows that a property can
be broken, and none is part of a specification.

### FanMonitor5712

`stage` walks through one pass: `sleep`, `temp2`, `fan`, `policy`, `set`; `dead`
once an exception ended the process. `ori_temp`, `new_perc`, `ori_perc` are the
class variables. The readings are arbitrary members of their sets, which covers
whatever the driver may answer: a stale value, or an empty line, which
`_get_fan_node_val` turns into `None`. `hwDuty` is what the fans really do: a
write may be lost, an operator may write past the daemon, and a restart forgets
everything but `hwDuty`. `AdequateDuty` speaks of the duty the daemon remembers,
`FansAdequate` of `hwDuty`: it holds but while a lost write or an operator's duty
stands, which `parted` (history) says; a lost write is not tried again.

### FanDriver5712

A reader takes `update_lock`, uses the cache (`CacheHit`) or refreshes it
(`StartRefresh`, four register reads, then for each fan `StoreFan` and the
tachometers), and tests `valid` after the lock is gone. A writer writes the
register and clears `valid` without the lock. Any register may change, any access
may fail. The fan direction and the tachometer values follow the path of the
fault bits and are left out; the fact that reading them may fail is kept.
`expired` stands for `time_after(jiffies, last_updated + HZ + HZ / 2)`.

### FanControl7716

The daemon holds no state between passes: each pass reads the duty back through
the driver, finds its row and moves by at most one. So the two roundings of the
driver, the snapshot a write does not invalidate and the search for the row
belong to one specification. A refresh is one step here, and the three
temperatures are read in one step; the locking inside a refresh is the one of
`FanDriver5712`. The daemon reads the duty, each fault and the direction in
separate steps, between which the snapshot may be refreshed, age, or fail. The
exceptions that end the process (`None + int`, `int('')`, the key -1) are modelled;
`NodeMissing` is a node that cannot be opened, whose duty is `False`, whose fan is
taken to turn and whose direction is `None`; `Restart` is systemd when it is told to
start the unit. `pwm1_enable` is left out.

### FanPolicies

`stage` is where `manage_fans` is: `fan`, with a fault `fault`; `dir`, the direction;
`single`, the sensors one by one; `duty`, what the driver shows; `sum`, of all sensors;
`set`, the write; `dead` once an exception ended the process. The three daemons have the skeleton of the one above without its rows that move
by one: a fan that stands still means full speed, else a row of the table for the
sum (the average on AS7816) of the sensors and, on the other two boards, one for
each sensor alone. The duty is written only when the driver shows another one.
AS6712's driver invalidates its copy after a write, without the lock, so a
refresh under way undoes that; the other two do not invalidate it at all. A
direction that cannot be read counts as back to front; the driver of AS6712
does not even notice it (`Seen`). A sensor, or a duty node with nothing in it, ends the
process; a node that cannot be opened does not (`NodeMissing`): a duty of `False`
counts as 0. The daemon starts at full speed or at what `BootRegs` says the register
may hold. A fault of AS6712 is one of the first rotor, the only one `get_fan_status`
looks at. A refresh is one step, one reading of all sensors too; a sensor whose file is
found and cannot be opened is left out, and the watchdog register that two drivers
write before the duty.

### SysTemp

`system_temp` and `sensors_found` are fields of the one device structure. The
walk is serialised by the i2c core, what comes before and after it is not.
The boards differ in the number of sensors, the addresses looked at and the mark
for a sum that is not complete. A sensor whose file is empty or cannot be opened is
passed over (`Reading`); when reading it fails, the length is negative, which the code
does not test for, and whatever stands in the buffer on the stack is scanned
(`Garbage`). `overlapped` and `garbled` are history: the readers whose last read met
another one, and those that scanned such a buffer.

### Optoe

`loc` holds the local variables of the call that owns the lock. `Begin` is the
lock and `optoe_page_legal`, `NextChunk` the arithmetic of one piece,
`SelectPage`, `Transfer`, `TransferFails` and `RestorePage` are
`optoe_eeprom_update_client`. A page write that fails may have arrived, and the call
returns without putting the page back. `Swap` exchanges the module at any moment. `dirty`
is history: a page register is not where the driver meant to put it, after a page
write that failed, or because a caller wrote offset 127. `torn` is history: the module
was exchanged in the middle of the call. A transfer is modelled by where it goes
and how much it moves, and its 25 ms of retries as one answer; `UseSmbus` says how reads
are made, which matters to lengths above 32. A negative length is used as a `size_t`:
the piece goes on past the page and the buffer until a transfer fails, in the model
after `OverrunMax` bytes at the latest; a read by `i2c_transfer` of such a length
overwrites what follows the buffer. `oops` is that, and the use of a client that was never
created; it is left without a further step. `Aligned` names the requests whose pieces
are computed right: those that start in the first 128 bytes, at a chunk, or end in the
chunk they start in.

### CpldMux5712

A task is in one call at a time (`job`): a transfer on a channel, a file that
sets, clears or shows the bit of a port, the file `access`, or an exported
access of another driver. A transfer holds the bus from `TakeBus` to
`mux_deselect`; every other access to a register takes it for one step. A write
that fails may have arrived. `stray` is history: the last deselection of a mux
failed. The files of the three registers (transmit disable, low power, reset)
have the same code, so one register stands for each. `mux_remove` waits as the
kernel does until nobody is in a file or on a channel. The branch of the driver
for kernels from 4.7 on names functions that do not exist (lines 1258 and 1259)
and is not modelled. `ChannelRegisters` is the abstract specification of the
register, which the driver refines.

### CpldPorts

A process has one file open. A show locks the device, reads a register (ten
attempts in the code) and answers with a bit; a store reads, changes and writes
it under the same lock; `access` writes a register as it is told. `stored` is
history: the value that was stored last in each file, forgotten when a transfer
failed or `access` overwrote it. `SameLock` says which files share a lock: those of
one device, but one port only in the SFP driver of AS7712-32X. `Careful` names the
drivers that hold one lock over read and write and look at the result of the
read; the others are in the model too (the shared driver writes an error number
back as a register), and the properties of bits are not stated for them.
`AllInOrder` compares tables, of every driver whose line of all ports is made from
the registers its files look at: where each port's bit stands (`InOrder`), and, but for
the shared driver, whether it says what the file of the port says (`SameValues`). The
shared driver prints the register as it is, and its files of AS7712 and AS7716
invert it (accton_i2c_cpld.c:427 against :450), so that the line and the files are
complements; `LineInverts` says so.

### CachedDrivers

A driver is its refresh, a sequence of statements (`Read`, `Fetch`, `Store`, `Blank`,
`When`, ... of `CacheSteps`), and its files, each with the statements of a show and of
a store. A process runs them one at a time, under the lock where the driver has
it: `prog` is the show or store it is in, `at` its place there, `upd` its place in the
refresh, and conditions leave out the next `skip` statements. `opened` never changes: it
is the driver's refresh and the cells its open files are about. A cell is what one
register, or its bit for one unit, is read into; its value is a set of bits, of a
register of a LED the bits themselves and of all else whether it is 0. What a number means (a speed, a linear format, the
letters of a name) is left out. A read that fails gives up, goes on, blanks,
or stores the error number, as each driver does. `loose` is history: cells
in which cache and device may differ, because the device changed, a write went
past the lock, or an access failed. The drivers of AS7716-32XB are stores and
shows of memory. `stored` is history: the value a caller stored last in a file, wherever
the code put it; forgotten when the device changed or an access failed. `Lands` names
the stores that do not arrive in the cells their own file shows: the DIAG LED of
AS7712-32X, stores that are stubs, and on AS7716-32XB those that are dropped or that land
beside. Statements about cells that no open file is about are passed over
(`Onward`), so a run looks at a few cells of drivers that have hundreds.

`CacheRules` says what the functions of all forty-one drivers have in common: the refresh
reads or blanks every cell of the cache on every path that is not given up, marks the
cache as valid last and then lets go of the lock; shows and stores leave the
cells of the cache alone, but for a value put there under the lock and written next; a
write under the lock is followed by `valid = 0` or is of what was put; bits of a
register are replaced only under the lock and after a read that did not fail; a
store writes what its file shows as the value, and no bits of another. `RulesAreKept`
assumes it of the whole table, and TLC evaluates it there, statement by statement.

### DriverLifecycle

`held` is what the driver has acquired: registrations, allocations, files, list
nodes, adapters, LEDs. Each step of init and probe may fail, and what is undone
then is the list behind its label. Processes enter through what is held and
leave again; removing a file waits for those inside, as the kernel does for
sysfs, while the exported functions are left to their own lock. `StaysBehind` names
what some drivers never give back: seven fan drivers, two port drivers, optoe, and the
half-built array of attributes of Wedge100BF-65X, which a second `krealloc` that fails
leaves (`FailsHalfway`). The shared CPLD driver does not look at the results of
`add_attributes_cmn` and `add_attributes_portly`, so its probe goes on with an array that is short of
some; that the first `krealloc` failing leaves an unwritten entry in it is not
modelled. `ReadyLate` names those that link their data after the
files exist, `SaysAllIsWell` the two LED modules that return 0 whatever failed.

## 3. Runs

| run | states | shows |
|---|---|---|
| `monitor5712` | 1.3 M | `AdequateDuty`, `FansAdequate`, `NoUnsafeStepDown` |
| `driver5712` | 172 k | `ValidIsOneRefresh`, `NoneShownBeforeFilled`, `EventuallyCurrent`, `ReadReturns` |
| `control7716` | 254 k | `TypeOK`, `OnTable`, `HeatAnswered`, `FaultAnswered` |
| `policies` | 133 k | `DecidedIsShown`, `HeatAnswered`, `CoolsDown`, `FaultAnswered` |
| `systemp7716` | 1.4 M | `AloneReturnsSum` |
| `optoe` | 142 k | `RightPage`, `PageZeroAtRest`, `PieceLegal`, `NeverOverstated`, `InOrder`, `CallReturns` |
| `cpldmux5712` | 139 k | `OwnChannel`, `OtherMuxesOff`, `ExportedIsListed`, `RegistersAtomic` (a refinement), `CallReturns` |
| `cpldports` | 601 k | `NoLostUpdate`, `AllInOrder`, `OnlyOwnBit`, `ShownIsStored` |
| `lifecycle` | 3.6 k | `NothingLeft`, `FindsData`, `GivesBackOwn` |
| `caches` | 2.1 M | `TypeOK`, `ValidIsCurrent`, `ShownIsStored`, `KeepsWhatIsStored`, `ShownWasRead` |
| `systemp7716_two` | | finds `ReturnsSum` violated |
| `control7716_fault15` | | finds `FaultRegister15` violated |

Each property is stated in words above its definition.

Bounds. `FanMonitor5712` uses temperatures at and on both sides of the
thresholds, two fans and an operator: the daemon compares a temperature only
with the thresholds, with 0 and with the remembered one. `FanDriver5712` uses two
readers, one writer and two fans: a race needs two processes, a mixture two fans.
`FanControl7716` uses a sum of temperatures in the second row of the front to back
table and one above the limit of its last row, so that the fans go down and up through
the rows in between; one fan, which may stand still; and an operator whose duty 0 is
register 255. `SysTemp` uses two readers, every sensor cool or hot, an LM75 of something
else on one more address, and a stack on which a 0 stands, the value that looks most like
a sensor that is there and cold.
`Optoe` uses two callers and four requests: across the page register, from the
lower half over page 0 into the pages above, and at the end of the address
space, where one class refuses and the other trims; and one that starts inside a
later chunk and goes past its end, whose first piece is given a negative length.
Modules with and without pages; transfers of up to 64 bytes, so that a piece takes
several; pieces that overrun go on for 128 bytes, one page too far. `CpldMux5712` uses two muxes of two
channels, two tasks and two attempts instead of ten: the register files of one
CPLD, transfers on both. `FanPolicies` uses sums and averages at the end of the first row, on
a limit (AS7816-64X) and in the last rows, and one sensor that is hot by itself; two fans,
of which the second may stand still; an operator; fans that turn at full speed or at 5 when
the daemon starts, the default the comment of AS7816's names. At 35 degrees AS6712-32X does
otherwise than its comment says, so that value is left to a configuration of its own (below). `CpldPorts` takes every driver, two
processes, and ports at the edges of registers, devices and connectors, with two
attempts instead of ten: a lost update needs two writers, and the tables
(`AllInOrder`) are compared for all ports. `CachedDrivers` takes the twenty-two
drivers whose tables have a form of their own; those left out repeat the tables
of one of them with other addresses. Two files are open at most, chosen to share a
register, a cell or a lock. `DriverLifecycle` takes every driver and two processes.

Deadlock is checked in every run.

Fairness. Daemons loop for ever and a process inside a driver runs on (weak
fairness of its steps). A kernel mutex is handed to its waiters in order of
arrival, so a step that takes a lock is strongly fair. Time passes (`Expire` is
weakly fair). The liveness of `FanControl7716` also needs an i2c access that is
tried again and again to work once: strong fairness of a pass whose reads are
answered, and of a write that takes effect; `FaultAnswered` excludes a daemon that is started
anew over and over, `HeatAnswered` an operator who never stops too. `FanPolicies` needs less: a fault that
can be read is read once, and a write takes effect once; reads of temperature
and duty that fail end its process, and its properties speak of daemons that
live. Nothing is assumed of temperatures,
faults, operators or restarts: where a property needs them to settle it says so
as its premise.

### What the code does otherwise than it says

Each configuration below checks one sentence of the repository and TLC finds it
false. The first two are runs of `PROJECT.json`, the others are kept beside them:
`tlc -config <file>.cfg <module>`.

| configuration | property | sentence | what happens |
|---|---|---|---|
| `MCSysTemp_two.cfg` (run `systemp7716_two`) | `ReturnsSum` | as7716 fan.c:573 "return sum of temperatures" | two readers share one sum |
| `MCFanControl7716_fault15.cfg` (run `control7716_fault15`) | `FaultRegister15` | as7716 monitor:50 "If any fan fail, please fan speed register to 15" | the answer to a fault, duty 45, is register 6, slower than rows 3 and 4 |
| `MCSysTemp_unread.cfg` | `ReturnsSum` | as7716 fan.c:573 | a single reader: fan.c:482 tests a length for 0 only, and of a read that failed the stack is scanned |
| `MCFanControl7716_rows.cfg` | `OneRowAtATime` | as7716 monitor:56-62 "> 174 => set Fan speed value from 4 to 5", ... | the snapshot survives a write, the next pass decides from the row the fans have left, and moves them two rows |
| `MCFanControl7716_default.cfg` | `UnmatchedComesBack` | as7716 monitor:74-75 "If no matched fan speed is found from the policy, use FAN_DUTY_CYCLE_MIN as default speed" | the search ends with `x = 3`, the test for 4 is never true; after a fault was answered (register 6, read as 44) the fans keep that speed while it is hot |
| `MCFanControl7716_b2f.cfg` | `CoolsDownB2F` | as7716 monitor:68 "< 135 => set Fan speed value from 5 to 4" | the columns are shifted, the fans never slow down |
| `MCFanPolicies_limit.cfg` | `LimitAnswered` | as7816 monitor:52 "43<T<= 46 C, set fan speed to 9 (64.7%)" | at 46 degrees no row matches and the fans keep the speed of the first |
| `MCFanPolicies_as6712.cfg` | `At35Answered` | as6712 monitor:53 "If TMP>=35 ... All fans run with duty 50%" | the limit belongs to the lower row (line 167, `<=`): at 35 degrees the fans stay at 30 or 40 % |
| `MCOptoe_chunk.cfg` | `InOnePage` | optoe.c:266-267 offset "plus length must be less than or equal to 128" | `OPTOE_PAGE_SIZE - off` for a start inside a later chunk |
| `MCCpldPorts_order.cfg` | `ReturnsValuesInOrder` | as7326 accton_i2c_cpld.c:607 "Return values 1 -> 56 in order" | the line is made from the registers of transmit disable and loss of signal |
| `MCCachedDrivers_diag.cfg` | `LedColorIsSet` | as7712 util:122 "to set led color" | the map of registers holds `1 << type` and is searched for `type << 1`: nothing matches the DIAG LED, and its store writes whatever register number stands in the variable (leds-accton_as7712_32x.c:189, :284) |
| `MCDriverLifecycle_leds.cfg` | `OnlyRegistered` | leds-accton_as5712_54x.c:521 "only unregister the LEDs that were successfully registered" | the loop counts `j` and unregisters `i`, the one that failed, again and again |

Also seen while modelling, in the models but in no configuration of their own:
* as5712 fan.c:76 says of `valid` "!= 0 if registers are valid": a refresh that had read
  the old duty overwrites the invalidation of a write; 1.5 s later that is made good
  (`EventuallyCurrent`);
* optoe.c:669-672 "writes the page register as needed": not for page 0, after a
  restore that failed (`dirty` excuses it in `RightPage`);
* optoe.c:677 "amount transferred": a piece that comes short is returned alone;
* optoe.c:872-875: class 2 is accepted on a device with one client;
* the SFP driver of the AS5712-54X is not built and calls functions that exist
  nowhere;
* AS7712-32X's SFP driver has a lock for each port, but eight ports share the reset
  register: of two stores at the same time one is undone (`NoLostUpdate` without
  its premise, for this driver);
* shared CPLD driver: a register is kept in a `u8` before it is compared with 0
  (accton_i2c_cpld.c:428), and `set_1bit` writes the byte of an error number back;
  six bytes hold the presence of AS7816's sixty-four ports;
* `module_reset`: the show of AS7312-54X looks at the bit of another port, and the
  show of AS7726-32X is not the inverse of its store (`ShownIsStored` names both);
* the fan drivers of AS7312, AS7326, AS7712, AS7716, AS7726 and AS7816 never free
  their data in remove; two SFP drivers leak too, and Wedge100BF-65X when its array of attributes cannot grow
  (`StaysBehind`);
* the LED modules of AS7716-32X and AS7716-32XB return 0 from probe and init whatever
  failed; AS7712-32X's DIAG LED is cut to red by `max_brightness`;
* AS7716-32XB: the duty store rejects all above 1, the store of the rear speed falls
  through into presence, a fan is faulty only when both speeds are 0, `vout_min`
  shows `vin_max`, several stores are lost; its monitor is started by no unit;
* the model name of the AS5712-type power supplies is one buffer that is refreshed
  while another process prints it; AS7716's refresh ends when the name cannot be
  read, so presence shows an error too;
* the search for the present row in the monitors of AS6712 and AS7312 has no effect
  (the index is never the length of the table);
* the monitors of AS7326-56X and AS7726-32X are not loadable by Python.

## 4. Proofs

All proofs hold for every value of the constants under the named assumptions of
each module (`ASSUME ...Assumption`), which only say what the code relies on:
sets of integers, at least one fan and one sensor, `None` is no integer, a request
has a positive length, the legal classes, the boards and drivers the tables know.

* `Fan5712_proofs`. Of the driver, the invariant adds `LockInv` (a process is inside the
  refresh exactly while it holds the lock, and the cache is invalid all that
  time), `StoreInv` (the fans already stored hold what this refresh read) and
  `FilledInv`. From there `Coherent` and `NothingUnfilled`. Of the daemon, it adds
  `Remembered` (the last duty was adequate for the remembered temperature) and `Choice`
  (`_new_perc` and `_ori_perc` agree except between a choice and its write). The
  lemma that carries it is `CoolingCoversHeating`: at every temperature the cooling
  table asks for at least what the heating table asks. From there `Adequate` and, as an
  action property, `StepsDownSafely`. `Driven` says that the fans themselves turn as the daemon
  remembers, if it remembers anything, unless the two have `parted`: `FansFollow` then says of
  `hwDuty` what `Adequate` says of the memory. The types
  of both are proved and not listed in a run.
* `FanControl7716_proofs`. `RoundTrip`, that a duty of a table survives the two
  roundings, makes `OnTable` inductive together with the types.
* `Thermal_proofs`. The invariant adds `WalkInv` (a walk has found no more sensors
  than it has passed, so five temperatures at most, which an int holds) and `AloneInv` (a reader
  that met no other is the only one that is not idle, and what is shared is what it found
  itself, whether or not it scanned a buffer nothing was read into: only the sum of one that
  did is promised nothing). It assumes what the 16 bits of an LM75 can say (`lm75_reg_to_mc`). From
  there `Alone`, on each of the six boards. For the three daemons of `FanPolicies`,
  `DecideInv` says that what is about to be written is in a table of the board, though a
  sum that meets no row asks for what was read, and `StepsInv` that the register of
  AS6712 stays below 21, without which what it shows is not a percentage. `BothRoundings`
  goes through the tables; `MaxOfDuties` takes the maximum over the sensors. From
  there `PolicyTypeCorrect` and `DecidedShown`.
* `CpldPorts_proofs`. The invariant says who holds which lock (`LockInv`) and that a
  register about to be written is, but for one bit, as it was read (`SeenInv`; the bit may
  have arrived with an attempt that was reported to fail). `StoredAtBit` goes through the
  drivers. From there `OwnBitOnly`. `OneFileOneBit` (two writable files of a driver never
  share a bit) goes through the drivers' tables; two of them count registers from the
  numbers of an enumeration, a recursive function, which `NumberIs` takes from a numbering
  given row by row. With it `LastStoreStays`; with `ShownWhereStored` (a show looks at the
  bit a store writes, and inverts it when the store does) the action property `StoredIsShown`.
  `LinesInOrder` (places for all of the drivers, values for all but the shared one, whose lines are the complement): the files of a kind are one for each port (`FilesOfKind`), the place of a
  port on its line is its rank among the ports of its device (`RankIntervals`), and a line
  is two or three registers joined, so that the driver's tables are compared bit by bit.
* `Optoe_proofs`. The invariant adds `LockInv`, `CallInv` (a page above 0 is only
  looked at through the upper half), `PageInv` (a page is selected only around
  the transfers that need it, or `dirty` says why not) and `SelectedInv`. From there
  `Right` and `AtRest`, in which a page write that fails may have arrived. `AnyInv` holds
  for any request: what is done, and what a piece has moved of what it was told to, is what
  has really moved (`HonestOf`, `ReachOf`), and gives `Honest`, that no call claims more than
  it moved. `AlignedInv` adds, for requests that are `Aligned`, that what is done and what is
  pending is what was asked for (`CountOf`), and that the offset of a piece on its page
  is the place its bytes have in the flat file (`FlatInverse`, `OrderOf`). From there the
  second half of `Honest` (no more is moved than was asked), `Legal` (every page is one
  the module has, for any request; a piece lies in one page, for `Aligned` ones) and `Ordered`.
  For requests that are not `Aligned` these are false (section 3).
* `CpldMux5712_proofs`. The invariant adds `CallInv` (what a task does is what it
  called for, on a CPLD that exists), `LockInv` (who is inside holds the lock),
  `ChannelInv` (a channel is connected, or believed to be, only around a
  transfer or after a failed deselection) and `StatusInv` (the value a writer
  holds is one bit from the register, or has arrived). From there
  `OwnConnected`, `OthersOff`, `Listed`, and `Refines`: every step of the driver
  is a step of `ChannelRegisters` or changes no register.

* `DriverLifecycle_proofs`. `Orderly` says what the tables have in common: data is
  acquired before what is stored in it and before the ways users come by, and every
  list of things to give back (of remove, exit and each failed step) is a part of what is
  acquired by then, names nothing twice and frees what users need only after the
  ways to it. It is proved shape by shape, and `DriversOrderly` takes every driver
  to its shape. The invariant adds what may be held and what must be held at each
  point of a program (`HeldInv`) and that a way that is open has what its users need
  (`WaysInv`). `FailsHalfway` is the one step that fails with something in hand. From there `UndoneCompletely`, `UsersAreSafe` and `GivenBackOnce`. The
  hypothesis leaves out failures of LED registrations, after which the code does
  give back what it has not (`OnlyRegistered`, section 3).
* `CachedDrivers_proofs`. From the rules, for any choice of drivers, any number of
  processes and any files they open, all five properties of the run. A refresh is
  followed by what it has still to do: `Comes(r, i, c, kinds)` says that from place `i`
  on, whatever is left out, it does one of `kinds` to the cell `c`. `CacheInv` says that a
  cache that is valid, or is being filled to become so, agrees with the device
  in every cell but those that are loose or that who holds the lock has still to
  see to: the refresh to fill it, the store to write what it has put or to clear
  `valid`. It rests on `LocalInv` (what was fetched is what the device has, or is
  fetched again) and `PutInv` (what was put under the lock is there until it is
  written). From there `ValidStaysCurrent`. `GotInv` (a register of which some bits are
  replaced still is as it was read) gives `StoredStays`; `FilledInv` and `CheckedInv`
  (what was ever filled, and by which shows it is known) give `AnswersWereRead`;
  `CountsIs` says when a store begins to count: from its call when it does not write
  the cells of its own file (`ReachesItself`), else when it writes them.
  `SureInv` and `SureOfGot` (after `update_device`, or a read of the register, a show
  that nothing was written beside knows the device) give, with `StoredStays`,
  `StoredIsAnswered`. Both of these except the stores `Lands` names. `IInv` is the conjunction; its parts were checked by TLC on the
  values of the run `caches` before they were proved.

Only model-checked: all liveness, which the prover does not reach (of `FanPolicies` the
three other properties of its run). That the tables of the drivers with a cache keep
`CacheRules` compares constants, does not depend on the values of a run, and is
evaluated by TLC: its comparison of all of them is complete.

## 5. Not modelled

Components with status `not_modelled` in `PROJECT.json`:
* SFP drivers that are in no Makefile (AS5712-54X, AS7312-54X, AS7716-32X and -32XB);
* the monitors of AS7326-56X (accton_as7326_monitor.py:223) and AS7726-32X
  (thermalutil.py:73-74), which Python cannot load, and the alarm daemons, which
  log the edge of one node at a time;
* `drv_handler` and the monitor of AS7716-32XB: the first takes text apart, the second
  is started by no unit and writes to a node that moves no fan;
* installers and command lines: sequences of shell commands;
* packaging.

Parts of modelled components that are left out are in their notes; the largest are
the EEPROM files of the SFP drivers of AS7712-32X and AS7816-64X, the number
formats of the PMBus drivers, the kernel's PMBus core in `accton_pmbus_3y.c`, and
the text page of the Wedge sensor driver. The map covers half of the
implementation's lines.

## 6. Plan

Theorems next: the refinement of the abstract fan register below by `FanDriver5712`,
stated step by step as the proofs of `Fan5712_proofs` are; and that the driver inside
`FanControl7716` implements what `CachedDrivers` says of the same driver.

Modules: the EEPROM files of the SFP drivers with their retries over `CpldPorts`'
registers; PMBus number formats against a reference definition. Abstract
specifications worth stating: the fan driver as a register that answers either
with a past value not older than 1.5 s or with nothing (refined by
`FanDriver5712`); a page-free EEPROM, of which `InOrder` and `RightPage` together say the
part that is a state: the refinement by `Optoe` without exchanges and failed restores is
not stated.
