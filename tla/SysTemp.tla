------------------------------- MODULE SysTemp -------------------------------
(***************************************************************************)
(* The sys_temp node of six fan drivers (get_sys_temp): the sum of the      *)
(* LM75 sensors of the board.  The sum and the number of sensors found are  *)
(* fields of the driver's one structure, not local variables: a reader      *)
(* clears them, walks all i2c devices, and looks at what has become of      *)
(* them.  Only the walk is under a lock, the one of the i2c core.           *)
(***************************************************************************)
EXTENDS Integers, FiniteSets

CONSTANTS
  Readers,   \* processes that read the node
  Boards,    \* the boards a run looks at
  OtherLm75, \* addresses of LM75 devices that are not among a board's sensors
  Temps,     \* what an LM75 may show, in 1/1000 degree
  Garbage,   \* numbers that may stand on the stack where a reading should be
  NoOne

ASSUME ReadersAssumption == NoOne \notin Readers
\* The register of an LM75 has 16 bits, in 1/256 degree.
Hottest == 128000
ASSUME TempsAssumption == \A t \in Temps : t \in Int /\ t <= Hottest /\ t + Hottest >= 0
ASSUME BoardsAssumption ==
  Boards \subseteq {"as7312_54x", "as7326_56x", "as7712_32x", "as7716_32x", "as7716_32xb",
                    "as7726_32x"}

INT_MAX == 2147483647
INT_MIN == -INT_MAX - 1

ASSUME GarbageAssumption == Garbage \subseteq INT_MIN..INT_MAX

\* An int that is added to wraps around (the kernel is built so).
Plus(a, t) == IF t > 0 /\ a > INT_MAX - t THEN ((a - INT_MAX) + (t - INT_MAX)) - 2
              ELSE IF t < 0 /\ a < INT_MIN - t THEN ((a + INT_MAX) + (t + INT_MAX)) + 2
              ELSE a + t

AnyAddress == 0..127

-----------------------------------------------------------------------------
(* How the drivers differ: the number of sensors that make a sum, the       *)
(* addresses that are looked at, and what is shown when one is missing.     *)

Sensors(number, addrs, missing) ==
  [NUM_THERMAL_SENSORS |-> number, THERMAL_SENSORS_ADDRS |-> addrs, missing |-> missing]

as7312_54x  == Sensors(3, 72..74, INT_MAX)
as7326_56x  == Sensors(3, 72..74, INT_MAX)
as7712_32x  == Sensors(3, 72..74, INT_MAX)
as7726_32x  == Sensors(5, 72..76, INT_MAX)
as7716_32x  == Sensors(3, AnyAddress, 0)
as7716_32xb == Sensors(3, AnyAddress, 0)

Of(b) ==
  CASE b = "as7312_54x"  -> as7312_54x
    [] b = "as7326_56x"  -> as7326_56x
    [] b = "as7712_32x"  -> as7712_32x
    [] b = "as7726_32x"  -> as7726_32x
    [] b = "as7716_32x"  -> as7716_32x
    [] b = "as7716_32xb" -> as7716_32xb

NUM_THERMAL_SENSORS(b) == Of(b).NUM_THERMAL_SENSORS
lm75_addr_mached(b, addr) == addr \in Of(b).THERMAL_SENSORS_ADDRS

\* The LM75 devices of a board: the drivers that look at no address are for
\* boards that have no others.
Lm75(b) ==
  (72..(71 + NUM_THERMAL_SENSORS(b)))
    \cup (IF Of(b).THERMAL_SENSORS_ADDRS = AnyAddress THEN {} ELSE OtherLm75)

-----------------------------------------------------------------------------
VARIABLES
  board,
  system_temp,
  sensors_found,
  core_lock,  \* the mutex i2c_for_each_dev walks under
  pc,
  left,       \* the LM75 devices the walk has still to visit
  own,        \* history: what the walk of each reader finds: [sum, count]
  overlapped, \* history: the readers whose last read met another one
  garbled     \* history: the readers whose last walk took something for a reading
              \* that none of the board's sensors had shown

vars == <<board, system_temp, sensors_found, core_lock, pc, left, own, overlapped, garbled>>

Nothing == [sum |-> 0, count |-> 0]

Init ==
  /\ board \in Boards
  /\ system_temp = 0 /\ sensors_found = 0
  /\ core_lock = NoOne
  /\ pc = [r \in Readers |-> "idle"]
  /\ left = {}
  /\ own = [r \in Readers |-> Nothing]
  /\ overlapped = Readers /\ garbled = {}

Goto(r, label) == pc' = [pc EXCEPT ![r] = label]

Busy(r) == {o \in Readers \ {r} : pc[o] # "idle"}

Meets(r) ==
  overlapped' = IF Busy(r) = {} THEN overlapped \ {r} ELSE overlapped \cup Busy(r) \cup {r}

\* Mutant: the count of sensors goes on from the last read.
ClearSumOnly(r) ==
  /\ pc[r] = "idle"
  /\ system_temp' = 0
  /\ own' = [own EXCEPT ![r] = Nothing]
  /\ Meets(r) /\ garbled' = garbled \ {r}
  /\ Goto(r, "walk")
  /\ UNCHANGED <<board, sensors_found, core_lock, left>>

Clear(r) ==
  /\ pc[r] = "idle"
  /\ system_temp' = 0 /\ sensors_found' = 0
  /\ own' = [own EXCEPT ![r] = Nothing]
  /\ Meets(r) /\ garbled' = garbled \ {r}
  /\ Goto(r, "walk")
  /\ UNCHANGED <<board, core_lock, left>>

StartWalk(r) ==
  /\ pc[r] = "walk"
  /\ core_lock = NoOne
  /\ core_lock' = r
  /\ left' = Lm75(board)
  /\ Goto(r, "visit")
  /\ UNCHANGED <<board, system_temp, sensors_found, own, overlapped, garbled>>

\* What is got out of an LM75, as a set of at most one reading.  When its data
\* is due its file is looked for and read.  A file that cannot be opened, is
\* empty or holds no number gives nothing; but a path that was not found is used
\* all the same, and a read that fails (fan.c:482 tests for 0 only) leaves the
\* buffer as it was on the stack, and what stands there is scanned.  When the
\* data is not due, get_lm75_temp takes the register the lm75 driver keeps,
\* which cannot fail.
Reading(value, real) == [temp |-> value, real |-> real]

read_devfile_temp1_input ==
  {{}} \cup {{Reading(t, TRUE)} : t \in Temps} \cup {{Reading(g, FALSE)} : g \in Garbage}
get_lm75_temp == {{Reading(t, TRUE)} : t \in Temps}
is_lm75_data_due == BOOLEAN

\* _find_lm75_device: one reading more.
Found(r, m) ==
  /\ system_temp' = Plus(system_temp, m.temp)
  /\ sensors_found' = sensors_found + 1
  /\ own' = IF m.real THEN [own EXCEPT ![r] = [sum |-> @.sum + m.temp, count |-> @.count + 1]]
            ELSE own
  /\ garbled' = IF m.real THEN garbled ELSE garbled \cup {r}

(* A device on an address that is not the board's, or one whose file gives    *)
(* nothing, is passed over.                                                   *)
Visit(r) ==
  /\ pc[r] = "visit"
  /\ \E addr \in left, due \in is_lm75_data_due :
       /\ left' = left \ {addr}
       /\ \E got \in IF ~lm75_addr_mached(board, addr) THEN {{}}
                     ELSE IF due THEN read_devfile_temp1_input ELSE get_lm75_temp :
            \/ /\ got = {}
               /\ UNCHANGED <<system_temp, sensors_found, own, garbled>>
            \/ \E m \in got : Found(r, m)
  /\ UNCHANGED <<board, core_lock, pc, overlapped>>

\* Mutant: the walk ends with the mutex held.
EndWalkLocked(r) ==
  /\ pc[r] = "visit"
  /\ left = {}
  /\ Goto(r, "check")
  /\ UNCHANGED <<board, system_temp, sensors_found, core_lock, left, own, overlapped, garbled>>

EndWalk(r) ==
  /\ pc[r] = "visit"
  /\ left = {}
  /\ core_lock' = NoOne
  /\ Goto(r, "check")
  /\ UNCHANGED <<board, system_temp, sensors_found, left, own, overlapped, garbled>>

Check(r) ==
  /\ pc[r] = "check"
  /\ system_temp' = IF NUM_THERMAL_SENSORS(board) # sensors_found
                    THEN Of(board).missing ELSE system_temp
  /\ Goto(r, "answer")
  /\ UNCHANGED <<board, sensors_found, core_lock, left, own, overlapped, garbled>>

\* What is printed is the sum as it is now.
Answer(r) ==
  /\ pc[r] = "answer"
  /\ own' = [own EXCEPT ![r] = Nothing]
  /\ Goto(r, "idle")
  /\ UNCHANGED <<board, system_temp, sensors_found, core_lock, left, overlapped, garbled>>

get_sys_temp(r) ==
  Clear(r) \/ StartWalk(r) \/ Visit(r) \/ EndWalk(r) \/ Check(r) \/ Answer(r)

Next == \E r \in Readers : get_sys_temp(r)

Spec == Init /\ [][Next]_vars

-----------------------------------------------------------------------------
(* Properties.                                                             *)

\* The shape of the state: the one type invariant of the module.  The mutex of
\* the i2c core is held exactly by the reader that walks.
TypeOK ==
  /\ board \in Boards
  /\ system_temp \in Int /\ sensors_found \in Nat
  /\ pc \in [Readers -> {"idle", "walk", "visit", "check", "answer"}]
  /\ \A r \in Readers : pc[r] = "visit" <=> core_lock = r
  /\ left \subseteq Lm75(board) /\ overlapped \subseteq Readers /\ garbled \subseteq Readers
  /\ own \in [Readers -> [sum : Int, count : 0..NUM_THERMAL_SENSORS(board)]]

\* accton_as7716_32x_fan.c:573 and its copies: "Find all lm75 devices and
\* return sum of temperatures."  What a reader prints is the sum of all the
\* board's sensors as its walk read them, or the mark for a missing one.
Right(r) ==
  system_temp = IF own[r].count = NUM_THERMAL_SENSORS(board)
                THEN own[r].sum ELSE Of(board).missing

ReturnsSum == \A r \in Readers : pc[r] = "answer" => Right(r)

\* The same for a read that met no other and read what sensors showed: whatever
\* earlier reads, overlapping, garbled or not, left in the shared sum and count
\* does not reach it.
AloneReturnsSum ==
  \A r \in Readers \ (overlapped \cup garbled) : pc[r] = "answer" => Right(r)

-----------------------------------------------------------------------------
(* The inductive invariant behind AloneReturnsSum.                          *)

BoardSensors(b) == 72..(71 + NUM_THERMAL_SENSORS(b))

\* A walk finds no more sensors than it has passed, and their sum is so small
\* that an int does not wrap around.
WalkInv ==
  \A r \in Readers :
    /\ own[r].sum <= Hottest * own[r].count /\ own[r].sum + Hottest * own[r].count >= 0
    /\ pc[r] = "walk" => own[r].count = 0
    /\ pc[r] = "visit" =>
         own[r].count + Cardinality(left \cap BoardSensors(board)) <= NUM_THERMAL_SENSORS(board)

\* A reader that met no other is the only one that is not idle, and what is
\* shared is what it found itself.
AloneInv ==
  \A r \in Readers \ overlapped : pc[r] # "idle" =>
    /\ \A o \in Readers \ {r} : pc[o] = "idle"
    /\ pc[r] # "answer" /\ r \notin garbled =>
         system_temp = own[r].sum /\ sensors_found = own[r].count

IInv == TypeOK /\ WalkInv /\ AloneInv /\ AloneReturnsSum
=============================================================================
