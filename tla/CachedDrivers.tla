---------------------------- MODULE CachedDrivers ----------------------------
(***************************************************************************)
(* What the drivers with a cache have in common, run for each of them: the  *)
(* cache of a device's registers, valid and its age, the lock, and calls of *)
(* show and store on the driver's files from several processes, one         *)
(* statement at a time.  The device changes by itself, and any access of it *)
(* may fail.                                                                *)
(***************************************************************************)
EXTENDS CacheRules

CONSTANTS Actor,        \* the processes that read and write the files
          Drivers,      \* the names of the drivers that are looked at
          Open(_),      \* the files of a driver they may open
          MaxChanges,   \* how often the device changes by itself
          ErrnoBits,    \* an error number, in a byte
          NoOne, None

ASSUME DriversAssumption ==
  /\ Drivers \subseteq DOMAIN Table
  /\ \A d \in Drivers : Open(d) \subseteq DOMAIN Table[d].files
ASSUME NoneAssumption ==
  /\ NoOne \notin Actor
  /\ \A d \in Drivers : \A f \in Open(d) : None \notin DOMAIN Table[d].files[f].set
ASSUME BoundsAssumption == ErrnoBits \subseteq AllBits /\ MaxChanges \in Nat

VARIABLES
  drv, file,   \* the driver, and the file each process has open
  opened,      \* of the driver: update_device, and the cells these files are about
  chip,        \* what the device has in the cells the open files are about
  cache,       \* and what the cache has of them
  local,       \* what was fetched into variables of the refresh
  valid, expired, lock,
  call,        \* what each process is at, and what it knows
  stored,      \* of each open file, the value a caller stored in it last, where-
               \* ever it was put, if nothing has changed the file since
  loose,       \* cells that may differ in cache and device: the device changed,
               \* was written without the lock, or failed
  filled,      \* cells that were ever put in the cache
  changes

cacheVars == <<cache, local, valid, expired, filled>>
fixed == <<drv, file, opened>>
vars == <<fixed, chip, cacheVars, lock, call, stored, loose, changes>>

Files == {file[p] : p \in Actor}
F(f) == Table[drv].files[f]
Mine(p) == F(file[p])
Opened == [refresh |-> Table[drv].refresh, watched |-> UNION {F(f).watch : f \in Files}]
Watched == opened.watched

\* update_device.
Refresh == opened.refresh

\* The cells it reads into the cache.
Cached == Watched \cap CellsOf(Refresh, {"read", "store"})

\* What a file shows of such values of its cells.
Shows(f, of) == ShownBy(F(f), of)

Answered(p) ==
  Shows(file[p], IF Mine(p).from = "got" THEN [c \in Watched |-> call[p].got] ELSE cache)

-----------------------------------------------------------------------------
\* Of a call: the statements of the show or the store, how far it has come in
\* them (0 outside of the driver) and in update_device (0 outside of that), the
\* register it has read, the value it is to store, and whether nothing happened
\* beside it that makes its answer one of two.
Idle == [prog |-> <<>>, at |-> 0, upd |-> 0, got |-> {}, want |-> None, sure |-> FALSE]

Init ==
  /\ drv \in Drivers
  /\ file \in [Actor -> Open(drv)]
  /\ opened = Opened
  /\ chip \in {[c \in Watched |-> IF OfLed(c) THEN {} ELSE v] : v \in {{}, One}}
  /\ cache = [c \in Watched |-> {}]
  /\ local = cache
  /\ valid = FALSE /\ expired = FALSE /\ lock = NoOne
  /\ call = [p \in Actor |-> Idle]
  /\ stored = [f \in Files |-> None]
  /\ loose = {} /\ filled = {} /\ changes = 0

Code(p) == IF call[p].upd = 0 THEN call[p].prog ELSE Refresh
Place(p) == IF call[p].upd = 0 THEN call[p].at ELSE call[p].upd
Step(p) ==
  IF call[p].upd = 0 THEN call[p].prog[call[p].at] ELSE Refresh[call[p].upd]
At(p, what) == call[p].at # 0 /\ Step(p).do = what

\* Statements about cells that no open file is about are passed over.
PassedOver(s) ==
  /\ s.do \in {"blank", "read", "fetch", "store", "when", "unlessall"}
  /\ s.cells # {} /\ s.cells \cap Watched = {}

\* Where code goes on from the place n: n or, past statements that are passed
\* over, the next place.
Onward(code, n) ==
  {m \in n..(Len(code) + 1) :
     /\ m \in DOMAIN code => ~PassedOver(code[m])
     /\ \A k \in n..(m - 1) : PassedOver(code[k])}

\* The call of p, at such a place of the show or store, or of where it is.
InProgram(p, m) ==
  IF m \in DOMAIN call[p].prog THEN [call[p] EXCEPT !.at = m, !.upd = 0] ELSE Idle
Moved(p, m) == IF call[p].upd = 0 THEN InProgram(p, m) ELSE [call[p] EXCEPT !.upd = m]

Alone(p, its) == call' = [call EXCEPT ![p] = its]

\* The same, where a show of another process may be of before or after.
Amid(p, its) ==
  call' = [q \in Actor |-> IF q = p THEN its ELSE [call[q] EXCEPT !.sure = FALSE]]

GoesTo(p, n) == \E m \in Onward(Code(p), n) : Alone(p, Moved(p, m))
Goes(p) == GoesTo(p, Place(p) + 1)
GoesAmid(p) == \E m \in Onward(Code(p), Place(p) + 1) : Amid(p, Moved(p, m))
LeavesOut(p) == GoesTo(p, Place(p) + Step(p).skip + 1)

\* update_device, or the function that took the lock, is through.
Returns(p) ==
  \E m \in Onward(call[p].prog, call[p].at + 1) : Alone(p, InProgram(p, m))

\* Where an error leads: to where the lock is let go of, if it is held.
\* Mutant: the lock is kept.
AbortKeepsLock(p) == Idle

Abort(p) ==
  IF call[p].upd # 0 THEN [call[p] EXCEPT !.upd = Len(Refresh)]
  ELSE IF Locked(call[p].prog) THEN [call[p] EXCEPT !.at = Len(call[p].prog)]
  ELSE Idle

\* The bits of its cells that are a file's own.
Bits(f) == OwnBits(F(f))

\* The values stored, after p has written the bits mask of cells: that of its
\* own file if this is what the store was for, and arrives.  The store of a
\* file has no business with the bits of others.
StoredAfter(p, cells, mask, own, arrives) ==
  [f \in Files |->
    LET meant == IF own THEN Bits(file[p]) ELSE mask
    IN  CASE cells \cap F(f).watch = {} \/ meant \cap Bits(f) = {} -> stored[f]
          [] OTHER -> IF own /\ f = file[p] /\ arrives THEN call[p].want ELSE None]

\* A store of v that will not write its own file's cells counts from its call on;
\* one that will counts when it writes them.
Counts(p, g, v) == IF ReachesItself(Mine(p), g) THEN stored ELSE [stored EXCEPT ![file[p]] = v]

-----------------------------------------------------------------------------
(* Calls and the lock.                                                       *)

Show(p) ==
  /\ call[p].at = 0
  /\ Alone(p, [Idle EXCEPT !.prog = Mine(p).show, !.at = 1, !.sure = TRUE])
  /\ UNCHANGED <<fixed, chip, cacheVars, lock, stored, loose, changes>>

StoreValue(p) ==
  /\ call[p].at = 0
  /\ \E v \in DOMAIN Mine(p).set : \E program \in Mine(p).set[v] :
       /\ Alone(p, [Idle EXCEPT !.prog = program, !.at = 1, !.want = v])
       /\ stored' = Counts(p, program, v)
  /\ UNCHANGED <<fixed, chip, cacheVars, lock, loose, changes>>

\* A cache that is fresh is left as it is.  Mutant: one that is not valid too.
UpdateLooksAtAge(p) ==
  /\ At(p, "update") /\ lock = NoOne /\ lock' = p
  /\ IF ~expired /\ Cached \subseteq filled
     THEN Alone(p, [call[p] EXCEPT !.upd = Len(Refresh)]) /\ UNCHANGED loose
     ELSE /\ \E m \in Onward(Refresh, 1) : Amid(p, [call[p] EXCEPT !.upd = m])
          /\ loose' = {}
  /\ UNCHANGED <<fixed, chip, cacheVars, stored, changes>>

UpdateDevice(p) ==
  /\ At(p, "update") /\ lock = NoOne /\ lock' = p
  /\ IF valid /\ ~expired
     THEN Alone(p, [call[p] EXCEPT !.upd = Len(Refresh)]) /\ UNCHANGED loose
     ELSE /\ \E m \in Onward(Refresh, 1) : Amid(p, [call[p] EXCEPT !.upd = m])
          /\ loose' = {}
  /\ UNCHANGED <<fixed, chip, cacheVars, stored, changes>>

LockMutex(p) ==
  /\ At(p, "lock") /\ lock = NoOne /\ lock' = p
  /\ Goes(p)
  /\ UNCHANGED <<fixed, chip, cacheVars, stored, loose, changes>>

UnlockMutex(p) ==
  /\ At(p, "unlock") /\ lock' = NoOne
  /\ Returns(p)
  /\ local' = [c \in Watched |-> {}]
  /\ UNCHANGED <<fixed, chip, cache, valid, expired, filled, stored, loose, changes>>

-----------------------------------------------------------------------------
(* The cache.                                                                *)

\* Mutant: the cache goes on to be used.
ClearForgotten(p) ==
  /\ At(p, "clear")
  /\ Goes(p)
  /\ UNCHANGED <<fixed, chip, cacheVars, lock, stored, loose, changes>>

ClearValid(p) ==
  /\ At(p, "clear") /\ valid' = FALSE
  /\ Goes(p)
  /\ UNCHANGED <<fixed, chip, cache, local, expired, filled, lock, stored, loose, changes>>

DoneRefreshing(p) ==
  /\ At(p, "done") /\ valid' = TRUE /\ expired' = FALSE
  /\ Goes(p)
  /\ UNCHANGED <<fixed, chip, cache, local, filled, lock, stored, loose, changes>>

\* The cache, with these cells taken from values.
With(cells, values) == [c \in Watched |-> IF c \in cells THEN values[c] ELSE cache[c]]
Nothing == [c \in Watched |-> {}]

BlankCells(p) ==
  /\ At(p, "blank")
  /\ cache' = With(Step(p).cells, Nothing)
  /\ loose' = loose \cup (Step(p).cells \cap Watched)
  /\ filled' = filled \cup (Step(p).cells \cap Watched)
  /\ Goes(p)
  /\ UNCHANGED <<fixed, chip, local, valid, expired, lock, stored, changes>>

PutCell(p) ==
  /\ At(p, "put")
  /\ cache' = With(Step(p).cells, [c \in Watched |-> Step(p).bits])
  /\ filled' = filled \cup (Step(p).cells \cap Watched)
  /\ stored' = [f \in Files |-> IF F(f).home = "chip" THEN stored[f]
                                ELSE StoredAfter(p, Step(p).cells, AllBits, TRUE, TRUE)[f]]
  /\ GoesAmid(p)
  /\ UNCHANGED <<fixed, chip, local, valid, expired, lock, loose, changes>>

ReadCells(p) ==
  /\ At(p, "read")
  /\ cache' = With(Step(p).cells, chip)
  /\ loose' = loose \ Step(p).cells
  /\ filled' = filled \cup (Step(p).cells \cap Watched)
  /\ Goes(p)
  /\ UNCHANGED <<fixed, chip, local, valid, expired, lock, stored, changes>>

FetchCells(p) ==
  /\ At(p, "fetch")
  /\ local' = [c \in Watched |-> IF c \in Step(p).cells THEN chip[c] ELSE local[c]]
  /\ loose' = loose \ Step(p).cells
  /\ Goes(p)
  /\ UNCHANGED <<fixed, chip, cache, valid, expired, filled, lock, stored, changes>>

StoreCells(p) ==
  /\ At(p, "store")
  /\ cache' = With(Step(p).cells, local)
  /\ filled' = filled \cup (Step(p).cells \cap Watched)
  /\ Goes(p)
  /\ UNCHANGED <<fixed, chip, local, valid, expired, lock, stored, loose, changes>>

-----------------------------------------------------------------------------
(* Reads that fail.                                                          *)

Fails(p, otherwise) ==
  /\ At(p, "read") \/ At(p, "fetch")
  /\ Step(p).otherwise = otherwise

ReadAborts(p) ==
  /\ Fails(p, "abort") \/ Fails(p, "invalid")
  /\ valid' = (valid /\ Step(p).otherwise = "abort")
  /\ loose' = Watched
  /\ Alone(p, Abort(p))
  /\ UNCHANGED <<fixed, chip, cache, local, expired, filled, lock, stored, changes>>

ReadKeeps(p) ==
  /\ Fails(p, "keep")
  /\ loose' = loose \cup (Step(p).cells \cap Watched)
  /\ Goes(p)
  /\ UNCHANGED <<fixed, chip, cacheVars, lock, stored, changes>>

ReadBlanks(p) ==
  /\ Fails(p, "blank")
  /\ cache' = With(Step(p).cells, Nothing)
  /\ loose' = loose \cup (Step(p).cells \cap Watched)
  /\ filled' = filled \cup (Step(p).cells \cap Watched)
  /\ Goes(p)
  /\ UNCHANGED <<fixed, chip, local, valid, expired, lock, stored, changes>>

\* The error number is taken for what was read: any bit of it.
FetchTakesErrno(p) ==
  /\ Fails(p, "errno")
  /\ \E v \in {{}, One} :
       local' = [c \in Watched |-> IF c \in Step(p).cells THEN v ELSE local[c]]
  /\ loose' = loose \cup (Step(p).cells \cap Watched)
  /\ Goes(p)
  /\ UNCHANGED <<fixed, chip, cache, valid, expired, filled, lock, stored, changes>>

-----------------------------------------------------------------------------
(* Conditions, and the end of a show.                                        *)

\* All the cells of the statement have its bits.
All(p, values) == \A c \in Step(p).cells \cap Watched : values[c] = Step(p).bits

Whether(p) ==
  /\ At(p, "when")
  /\ IF All(p, cache) THEN Goes(p) ELSE LeavesOut(p)
  /\ UNCHANGED <<fixed, chip, cacheVars, lock, stored, loose, changes>>

UnlessAllRead(p) ==
  /\ At(p, "unlessall")
  /\ IF All(p, local) THEN LeavesOut(p) ELSE Goes(p)
  /\ UNCHANGED <<fixed, chip, cacheVars, lock, stored, loose, changes>>

GivesUp(p) ==
  /\ At(p, "giveup")
  /\ loose' = Watched
  /\ Alone(p, Abort(p))
  /\ UNCHANGED <<fixed, chip, cacheVars, lock, stored, changes>>

\* Mutant: what there is is shown.
CheckNothing(p) ==
  /\ At(p, "check")
  /\ Goes(p)
  /\ UNCHANGED <<fixed, chip, cacheVars, lock, stored, loose, changes>>

CheckValid(p) ==
  /\ At(p, "check")
  /\ IF valid THEN Goes(p) ELSE Alone(p, Idle)
  /\ UNCHANGED <<fixed, chip, cacheVars, lock, stored, loose, changes>>

AnswerShow(p) ==
  /\ At(p, "answer")
  /\ Goes(p)
  /\ UNCHANGED <<fixed, chip, cacheVars, lock, stored, loose, changes>>

-----------------------------------------------------------------------------
(* Stores.  A write that fails is noticed by no store.                       *)

TheCell(p) == CHOOSE c \in Step(p).cells : TRUE
Got(p, bits) ==
  \E m \in Onward(Code(p), Place(p) + 1) : Alone(p, [Moved(p, m) EXCEPT !.got = bits])

GetRegister(p) ==
  /\ At(p, "get")
  /\ Got(p, IF TheCell(p) \in Watched THEN chip[TheCell(p)] ELSE {})
  /\ UNCHANGED <<fixed, chip, cacheVars, lock, stored, loose, changes>>

\* A store whose read fails ends there, and is no longer counted.
GetFails(p) ==
  /\ At(p, "get")
  /\ IF Step(p).otherwise = "errno" THEN Got(p, ErrnoBits) ELSE Alone(p, Abort(p))
  /\ loose' = IF Step(p).otherwise = "errno" THEN loose \cup {TheCell(p)} ELSE loose
  /\ stored' = IF Step(p).otherwise = "errno" \/ call[p].want = None THEN stored
               ELSE Counts(p, call[p].prog, None)
  /\ UNCHANGED <<fixed, chip, cacheVars, lock, changes>>

\* Mutant: the other bits of the register are not kept.
WriteForgetsRest(p) ==
  /\ At(p, "write")
  /\ \E arrives \in BOOLEAN :
       LET s == Step(p)
           cells == s.cells \cap Watched
       IN  /\ chip' = [c \in Watched |-> IF c \in cells /\ arrives THEN s.bits ELSE chip[c]]
           /\ stored' = StoredAfter(p, cells, s.mask, s.own, arrives)
           /\ loose' = IF lock # p \/ ~arrives THEN loose \cup cells ELSE loose
  /\ GoesAmid(p)
  /\ UNCHANGED <<fixed, cacheVars, lock, changes>>

WriteRegister(p) ==
  /\ At(p, "write")
  /\ \E arrives \in BOOLEAN :
       LET s == Step(p)
           cells == s.cells \cap Watched
       IN  /\ chip' = [c \in Watched |-> IF c \in cells /\ arrives
                                         THEN (call[p].got \ s.mask) \cup s.bits ELSE chip[c]]
           /\ stored' = StoredAfter(p, cells, s.mask, s.own, arrives)
           /\ loose' = IF lock # p \/ ~arrives THEN loose \cup cells ELSE loose
  /\ GoesAmid(p)
  /\ UNCHANGED <<fixed, cacheVars, lock, changes>>

-----------------------------------------------------------------------------
(* The device and time.  LEDs change only when they are written.             *)

DeviceChanges ==
  /\ changes < MaxChanges /\ changes' = changes + 1
  /\ \E c \in UNION {F(f).watch : f \in {g \in Files : F(g).home = "chip"}} :
       /\ ~OfLed(c)
       /\ chip' = [chip EXCEPT ![c] = One \ @]
       /\ loose' = loose \cup {c}
       /\ stored' = [f \in Files |-> IF c \in F(f).watch THEN None ELSE stored[f]]
  /\ UNCHANGED <<fixed, cacheVars, lock, call>>

Expire ==
  /\ valid /\ ~expired /\ expired' = TRUE
  /\ UNCHANGED <<fixed, chip, cache, local, valid, filled, lock, call, stored, loose, changes>>

Run(p) ==
  \/ UpdateDevice(p) \/ LockMutex(p) \/ UnlockMutex(p) \/ ClearValid(p) \/ DoneRefreshing(p)
  \/ BlankCells(p) \/ PutCell(p) \/ ReadCells(p) \/ FetchCells(p) \/ StoreCells(p)
  \/ ReadAborts(p) \/ ReadKeeps(p) \/ ReadBlanks(p) \/ FetchTakesErrno(p)
  \/ Whether(p) \/ UnlessAllRead(p) \/ GivesUp(p) \/ CheckValid(p) \/ AnswerShow(p)
  \/ GetRegister(p) \/ GetFails(p) \/ WriteRegister(p)

Next == (\E p \in Actor : Show(p) \/ StoreValue(p) \/ Run(p)) \/ DeviceChanges \/ Expire

Spec == Init /\ [][Next]_vars

-----------------------------------------------------------------------------
\* A call is of a show, or of a store of the value that is wanted, and is in the
\* refresh only from where it is called.
IsCall(p, c) ==
  \/ c = Idle
  \/ /\ c \in [prog : Programs(Mine(p)), at : Nat, upd : Nat, got : SUBSET AllBits,
               want : DOMAIN Mine(p).set \cup {None}, sure : BOOLEAN]
     /\ c.prog \in (IF c.want = None THEN {Mine(p).show} ELSE Mine(p).set[c.want])
     /\ c.want # None => ~c.sure
     /\ c.at \in DOMAIN c.prog
     /\ c.upd # 0 => c.upd \in DOMAIN Refresh /\ c.prog[c.at].do = "update"

\* In update_device, or in a function that has taken the lock.
Holding(c) == c.upd # 0 \/ (c.at > 1 /\ Locked(c.prog))

\* Every value is of its type; the lock is held by who has still to let it go.
TypeOK ==
  /\ drv \in Drivers /\ file \in [Actor -> Open(drv)] /\ opened = Opened
  /\ {chip, cache, local} \subseteq [Watched -> SUBSET AllBits]
  /\ {valid, expired} \subseteq BOOLEAN
  /\ lock \in Actor \cup {NoOne}
  /\ call = [p \in Actor |-> call[p]] /\ stored = [f \in Files |-> stored[f]]
  /\ \A p \in Actor : IsCall(p, call[p]) /\ ((lock = p) <=> Holding(call[p]))
  /\ \A f \in Files : stored[f] \in DOMAIN F(f).set \cup {None}
  /\ loose \subseteq Watched /\ filled \subseteq Watched /\ changes \in 0..MaxChanges

\* While no one is in the lock, a cache that is marked valid agrees with the
\* device, but for what changed or was written outside the lock since it was
\* read, or could not be read.  (The updates of valid beside the lock: led_set,
\* update_device and the unlocked duty cycles.)
ValidIsCurrent ==
  valid /\ lock = NoOne => \A c \in Cached \ loose : cache[c] = chip[c]

\* A show that began after a store was through, with nothing in between, answers
\* with what was stored, whichever LED, fan or supply of the driver was written
\* beside it: the cache a show looks at was filled after the store, or the store
\* put its value there.  Stores that do not land in their own file (Lands names
\* them) are excepted: a show of such a file does not answer what was stored.
ShownIsStored ==
  \A p \in Actor :
    /\ At(p, "answer") /\ call[p].sure
    /\ stored[file[p]] # None /\ Lands(Mine(p), stored[file[p]])
    /\ ShownCells(Mine(p)) \cap loose = {}
    => Answered(p) = stored[file[p]]

\* What was stored last in a file is still there, whatever is stored in others
\* that share its register; stores that do not land excepted as above.
KeepsWhatIsStored ==
  \A f \in Files :
    stored[f] # None /\ Lands(F(f), stored[f])
      => Shows(f, IF F(f).home = "chip" THEN chip ELSE cache) = stored[f]

\* "To set led color", of the LEDs: the mode that was stored is the one shown,
\* whatever register the store went to, once no store is under way.
LedColorIsSet ==
  \A p \in Actor :
    /\ At(p, "answer") /\ call[p].sure /\ \A q \in Actor : call[q].want = None
    /\ stored[file[p]] \notin {None, UNLISTED}
    /\ ShownCells(Mine(p)) \cap loose = {}
    => Answered(p) = stored[file[p]]

\* A driver that looks at valid never answers from a cell that nothing was read
\* into since it was loaded.
ShownWasRead ==
  \A p \in Actor :
    At(p, "answer") /\ Check \in {Mine(p).show[i] : i \in DOMAIN Mine(p).show}
      => {Mine(p).of[i] : i \in DOMAIN Mine(p).of} \subseteq filled
-----------------------------------------------------------------------------
(* The inductive invariant: what holds at each place of a call.              *)

Refreshing(p) == call[p].upd \in 1..(Len(Refresh) - 1)
InStore(p, what) == call[p].at # 0 /\ call[p].upd = 0 /\ call[p].prog[call[p].at].do = what

\* The refresh has still to fill c, the store to clear valid or to write what it
\* has put.
Excused(p, c) ==
  /\ lock = p
  /\ \/ call[p].upd # 0 /\ Comes(Refresh, call[p].upd, c, Filling)
     \/ InStore(p, "clear")
     \/ InStore(p, "write") /\ call[p].prog[call[p].at - 1].do = "put" /\ c \in Step(p).cells

Agrees(c) == cache[c] = chip[c] \/ c \in loose

\* Valid or about to become so, the cache agrees with the device where nobody who
\* holds the lock is about to see to it.
CacheInv ==
  (valid \/ \E p \in Actor : Refreshing(p)) =>
     \A c \in Cached : Agrees(c) \/ \E p \in Actor : Excused(p, c)

\* What was fetched is what the device has, unless it is fetched again.
LocalInv ==
  \A p \in Actor : Refreshing(p) =>
    \A c \in Watched \cap CellsOf(Refresh, {"store"}) :
      local[c] = chip[c] \/ c \in loose \/ Comes(Refresh, call[p].upd, c, {"fetch"})

\* What was put in the cache under the lock is there until it is written.
PutInv ==
  \A p \in Actor :
    InStore(p, "write") /\ Locked(call[p].prog) /\ call[p].prog[call[p].at - 1].do = "put"
      => LET put == call[p].prog[call[p].at - 1]
         IN  \A c \in put.cells \cap Cached : cache[c] = put.bits

\* A register of which some bits are replaced still is as it was read.
GotInv ==
  \A p \in Actor :
    InStore(p, "write") /\ Step(p).mask # AllBits
      => \A c \in Step(p).cells \cap Watched : call[p].got = chip[c]

\* A show that nothing has happened beside, after update_device.
SureInv ==
  \A p \in Actor :
    /\ call[p].sure /\ call[p].prog[1].do = "update"
    /\ call[p].at > 1 \/ call[p].upd = Len(Refresh)
    => (\A c \in Cached : Agrees(c)) /\ \A q \in Actor : ~Refreshing(q)

\* The same, after a register was read for it.
SureOfGot ==
  \A p \in Actor :
    call[p].sure /\ call[p].at = 2 /\ Mine(p).from = "got" /\ DOMAIN Mine(p).set # {}
      => \A c \in ShownCells(Mine(p)) : call[p].got = chip[c] \/ c \in loose

\* A refresh that passes over nothing has filled the cache when it is through.
PassesOverNothing ==
  \A i \in DOMAIN Refresh : Refresh[i].do \in {"read", "fetch"} => Refresh[i].otherwise # "keep"

FilledInv ==
  PassesOverNothing =>
    /\ valid => Cached \subseteq filled
    /\ \A p \in Actor : Refreshing(p) =>
         \A c \in Cached : c \in filled \/ Comes(Refresh, call[p].upd, c, Filling)

\* A show that has looked at valid.
CheckedInv ==
  \A p \in Actor :
    call[p].at > 2 /\ call[p].want = None /\ call[p].prog[2].do = "check" =>
      \A c \in ShownCells(Mine(p)) :
        c \in CacheCells(Refresh) \/ call[p].at > 4 => c \in filled

IInv ==
  /\ TypeOK /\ CacheInv /\ LocalInv /\ PutInv /\ GotInv /\ KeepsWhatIsStored
  /\ SureInv /\ SureOfGot /\ FilledInv /\ CheckedInv
=============================================================================
