------------------------------ MODULE CacheSteps ------------------------------
(***************************************************************************)
(* The statements the drivers with a cache are written in, as records: a    *)
(* driver is its refresh (update_device, led_update), a sequence of them,   *)
(* and its files, each with the sequences a show and a store of it run.     *)
(* LedTables and CacheTables write the drivers down, CachedDrivers runs     *)
(* them.                                                                    *)
(*                                                                          *)
(* Every statement says which cells it is about and how many of those that  *)
(* follow it may leave out (skip).                                          *)
(*                                                                          *)
(* A cell <<name, unit>> is a place of the cache and what is read into it   *)
(* from the device: a register, the bit of a register that is about one     *)
(* unit, or a string.  Its value is a set of bits: of a LED register the    *)
(* bits themselves; of all else {} for 0 or blank and One for the rest.     *)
(***************************************************************************)
EXTENDS Naturals, Sequences, TLC

One == {0}
AllBits == 0..7
Values == {0, 1}
BitsOf(v) == IF v = 1 THEN One ELSE {}

Statement(do, cells) == [do |-> do, cells |-> cells, skip |-> 0]

\* The call of update_device, which takes the lock and lets go of it, and the
\* lock where a file's own function takes it.
Update == Statement("update", {})
Lock   == Statement("lock", {})
Unlock == Statement("unlock", {})

\* On the cache: valid = 0, what is blanked, what is put in, and valid = 1.
Clear == Statement("clear", {})
Blank(cells) == Statement("blank", cells)
Put(cell, v) == [do |-> "put", cells |-> {cell}, skip |-> 0, bits |-> BitsOf(v)]
Done == Statement("done", {})

\* Reading into the cache, or (Fetch) into local variables that are stored in
\* it later.  When the read fails the refresh gives up ("abort"), gives up and
\* clears valid ("invalid"), goes on with what the cache had ("keep"), with
\* nothing ("blank"), or with the error number ("errno").
Read(cells, otherwise) == [do |-> "read", cells |-> cells, skip |-> 0, otherwise |-> otherwise]
Fetch(cells, otherwise) == [do |-> "fetch", cells |-> cells, skip |-> 0, otherwise |-> otherwise]
Store(cells) == Statement("store", cells)

\* The registers of the units whose files are not looked at.
Others(otherwise) == Read({}, otherwise)

\* The statements that are run when the cell reads bits; and those that are
\* left out when no cell read as 0.
When(cell, bits, then) ==
  <<[do |-> "when", cells |-> {cell}, skip |-> Len(then), bits |-> bits]>> \o then
UnlessAll(cells, then) ==
  <<[do |-> "unlessall", cells |-> cells, skip |-> Len(then), bits |-> One]>> \o then

\* A register read and written with some of its bits replaced.  Whole says
\* that it is written without being read, and own that this is the write the
\* store is for.
Get(cell, otherwise) == [do |-> "get", cells |-> {cell}, skip |-> 0, otherwise |-> otherwise]
Write(cells, mask, bits, own) ==
  [do |-> "write", cells |-> cells, skip |-> 0, mask |-> mask, bits |-> bits, own |-> own]
Change(cell, mask, bits, own) == Write({cell}, mask, bits, own)
Whole(cells, v, own) == Write(cells, AllBits, BitsOf(v), own)

\* Nothing is shown of a cache that is not valid; an error that ends the refresh
\* or the call; and what a show answers with.
Check == Statement("check", {})
GiveUp == Statement("giveup", {})
Answer == Statement("answer", {})

-----------------------------------------------------------------------------
(* Files: how the answer comes from the cells of, which cells the file is    *)
(* about, what a show runs, and what a store of each value may run.          *)

ReadOnly == [v \in {} |-> {}]

FileOn(shows, of, also, show) ==
  [shows |-> shows, of |-> of, watch |-> {of[i] : i \in DOMAIN of} \cup also,
   from |-> "cache", show |-> show, set |-> ReadOnly, home |-> "chip"]

File(shows, of, show) == FileOn(shows, of, {}, show)

Writable(f, programs(_)) == [f EXCEPT !.set = [v \in Values |-> programs(v)]]

\* A file of what the driver itself keeps.
Kept(f) == [f EXCEPT !.home = "cache"]

\* update_device lets go of the lock when it is through.
Driver(refresh, files) == [refresh |-> refresh \o <<Unlock>>, files |-> files]
=============================================================================
