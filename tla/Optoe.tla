-------------------------------- MODULE Optoe --------------------------------
(***************************************************************************)
(* The driver of the EEPROM in an optical module                           *)
(* (as7716-32x/modules/optoe.c).  A module answers at one i2c address      *)
(* (QSFP) or two (SFP).  Its lower 128 bytes are fixed; the upper 128 are  *)
(* a window on the page its page register selects.  A read or write of the *)
(* sysfs file is cut into pieces of at most 128 bytes; for each the driver *)
(* works out address, page and offset, selects the page, transfers, and    *)
(* selects page 0 again, all under one lock.                               *)
(*                                                                         *)
(* A transfer is modelled by where it goes and how many bytes it moves;    *)
(* the bytes themselves are not.  The 25 ms of retries around every        *)
(* transfer are one step, which succeeds or fails; a write that fails may  *)
(* have arrived.                                                           *)
(***************************************************************************)
EXTENDS Integers

CONSTANTS
  Callers,       \* processes that use the sysfs file or the macc interface
  Requests,      \* what they may ask for: [op, off, len]
  Classes,       \* what an operator may write to dev_class
  NumAddresses,  \* num_addresses: the i2c clients that were created
  XferMax,       \* the most one read transfer can move
  UseSmbus,      \* use_smbus: whether reads go through SMBus calls
  OverrunMax,    \* how far a piece of enormous length gets before it fails
  Swaps,         \* whether modules are exchanged
  NoOne

OPTOE_PAGE_SIZE  == 128
OPTOE_ARCH_PAGES == 256
ONE_ADDR_EEPROM_SIZE         == (1 + OPTOE_ARCH_PAGES) * OPTOE_PAGE_SIZE
ONE_ADDR_EEPROM_UNPAGED_SIZE == 2 * OPTOE_PAGE_SIZE
TWO_ADDR_EEPROM_SIZE         == (3 + OPTOE_ARCH_PAGES) * OPTOE_PAGE_SIZE
TWO_ADDR_EEPROM_UNPAGED_SIZE == 4 * OPTOE_PAGE_SIZE
OPTOE_PAGE_SELECT_REG        == 127
write_max == 1

ONE_ADDR == 1
TWO_ADDR == 2

Err       == -22    \* EINVAL, for whatever a request is refused with
ENXIO     == -6
ETIMEDOUT == -110

ASSUME CallersAssumption == NoOne \notin Callers
ASSUME RequestsAssumption ==
  Requests \subseteq [op : {"read", "write"}, off : Nat, len : Nat \ {0}]
ASSUME ClassesAssumption == Classes \subseteq {ONE_ADDR, TWO_ADDR}
ASSUME AddressAssumption == NumAddresses \in {1, 2}
ASSUME XferAssumption    == XferMax \in Nat \ {0}
ASSUME SmbusAssumption   == UseSmbus \in BOOLEAN /\ (UseSmbus \/ XferMax >= 128)
ASSUME OverrunAssumption == OverrunMax \in Nat
ASSUME SwapsAssumption   == Swaps \in BOOLEAN

VARIABLES
  dev_class,
  pageReg,    \* the page register behind each client
  pageable,   \* whether the module in the cage has pages
  lock,       \* optoe->lock
  pc,         \* where each caller is
  req,        \* what it asked for
  result,     \* what its last call returned
  loc,        \* the local variables of the call that holds the lock
  dirty,      \* history: a page register is not where the driver put it, after a
              \* page write that failed or a caller's write to the register
  torn,       \* history: the module was exchanged during the call
  amount      \* history: the bytes a caller's last call has really moved

vars == <<dev_class, pageReg, pageable, lock, pc, req, result, loc,
          dirty, torn, amount>>

Size(class)    == IF class = TWO_ADDR THEN TWO_ADDR_EEPROM_SIZE
                  ELSE ONE_ADDR_EEPROM_SIZE
Unpaged(class) == IF class = TWO_ADDR THEN TWO_ADDR_EEPROM_UNPAGED_SIZE
                  ELSE ONE_ADDR_EEPROM_UNPAGED_SIZE

Lesser(a, b) == IF a < b THEN a ELSE b

-----------------------------------------------------------------------------
(* optoe_translate_offset: client, page and physical offset of an offset.  *)

Client(class, off) == IF class = TWO_ADDR /\ off > 255 THEN 1 ELSE 0

ClientOffset(class, off) == IF Client(class, off) = 1 THEN off - 256 ELSE off

\* Mutant: the lower half, which no page covers, is not told apart.
PageOfLower(class, off) == ClientOffset(class, off) \div OPTOE_PAGE_SIZE - 1

PageOf(class, off) ==
  LET o == ClientOffset(class, off)
  IN IF o < OPTOE_PAGE_SIZE THEN 0 ELSE o \div OPTOE_PAGE_SIZE - 1

PhyOffset(class, off) ==
  LET o == ClientOffset(class, off)
  IN IF o < OPTOE_PAGE_SIZE THEN o ELSE OPTOE_PAGE_SIZE + (o % OPTOE_PAGE_SIZE)

(* optoe_page_legal: the length that may be transferred, or an error.      *)

NeedsPages(class, q) == q.off + q.len > Unpaged(class)

\* Mutant: a request is not trimmed to what a module without pages has.
LegalLenUntrimmed(class, hasPages, q) ==
  IF ~NeedsPages(class, q) THEN q.len
  ELSE IF q.off >= Size(class) THEN Err
  ELSE Lesser(q.len, Size(class) - q.off)

LegalLen(class, hasPages, q) ==
  LET end == IF hasPages THEN Size(class) ELSE Unpaged(class)
  IN IF ~NeedsPages(class, q) THEN q.len
     ELSE IF q.off >= end THEN Err
     ELSE Lesser(q.len, end - q.off)

(* The piece of the request that lies in one 128 byte chunk.               *)

\* Mutant: the first piece begins where its chunk does.
ChunkOffsetEarly(off, chunk) == chunk * OPTOE_PAGE_SIZE

ChunkOffset(off, chunk) ==
  IF chunk * OPTOE_PAGE_SIZE < off THEN off ELSE chunk * OPTOE_PAGE_SIZE

\* Mutant: the first piece is not cut off at the end of its chunk.
ChunkLenUncut(off, chunk, pending) ==
  IF chunk * OPTOE_PAGE_SIZE < off THEN pending ELSE Lesser(pending, OPTOE_PAGE_SIZE)

\* As it is computed; it is then used as an unsigned size_t.
ChunkLen(off, chunk, pending) ==
  IF chunk * OPTOE_PAGE_SIZE < off
  THEN IF off + pending < (chunk + 1) * OPTOE_PAGE_SIZE
       THEN pending
       ELSE OPTOE_PAGE_SIZE - off
  ELSE Lesser(pending, OPTOE_PAGE_SIZE)

NoCall == [chunk |-> 0, last |-> 0, pending |-> 0, retval |-> 0, clen |-> 0,
           client |-> 0, page |-> 0, phy |-> 0, count |-> 0, upd |-> 0]

Init ==
  /\ dev_class = NumAddresses
  /\ pageReg = [a \in 0..1 |-> 0]
  /\ pageable \in BOOLEAN
  /\ lock = NoOne
  /\ pc = [c \in Callers |-> "idle"]
  /\ req \in [Callers -> Requests]
  /\ result = [c \in Callers |-> 0]
  /\ loc = NoCall
  /\ dirty = [a \in 0..1 |-> FALSE]
  /\ torn = FALSE
  /\ amount = [c \in Callers |-> 0]

-----------------------------------------------------------------------------
(* optoe_read_write.                                                       *)

Goto(c, label) == pc' = [pc EXCEPT ![c] = label]

Module == <<dev_class, pageReg, pageable, dirty>>

Call(c) ==
  /\ pc[c] = "idle"
  /\ \E q \in Requests : req' = [req EXCEPT ![c] = q]
  /\ Goto(c, "lock")
  /\ result' = [result EXCEPT ![c] = 0]
  /\ amount' = [amount EXCEPT ![c] = 0]
  /\ UNCHANGED <<Module, lock, loc, torn>>

Return(c, value) ==
  /\ result' = [result EXCEPT ![c] = value]
  /\ Goto(c, "idle")
  /\ lock' = NoOne
  /\ loc' = NoCall

\* mutex_lock and page_legal, which asks the module whether it has pages only
\* when the request reaches beyond what every module has.
Begin(c) ==
  /\ pc[c] = "lock"
  /\ lock = NoOne
  /\ LegalLen(dev_class, pageable, req[c]) # Err
  /\ LET len == LegalLen(dev_class, pageable, req[c])
         off == req[c].off
     IN loc' = [NoCall EXCEPT !.chunk   = off \div OPTOE_PAGE_SIZE,
                              !.last    = (off + len - 1) \div OPTOE_PAGE_SIZE,
                              !.pending = len]
  /\ lock' = c
  /\ Goto(c, "chunk")
  /\ torn' = FALSE
  /\ UNCHANGED <<Module, req, result, amount>>

\* Out of range, or the module does not answer the question.
Refuse(c) ==
  /\ pc[c] = "lock"
  /\ lock = NoOne
  /\ NeedsPages(dev_class, req[c])
  /\ Return(c, Err)
  /\ UNCHANGED <<Module, req, torn, amount>>

\* Work out the next piece, and where it lies.  A client that was never
\* created is a null pointer.
NextChunk(c) ==
  /\ pc[c] = "chunk"
  /\ LET coff == ChunkOffset(req[c].off, loc.chunk)
         clen == ChunkLen(req[c].off, loc.chunk, loc.pending)
         page == PageOf(dev_class, coff)
         to   == Client(dev_class, coff)
     IN /\ loc' = [loc EXCEPT !.clen = clen, !.client = to, !.page = page,
                              !.phy = PhyOffset(dev_class, coff),
                              !.count = clen, !.upd = 0]
        /\ Goto(c, IF to >= NumAddresses THEN "oops"
                   ELSE IF page > 0 THEN "select"
                   ELSE "xfer")
  /\ UNCHANGED <<Module, lock, req, result, torn, amount>>

\* A write of the register that selects a page: it arrives, or it does not.
PageWritten(value) == pageReg' = [pageReg EXCEPT ![loc.client] = value]

PageMayBeWritten(value) == PageWritten(value) \/ UNCHANGED pageReg

\* What the driver knows of the register: it is at page 0, or it may not be.
NotAtZero == dirty' = [dirty EXCEPT ![loc.client] = pageReg'[loc.client] # 0]

\* Mutant: a failed selection is not told to the caller.
SelectPageIgnored(c) ==
  /\ pc[c] = "select"
  /\ PageMayBeWritten(loc.page)
  /\ dirty' = [dirty EXCEPT ![loc.client] = FALSE]
  /\ Goto(c, "xfer")
  /\ UNCHANGED <<dev_class, pageable, lock, req, result, loc, torn, amount>>

\* update_client: the page register is written only for a page above 0; if that
\* fails, update_client returns at once.
SelectPage(c) ==
  /\ pc[c] = "select"
  /\ \/ /\ PageWritten(loc.page)
        /\ dirty' = [dirty EXCEPT ![loc.client] = FALSE]
        /\ Goto(c, "xfer")
        /\ UNCHANGED loc
     \/ /\ PageMayBeWritten(loc.page)
        /\ NotAtZero
        /\ loc' = [loc EXCEPT !.upd = ETIMEDOUT]
        /\ Goto(c, "end")
  /\ UNCHANGED <<dev_class, pageable, lock, req, result, torn, amount>>

\* Mutant: the page register is left alone after an error.
AfterTransferNoRestore(l) == IF l.page > 0 /\ l.count = 0 THEN "restore" ELSE "end"

\* Where update_client goes when it has stopped transferring.
AfterTransfer(l) == IF l.page > 0 THEN "restore" ELSE "end"

\* The count is a size_t, and a negative one an enormous number: a combined
\* message takes the 16 bits of it that its length has, and overwrites what
\* lies behind the buffer.
Enormous(c)   == loc.count < 0
Overwrites(c) == Enormous(c) /\ req[c].op = "read" /\ ~UseSmbus

\* What one transfer moves: as much of the count as the adapter takes for a
\* read, one byte for a write.
Most(c) == IF req[c].op = "read" THEN XferMax ELSE write_max

Portion(c) == IF Overwrites(c) THEN loc.count % 65536
              ELSE IF Enormous(c) THEN Most(c)
              ELSE Lesser(loc.count, Most(c))

\* A caller's write may hit the page register itself; the device sees 8 bits of
\* the offset.
HitsPageReg(c) == req[c].op = "write" /\ loc.phy % 256 = OPTOE_PAGE_SELECT_REG

CallerWritesPage == \E v \in 0..1 : /\ PageWritten(v)
                                    /\ dirty' = [dirty EXCEPT ![loc.client] = v # loc.page]

Transfer(c) ==
  /\ pc[c] = "xfer"
  /\ Enormous(c) => loc.upd < OverrunMax
  /\ LET n == Portion(c)
     IN /\ loc' = [loc EXCEPT !.phy = @ + n, !.count = @ - n, !.upd = @ + n]
        /\ amount' = [amount EXCEPT ![c] = @ + n]
        /\ IF Overwrites(c) THEN Goto(c, "oops")
           ELSE IF loc.count = n THEN Goto(c, AfterTransfer(loc'))
           ELSE UNCHANGED pc
  /\ IF HitsPageReg(c) THEN CallerWritesPage ELSE UNCHANGED <<pageReg, dirty>>
  /\ UNCHANGED <<dev_class, pageable, lock, req, result, torn>>

TransferFails(c) ==
  /\ pc[c] = "xfer"
  /\ \E e \in {ENXIO, ETIMEDOUT} :
       /\ e = ENXIO => req[c].op = "read"
       /\ loc' = [loc EXCEPT !.upd = IF @ = 0 THEN e ELSE @]
  /\ Goto(c, AfterTransfer(loc))
  /\ (HitsPageReg(c) /\ CallerWritesPage) \/ UNCHANGED <<pageReg, dirty>>
  /\ UNCHANGED <<dev_class, pageable, lock, req, result, torn, amount>>

\* Back to page 0; a failure counts only if nothing was transferred.
RestorePage(c) ==
  /\ pc[c] = "restore"
  /\ \/ /\ PageWritten(0)
        /\ UNCHANGED loc
     \/ /\ PageMayBeWritten(0)
        /\ loc' = [loc EXCEPT !.upd = IF @ = 0 THEN ETIMEDOUT ELSE @]
  /\ NotAtZero
  /\ Goto(c, "end")
  /\ UNCHANGED <<dev_class, pageable, lock, req, result, torn, amount>>

\* Mutant: the error path returns with the lock held.
ChunkShortLocked(c) ==
  /\ pc[c] = "end"
  /\ loc.upd # loc.clen
  /\ result' = [result EXCEPT ![c] = loc.upd]
  /\ Goto(c, "idle")
  /\ UNCHANGED <<Module, lock, loc, req, torn, amount>>

\* Mutant: a piece that came short is reported as if it were whole.
ChunkShortAsked(c) ==
  /\ pc[c] = "end"
  /\ loc.upd # loc.clen
  /\ Return(c, loc.retval + loc.clen)
  /\ UNCHANGED <<Module, req, torn, amount>>

\* A piece that came short ends the call with that piece's own status; status
\* and length are compared as they are, an errno and a negative length too.
ChunkShort(c) ==
  /\ pc[c] = "end"
  /\ loc.upd # loc.clen
  /\ Return(c, loc.upd)
  /\ UNCHANGED <<Module, req, torn, amount>>

ChunkDone(c) ==
  /\ pc[c] = "end"
  /\ loc.upd = loc.clen
  /\ loc.chunk < loc.last
  /\ loc' = [loc EXCEPT !.pending = @ - loc.upd, !.retval = @ + loc.upd,
                        !.chunk = @ + 1]
  /\ Goto(c, "chunk")
  /\ UNCHANGED <<Module, lock, req, result, torn, amount>>

LastChunkDone(c) ==
  /\ pc[c] = "end"
  /\ loc.upd = loc.clen
  /\ loc.chunk >= loc.last
  /\ Return(c, loc.retval + loc.upd)
  /\ UNCHANGED <<Module, req, torn, amount>>

InCall(c) ==
  \/ NextChunk(c) \/ SelectPage(c)
  \/ Transfer(c) \/ TransferFails(c) \/ RestorePage(c)
  \/ ChunkShort(c) \/ ChunkDone(c) \/ LastChunkDone(c)

optoe_read_write(c) == Call(c) \/ Begin(c) \/ Refuse(c) \/ InCall(c)

-----------------------------------------------------------------------------
(* The rest of the world.                                                  *)

\* set_dev_class: takes the lock, and does not look at num_addresses.
SetDevClass ==
  /\ lock = NoOne
  /\ dev_class' \in Classes
  /\ UNCHANGED <<pageReg, pageable, dirty, lock, pc, req, result, loc, torn, amount>>

\* Another module is plugged in; it starts on page 0.
Swap ==
  /\ Swaps
  /\ pageReg' = [a \in 0..1 |-> 0]
  /\ dirty' = [a \in 0..1 |-> FALSE]
  /\ pageable' \in BOOLEAN
  /\ torn' = (lock # NoOne)
  /\ UNCHANGED <<dev_class, lock, pc, req, result, loc, amount>>

Next ==
  \/ \E c \in Callers : optoe_read_write(c)
  \/ SetDevClass \/ Swap

(* A call that runs, runs on; a kernel mutex is handed on in the order of  *)
(* arrival.                                                                *)
Fairness == \A c \in Callers : WF_vars(InCall(c)) /\ SF_vars(Begin(c) \/ Refuse(c))

Spec == Init /\ [][Next]_vars

FairSpec == Spec /\ Fairness

-----------------------------------------------------------------------------
(* Properties.                                                             *)

Inside == {"chunk", "select", "xfer", "restore", "end", "oops"}

\* The shape of the driver's state: the one type invariant of the module.
TypeOK ==
  /\ dev_class \in {ONE_ADDR, TWO_ADDR}
  /\ pageReg \in [0..1 -> Nat]
  /\ pageable \in BOOLEAN /\ torn \in BOOLEAN
  /\ dirty \in [0..1 -> BOOLEAN]
  /\ lock \in Callers \cup {NoOne}
  /\ pc \in [Callers -> Inside \cup {"idle", "lock"}]
  /\ req \in [Callers -> Requests]
  /\ result \in [Callers -> Int] /\ amount \in [Callers -> Nat]
  /\ loc \in [chunk : Nat, last : Nat, pending : Int, retval : Int, clen : Int,
              client : 0..1, page : Nat, phy : Nat, count : Int, upd : Int]

\* Bytes are moved through the upper half only while the page register holds
\* the page the offset was translated to, whoever else uses the module and
\* whatever failed before; unless a failed page write or a caller's write to
\* the register left another page selected, or the module was exchanged in the
\* call.
RightPage ==
  \A c \in Callers :
    pc[c] = "xfer" /\ loc.phy >= OPTOE_PAGE_SIZE /\ ~dirty[loc.client] /\ ~torn
      => pageReg[loc.client] = loc.page

\* Between calls the page register is 0 unless a write of it failed or a caller
\* wrote it: the state the unselected access to page 0 rests on.  A selection
\* that fails after it has arrived is such a write: update_client then returns
\* without the restore (optoe.c:520-528).
PageZeroAtRest ==
  lock = NoOne => \A a \in 0..1 : dirty[a] \/ pageReg[a] = 0

\* A page above 0 is selected only in a module that said it has pages, and
\* only one the page register can express, though dev_class and the module
\* change between calls.
PageExists ==
  \A c \in Callers : pc[c] = "select" =>
    loc.page < OPTOE_ARCH_PAGES /\ (torn \/ pageable)

\* What a caller is transferring lies in one page.
OnePage(c) ==
  pc[c] = "xfer" =>
    loc.count >= 0 /\ (loc.phy % OPTOE_PAGE_SIZE) + loc.count <= OPTOE_PAGE_SIZE

\* optoe.c:266-267: "offset (within page) plus length must be less than or
\* equal to 128".
InOnePage == \A c \in Callers : OnePage(c)

\* Requests whose pieces are computed right: from the first 128 bytes, from the
\* beginning of a chunk, or not as far as the end of the chunk they start in.
Aligned(q) ==
  \/ q.off < OPTOE_PAGE_SIZE
  \/ q.off % OPTOE_PAGE_SIZE = 0
  \/ (q.off % OPTOE_PAGE_SIZE) + q.len < OPTOE_PAGE_SIZE

\* Every page a request selects is one the module has, and every piece of an
\* aligned one lies in one page; the others overrun theirs (InOnePage).
PieceLegal ==
  /\ PageExists
  /\ \A c \in Callers : Aligned(req[c]) => OnePage(c)

\* A call never claims more bytes than it moved; and if its request is aligned,
\* it moves no more than it was asked for.
NeverOverstated ==
  \A c \in Callers :
    /\ Aligned(req[c]) => amount[c] <= req[c].len
    /\ pc[c] = "idle" => result[c] <= amount[c]

\* Where in the file the byte is that a client has at a physical offset: its
\* lower half as it is, then a page of 128 bytes after the other, each seen
\* through the upper half; the second client after the 256 of the first.
FlatOffset(client, page, phy) ==
  client * 256 + (IF phy < OPTOE_PAGE_SIZE THEN phy ELSE page * OPTOE_PAGE_SIZE + phy)

\* A call with an aligned request moves the bytes of the file from its offset
\* on, each once and in order, whatever pieces and transfers it is cut into,
\* through which client and page, and however short the transfers come: the
\* byte the module would give or take next is the one after those moved.  For
\* the upper half that is so under the conditions of RightPage.
InOrder ==
  \A c \in Callers :
    pc[c] = "xfer" /\ Aligned(req[c]) =>
      /\ loc.phy < 2 * OPTOE_PAGE_SIZE
      /\ loc.phy < OPTOE_PAGE_SIZE \/ (~dirty[loc.client] /\ ~torn) =>
           FlatOffset(loc.client, pageReg[loc.client], loc.phy) = req[c].off + amount[c]

\* Every call returns: a piece of enormous length when one of its transfers
\* fails, which is after OverrunMax bytes at the latest.
CallReturns == \A c \in Callers : pc[c] # "idle" ~> pc[c] = "idle"

-----------------------------------------------------------------------------
(* The inductive invariant behind RightPage and PageZeroAtRest.            *)

\* A call is under way exactly while it holds the lock.
LockInv == \A c \in Callers : pc[c] \in Inside <=> lock = c

CallInv == \A c \in Callers : pc[c] = "select" => loc.page > 0

\* A page is selected only around the transfers that need it, or for ever if
\* one of them never comes back.
PageInv ==
  \A a \in 0..1 :
    \/ dirty[a]
    \/ pageReg[a] = 0
    \/ \E c \in Callers : /\ pc[c] \in {"xfer", "restore", "oops"}
                          /\ loc.page > 0 /\ loc.client = a

SelectedInv ==
  \A c \in Callers :
    pc[c] = "xfer" /\ loc.page > 0 /\ ~torn /\ ~dirty[loc.client]
      => pageReg[loc.client] = loc.page

IInv == TypeOK /\ LockInv /\ CallInv /\ PageInv /\ SelectedInv

-----------------------------------------------------------------------------
(* What a call has done so far.  HonestOf and ReachOf hold of any request.  *)

Position(c) == ChunkOffset(req[c].off, loc.chunk)

\* What the transfers of the piece have moved: upd may be an error instead.
Moved(l) == IF l.upd < 0 THEN 0 ELSE l.upd

\* What is counted as done was really moved.
HonestOf(c) ==
  /\ loc.retval <= amount[c]
  /\ pc[c] \in {"select", "xfer", "restore", "end"} =>
       loc.retval + Moved(loc) <= amount[c] /\ Moved(loc) <= amount[c]
  /\ pc[c] \in {"select", "xfer"} => loc.upd >= 0

\* The chunks a call goes through begin in the part the module has.
ReachOf(c) ==
  /\ loc.chunk <= loc.last
  /\ req[c].off < Size(dev_class) /\ loc.last * OPTOE_PAGE_SIZE < Size(dev_class)
  /\ \/ torn \/ pageable
     \/ req[c].off < Unpaged(dev_class) /\ loc.last * OPTOE_PAGE_SIZE < Unpaged(dev_class)
  /\ pc[c] = "select" => loc.page = PageOf(dev_class, Position(c))

\* What is done and what is pending is at most what was asked for, and what
\* was really moved is what is done and the part of the piece that is.
CountOf(c) ==
  /\ loc.retval >= 0 /\ loc.pending >= 0 /\ loc.retval + loc.pending <= req[c].len
  /\ pc[c] \in {"chunk", "oops"} => amount[c] = loc.retval
  /\ pc[c] \in {"select", "xfer", "restore", "end"} =>
       /\ amount[c] = loc.retval + Moved(loc)
       /\ Moved(loc) <= loc.clen /\ loc.clen <= loc.pending
  /\ pc[c] = "select" => loc.upd = 0 /\ loc.count = loc.clen
  /\ pc[c] = "xfer" => loc.upd >= 0 /\ loc.count >= 0 /\ loc.count + loc.upd = loc.clen

\* A piece begins where the pieces before it have ended and does not go past its
\* chunk; what its transfers look at is where that place is, and what they have
\* moved further on.
OrderOf(c) ==
  /\ req[c].off \div OPTOE_PAGE_SIZE <= loc.chunk
  /\ loc.pending >= 1
  /\ loc.last = (Position(c) + loc.pending - 1) \div OPTOE_PAGE_SIZE
  /\ Position(c) = req[c].off + loc.retval
  /\ \/ req[c].off <= loc.chunk * OPTOE_PAGE_SIZE
     \/ req[c].off < OPTOE_PAGE_SIZE
     \/ req[c].off + loc.pending < (loc.chunk + 1) * OPTOE_PAGE_SIZE
  /\ pc[c] \in {"select", "xfer", "restore", "end"} =>
       /\ loc.clen = ChunkLen(req[c].off, loc.chunk, loc.pending)
       /\ loc.clen >= 1
  /\ pc[c] \in {"select", "xfer"} =>
       /\ loc.client = Client(dev_class, Position(c))
       /\ loc.page = PageOf(dev_class, Position(c))
       /\ loc.phy = PhyOffset(dev_class, Position(c)) + loc.upd
       /\ loc.count >= 1

\* The inductive invariant behind PieceLegal, NeverOverstated and InOrder, with
\* IInv.
AnyInv == \A c \in Callers : pc[c] \in Inside => HonestOf(c) /\ ReachOf(c)

AlignedInv ==
  \A c \in Callers : pc[c] \in Inside /\ Aligned(req[c]) => CountOf(c) /\ OrderOf(c)

=============================================================================
