---------------------------- MODULE Optoe_proofs ----------------------------
(***************************************************************************)
(* Proofs about Optoe, for any number of callers, any requests, any        *)
(* adapter and any number of clients.                                      *)
(***************************************************************************)
EXTENDS Optoe, TLAPS

-----------------------------------------------------------------------------
(* The arithmetic of offsets.                                              *)

LEMMA LesserType ==
  ASSUME NEW a \in Int, NEW b \in Int
  PROVE  Lesser(a, b) \in Int /\ Lesser(a, b) <= a /\ Lesser(a, b) <= b
         /\ (a >= 0 /\ b >= 0 => Lesser(a, b) >= 0)
         /\ (a >= 1 /\ b >= 1 => Lesser(a, b) >= 1)
BY DEF Lesser

LEMMA RequestType ==
  ASSUME NEW q \in Requests
  PROVE  q.off \in Nat /\ q.len \in Nat /\ q.len >= 1 /\ q.op \in {"read", "write"}
BY RequestsAssumption

\* A class has a size, and its pages begin below it.
LEMMA Sizes ==
  ASSUME NEW class
  PROVE  Size(class) \in Nat /\ Unpaged(class) \in Nat
BY DEF Size, Unpaged, TWO_ADDR_EEPROM_SIZE, ONE_ADDR_EEPROM_SIZE,
       TWO_ADDR_EEPROM_UNPAGED_SIZE, ONE_ADDR_EEPROM_UNPAGED_SIZE,
       OPTOE_PAGE_SIZE, OPTOE_ARCH_PAGES

\* A request that is not refused keeps at least one byte.
LEMMA LegalLenPositive ==
  ASSUME NEW class, NEW hasPages \in BOOLEAN, NEW q \in Requests,
         LegalLen(class, hasPages, q) # Err
  PROVE  LegalLen(class, hasPages, q) \in Int /\ LegalLen(class, hasPages, q) >= 1
<1> DEFINE end == IF hasPages THEN Size(class) ELSE Unpaged(class)
<1>1. end \in Nat
  BY Sizes
<1>2. q.off \in Nat /\ q.len \in Nat /\ q.len >= 1
  BY RequestType
<1>3. CASE ~NeedsPages(class, q)
  BY <1>2, <1>3 DEF LegalLen
<1>4. CASE NeedsPages(class, q) /\ q.off < end
  <2>1. end - q.off \in Int /\ end - q.off >= 1
    BY <1>1, <1>2, <1>4
  <2>2. LegalLen(class, hasPages, q) = Lesser(q.len, end - q.off)
    BY <1>1, <1>2, <1>4 DEF LegalLen
  <2>3. q.len \in Int /\ q.len >= 1
    BY <1>2
  <2>4. Lesser(q.len, end - q.off) \in Int /\ Lesser(q.len, end - q.off) >= 1
    BY ONLY <2>1, <2>3, LesserType
  <2>5. QED
    BY <2>2, <2>4
<1>5. CASE NeedsPages(class, q) /\ ~(q.off < end)
  BY <1>1, <1>2, <1>5 DEF LegalLen
<1>6. QED
  BY <1>3, <1>4, <1>5

LEMMA DivNat ==
  ASSUME NEW n \in Nat
  PROVE  n \div OPTOE_PAGE_SIZE \in Nat /\ n % OPTOE_PAGE_SIZE \in Nat
         /\ (n >= OPTOE_PAGE_SIZE => n \div OPTOE_PAGE_SIZE >= 1)
BY DEF OPTOE_PAGE_SIZE

\* Where an offset is translated to: a client, a page, and an offset that is in
\* the upper half if the page is above 0.
LEMMA Translation ==
  ASSUME NEW class, NEW off \in Nat
  PROVE  /\ Client(class, off) \in 0..1
         /\ PageOf(class, off) \in Nat
         /\ PhyOffset(class, off) \in Nat
         /\ PageOf(class, off) > 0 => PhyOffset(class, off) >= OPTOE_PAGE_SIZE
<1>1. Client(class, off) \in 0..1 /\ (Client(class, off) = 1 => off > 255)
  BY DEF Client
<1>2. ClientOffset(class, off) \in Nat
  BY <1>1 DEF ClientOffset
<1> DEFINE o == ClientOffset(class, off)
<1>3. /\ PageOf(class, off) = IF o < OPTOE_PAGE_SIZE THEN 0 ELSE o \div OPTOE_PAGE_SIZE - 1
      /\ PhyOffset(class, off) = IF o < OPTOE_PAGE_SIZE THEN o
                                 ELSE OPTOE_PAGE_SIZE + (o % OPTOE_PAGE_SIZE)
  BY DEF PageOf, PhyOffset
<1>4. /\ o \div OPTOE_PAGE_SIZE \in Nat /\ o % OPTOE_PAGE_SIZE \in Nat
      /\ o >= OPTOE_PAGE_SIZE => o \div OPTOE_PAGE_SIZE >= 1
  BY <1>2, DivNat
<1>5. OPTOE_PAGE_SIZE \in Nat
  BY DEF OPTOE_PAGE_SIZE
<1> HIDE DEF o
<1>6. o \in Nat
  BY <1>2 DEF o
<1>7. QED
  BY <1>1, <1>3, <1>4, <1>5, <1>6

LEMMA ChunkTypes ==
  ASSUME NEW off \in Nat, NEW chunk \in Nat, NEW pending \in Int
  PROVE  ChunkOffset(off, chunk) \in Nat /\ ChunkLen(off, chunk, pending) \in Int
<1>1. chunk * OPTOE_PAGE_SIZE \in Nat /\ OPTOE_PAGE_SIZE \in Nat
  BY DEF OPTOE_PAGE_SIZE
<1>2. ChunkOffset(off, chunk) \in Nat
  BY <1>1 DEF ChunkOffset
<1>3. ChunkLen(off, chunk, pending) \in Int
  BY <1>1, LesserType DEF ChunkLen
<1>4. QED
  BY <1>2, <1>3

-----------------------------------------------------------------------------
(* Type correctness.                                                       *)

Locals == [chunk : Nat, last : Nat, pending : Int, retval : Int, clen : Int,
           client : 0..1, page : Nat, phy : Nat, count : Int, upd : Int]

LEMMA NoCallType == NoCall \in Locals
BY DEF NoCall, Locals

\* What a transfer moves: no more than is left, unless that is enormous.
LEMMA PortionType ==
  ASSUME NEW c \in Callers, loc.count \in Int
  PROVE  /\ Portion(c) \in Nat
         /\ loc.count >= 0 => Portion(c) <= loc.count
<1> DEFINE k == loc.count
           most == Most(c)
<1>1. most \in Nat
  BY XferAssumption DEF Most, write_max
<1>2. k \in Int
  OBVIOUS
<1> HIDE DEF k, most
<1>3. /\ k % 65536 \in Nat
      /\ k >= 0 => Lesser(k, most) \in Nat /\ Lesser(k, most) <= k
  BY <1>1, <1>2 DEF Lesser
<1>4. Portion(c) = IF Overwrites(c) THEN k % 65536
                   ELSE IF k < 0 THEN most ELSE Lesser(k, most)
  BY DEF Portion, Enormous, k, most
<1>5. Overwrites(c) => ~(k >= 0)
  BY <1>2 DEF Overwrites, Enormous, k
<1>6. ~(k < 0) => k >= 0
  BY <1>2
<1> QED
  BY <1>1, <1>3, <1>4, <1>5, <1>6 DEF k

\* The assignments of a call to its local variables keep their types.
LEMMA LocalsKept ==
  ASSUME NEW r \in Locals, NEW a \in Int, NEW b \in Int, NEW n \in Nat, NEW m \in Nat
  PROVE  /\ [r EXCEPT !.upd = a] \in Locals
         /\ [r EXCEPT !.phy = n, !.count = a, !.upd = b] \in Locals
         /\ [r EXCEPT !.pending = a, !.retval = b, !.chunk = n] \in Locals
         /\ [r EXCEPT !.chunk = n, !.last = m, !.pending = a] \in Locals
<1>1. [r EXCEPT !.upd = a] \in Locals
  BY DEF Locals
<1>2. [r EXCEPT !.phy = n, !.count = a, !.upd = b] \in Locals
  BY DEF Locals
<1>3. [r EXCEPT !.pending = a, !.retval = b, !.chunk = n] \in Locals
  BY DEF Locals
<1>4. [r EXCEPT !.chunk = n, !.last = m, !.pending = a] \in Locals
  BY DEF Locals
<1>5. QED
  BY <1>1, <1>2, <1>3, <1>4

LEMMA ChunkKept ==
  ASSUME NEW r \in Locals, NEW clen \in Int, NEW to \in 0..1, NEW page \in Nat,
         NEW phy \in Nat
  PROVE  [r EXCEPT !.clen = clen, !.client = to, !.page = page,
                   !.phy = phy, !.count = clen, !.upd = 0] \in Locals
<1>1. \A s \in Locals : [s EXCEPT !.clen = clen, !.client = to, !.page = page] \in Locals
  BY DEF Locals
<1>2. \A s \in Locals : [s EXCEPT !.phy = phy, !.count = clen, !.upd = 0] \in Locals
  <2>1. \A u \in Int, s \in Locals : [s EXCEPT !.phy = phy, !.count = clen, !.upd = u] \in Locals
    BY DEF Locals
  <2>2. 0 \in Int
    OBVIOUS
  <2>3. QED
    BY <2>1, <2>2, Zenon
<1>3. QED
  BY <1>1, <1>2

LEMMA LocalsFields ==
  ASSUME NEW r \in Locals
  PROVE  /\ r.chunk \in Nat /\ r.last \in Nat /\ r.pending \in Int /\ r.retval \in Int
         /\ r.clen \in Int /\ r.client \in 0..1 /\ r.page \in Nat /\ r.phy \in Nat
         /\ r.count \in Int /\ r.upd \in Int
BY DEF Locals

LEMMA InitIInv == Init => IInv
<1> SUFFICES ASSUME Init PROVE IInv
  OBVIOUS
<1>1. dev_class \in {ONE_ADDR, TWO_ADDR}
  BY AddressAssumption DEF Init, ONE_ADDR, TWO_ADDR
<1>2. TypeOK
  <2>1. pc \in [Callers -> Inside \cup {"idle", "lock"}]
    BY DEF Init
  <2>2. pageReg \in [0..1 -> Nat] /\ dirty \in [0..1 -> BOOLEAN]
    BY DEF Init
  <2>3. result \in [Callers -> Int] /\ amount \in [Callers -> Nat]
    BY DEF Init
  <2>4. loc \in Locals
    BY NoCallType DEF Init
  <2>5. QED
    BY <1>1, <2>1, <2>2, <2>3, <2>4 DEF Init, TypeOK, Locals
<1>3. LockInv
  BY CallersAssumption DEF Init, LockInv, Inside
<1>4. CallInv /\ PageInv /\ SelectedInv
  BY DEF Init, CallInv, PageInv, SelectedInv
<1>5. QED
  BY <1>2, <1>3, <1>4 DEF IInv

\* What a call returns, and how it leaves the driver.
LEMMA ReturnType ==
  ASSUME TypeOK, NEW c \in Callers, NEW v \in Int, Return(c, v)
  PROVE  /\ result' \in [Callers -> Int] /\ lock' \in Callers \cup {NoOne}
         /\ pc' \in [Callers -> Inside \cup {"idle", "lock"}]
         /\ loc' \in Locals
BY NoCallType DEF Return, TypeOK, Goto

LEMMA GotoType ==
  ASSUME TypeOK, NEW c \in Callers, NEW l \in Inside \cup {"idle", "lock"}, Goto(c, l)
  PROVE  pc' \in [Callers -> Inside \cup {"idle", "lock"}]
BY DEF TypeOK, Goto

LEMMA CallerWritesType ==
  ASSUME TypeOK, CallerWritesPage \/ UNCHANGED <<pageReg, dirty>>
  PROVE  pageReg' \in [0..1 -> Nat] /\ dirty' \in [0..1 -> BOOLEAN]
<1>1. pageReg \in [0..1 -> Nat] /\ dirty \in [0..1 -> BOOLEAN]
  BY DEF TypeOK
<1>2. CASE UNCHANGED <<pageReg, dirty>>
  BY <1>1, <1>2
<1>3. CASE CallerWritesPage
  <2>1. PICK v \in 0..1 : /\ pageReg' = [pageReg EXCEPT ![loc.client] = v]
                          /\ dirty' = [dirty EXCEPT ![loc.client] = v # loc.page]
    BY <1>3 DEF CallerWritesPage, PageWritten
  <2>2. (v # loc.page) \in BOOLEAN /\ v \in Nat
    OBVIOUS
  <2>3. QED
    BY <1>1, <2>1, <2>2
<1>4. QED
  BY <1>2, <1>3

LEMMA NextTypeOK == IInv /\ [Next]_vars => TypeOK'
<1> SUFFICES ASSUME IInv, [Next]_vars PROVE TypeOK'
  OBVIOUS
<1>0. TypeOK /\ LockInv /\ CallInv
  BY DEF IInv
<1> USE <1>0
<1>a. loc \in Locals
  BY DEF TypeOK, Locals
<1>1. ASSUME NEW c \in Callers, Call(c) PROVE TypeOK'
  <2>1. /\ req' \in [Callers -> Requests]
        /\ result' \in [Callers -> Int] /\ amount' \in [Callers -> Nat]
    BY <1>1 DEF Call, TypeOK
  <2>2. pc' \in [Callers -> Inside \cup {"idle", "lock"}]
    BY <1>1, GotoType DEF Call
  <2>3. QED
    BY <1>1, <2>1, <2>2 DEF Call, TypeOK, Module
<1>2. ASSUME NEW c \in Callers, Begin(c) PROVE TypeOK'
  <2> DEFINE len == LegalLen(dev_class, pageable, req[c])
             off == req[c].off
  <2>1. req[c] \in Requests /\ pageable \in BOOLEAN
    BY DEF TypeOK
  <2>2. len \in Int /\ len >= 1
    BY <1>2, <2>1, LegalLenPositive DEF Begin
  <2>3. off \in Nat
    BY <2>1, RequestType
  <2> HIDE DEF len, off
  <2>4. off + len - 1 \in Nat
    BY <2>2, <2>3
  <2>5. off \div OPTOE_PAGE_SIZE \in Nat /\ (off + len - 1) \div OPTOE_PAGE_SIZE \in Nat
    BY <2>3, <2>4, DivNat
  <2>6. loc' = [NoCall EXCEPT !.chunk   = off \div OPTOE_PAGE_SIZE,
                              !.last    = (off + len - 1) \div OPTOE_PAGE_SIZE,
                              !.pending = len]
    BY <1>2 DEF Begin, len, off
  <2>7. loc' \in Locals
    BY ONLY <2>2, <2>5, <2>6, NoCallType, LocalsKept
  <2>8. pc' \in [Callers -> Inside \cup {"idle", "lock"}]
    BY <1>2, GotoType DEF Begin, Inside
  <2>9. lock' \in Callers \cup {NoOne} /\ torn' \in BOOLEAN
    BY <1>2 DEF Begin, TypeOK
  <2>10. QED
    BY <1>2, <2>7, <2>8, <2>9 DEF Begin, TypeOK, Module, Locals
<1>3. ASSUME NEW c \in Callers, Refuse(c) PROVE TypeOK'
  <2>1. Err \in Int
    BY DEF Err
  <2>2. QED
    BY <1>3, <2>1, ReturnType DEF Refuse, TypeOK, Module, Locals
<1>4. ASSUME NEW c \in Callers, NextChunk(c) PROVE TypeOK'
  <2> DEFINE coff == ChunkOffset(req[c].off, loc.chunk)
             clen == ChunkLen(req[c].off, loc.chunk, loc.pending)
             page == PageOf(dev_class, coff)
             to   == Client(dev_class, coff)
             phy  == PhyOffset(dev_class, coff)
             label == IF to >= NumAddresses THEN "oops"
                      ELSE IF page > 0 THEN "select" ELSE "xfer"
  <2>1. req[c].off \in Nat
    BY RequestType DEF TypeOK
  <2>2. coff \in Nat /\ clen \in Int
    BY <1>a, <2>1, ChunkTypes DEF Locals
  <2>3. page \in Nat /\ to \in 0..1 /\ phy \in Nat
    BY <2>2, Translation
  <2>4. /\ loc' = [loc EXCEPT !.clen = clen, !.client = to, !.page = page,
                               !.phy = phy, !.count = clen, !.upd = 0]
        /\ Goto(c, label)
    BY <1>4 DEF NextChunk
  <2>5. label \in Inside
    BY DEF Inside
  <2> HIDE DEF coff, clen, page, to, phy, label
  <2>6. loc' \in Locals
    BY ONLY <1>a, <2>2, <2>3, <2>4, ChunkKept
  <2>7. pc' \in [Callers -> Inside \cup {"idle", "lock"}]
    BY <2>4, <2>5, GotoType
  <2>8. QED
    BY <1>4, <2>6, <2>7 DEF NextChunk, TypeOK, Module, Locals
<1>5. ASSUME NEW c \in Callers, SelectPage(c) PROVE TypeOK'
  <2>1. pc' \in [Callers -> Inside \cup {"idle", "lock"}]
    BY <1>5, GotoType DEF SelectPage, Inside
  <2>2. loc' \in Locals
    BY <1>5, <1>a DEF SelectPage, Locals, ETIMEDOUT
  <2>3. pageReg' \in [0..1 -> Nat] /\ dirty' \in [0..1 -> BOOLEAN]
    BY <1>5, <1>a, LocalsFields DEF SelectPage, PageMayBeWritten, PageWritten, NotAtZero, TypeOK
  <2>4. QED
    BY <1>5, <2>1, <2>2, <2>3 DEF SelectPage, TypeOK, Locals
<1>6. ASSUME NEW c \in Callers, Transfer(c) PROVE TypeOK'
  <2> DEFINE n == Portion(c)
  <2>1. loc.count \in Int
    BY <1>a, LocalsFields
  <2>2. n \in Nat
    BY <2>1, PortionType
  <2>3. /\ loc' = [loc EXCEPT !.phy = @ + n, !.count = @ - n, !.upd = @ + n]
        /\ amount' = [amount EXCEPT ![c] = @ + n]
    BY <1>6 DEF Transfer
  <2>4. pc' = pc \/ Goto(c, "oops") \/ Goto(c, "restore") \/ Goto(c, "end")
    BY <1>6 DEF Transfer, AfterTransfer
  <2> HIDE DEF n
  <2>5. loc' \in Locals
    <3>1. loc.phy \in Nat /\ loc.count \in Int /\ loc.upd \in Int
      BY <1>a, LocalsFields
    <3>2. loc.phy + n \in Nat /\ loc.count - n \in Int /\ loc.upd + n \in Int
      BY ONLY <2>2, <3>1
    <3>3. QED
      BY ONLY <1>a, <2>3, <3>2, LocalsKept
  <2>6. amount' \in [Callers -> Nat]
    BY <2>2, <2>3 DEF TypeOK
  <2>7. pc' \in [Callers -> Inside \cup {"idle", "lock"}]
    BY <2>4, GotoType DEF TypeOK, Inside
  <2>8. pageReg' \in [0..1 -> Nat] /\ dirty' \in [0..1 -> BOOLEAN]
    <3>1. CallerWritesPage \/ UNCHANGED <<pageReg, dirty>>
      BY <1>6 DEF Transfer
    <3>2. QED
      BY <3>1, CallerWritesType
  <2>9. QED
    BY <1>6, <2>5, <2>6, <2>7, <2>8 DEF Transfer, TypeOK, Locals
<1>7. ASSUME NEW c \in Callers, TransferFails(c) PROVE TypeOK'
  <2>1. loc' \in Locals
    <3>1. PICK e \in {ENXIO, ETIMEDOUT} : loc' = [loc EXCEPT !.upd = IF @ = 0 THEN e ELSE @]
      BY <1>7 DEF TransferFails
    <3>2. (IF loc.upd = 0 THEN e ELSE loc.upd) \in Int
      BY <1>a, LocalsFields DEF ENXIO, ETIMEDOUT
    <3>3. QED
      BY <1>a, <3>1, <3>2, LocalsKept
  <2>2. pc' \in [Callers -> Inside \cup {"idle", "lock"}]
    BY <1>7, GotoType DEF TransferFails, AfterTransfer, Inside
  <2>3. pageReg' \in [0..1 -> Nat] /\ dirty' \in [0..1 -> BOOLEAN]
    <3>1. CallerWritesPage \/ UNCHANGED <<pageReg, dirty>>
      BY <1>7 DEF TransferFails
    <3>2. QED
      BY <3>1, CallerWritesType
  <2>4. QED
    BY <1>7, <2>1, <2>2, <2>3 DEF TransferFails, TypeOK, Locals
<1>8. ASSUME NEW c \in Callers, RestorePage(c) PROVE TypeOK'
  <2>1. loc' \in Locals
    BY <1>8, <1>a DEF RestorePage, Locals, ETIMEDOUT
  <2>2. pc' \in [Callers -> Inside \cup {"idle", "lock"}]
    BY <1>8, GotoType DEF RestorePage, Inside
  <2>3. pageReg' \in [0..1 -> Nat] /\ dirty' \in [0..1 -> BOOLEAN]
    <3>1. pageReg' = [pageReg EXCEPT ![loc.client] = 0] \/ pageReg' = pageReg
      BY <1>8 DEF RestorePage, PageMayBeWritten, PageWritten
    <3>2. \E b \in BOOLEAN : dirty' = [dirty EXCEPT ![loc.client] = b]
      BY <1>8 DEF RestorePage, NotAtZero
    <3>3. QED
      BY <3>1, <3>2 DEF TypeOK
  <2>4. QED
    BY <1>8, <2>1, <2>2, <2>3 DEF RestorePage, TypeOK, Locals
<1>9. ASSUME NEW c \in Callers, ChunkShort(c) PROVE TypeOK'
  BY <1>9, <1>a, ReturnType DEF ChunkShort, TypeOK, Module, Locals
<1>10. ASSUME NEW c \in Callers, ChunkDone(c) PROVE TypeOK'
  <2>1. loc' \in Locals
    <3>1. loc.pending - loc.upd \in Int /\ loc.retval + loc.upd \in Int /\ loc.chunk + 1 \in Nat
      BY <1>a, LocalsFields
    <3>2. loc' = [loc EXCEPT !.pending = @ - loc.upd, !.retval = @ + loc.upd, !.chunk = @ + 1]
      BY <1>10 DEF ChunkDone
    <3>3. QED
      BY ONLY <1>a, <3>1, <3>2, LocalsKept
  <2>2. pc' \in [Callers -> Inside \cup {"idle", "lock"}]
    BY <1>10, GotoType DEF ChunkDone, Inside
  <2>3. QED
    BY <1>10, <2>1, <2>2 DEF ChunkDone, TypeOK, Module, Locals
<1>11. ASSUME NEW c \in Callers, LastChunkDone(c) PROVE TypeOK'
  <2>1. loc.retval + loc.upd \in Int
    BY <1>a DEF Locals
  <2>2. QED
    BY <1>11, <2>1, ReturnType DEF LastChunkDone, TypeOK, Module, Locals
<1>12. CASE SetDevClass
  BY <1>12, ClassesAssumption DEF SetDevClass, TypeOK
<1>13. CASE Swap
  BY <1>13 DEF Swap, TypeOK
<1>14. CASE UNCHANGED vars
  BY <1>14 DEF vars, TypeOK
<1>15. QED
  BY <1>1, <1>2, <1>3, <1>4, <1>5, <1>6, <1>7, <1>8, <1>9, <1>10, <1>11, <1>12,
     <1>13, <1>14 DEF Next, optoe_read_write, InCall

-----------------------------------------------------------------------------
(* One call at a time.                                                     *)

\* While one caller is in a call, or the lock is free, no other one is.
LEMMA Alone ==
  ASSUME LockInv, NEW c \in Callers, pc[c] \in Inside \/ lock = NoOne
  PROVE  \A d \in Callers \ {c} : pc[d] \notin Inside
BY CallersAssumption DEF LockInv

LEMMA InsideStays ==
  ASSUME TypeOK, LockInv, NEW c \in Callers, pc[c] \in Inside, lock' = lock,
         NEW l \in Inside, pc' = [pc EXCEPT ![c] = l]
  PROVE  LockInv'
<1>1. \A d \in Callers : pc'[d] = IF d = c THEN l ELSE pc[d]
  BY DEF TypeOK
<1>2. QED
  BY <1>1 DEF LockInv

LEMMA ReturnFrees ==
  ASSUME TypeOK, LockInv, NEW c \in Callers, pc[c] \in Inside \/ lock = NoOne,
         NEW v, Return(c, v)
  PROVE  LockInv'
<1>1. \A d \in Callers : pc'[d] = IF d = c THEN "idle" ELSE pc[d]
  BY DEF TypeOK, Return, Goto
<1>2. lock' = NoOne
  BY DEF Return
<1>3. "idle" \notin Inside
  BY DEF Inside
<1>4. QED
  BY <1>1, <1>2, <1>3, Alone, CallersAssumption DEF LockInv

LEMMA NextLockInv == IInv /\ [Next]_vars => LockInv'
<1> SUFFICES ASSUME IInv, [Next]_vars PROVE LockInv'
  OBVIOUS
<1> USE DEF IInv
<1>0. /\ {"chunk", "select", "xfer", "restore", "end", "oops"} = Inside
      /\ "idle" \notin Inside /\ "lock" \notin Inside
  BY DEF Inside
<1>1. ASSUME NEW c \in Callers, Call(c) PROVE LockInv'
  <2>1. \A d \in Callers : pc'[d] = IF d = c THEN "lock" ELSE pc[d]
    BY <1>1 DEF Call, Goto, TypeOK
  <2>2. QED
    BY <1>0, <1>1, <2>1 DEF Call, LockInv
<1>2. ASSUME NEW c \in Callers, Begin(c) PROVE LockInv'
  <2>1. \A d \in Callers : pc'[d] = IF d = c THEN "chunk" ELSE pc[d]
    BY <1>2 DEF Begin, Goto, TypeOK
  <2>2. lock = NoOne /\ lock' = c
    BY <1>2 DEF Begin
  <2>3. "chunk" \in Inside
    BY <1>0
  <2>4. QED
    BY <2>1, <2>2, <2>3, Alone DEF LockInv
<1>3. ASSUME NEW c \in Callers, Refuse(c) PROVE LockInv'
  BY <1>3, ReturnFrees DEF Refuse
<1>4. ASSUME NEW c \in Callers, NextChunk(c) PROVE LockInv'
  <2>1. pc[c] = "chunk" /\ lock' = lock
    BY <1>4 DEF NextChunk
  <2>2. PICK l \in Inside : Goto(c, l)
    BY <1>0, <1>4 DEF NextChunk
  <2>3. QED
    BY <1>0, <2>1, <2>2, InsideStays DEF Goto
<1>5. ASSUME NEW c \in Callers, SelectPage(c) PROVE LockInv'
  <2>1. pc[c] = "select" /\ lock' = lock
    BY <1>5 DEF SelectPage
  <2>2. PICK l \in Inside : Goto(c, l)
    BY <1>0, <1>5 DEF SelectPage
  <2>3. QED
    BY <1>0, <2>1, <2>2, InsideStays DEF Goto
<1>6. ASSUME NEW c \in Callers, Transfer(c) PROVE LockInv'
  <2>1. pc[c] = "xfer" /\ lock' = lock
    BY <1>6 DEF Transfer
  <2>2. CASE pc' = pc
    BY <2>1, <2>2 DEF LockInv
  <2>3. CASE \E l \in Inside : Goto(c, l)
    BY <1>0, <2>1, <2>3, InsideStays DEF Goto
  <2>4. QED
    BY <1>0, <1>6, <2>2, <2>3 DEF Transfer, AfterTransfer
<1>7. ASSUME NEW c \in Callers, TransferFails(c) PROVE LockInv'
  <2>1. pc[c] = "xfer" /\ lock' = lock
    BY <1>7 DEF TransferFails
  <2>2. PICK l \in Inside : Goto(c, l)
    BY <1>0, <1>7 DEF TransferFails, AfterTransfer
  <2>3. QED
    BY <1>0, <2>1, <2>2, InsideStays DEF Goto
<1>8. ASSUME NEW c \in Callers, RestorePage(c) PROVE LockInv'
  BY <1>0, <1>8, InsideStays DEF RestorePage, Goto
<1>9. ASSUME NEW c \in Callers, ChunkShort(c) PROVE LockInv'
  BY <1>0, <1>9, ReturnFrees DEF ChunkShort
<1>10. ASSUME NEW c \in Callers, ChunkDone(c) PROVE LockInv'
  BY <1>0, <1>10, InsideStays DEF ChunkDone, Goto, Module
<1>11. ASSUME NEW c \in Callers, LastChunkDone(c) PROVE LockInv'
  BY <1>0, <1>11, ReturnFrees DEF LastChunkDone
<1>12. CASE SetDevClass \/ Swap \/ UNCHANGED vars
  BY <1>12 DEF SetDevClass, Swap, vars, LockInv
<1>13. QED
  BY <1>1, <1>2, <1>3, <1>4, <1>5, <1>6, <1>7, <1>8, <1>9, <1>10, <1>11, <1>12
     DEF Next, optoe_read_write, InCall

-----------------------------------------------------------------------------
(* The page register.  Everything below rests on the step of one caller    *)
(* while no other one is in a call.                                        *)

Paging == CallInv /\ PageInv /\ SelectedInv

\* A step after which the caller neither selects nor transfers, and that leaves
\* every register it changes at page 0 or known not to be.
LEMMA LeavesPagesAlone ==
  ASSUME TypeOK, LockInv, PageInv, NEW c \in Callers,
         pc[c] \in Inside \/ lock = NoOne,
         pc[c] \notin {"xfer", "restore", "oops"},
         NEW l \in {"idle", "lock", "chunk", "end", "oops"},
         pc' = [pc EXCEPT ![c] = l],
         \A a \in 0..1 : \/ dirty'[a] \/ pageReg'[a] = 0
                         \/ dirty'[a] = dirty[a] /\ pageReg'[a] = pageReg[a]
  PROVE  Paging'
<1>1. \A d \in Callers : pc'[d] = IF d = c THEN l ELSE pc[d]
  BY DEF TypeOK
<1>2. \A d \in Callers \ {c} : pc[d] \notin {"select", "xfer", "restore", "oops"}
  BY Alone DEF Inside
<1>3. \A d \in Callers : pc[d] \notin {"xfer", "restore", "oops"}
  BY <1>2
<1>4. \A d \in Callers : pc'[d] \notin {"select", "xfer"}
  BY <1>1, <1>2
<1>5. CallInv' /\ SelectedInv'
  BY <1>4 DEF CallInv, SelectedInv
<1>6. \A a \in 0..1 : dirty[a] \/ pageReg[a] = 0
  BY <1>3 DEF PageInv
<1>7. PageInv'
  BY <1>6 DEF PageInv
<1>8. QED
  BY <1>5, <1>7 DEF Paging

\* A transfer leaves the register alone, or it was the caller's write that hit it.
LEMMA TransferringKeeps ==
  ASSUME TypeOK, LockInv, PageInv, SelectedInv, NEW c \in Callers, pc[c] = "xfer",
         torn' = torn, CallerWritesPage \/ UNCHANGED <<pageReg, dirty>>,
         loc'.page = loc.page, loc'.client = loc.client,
         \A d \in Callers \ {c} : pc'[d] = pc[d],
         pc'[c] \in {"oops", "xfer", "restore", "end"},
         loc.page > 0 => pc'[c] # "end"
  PROVE  Paging'
<1>1. \A d \in Callers \ {c} : pc'[d] \notin {"select", "xfer", "restore", "oops"}
  BY Alone DEF Inside
<1>2. CallInv'
  BY <1>1 DEF CallInv
<1>3. /\ loc.client \in 0..1 /\ loc.page \in Nat
      /\ pageReg \in [0..1 -> Nat] /\ dirty \in [0..1 -> BOOLEAN]
  BY DEF TypeOK
<1>4. /\ \A a \in 0..1 \ {loc.client} : pageReg'[a] = pageReg[a] /\ dirty'[a] = dirty[a]
      /\ \/ pageReg'[loc.client] = pageReg[loc.client] /\ dirty'[loc.client] = dirty[loc.client]
         \/ dirty'[loc.client] = (pageReg'[loc.client] # loc.page)
  BY <1>3 DEF CallerWritesPage, PageWritten
<1>5. SelectedInv'
  BY <1>1, <1>3, <1>4 DEF SelectedInv
<1>6. PageInv'
  <2> SUFFICES ASSUME NEW a \in 0..1
               PROVE  \/ dirty'[a] \/ pageReg'[a] = 0
                      \/ \E d \in Callers : /\ pc'[d] \in {"xfer", "restore", "oops"}
                                            /\ loc'.page > 0 /\ loc'.client = a
    BY DEF PageInv
  <2>1. dirty[a] \/ pageReg[a] = 0 \/ (loc.page > 0 /\ loc.client = a)
    BY DEF PageInv
  <2>2. CASE loc.page > 0 /\ loc.client = a
    BY <2>2
  <2>3. CASE ~(loc.page > 0 /\ loc.client = a)
    <3>1. loc.client = a => loc.page = 0
      BY <1>3, <2>3
    <3> QED
      BY <1>4, <2>1, <2>3, <3>1
  <2> QED
    BY <2>2, <2>3
<1> QED
  BY <1>2, <1>5, <1>6 DEF Paging

LEMMA NextPaging == IInv /\ [Next]_vars => Paging'
<1> SUFFICES ASSUME IInv, [Next]_vars PROVE Paging'
  OBVIOUS
<1> USE DEF IInv
<1>0. /\ {"chunk", "select", "xfer", "restore", "end", "oops"} = Inside
      /\ "idle" \notin Inside /\ "lock" \notin Inside
  BY DEF Inside
<1>a. loc \in Locals
  BY DEF TypeOK, Locals
<1>b. loc.client \in 0..1 /\ loc.page \in Nat
  BY <1>a, LocalsFields
<1>1. ASSUME NEW c \in Callers, Call(c) PROVE Paging'
  <2>1. \A d \in Callers : pc'[d] = IF d = c THEN "lock" ELSE pc[d]
    BY <1>1 DEF Call, Goto, TypeOK
  <2>2. pc[c] = "idle" /\ loc' = loc /\ pageReg' = pageReg /\ dirty' = dirty /\ torn' = torn
    BY <1>1 DEF Call, Module
  <2>3. CallInv' /\ SelectedInv'
    BY <2>1, <2>2 DEF CallInv, SelectedInv
  <2>4. PageInv'
    BY <2>1, <2>2 DEF PageInv
  <2>5. QED
    BY <2>3, <2>4 DEF Paging
<1>2. ASSUME NEW c \in Callers, Begin(c) PROVE Paging'
  BY <1>2, LeavesPagesAlone DEF Begin, Goto, Module
<1>3. ASSUME NEW c \in Callers, Refuse(c) PROVE Paging'
  BY <1>3, LeavesPagesAlone DEF Refuse, Return, Goto, Module
<1>4. ASSUME NEW c \in Callers, NextChunk(c) PROVE Paging'
  <2> DEFINE coff == ChunkOffset(req[c].off, loc.chunk)
             clen == ChunkLen(req[c].off, loc.chunk, loc.pending)
             page == PageOf(dev_class, coff)
             to   == Client(dev_class, coff)
             phy  == PhyOffset(dev_class, coff)
             label == IF to >= NumAddresses THEN "oops"
                      ELSE IF page > 0 THEN "select" ELSE "xfer"
  <2>4. /\ loc' = [loc EXCEPT !.clen = clen, !.client = to, !.page = page,
                               !.phy = phy, !.count = clen, !.upd = 0]
        /\ pc' = [pc EXCEPT ![c] = label]
        /\ pc[c] = "chunk" /\ pageReg' = pageReg /\ dirty' = dirty /\ torn' = torn
    BY <1>4 DEF NextChunk, Goto, Module
  <2>5. /\ label \in {"oops", "select", "xfer"}
        /\ label = "select" => page > 0
        /\ label = "xfer" => ~(page > 0)
    OBVIOUS
  <2> HIDE DEF coff, clen, page, to, phy, label
  <2>6. loc'.page = page
    BY <1>a, <2>4 DEF Locals
  <2>7. \A d \in Callers : pc'[d] = IF d = c THEN label ELSE pc[d]
    BY <2>4 DEF TypeOK
  <2>8. \A d \in Callers : pc[d] \notin {"select", "xfer", "restore", "oops"}
    BY <1>0, <2>4, Alone
  <2>9. CallInv'
    BY <2>5, <2>6, <2>7, <2>8 DEF CallInv
  <2>10. SelectedInv'
    BY <2>5, <2>6, <2>7, <2>8 DEF SelectedInv
  <2>11. PageInv'
    BY <2>4, <2>8 DEF PageInv
  <2>12. QED
    BY <2>9, <2>10, <2>11 DEF Paging
<1>5. ASSUME NEW c \in Callers, SelectPage(c) PROVE Paging'
  <2>1. pc[c] = "select" /\ torn' = torn
    BY <1>5 DEF SelectPage
  <2>2. \A d \in Callers \ {c} : pc[d] \notin {"select", "xfer", "restore", "oops"}
    BY <1>0, <2>1, Alone
  <2>3. CASE /\ PageWritten(loc.page) /\ Goto(c, "xfer") /\ loc' = loc
             /\ dirty' = [dirty EXCEPT ![loc.client] = FALSE]
    <3>1. \A d \in Callers : pc'[d] = IF d = c THEN "xfer" ELSE pc[d]
      BY <2>3 DEF Goto, TypeOK
    <3>2. loc.page > 0
      BY <2>1 DEF CallInv
    <3>3. \A a \in 0..1 : /\ pageReg'[a] = IF a = loc.client THEN loc.page ELSE pageReg[a]
                          /\ dirty'[a] = IF a = loc.client THEN FALSE ELSE dirty[a]
      BY <2>3 DEF PageWritten, TypeOK
    <3>4. CallInv'
      BY <2>2, <3>1 DEF CallInv
    <3>5. SelectedInv'
      BY <1>b, <2>2, <2>3, <3>1, <3>3 DEF SelectedInv
    <3>6. PageInv'
      <4>1. \A a \in 0..1 \ {loc.client} : dirty[a] \/ pageReg[a] = 0
        BY <2>1, <2>2 DEF PageInv
      <4>2. QED
        BY <2>3, <3>1, <3>2, <3>3, <4>1 DEF PageInv
    <3>7. QED
      BY <3>4, <3>5, <3>6 DEF Paging
  <2>4. CASE Goto(c, "end") /\ PageMayBeWritten(loc.page) /\ NotAtZero
    <3>1. \A a \in 0..1 : \/ dirty'[a] \/ pageReg'[a] = 0
                          \/ dirty'[a] = dirty[a] /\ pageReg'[a] = pageReg[a]
      BY <1>b, <2>4 DEF PageMayBeWritten, PageWritten, NotAtZero, TypeOK
    <3>2. QED
      BY <1>0, <2>1, <2>4, <3>1, LeavesPagesAlone DEF Goto
  <2>5. QED
    BY <1>5, <2>3, <2>4 DEF SelectPage
<1>6. ASSUME NEW c \in Callers, Transfer(c) PROVE Paging'
  <2>1. /\ pc[c] = "xfer" /\ torn' = torn
        /\ CallerWritesPage \/ UNCHANGED <<pageReg, dirty>>
    BY <1>6 DEF Transfer
  <2>2. loc'.page = loc.page /\ loc'.client = loc.client
    BY <1>6, <1>a DEF Transfer, Locals
  <2>3. pc' = pc \/ Goto(c, "oops") \/ Goto(c, AfterTransfer(loc'))
    BY <1>6 DEF Transfer
  <2>4. /\ \A d \in Callers \ {c} : pc'[d] = pc[d]
        /\ pc'[c] \in {"oops", "xfer", "restore", "end"}
        /\ loc.page > 0 => pc'[c] # "end"
    BY <2>1, <2>2, <2>3 DEF Goto, AfterTransfer, TypeOK
  <2>5. QED
    BY <2>1, <2>2, <2>4, TransferringKeeps
<1>7. ASSUME NEW c \in Callers, TransferFails(c) PROVE Paging'
  <2>1. /\ pc[c] = "xfer" /\ torn' = torn /\ Goto(c, AfterTransfer(loc))
        /\ CallerWritesPage \/ UNCHANGED <<pageReg, dirty>>
    BY <1>7 DEF TransferFails
  <2>2. loc'.page = loc.page /\ loc'.client = loc.client
    BY <1>7, <1>a DEF TransferFails, Locals
  <2>3. /\ \A d \in Callers \ {c} : pc'[d] = pc[d]
        /\ pc'[c] \in {"oops", "xfer", "restore", "end"}
        /\ loc.page > 0 => pc'[c] # "end"
    BY <2>1 DEF Goto, AfterTransfer, TypeOK
  <2>4. QED
    BY <2>1, <2>2, <2>3, TransferringKeeps
<1>8. ASSUME NEW c \in Callers, RestorePage(c) PROVE Paging'
  <2>1. pc[c] = "restore" /\ Goto(c, "end")
    BY <1>8 DEF RestorePage
  <2>2. \A d \in Callers : pc'[d] \notin {"select", "xfer", "restore", "oops"}
    BY <1>0, <2>1, Alone DEF Goto, TypeOK
  <2>3. CallInv' /\ SelectedInv'
    BY <2>2 DEF CallInv, SelectedInv
  <2>4. pageReg' = [pageReg EXCEPT ![loc.client] = 0] \/ pageReg' = pageReg
    BY <1>8 DEF RestorePage, PageMayBeWritten, PageWritten
  <2>5. dirty' = [dirty EXCEPT ![loc.client] = pageReg'[loc.client] # 0]
    BY <1>8 DEF RestorePage, NotAtZero
  <2>6. \A a \in 0..1 \ {loc.client} : dirty[a] \/ pageReg[a] = 0
    <3>1. \A d \in Callers \ {c} : pc[d] \notin {"select", "xfer", "restore", "oops"}
      BY <1>0, <2>1, Alone
    <3>2. QED
      BY <2>1, <3>1 DEF PageInv
  <2>7. \A a \in 0..1 : dirty'[a] \/ pageReg'[a] = 0
    BY <1>b, <2>4, <2>5, <2>6 DEF TypeOK
  <2>8. PageInv'
    BY <2>7 DEF PageInv
  <2>9. QED
    BY <2>3, <2>8 DEF Paging
<1>9. ASSUME NEW c \in Callers, ChunkShort(c) PROVE Paging'
  BY <1>0, <1>9, LeavesPagesAlone DEF ChunkShort, Return, Goto, Module
<1>10. ASSUME NEW c \in Callers, ChunkDone(c) PROVE Paging'
  BY <1>0, <1>10, LeavesPagesAlone DEF ChunkDone, Goto, Module
<1>11. ASSUME NEW c \in Callers, LastChunkDone(c) PROVE Paging'
  BY <1>0, <1>11, LeavesPagesAlone DEF LastChunkDone, Return, Goto, Module
<1>12. CASE SetDevClass \/ UNCHANGED vars
  BY <1>12 DEF SetDevClass, vars, Paging, CallInv, PageInv, SelectedInv
<1>13. CASE Swap
  <2>1. pc' = pc /\ loc' = loc /\ torn' = (lock # NoOne) /\ pageReg' = [a \in 0..1 |-> 0]
    BY <1>13 DEF Swap
  <2>2. CallInv' /\ PageInv'
    BY <2>1 DEF CallInv, PageInv
  <2>3. \A c \in Callers : pc[c] = "xfer" => torn'
    BY <1>0, <2>1, CallersAssumption DEF LockInv
  <2>4. SelectedInv'
    BY <2>1, <2>3 DEF SelectedInv
  <2>5. QED
    BY <2>2, <2>4 DEF Paging
<1>14. QED
  BY <1>1, <1>2, <1>3, <1>4, <1>5, <1>6, <1>7, <1>8, <1>9, <1>10, <1>11, <1>12, <1>13
     DEF Next, optoe_read_write, InCall

-----------------------------------------------------------------------------
(* The theorems.                                                           *)

\* The invariant the page register's correctness rests on (optoe.c:506-739).
THEOREM Inductive == Spec => []IInv
<1>1. Init => IInv
  BY InitIInv
<1>2. IInv /\ [Next]_vars => IInv'
  BY NextTypeOK, NextLockInv, NextPaging DEF IInv, Paging
<1>3. QED
  BY <1>1, <1>2, PTL DEF Spec

\* The driver's state keeps its shape whatever is asked of it.
THEOREM TypeCorrect == Spec => []TypeOK
<1>1. IInv => TypeOK
  BY DEF IInv
<1>2. QED
  BY <1>1, Inductive, PTL

\* Every byte is moved through the page its offset was translated to, for any
\* number of concurrent callers, any failures and any exchange of modules,
\* except after the cases RightPage names (optoe.c:506-569).
THEOREM Right == Spec => []RightPage
<1>1. IInv => RightPage
  <2> SUFFICES ASSUME IInv, NEW c \in Callers,
                      pc[c] = "xfer", ~dirty[loc.client], ~torn
               PROVE  pageReg[loc.client] = loc.page
    BY DEF RightPage
  <2> USE DEF IInv
  <2>1. loc.page \in Nat /\ loc.client \in 0..1
    BY DEF TypeOK
  <2>2. CASE loc.page > 0
    BY <2>2 DEF SelectedInv
  <2>3. CASE ~(loc.page > 0)
    <3>1. loc.page = 0
      BY ONLY <2>1, <2>3
    <3>2. pageReg[loc.client] = 0
      BY <2>1, <2>3 DEF PageInv
    <3>3. QED
      BY <3>1, <3>2
  <2>4. QED
    BY <2>2, <2>3
<1>2. QED
  BY <1>1, Inductive, PTL

\* While nobody is in a call, page 0 is selected, unless a write of the register
\* failed, whether or not it arrived, or a caller wrote it itself (optoe.c:
\* 520-528 and 553-565).
THEOREM AtRest == Spec => []PageZeroAtRest
<1>1. IInv => PageZeroAtRest
  <2> SUFFICES ASSUME IInv, lock = NoOne, NEW a \in 0..1
               PROVE  dirty[a] \/ pageReg[a] = 0
    BY DEF PageZeroAtRest
  <2>1. \A c \in Callers : pc[c] \notin {"xfer", "restore", "oops"}
    BY CallersAssumption DEF IInv, LockInv, Inside
  <2>2. QED
    BY <2>1 DEF IInv, PageInv
<1>2. QED
  BY <1>1, Inductive, PTL

-----------------------------------------------------------------------------
(* Lengths, pages and pieces.                                              *)

\* A legal length is no more than what was asked for.
LEMMA LegalLenBounded ==
  ASSUME NEW class, NEW hasPages \in BOOLEAN, NEW q \in Requests,
         LegalLen(class, hasPages, q) # Err
  PROVE  LegalLen(class, hasPages, q) <= q.len
<1> DEFINE end == IF hasPages THEN Size(class) ELSE Unpaged(class)
<1>1. end \in Nat /\ q.off \in Nat /\ q.len \in Nat
  BY Sizes, RequestType
<1>2. CASE ~NeedsPages(class, q)
  BY <1>1, <1>2 DEF LegalLen
<1>3. CASE NeedsPages(class, q)
  <2>1. LegalLen(class, hasPages, q) = Lesser(q.len, end - q.off)
    BY <1>3 DEF LegalLen
  <2>2. q.len \in Int /\ end - q.off \in Int
    BY <1>1
  <2> QED
    BY <2>1, <2>2, LesserType
<1> QED
  BY <1>2, <1>3

\* A piece is no longer than what is pending.
LEMMA ChunkLenBounded ==
  ASSUME NEW off \in Nat, NEW chunk \in Nat, NEW pending \in Int
  PROVE  ChunkLen(off, chunk, pending) \in Int /\ ChunkLen(off, chunk, pending) <= pending
BY DEF ChunkLen, Lesser, OPTOE_PAGE_SIZE

LEMMA SizeNumbers ==
  ASSUME NEW class
  PROVE  \/ class # TWO_ADDR /\ Size(class) = 32896 /\ Unpaged(class) = 256
         \/ class = TWO_ADDR /\ Size(class) = 33152 /\ Unpaged(class) = 512
BY DEF Size, Unpaged, TWO_ADDR_EEPROM_SIZE, ONE_ADDR_EEPROM_SIZE,
       TWO_ADDR_EEPROM_UNPAGED_SIZE, ONE_ADDR_EEPROM_UNPAGED_SIZE,
       OPTOE_PAGE_SIZE, OPTOE_ARCH_PAGES

\* A legal length ends inside what the module has.
LEMMA LegalLenInside ==
  ASSUME NEW class, NEW hasPages \in BOOLEAN, NEW q \in Requests,
         LegalLen(class, hasPages, q) # Err
  PROVE  /\ q.off + LegalLen(class, hasPages, q) <= Size(class)
         /\ hasPages \/ q.off + LegalLen(class, hasPages, q) <= Unpaged(class)
<1> DEFINE end == IF hasPages THEN Size(class) ELSE Unpaged(class)
<1>1. /\ end \in Nat /\ q.off \in Nat /\ q.len \in Nat
      /\ Size(class) \in Nat /\ Unpaged(class) \in Nat
  BY Sizes, RequestType
<1>2. Unpaged(class) <= Size(class)
  BY SizeNumbers
<1>3. CASE ~NeedsPages(class, q)
  BY <1>1, <1>2, <1>3 DEF LegalLen, NeedsPages
<1>4. CASE NeedsPages(class, q)
  <2>1. LegalLen(class, hasPages, q) = Lesser(q.len, end - q.off)
    BY <1>4 DEF LegalLen
  <2>2. q.len \in Int /\ end - q.off \in Int
    BY <1>1
  <2>3. Lesser(q.len, end - q.off) \in Int /\ Lesser(q.len, end - q.off) <= end - q.off
    BY <2>2, LesserType
  <2> HIDE DEF end
  <2>4. q.off + LegalLen(class, hasPages, q) <= end
    BY <1>1, <2>1, <2>3
  <2>5. (hasPages /\ end = Size(class)) \/ end = Unpaged(class)
    BY DEF end
  <2>6. q.off + LegalLen(class, hasPages, q) \in Int
    BY <1>1, <2>1, <2>3
  <2> QED
    BY <1>1, <1>2, <2>4, <2>5, <2>6
<1> QED
  BY <1>3, <1>4

\* The pages of an offset below the end of the module: the register can express
\* them, and they are above 0 only in the part that has pages.
LEMMA PageBounded ==
  ASSUME NEW class, NEW off \in Nat, off < Size(class)
  PROVE  /\ PageOf(class, off) < OPTOE_ARCH_PAGES
         /\ PageOf(class, off) > 0 => off >= Unpaged(class)
<1> DEFINE o == ClientOffset(class, off)
<1>1. PageOf(class, off) = IF o < 128 THEN 0 ELSE o \div 128 - 1
  BY DEF PageOf, OPTOE_PAGE_SIZE
<1>2. CASE class # TWO_ADDR
  <2>1. o = off /\ Size(class) = 32896 /\ Unpaged(class) = 256
    BY <1>2, SizeNumbers DEF ClientOffset, Client
  <2> HIDE DEF o
  <2> QED
    BY <1>1, <2>1 DEF OPTOE_ARCH_PAGES
<1>3. CASE class = TWO_ADDR
  <2>1. o = (IF off > 255 THEN off - 256 ELSE off) /\ Size(class) = 33152 /\ Unpaged(class) = 512
    BY <1>3, SizeNumbers DEF ClientOffset, Client
  <2> HIDE DEF o
  <2> QED
    BY <1>1, <2>1 DEF OPTOE_ARCH_PAGES
<1> QED
  BY <1>2, <1>3

\* Where a piece begins in its page: a multiple of 128 stays one.
LEMMA PhyRest ==
  ASSUME NEW class, NEW off \in Nat
  PROVE  PhyOffset(class, off) % OPTOE_PAGE_SIZE = off % OPTOE_PAGE_SIZE
<1> DEFINE o == ClientOffset(class, off)
<1>1. PhyOffset(class, off) = IF o < 128 THEN o ELSE 128 + (o % 128)
  BY DEF PhyOffset, OPTOE_PAGE_SIZE
<1>2. o \in Nat /\ (o = off \/ o = off - 256)
  BY DEF ClientOffset, Client
<1> HIDE DEF o
<1>3. o % 128 = off % 128
  BY <1>2
<1>4. (128 + (o % 128)) % 128 = o % 128
  BY <1>2
<1> QED
  BY <1>1, <1>2, <1>3, <1>4 DEF OPTOE_PAGE_SIZE

\* The numbers of a piece: it is not empty and ends with its chunk, at the
\* latest; and what is left begins with the next chunk, if there is one.
LEMMA PieceNumbers ==
  ASSUME NEW off \in Nat, NEW chunk \in Nat, NEW pending \in Int, pending >= 1,
         off \div OPTOE_PAGE_SIZE <= chunk,
         \/ off <= chunk * OPTOE_PAGE_SIZE
         \/ off < OPTOE_PAGE_SIZE
         \/ off + pending < (chunk + 1) * OPTOE_PAGE_SIZE
  PROVE  LET pos == ChunkOffset(off, chunk)
             clen == ChunkLen(off, chunk, pending)
         IN  /\ pos \in Nat /\ clen \in Int /\ clen >= 1
             /\ (pos % OPTOE_PAGE_SIZE) + clen <= OPTOE_PAGE_SIZE
             /\ chunk < (pos + pending - 1) \div OPTOE_PAGE_SIZE =>
                  /\ pending - clen >= 1
                  /\ off <= (chunk + 1) * OPTOE_PAGE_SIZE
                  /\ ChunkOffset(off, chunk + 1) = pos + clen
<1> DEFINE pos == ChunkOffset(off, chunk)
           clen == ChunkLen(off, chunk, pending)
<1>1. CASE off <= chunk * 128
  <2>1. pos = chunk * 128 /\ ChunkOffset(off, chunk + 1) = (chunk + 1) * 128
    BY <1>1 DEF ChunkOffset, OPTOE_PAGE_SIZE
  <2>2. clen = IF pending < 128 THEN pending ELSE 128
    BY <1>1 DEF ChunkLen, OPTOE_PAGE_SIZE, Lesser
  <2> HIDE DEF pos, clen
  <2>3. pos % 128 = 0 /\ pos \in Nat
    BY <2>1
  <2>4. chunk < (pos + pending - 1) \div 128 => pending > 128
    BY <2>1
  <2> QED
    BY <1>1, <2>1, <2>2, <2>3, <2>4 DEF OPTOE_PAGE_SIZE, pos, clen
<1>2. CASE chunk * 128 < off
  <2>1. pos = off
    BY <1>2 DEF ChunkOffset, OPTOE_PAGE_SIZE
  <2>2. clen = IF off + pending < (chunk + 1) * 128 THEN pending ELSE 128 - off
    BY <1>2 DEF ChunkLen, OPTOE_PAGE_SIZE
  <2>3. off \div 128 = chunk /\ off % 128 = off - chunk * 128 /\ off <= (chunk + 1) * 128
    BY <1>2 DEF OPTOE_PAGE_SIZE
  <2>4. ChunkOffset(off, chunk + 1) = (chunk + 1) * 128
    BY <2>3 DEF ChunkOffset, OPTOE_PAGE_SIZE
  <2> HIDE DEF pos, clen
  <2>5. CASE off + pending < (chunk + 1) * 128
    <3>1. ~(chunk < (pos + pending - 1) \div 128)
      BY <2>1, <2>5
    <3>2. clen = pending
      BY <2>2, <2>5
    <3>3. (off % 128) + pending <= 128
      BY <2>3, <2>5
    <3> QED
      BY <2>1, <3>1, <3>2, <3>3 DEF OPTOE_PAGE_SIZE, pos, clen
  <2>6. CASE ~(off + pending < (chunk + 1) * 128)
    <3>1. off < 128
      BY <1>2, <2>6 DEF OPTOE_PAGE_SIZE
    <3>2. chunk = 0
      BY <1>2, <3>1
    <3>3. clen = 128 - off /\ off % 128 = off
      BY <2>2, <2>6, <3>1
    <3>4. chunk < (pos + pending - 1) \div 128 => pending > 128 - off
      BY <2>1, <3>1, <3>2
    <3> QED
      BY <2>1, <2>4, <3>1, <3>2, <3>3, <3>4 DEF OPTOE_PAGE_SIZE, pos, clen
  <2> QED
    BY <2>5, <2>6
<1> QED
  BY <1>1, <1>2 DEF OPTOE_PAGE_SIZE

\* Where an offset is translated to is where it lies.
LEMMA FlatInverse ==
  ASSUME NEW class, NEW off \in Nat, NEW n \in Nat,
         (off % OPTOE_PAGE_SIZE) + n < OPTOE_PAGE_SIZE
  PROVE  LET phy == PhyOffset(class, off) + n
         IN  /\ phy < 2 * OPTOE_PAGE_SIZE
             /\ FlatOffset(Client(class, off), PageOf(class, off), phy) = off + n
             /\ phy < OPTOE_PAGE_SIZE => \A page \in Nat :
                  FlatOffset(Client(class, off), page, phy) = off + n
<1> DEFINE o == ClientOffset(class, off)
           to == Client(class, off)
           phy == PhyOffset(class, off) + n
<1>1. /\ PageOf(class, off) = IF o < 128 THEN 0 ELSE o \div 128 - 1
      /\ PhyOffset(class, off) = IF o < 128 THEN o ELSE 128 + (o % 128)
  BY DEF PageOf, PhyOffset, OPTOE_PAGE_SIZE
<1>2. /\ o \in Nat /\ to \in 0..1 /\ off = to * 256 + o
  BY DEF ClientOffset, Client
<1>3. \A page : FlatOffset(to, page, phy) =
                 to * 256 + (IF phy < 128 THEN phy ELSE page * 128 + phy)
  BY DEF FlatOffset, OPTOE_PAGE_SIZE
<1> HIDE DEF o, to
<1>4. o % 128 = off % 128
  BY <1>2
<1>5. CASE o < 128
  <2>1. o % 128 = o /\ phy = o + n /\ PageOf(class, off) = 0
    BY <1>1, <1>2, <1>5
  <2>2. phy < 128 /\ phy \in Nat
    BY <1>2, <1>4, <2>1 DEF OPTOE_PAGE_SIZE
  <2>3. \A page : FlatOffset(to, page, phy) = off + n
    BY <1>2, <1>3, <2>1, <2>2
  <2> QED
    BY <2>2, <2>3 DEF OPTOE_PAGE_SIZE, to
<1>6. CASE ~(o < 128)
  <2>1. phy = 128 + (o % 128) + n /\ PageOf(class, off) = o \div 128 - 1
    BY <1>1, <1>2, <1>6
  <2>2. o = 128 * (o \div 128) + (o % 128) /\ o % 128 \in Nat /\ o \div 128 \in Nat
    BY <1>2
  <2>3. phy \in Nat /\ ~(phy < 128) /\ phy < 256
    BY <1>4, <2>1, <2>2 DEF OPTOE_PAGE_SIZE
  <2>4. (o \div 128 - 1) * 128 + phy = o + n
    BY <2>1, <2>2
  <2> HIDE DEF phy
  <2>5. FlatOffset(to, PageOf(class, off), phy) = off + n
    <3>1. FlatOffset(to, PageOf(class, off), phy) = to * 256 + ((o \div 128 - 1) * 128 + phy)
      BY <1>3, <2>1, <2>3
    <3> QED
      BY <1>2, <2>4, <3>1
  <2> QED
    BY <2>3, <2>5 DEF OPTOE_PAGE_SIZE, to, phy
<1> QED
  BY <1>2, <1>5, <1>6

-----------------------------------------------------------------------------
(* What a call has done so far.                                            *)

\* A step inside a call is about its caller alone.
LEMMA InCallFrame ==
  ASSUME TypeOK, NEW c \in Callers, InCall(c)
  PROVE  /\ pc[c] \in {"chunk", "select", "xfer", "restore", "end"} /\ req' = req
         /\ \A d \in Callers \ {c} : /\ pc'[d] = pc[d] /\ amount'[d] = amount[d]
                                    /\ result'[d] = result[d]
BY DEF TypeOK, InCall, NextChunk, SelectPage, Transfer, TransferFails, RestorePage,
       ChunkShort, ChunkDone, LastChunkDone, Return, Goto, Module

\* The numbers of the call that is under way.
LEMMA Numbers ==
  ASSUME TypeOK, NEW c \in Callers
  PROVE  /\ loc.retval \in Int /\ loc.pending \in Int /\ loc.clen \in Int
         /\ loc.count \in Int /\ loc.upd \in Int /\ loc.chunk \in Nat
         /\ req[c].off \in Nat /\ req[c].len \in Nat /\ req[c].op \in {"read", "write"}
         /\ amount[c] \in Nat /\ result[c] \in Int
BY RequestType DEF TypeOK

\* The numbers of a piece of an aligned request.
LEMMA OrderNumbers ==
  ASSUME NEW c \in Callers, TypeOK, OrderOf(c)
  PROVE  LET off == req[c].off
             clen == ChunkLen(off, loc.chunk, loc.pending)
         IN  /\ off \in Nat /\ loc.chunk \in Nat /\ loc.pending \in Int /\ loc.last \in Nat
             /\ Position(c) \in Nat /\ clen \in Int /\ clen >= 1
             /\ (Position(c) % OPTOE_PAGE_SIZE) + clen <= OPTOE_PAGE_SIZE
             /\ loc.chunk < loc.last =>
                  /\ loc.pending - clen >= 1
                  /\ off <= (loc.chunk + 1) * OPTOE_PAGE_SIZE
                  /\ ChunkOffset(off, loc.chunk + 1) = Position(c) + clen
<1>1. /\ req[c].off \in Nat /\ loc.chunk \in Nat /\ loc.pending \in Int /\ loc.last \in Nat
  BY RequestType DEF TypeOK
<1>2. /\ loc.pending >= 1
      /\ req[c].off \div OPTOE_PAGE_SIZE <= loc.chunk
      /\ \/ req[c].off <= loc.chunk * OPTOE_PAGE_SIZE
         \/ req[c].off < OPTOE_PAGE_SIZE
         \/ req[c].off + loc.pending < (loc.chunk + 1) * OPTOE_PAGE_SIZE
  BY DEF OrderOf
<1>3. loc.last = (Position(c) + loc.pending - 1) \div OPTOE_PAGE_SIZE
  BY DEF OrderOf
<1> QED
  BY <1>1, <1>2, <1>3, PieceNumbers DEF Position

\* A call begins with nothing done, inside what the module has.
LEMMA BeginsRight ==
  ASSUME NEW c \in Callers, TypeOK, Begin(c), amount[c] = 0
  PROVE  /\ HonestOf(c)' /\ ReachOf(c)'
         /\ Aligned(req[c]) => CountOf(c)' /\ OrderOf(c)'
<1> DEFINE off == req[c].off
           len == LegalLen(dev_class, pageable, req[c])
<1>1. off \in Nat /\ req[c] \in Requests /\ pageable \in BOOLEAN /\ req[c].len \in Nat
  BY RequestType DEF TypeOK
<1>2. LegalLen(dev_class, pageable, req[c]) # Err
  BY DEF Begin
<1>3. len \in Int /\ len >= 1 /\ len <= req[c].len
  BY <1>1, <1>2, LegalLenPositive, LegalLenBounded
<1>4. off + len <= Size(dev_class) /\ (pageable \/ off + len <= Unpaged(dev_class))
  BY <1>1, <1>2, LegalLenInside
<1>5. /\ loc'.chunk = off \div OPTOE_PAGE_SIZE
      /\ loc'.last = (off + len - 1) \div OPTOE_PAGE_SIZE
      /\ loc'.pending = len /\ loc'.retval = 0
      /\ pc'[c] = "chunk" /\ req' = req /\ dev_class' = dev_class /\ pageable' = pageable
      /\ amount' = amount
  BY DEF Begin, Goto, Module, NoCall, TypeOK
<1>6. off \div 128 \in Nat /\ (off \div 128) * 128 <= off /\ off < (off \div 128) * 128 + 128
      /\ off % 128 = off - (off \div 128) * 128
  BY <1>1
<1>7. ChunkOffset(off, off \div 128) = off
  <2> DEFINE n == off \div 128
  <2>1. n \in Nat /\ n * 128 <= off
    BY <1>6
  <2> HIDE DEF n
  <2>2. ChunkOffset(off, n) = off
    BY <1>1, <2>1 DEF ChunkOffset, OPTOE_PAGE_SIZE
  <2> QED
    BY <2>2 DEF n
<1>8. Position(c)' = off
  BY <1>5, <1>7 DEF Position, OPTOE_PAGE_SIZE
<1> HIDE DEF len
<1>9. HonestOf(c)'
  BY <1>5 DEF HonestOf
<1>10. ReachOf(c)'
  <2>1. Size(dev_class) \in Nat /\ Unpaged(dev_class) \in Nat
    BY Sizes
  <2> DEFINE last == (off + len - 1) \div 128
  <2>2. last \in Nat /\ last * 128 <= off + len - 1 /\ off \div 128 <= last
    BY <1>1, <1>3
  <2> HIDE DEF last
  <2>3. /\ off < Size(dev_class) /\ last * 128 < Size(dev_class)
        /\ pageable \/ (off < Unpaged(dev_class) /\ last * 128 < Unpaged(dev_class))
    BY <1>1, <1>3, <1>4, <2>1, <2>2
  <2>4. loc'.chunk = off \div 128 /\ loc'.last = last
    BY <1>5 DEF last, OPTOE_PAGE_SIZE
  <2>5. /\ loc'.chunk <= loc'.last
        /\ req'[c].off < Size(dev_class') /\ loc'.last * OPTOE_PAGE_SIZE < Size(dev_class')
        /\ \/ pageable'
           \/ /\ req'[c].off < Unpaged(dev_class')
              /\ loc'.last * OPTOE_PAGE_SIZE < Unpaged(dev_class')
    BY <1>5, <2>2, <2>3, <2>4 DEF OPTOE_PAGE_SIZE
  <2> QED
    BY <1>5, <2>5 DEF ReachOf
<1>11. ASSUME Aligned(req[c]) PROVE CountOf(c)' /\ OrderOf(c)'
  <2>1. \/ off <= (off \div 128) * 128
        \/ off < 128
        \/ off + len < ((off \div 128) + 1) * 128
    BY <1>1, <1>3, <1>6, <1>11 DEF Aligned, OPTOE_PAGE_SIZE
  <2>2. off \div OPTOE_PAGE_SIZE <= off \div OPTOE_PAGE_SIZE
    BY <1>6 DEF OPTOE_PAGE_SIZE
  <2>3. OrderOf(c)'
    BY <1>1, <1>3, <1>5, <1>8, <2>1, <2>2 DEF OrderOf, OPTOE_PAGE_SIZE
  <2>4. CountOf(c)'
    BY <1>1, <1>3, <1>5 DEF CountOf
  <2> QED
    BY <2>3, <2>4
<1> QED
  BY <1>9, <1>10, <1>11

\* What the steps of a call do to its numbers.
LEMMA TransferNumbers ==
  ASSUME NEW c \in Callers, TypeOK, Transfer(c)
  PROVE  \E n \in Nat :
           /\ loc.count >= 0 => n <= loc.count
           /\ loc.count >= 0 /\ pc'[c] = "xfer" => n # loc.count
           /\ pc'[c] = "oops" => loc.count < 0
           /\ pc[c] = "xfer" /\ pc'[c] \in {"xfer", "restore", "end", "oops"}
           /\ amount'[c] = amount[c] + n
           /\ loc'.phy = loc.phy + n /\ loc'.count = loc.count - n /\ loc'.upd = loc.upd + n
           /\ loc'.chunk = loc.chunk /\ loc'.last = loc.last /\ loc'.retval = loc.retval
           /\ loc'.pending = loc.pending /\ loc'.clen = loc.clen
           /\ loc'.client = loc.client /\ loc'.page = loc.page
           /\ UNCHANGED <<req, dev_class, pageable, torn>>
<1> DEFINE n == Portion(c)
<1>1. loc.count \in Int
  BY DEF TypeOK
<1>2. n \in Nat /\ (loc.count >= 0 => n <= loc.count)
  BY <1>1, PortionType
<1>3. /\ loc' = [loc EXCEPT !.phy = @ + n, !.count = @ - n, !.upd = @ + n]
      /\ amount' = [amount EXCEPT ![c] = @ + n]
      /\ pc[c] = "xfer"
      /\ IF Overwrites(c) THEN Goto(c, "oops")
         ELSE IF loc.count = n THEN Goto(c, AfterTransfer(loc')) ELSE UNCHANGED pc
      /\ UNCHANGED <<req, dev_class, pageable, torn>>
  BY DEF Transfer
<1> HIDE DEF n
<1>4. /\ amount'[c] = amount[c] + n
      /\ loc'.phy = loc.phy + n /\ loc'.count = loc.count - n /\ loc'.upd = loc.upd + n
      /\ loc'.chunk = loc.chunk /\ loc'.last = loc.last /\ loc'.retval = loc.retval
      /\ loc'.pending = loc.pending /\ loc'.clen = loc.clen
      /\ loc'.client = loc.client /\ loc'.page = loc.page
  BY <1>3 DEF TypeOK
<1>5. Overwrites(c) => loc.count < 0 /\ ~(loc.count >= 0)
  BY <1>1 DEF Overwrites, Enormous
<1>6. /\ pc'[c] \in {"xfer", "restore", "end", "oops"}
      /\ pc'[c] = "oops" => loc.count < 0
      /\ loc.count >= 0 /\ pc'[c] = "xfer" => n # loc.count
  BY <1>3, <1>5 DEF Goto, AfterTransfer, TypeOK
<1> QED
  BY <1>2, <1>3, <1>4, <1>6

LEMMA NextChunkNumbers ==
  ASSUME NEW c \in Callers, TypeOK, NextChunk(c)
  PROVE  LET clen == ChunkLen(req[c].off, loc.chunk, loc.pending)
         IN  /\ pc[c] = "chunk" /\ pc'[c] \in {"oops", "select", "xfer"}
             /\ loc'.clen = clen /\ loc'.count = clen /\ loc'.upd = 0
             /\ loc'.client = Client(dev_class, Position(c))
             /\ loc'.page = PageOf(dev_class, Position(c))
             /\ loc'.phy = PhyOffset(dev_class, Position(c))
             /\ loc'.chunk = loc.chunk /\ loc'.last = loc.last /\ loc'.retval = loc.retval
             /\ loc'.pending = loc.pending
             /\ UNCHANGED <<req, amount, dev_class, pageable, torn>>
             /\ Position(c)' = Position(c)
<1>1. /\ loc'.chunk = loc.chunk /\ req' = req
  BY DEF NextChunk, TypeOK
<1>2. Position(c)' = Position(c)
  BY <1>1 DEF Position
<1> QED
  BY <1>2 DEF NextChunk, Goto, TypeOK, Module, Position

\* The steps that fail, select or restore leave the numbers of the piece alone,
\* but for the status, which may become an errno while nothing was moved.
LEMMA OtherNumbers ==
  ASSUME NEW c \in Callers, TypeOK, SelectPage(c) \/ TransferFails(c) \/ RestorePage(c)
  PROVE  /\ pc[c] \in {"select", "xfer", "restore"}
         /\ pc'[c] \in {"xfer", "restore", "end"}
         /\ pc'[c] = "xfer" => pc[c] = "select" /\ loc'.upd = loc.upd
         /\ loc'.upd \in Int
         /\ loc'.upd = loc.upd \/ (loc'.upd < 0 /\ (loc.upd = 0 \/ pc[c] = "select"))
         /\ loc'.phy = loc.phy /\ loc'.count = loc.count
         /\ loc'.chunk = loc.chunk /\ loc'.last = loc.last /\ loc'.retval = loc.retval
         /\ loc'.pending = loc.pending /\ loc'.clen = loc.clen
         /\ loc'.client = loc.client /\ loc'.page = loc.page
         /\ UNCHANGED <<req, amount, dev_class, pageable, torn>>
         /\ Position(c)' = Position(c)
<1>1. CASE SelectPage(c)
  <2>1. loc' = loc \/ loc' = [loc EXCEPT !.upd = ETIMEDOUT]
    BY <1>1 DEF SelectPage
  <2>2. Position(c)' = Position(c)
    BY <1>1, <2>1 DEF SelectPage, Position, TypeOK
  <2> QED
    BY <1>1, <2>2 DEF SelectPage, Goto, TypeOK, ETIMEDOUT
<1>2. CASE TransferFails(c)
  <2>1. PICK e \in {ENXIO, ETIMEDOUT} : loc' = [loc EXCEPT !.upd = IF @ = 0 THEN e ELSE @]
    BY <1>2 DEF TransferFails
  <2>2. e \in Int /\ e < 0
    BY DEF ENXIO, ETIMEDOUT
  <2>3. Position(c)' = Position(c)
    BY <1>2, <2>1 DEF TransferFails, Position, TypeOK
  <2>4. /\ pc[c] = "xfer" /\ pc'[c] \in {"restore", "end"}
        /\ UNCHANGED <<req, amount, dev_class, pageable, torn>>
    BY <1>2 DEF TransferFails, Goto, AfterTransfer, TypeOK
  <2> QED
    BY <2>1, <2>2, <2>3, <2>4 DEF TypeOK
<1>3. CASE RestorePage(c)
  <2>1. loc' = loc \/ loc' = [loc EXCEPT !.upd = IF @ = 0 THEN ETIMEDOUT ELSE @]
    BY <1>3 DEF RestorePage
  <2>2. Position(c)' = Position(c)
    BY <1>3, <2>1 DEF RestorePage, Position, TypeOK
  <2>3. /\ pc[c] = "restore" /\ pc'[c] = "end"
        /\ UNCHANGED <<req, amount, dev_class, pageable, torn>>
    BY <1>3 DEF RestorePage, Goto, TypeOK
  <2> QED
    BY <2>1, <2>2, <2>3 DEF TypeOK, ETIMEDOUT
<1> QED
  BY <1>1, <1>2, <1>3

LEMMA ChunkDoneNumbers ==
  ASSUME NEW c \in Callers, TypeOK, ChunkDone(c)
  PROVE  /\ pc[c] = "end" /\ pc'[c] = "chunk" /\ loc.upd = loc.clen /\ loc.chunk < loc.last
         /\ loc'.chunk = loc.chunk + 1 /\ loc'.last = loc.last
         /\ loc'.pending = loc.pending - loc.upd /\ loc'.retval = loc.retval + loc.upd
         /\ UNCHANGED <<req, amount, dev_class, pageable, torn>>
BY DEF ChunkDone, Goto, TypeOK, Module

LEMMA EndNumbers ==
  ASSUME NEW c \in Callers, TypeOK, ChunkShort(c) \/ LastChunkDone(c)
  PROVE  /\ pc[c] = "end" /\ pc'[c] = "idle" /\ UNCHANGED <<req, amount>>
         /\ result'[c] = loc.upd \/ result'[c] = loc.retval + loc.upd
BY DEF ChunkShort, LastChunkDone, Return, Goto, TypeOK

\* A call counts no more as done than it has moved.
LEMMA InCallHonest ==
  ASSUME TypeOK, NEW c \in Callers, InCall(c), HonestOf(c)
  PROVE  /\ pc'[c] \in Inside => HonestOf(c)'
         /\ pc'[c] = "idle" => result'[c] <= amount'[c]
<1>1. CASE NextChunk(c)
  <2>1. /\ pc[c] = "chunk" /\ pc'[c] \in {"oops", "select", "xfer"} /\ loc'.upd = 0
        /\ loc'.retval = loc.retval /\ amount' = amount
    BY <1>1, NextChunkNumbers
  <2> QED
    BY <2>1, Numbers DEF HonestOf, Moved
<1>2. CASE SelectPage(c) \/ TransferFails(c) \/ RestorePage(c)
  <2>1. /\ pc[c] \in {"select", "xfer", "restore"}
        /\ pc'[c] \in {"xfer", "restore", "end"}
        /\ pc'[c] = "xfer" => pc[c] = "select" /\ loc'.upd = loc.upd
        /\ loc'.upd \in Int
        /\ loc'.upd = loc.upd \/ (loc'.upd < 0 /\ (loc.upd = 0 \/ pc[c] = "select"))
        /\ loc'.retval = loc.retval /\ amount' = amount
    BY <1>2, OtherNumbers
  <2> QED
    BY <2>1, Numbers DEF HonestOf, Moved
<1>3. CASE Transfer(c)
  <2>1. PICK n \in Nat : /\ pc[c] = "xfer" /\ pc'[c] \in {"xfer", "restore", "end", "oops"}
                         /\ amount'[c] = amount[c] + n /\ loc'.upd = loc.upd + n
                         /\ loc'.retval = loc.retval
    BY <1>3, TransferNumbers
  <2> QED
    BY <2>1, Numbers DEF HonestOf, Moved
<1>4. CASE ChunkShort(c) \/ LastChunkDone(c)
  <2>1. /\ pc[c] = "end" /\ pc'[c] = "idle" /\ amount' = amount
        /\ result'[c] = loc.upd \/ result'[c] = loc.retval + loc.upd
    BY <1>4, EndNumbers
  <2> QED
    BY <2>1, Numbers DEF HonestOf, Moved, Inside
<1>5. CASE ChunkDone(c)
  <2>1. /\ pc[c] = "end" /\ pc'[c] = "chunk" /\ amount' = amount
        /\ loc'.retval = loc.retval + loc.upd
    BY <1>5, ChunkDoneNumbers
  <2> QED
    BY <2>1, Numbers DEF HonestOf, Moved
<1> QED
  BY <1>1, <1>2, <1>3, <1>4, <1>5 DEF InCall

\* A call goes on inside what the module has.
LEMMA InCallReach ==
  ASSUME TypeOK, NEW c \in Callers, InCall(c), ReachOf(c)
  PROVE  pc'[c] \in Inside => ReachOf(c)'
<1>1. CASE NextChunk(c)
  <2>1. /\ loc'.chunk = loc.chunk /\ loc'.last = loc.last
        /\ UNCHANGED <<req, dev_class, pageable, torn>>
        /\ loc'.page = PageOf(dev_class, Position(c)) /\ Position(c)' = Position(c)
    BY <1>1, NextChunkNumbers
  <2> QED
    BY <2>1, Zenon DEF ReachOf
<1>2. CASE SelectPage(c) \/ TransferFails(c) \/ RestorePage(c)
  <2>1. /\ loc'.chunk = loc.chunk /\ loc'.last = loc.last /\ pc'[c] \in {"xfer", "restore", "end"}
        /\ UNCHANGED <<req, dev_class, pageable, torn>>
    BY <1>2, OtherNumbers
  <2> QED
    BY <2>1 DEF ReachOf
<1>3. CASE Transfer(c)
  <2>1. /\ loc'.chunk = loc.chunk /\ loc'.last = loc.last
        /\ pc'[c] \in {"xfer", "restore", "end", "oops"}
        /\ UNCHANGED <<req, dev_class, pageable, torn>>
    BY <1>3, TransferNumbers
  <2> QED
    BY <2>1 DEF ReachOf
<1>4. CASE ChunkShort(c) \/ LastChunkDone(c)
  BY <1>4, EndNumbers DEF Inside
<1>5. CASE ChunkDone(c)
  <2>1. /\ pc'[c] = "chunk" /\ loc.chunk < loc.last
        /\ loc'.chunk = loc.chunk + 1 /\ loc'.last = loc.last
        /\ UNCHANGED <<req, dev_class, pageable, torn>>
    BY <1>5, ChunkDoneNumbers
  <2>2. loc'.chunk <= loc'.last
    BY <2>1 DEF TypeOK
  <2> QED
    BY <2>1, <2>2 DEF ReachOf
<1> QED
  BY <1>1, <1>2, <1>3, <1>4, <1>5 DEF InCall

\* A call with an aligned request keeps count of what it moves.
LEMMA InCallCounts ==
  ASSUME TypeOK, NEW c \in Callers, InCall(c), CountOf(c), OrderOf(c)
  PROVE  /\ pc'[c] \in Inside => CountOf(c)'
         /\ amount'[c] <= req'[c].len
<1>1. CASE NextChunk(c)
  <2> DEFINE clen == ChunkLen(req[c].off, loc.chunk, loc.pending)
  <2>1. clen \in Int /\ clen <= loc.pending /\ clen >= 1
    BY Numbers, ChunkLenBounded, OrderNumbers
  <2>2. /\ pc[c] = "chunk" /\ pc'[c] \in {"oops", "select", "xfer"}
        /\ loc'.clen = clen /\ loc'.count = clen /\ loc'.upd = 0
        /\ loc'.retval = loc.retval /\ loc'.pending = loc.pending
        /\ UNCHANGED <<req, amount>>
    BY <1>1, NextChunkNumbers
  <2> HIDE DEF clen
  <2> QED
    BY <2>1, <2>2, Numbers DEF CountOf, Moved
<1>2. CASE SelectPage(c) \/ TransferFails(c) \/ RestorePage(c)
  <2>1. /\ pc[c] \in {"select", "xfer", "restore"}
        /\ pc'[c] \in {"xfer", "restore", "end"}
        /\ pc'[c] = "xfer" => pc[c] = "select" /\ loc'.upd = loc.upd
        /\ loc'.upd \in Int /\ loc'.count = loc.count
        /\ loc'.upd = loc.upd \/ (loc'.upd < 0 /\ (loc.upd = 0 \/ pc[c] = "select"))
        /\ loc'.retval = loc.retval /\ loc'.pending = loc.pending /\ loc'.clen = loc.clen
        /\ UNCHANGED <<req, amount>>
    BY <1>2, OtherNumbers
  <2> QED
    BY <2>1, Numbers DEF CountOf, Moved
<1>3. CASE Transfer(c)
  <2>1. PICK n \in Nat :
          /\ loc.count >= 0 => n <= loc.count
          /\ pc'[c] = "oops" => loc.count < 0
          /\ pc[c] = "xfer" /\ pc'[c] \in {"xfer", "restore", "end", "oops"}
          /\ amount'[c] = amount[c] + n
          /\ loc'.count = loc.count - n /\ loc'.upd = loc.upd + n
          /\ loc'.retval = loc.retval /\ loc'.pending = loc.pending /\ loc'.clen = loc.clen
          /\ req' = req
    BY <1>3, TransferNumbers
  <2> QED
    BY <2>1, Numbers DEF CountOf, Moved
<1>4. CASE ChunkShort(c) \/ LastChunkDone(c)
  <2>1. pc[c] = "end" /\ pc'[c] = "idle" /\ UNCHANGED <<req, amount>>
    BY <1>4, EndNumbers
  <2> QED
    BY <2>1, Numbers DEF CountOf, Moved, Inside
<1>5. CASE ChunkDone(c)
  <2>1. /\ pc[c] = "end" /\ pc'[c] = "chunk" /\ UNCHANGED <<req, amount>>
        /\ loc.upd = loc.clen
        /\ loc'.retval = loc.retval + loc.upd /\ loc'.pending = loc.pending - loc.upd
    BY <1>5, ChunkDoneNumbers
  <2> QED
    BY <2>1, Numbers DEF CountOf, Moved
<1> QED
  BY <1>1, <1>2, <1>3, <1>4, <1>5 DEF InCall

\* A step inside a call leaves the place of its piece, or goes on to the next.
LEMMA InCallOrder ==
  ASSUME NEW c \in Callers, TypeOK, CountOf(c), InCall(c), OrderOf(c)
  PROVE  pc'[c] \in Inside => OrderOf(c)'
<1> DEFINE off == req[c].off
           clen == ChunkLen(off, loc.chunk, loc.pending)
           Kept == /\ UNCHANGED <<req, dev_class>>
                   /\ loc'.chunk = loc.chunk /\ loc'.last = loc.last
                   /\ loc'.pending = loc.pending /\ loc'.retval = loc.retval
<1>0. off \in Nat /\ loc.chunk \in Nat /\ loc.pending \in Int /\ loc.phy \in Nat
      /\ loc.retval \in Int /\ loc.upd \in Int /\ loc.count \in Int
  BY RequestType DEF TypeOK
<1>p. Position(c) \in Nat /\ PhyOffset(dev_class, Position(c)) \in Nat
  <2>1. Position(c) \in Nat
    BY <1>0, ChunkTypes DEF Position
  <2> QED
    BY <2>1, Translation
<1>1. CASE NextChunk(c)
  <2>1. /\ Kept /\ loc'.clen = clen /\ loc'.count = clen /\ loc'.upd = 0
        /\ loc'.client = Client(dev_class, Position(c))
        /\ loc'.page = PageOf(dev_class, Position(c))
        /\ loc'.phy = PhyOffset(dev_class, Position(c))
        /\ Position(c)' = Position(c)
    BY <1>1, NextChunkNumbers
  <2>2. clen >= 1 /\ clen' = clen
    BY <2>1, OrderNumbers
  <2> HIDE DEF clen
  <2>3. /\ loc'.phy = PhyOffset(dev_class, Position(c)) + loc'.upd
        /\ loc'.clen >= 1 /\ loc'.count >= 1 /\ loc'.clen = clen'
    BY <1>p, <2>1, <2>2
  <2> QED
    BY <2>1, <2>3 DEF OrderOf, clen
<1>2. CASE SelectPage(c) \/ TransferFails(c) \/ RestorePage(c)
  <2>1. /\ Kept /\ loc'.clen = loc.clen /\ loc'.phy = loc.phy /\ loc'.count = loc.count
        /\ loc'.client = loc.client /\ loc'.page = loc.page
        /\ pc[c] \in {"select", "xfer", "restore"}
        /\ pc'[c] \in {"xfer", "restore", "end"}
        /\ pc'[c] = "xfer" => pc[c] = "select" /\ loc'.upd = loc.upd
        /\ Position(c)' = Position(c)
    BY <1>2, OtherNumbers
  <2> QED
    BY <2>1, Zenon DEF OrderOf
<1>3. CASE Transfer(c)
  <2>1. PICK n \in Nat :
          /\ loc.count >= 0 => n <= loc.count
          /\ loc.count >= 0 /\ pc'[c] = "xfer" => n # loc.count
          /\ pc'[c] = "oops" => loc.count < 0
          /\ pc[c] = "xfer" /\ pc'[c] \in {"xfer", "restore", "end", "oops"}
          /\ Kept /\ loc'.clen = loc.clen /\ loc'.client = loc.client /\ loc'.page = loc.page
          /\ loc'.phy = loc.phy + n /\ loc'.count = loc.count - n /\ loc'.upd = loc.upd + n
    BY <1>3, TransferNumbers
  <2>2. loc.count >= 1 /\ loc.phy = PhyOffset(dev_class, Position(c)) + loc.upd
    BY <2>1 DEF OrderOf
  <2>3. Position(c)' = Position(c)
    BY <2>1 DEF Position
  <2>4. /\ loc'.phy = PhyOffset(dev_class, Position(c)) + loc'.upd
        /\ pc'[c] = "xfer" => loc'.count >= 1
        /\ pc'[c] \in {"xfer", "restore", "end"}
    BY <1>0, <1>p, <2>1, <2>2
  <2> QED
    BY <2>1, <2>3, <2>4, Zenon DEF OrderOf
<1>4. CASE ChunkShort(c) \/ LastChunkDone(c)
  BY <1>4, EndNumbers DEF Inside
<1>5. CASE ChunkDone(c)
  <2>1. /\ UNCHANGED <<req, dev_class>>
        /\ loc'.chunk = loc.chunk + 1 /\ loc'.last = loc.last
        /\ loc'.pending = loc.pending - clen /\ loc'.retval = loc.retval + clen
        /\ pc[c] = "end" /\ pc'[c] = "chunk" /\ loc.chunk < loc.last
    <3>1. /\ pc[c] = "end" /\ pc'[c] = "chunk" /\ loc.upd = loc.clen /\ loc.chunk < loc.last
          /\ loc'.chunk = loc.chunk + 1 /\ loc'.last = loc.last
          /\ loc'.pending = loc.pending - loc.upd /\ loc'.retval = loc.retval + loc.upd
          /\ UNCHANGED <<req, dev_class>>
      BY <1>5, ChunkDoneNumbers
    <3>2. loc.clen = clen
      BY <3>1 DEF OrderOf
    <3> QED
      BY <3>1, <3>2
  <2>2. /\ clen \in Int /\ clen >= 1 /\ loc.pending - clen >= 1 /\ loc.last \in Nat
        /\ off <= (loc.chunk + 1) * OPTOE_PAGE_SIZE
        /\ ChunkOffset(off, loc.chunk + 1) = Position(c) + clen
    BY <2>1, OrderNumbers
  <2> HIDE DEF clen
  <2>3. Position(c)' = Position(c) + clen
    BY <2>1, <2>2 DEF Position
  <2>4. /\ off \div OPTOE_PAGE_SIZE <= loc.chunk
        /\ loc.last = (Position(c) + loc.pending - 1) \div OPTOE_PAGE_SIZE
        /\ Position(c) = off + loc.retval
    BY DEF OrderOf
  <2>5. off \div OPTOE_PAGE_SIZE <= loc'.chunk /\ off <= loc'.chunk * OPTOE_PAGE_SIZE
    BY <1>0, <2>1, <2>2, <2>4 DEF OPTOE_PAGE_SIZE
  <2>6. loc'.pending >= 1 /\ Position(c)' = off + loc'.retval
    BY <1>0, <1>p, <2>1, <2>2, <2>3, <2>4
  <2>7. loc'.last = (Position(c)' + loc'.pending - 1) \div OPTOE_PAGE_SIZE
    <3>1. Position(c)' + loc'.pending - 1 = Position(c) + loc.pending - 1
      BY <1>0, <1>p, <2>1, <2>2, <2>3
    <3> QED
      BY ONLY <2>1, <2>4, <3>1, Zenon
  <2> QED
    BY <2>1, <2>5, <2>6, <2>7 DEF OrderOf
<1> QED
  BY <1>1, <1>2, <1>3, <1>4, <1>5 DEF InCall

\* A caller that has not begun has moved nothing yet.
Fresh == \A c \in Callers : pc[c] = "lock" => amount[c] = 0

Progress == AnyInv /\ AlignedInv /\ NeverOverstated /\ Fresh

LEMMA NextProgress == IInv /\ Progress /\ [Next]_vars => Progress'
<1> SUFFICES ASSUME IInv, Progress, [Next]_vars PROVE Progress'
  OBVIOUS
<1> USE DEF IInv, Progress
<1>0. \A c \in Callers : req[c] \in Requests /\ req[c].len \in Nat /\ amount[c] \in Nat
                        /\ result[c] \in Int
  BY RequestType DEF TypeOK
<1>1. ASSUME NEW c \in Callers, Call(c) PROVE Progress'
  <2>1. /\ pc'[c] = "lock" /\ amount'[c] = 0 /\ UNCHANGED <<loc, dev_class, pageable, torn>>
        /\ \A d \in Callers \ {c} : /\ pc'[d] = pc[d] /\ req'[d] = req[d]
                                   /\ amount'[d] = amount[d] /\ result'[d] = result[d]
    BY <1>1 DEF Call, Goto, Module, TypeOK
  <2>2. \A d \in Callers \ {c} : Position(d)' = Position(d)
    BY <2>1 DEF Position
  <2>3. pc'[c] \notin Inside /\ pc'[c] # "idle"
    BY <2>1 DEF Inside
  <2>4. AnyInv'
    BY <2>1, <2>2, <2>3, Zenon DEF AnyInv, HonestOf, ReachOf
  <2>5. AlignedInv'
    BY <2>1, <2>2, <2>3, Zenon DEF AlignedInv, CountOf, OrderOf
  <2>6. NeverOverstated'
    <3>1. req'[c].len \in Nat
      BY <1>1, RequestType DEF Call, TypeOK
    <3>2. 0 <= req'[c].len
      BY <3>1
    <3> QED
      BY <2>1, <2>3, <3>2, Zenon DEF NeverOverstated
  <2>7. Fresh'
    BY <2>1 DEF Fresh
  <2> QED
    BY <2>4, <2>5, <2>6, <2>7
<1>2. ASSUME NEW c \in Callers, Begin(c) PROVE Progress'
  <2>1. /\ pc[c] = "lock" /\ pc'[c] = "chunk" /\ UNCHANGED <<req, amount, result>>
        /\ \A d \in Callers \ {c} : pc'[d] = pc[d]
    BY <1>2 DEF Begin, Goto, TypeOK
  <2>2. \A d \in Callers \ {c} : pc'[d] \notin Inside
    BY <1>2, <2>1, CallersAssumption DEF Begin, LockInv
  <2>3. /\ HonestOf(c)' /\ ReachOf(c)'
        /\ Aligned(req[c]) => CountOf(c)' /\ OrderOf(c)'
    BY <1>2, <2>1, BeginsRight DEF Fresh
  <2>4. AnyInv' /\ AlignedInv'
    BY <2>1, <2>2, <2>3, Zenon DEF AnyInv, AlignedInv
  <2>5. NeverOverstated' /\ Fresh'
    BY <2>1 DEF NeverOverstated, Fresh
  <2> QED
    BY <2>4, <2>5
<1>3. ASSUME NEW c \in Callers, Refuse(c) PROVE Progress'
  <2>1. /\ pc[c] = "lock" /\ pc'[c] = "idle" /\ UNCHANGED <<req, amount>> /\ result'[c] = Err
        /\ \A d \in Callers \ {c} : pc'[d] = pc[d] /\ result'[d] = result[d]
    BY <1>3 DEF Refuse, Return, Goto, TypeOK
  <2>2. \A d \in Callers : pc'[d] \notin Inside
    BY <1>3, <2>1, CallersAssumption DEF Refuse, LockInv, Inside
  <2>3. AnyInv' /\ AlignedInv'
    BY <2>2, Zenon DEF AnyInv, AlignedInv
  <2>4. NeverOverstated' /\ Fresh'
    BY <1>0, <2>1 DEF NeverOverstated, Fresh, Err
  <2> QED
    BY <2>3, <2>4
<1>4. ASSUME NEW c \in Callers, InCall(c) PROVE Progress'
  <2>1. /\ pc[c] \in {"chunk", "select", "xfer", "restore", "end"} /\ req' = req
        /\ \A d \in Callers \ {c} : /\ pc'[d] = pc[d] /\ amount'[d] = amount[d]
                                   /\ result'[d] = result[d]
    BY <1>4, InCallFrame
  <2>2. \A d \in Callers \ {c} : pc'[d] \notin Inside
    BY <2>1 DEF LockInv, Inside
  <2>3. HonestOf(c) /\ ReachOf(c) /\ (Aligned(req[c]) => CountOf(c) /\ OrderOf(c))
    BY <2>1 DEF AnyInv, AlignedInv, Inside
  <2>4. /\ pc'[c] \in Inside => HonestOf(c)' /\ ReachOf(c)'
        /\ pc'[c] = "idle" => result'[c] <= amount'[c]
    BY <1>4, <2>3, InCallHonest, InCallReach
  <2>5. Aligned(req[c]) => /\ pc'[c] \in Inside => CountOf(c)' /\ OrderOf(c)'
                           /\ amount'[c] <= req'[c].len
    BY <1>4, <2>3, InCallCounts, InCallOrder
  <2>6. AnyInv' /\ AlignedInv'
    BY <2>1, <2>2, <2>4, <2>5, Zenon DEF AnyInv, AlignedInv
  <2>7. NeverOverstated'
    BY <2>1, <2>4, <2>5, Zenon DEF NeverOverstated
  <2>8. pc'[c] # "lock"
    BY <1>4 DEF InCall, NextChunk, SelectPage, Transfer, TransferFails, RestorePage, ChunkShort,
                ChunkDone, LastChunkDone, Return, Goto, AfterTransfer, TypeOK
  <2>9. Fresh'
    BY <2>1, <2>8, Zenon DEF Fresh
  <2> QED
    BY <2>6, <2>7, <2>9
<1>5. CASE SetDevClass
  <2>1. \A c \in Callers : pc'[c] \notin Inside
    BY <1>5, CallersAssumption DEF SetDevClass, LockInv
  <2>2. UNCHANGED <<pc, req, result, amount>>
    BY <1>5 DEF SetDevClass
  <2> QED
    BY <2>1, <2>2, Zenon DEF AnyInv, AlignedInv, NeverOverstated, Fresh
<1>6. CASE Swap
  <2>1. UNCHANGED <<pc, req, loc, dev_class, result, amount>> /\ torn' = (lock # NoOne)
    BY <1>6 DEF Swap
  <2>2. \A c \in Callers : pc[c] \in Inside => torn'
    BY <2>1, CallersAssumption DEF LockInv
  <2>3. \A c \in Callers : Position(c)' = Position(c)
    BY <2>1 DEF Position
  <2>4. AnyInv'
    BY <2>1, <2>2, <2>3, Zenon DEF AnyInv, HonestOf, ReachOf, Moved
  <2>5. AlignedInv'
    BY <2>1, <2>3, Zenon DEF AlignedInv, CountOf, OrderOf, Moved
  <2> QED
    BY <2>1, <2>4, <2>5, Zenon DEF NeverOverstated, Fresh
<1>7. CASE UNCHANGED vars
  <2>1. UNCHANGED <<pc, req, loc, dev_class, pageable, torn, result, amount>>
    BY <1>7 DEF vars
  <2>2. \A c \in Callers : Position(c)' = Position(c)
    BY <2>1 DEF Position
  <2>3. AnyInv'
    BY <2>1, <2>2, Zenon DEF AnyInv, HonestOf, ReachOf, Moved
  <2>4. AlignedInv'
    BY <2>1, <2>2, Zenon DEF AlignedInv, CountOf, OrderOf, Moved
  <2> QED
    BY <2>1, <2>3, <2>4, Zenon DEF NeverOverstated, Fresh
<1> QED
  BY <1>1, <1>2, <1>3, <1>4, <1>5, <1>6, <1>7 DEF Next, optoe_read_write

LEMMA Progressing == Spec => []Progress
<1>1. Init => Progress
  <2> SUFFICES ASSUME Init PROVE Progress
    OBVIOUS
  <2>1. \A c \in Callers : pc[c] = "idle" /\ amount[c] = 0 /\ result[c] = 0
    BY DEF Init
  <2>2. \A c \in Callers : req[c].len \in Nat
    BY RequestType DEF Init
  <2> QED
    BY <2>1, <2>2 DEF Progress, AnyInv, AlignedInv, NeverOverstated, Fresh, Inside
<1>2. IInv /\ Progress /\ [Next]_vars => Progress'
  BY NextProgress
<1> QED
  BY <1>1, <1>2, Inductive, PTL DEF Spec

\* A call never says that it moved more than it did, whatever its request; and
\* with an aligned one it moves no more than it was asked to; for any callers,
\* requests, failures and exchanges of modules (optoe_read_write, optoe.c:
\* 637-739).
THEOREM Honest == Spec => []NeverOverstated
<1>1. Progress => NeverOverstated
  BY DEF Progress
<1> QED
  BY <1>1, Progressing, PTL

\* What an aligned call transfers lies in one page.
LEMMA AlignedOnePage ==
  ASSUME IInv, AlignedInv, NEW c \in Callers, Aligned(req[c])
  PROVE  OnePage(c)
<1> SUFFICES ASSUME pc[c] = "xfer"
             PROVE  /\ loc.count >= 0
                    /\ (loc.phy % OPTOE_PAGE_SIZE) + loc.count <= OPTOE_PAGE_SIZE
  BY DEF OnePage
<1>1. TypeOK /\ CountOf(c) /\ OrderOf(c)
  BY DEF IInv, AlignedInv, Inside
<1>2. /\ loc.upd \in Int /\ loc.count \in Int /\ loc.clen \in Int /\ loc.phy \in Nat
      /\ loc.upd >= 0 /\ loc.count + loc.upd = loc.clen /\ loc.count >= 1
      /\ loc.phy = PhyOffset(dev_class, Position(c)) + loc.upd
  BY <1>1 DEF TypeOK, CountOf, OrderOf
<1>3. /\ Position(c) \in Nat
      /\ (Position(c) % OPTOE_PAGE_SIZE) + loc.clen <= OPTOE_PAGE_SIZE
  BY <1>1, OrderNumbers DEF OrderOf
<1> DEFINE phy == PhyOffset(dev_class, Position(c))
<1>4. phy \in Nat /\ phy % 128 = Position(c) % 128
  BY <1>3, Translation, PhyRest DEF OPTOE_PAGE_SIZE
<1> HIDE DEF phy
<1>5. (phy % 128) + loc.count + loc.upd <= 128
  BY <1>2, <1>3, <1>4 DEF OPTOE_PAGE_SIZE
<1>6. (phy % 128) + loc.upd < 128
  BY <1>2, <1>4, <1>5
<1>7. (phy + loc.upd) % 128 = (phy % 128) + loc.upd
  BY <1>2, <1>4, <1>6
<1>8. loc.phy = phy + loc.upd
  BY <1>2 DEF phy
<1> QED
  BY <1>2, <1>4, <1>5, <1>7, <1>8 DEF OPTOE_PAGE_SIZE

\* The pages a call selects are ones the module has, and the pieces of an
\* aligned one lie in one page each, for any callers, requests, failures,
\* exchanges of modules and changes of dev_class (optoe_translate_offset,
\* optoe_page_legal and the loop of optoe_read_write, optoe.c:276-304, 568-635
\* and 637-739).
THEOREM Legal == Spec => []PieceLegal
<1>1. IInv /\ Progress => PieceLegal
  <2> SUFFICES ASSUME IInv, Progress PROVE PageExists
    BY AlignedOnePage DEF PieceLegal, Progress
  <2> SUFFICES ASSUME NEW c \in Callers, pc[c] = "select"
               PROVE  loc.page < OPTOE_ARCH_PAGES /\ (torn \/ pageable)
    BY DEF PageExists
  <2>1. TypeOK /\ ReachOf(c) /\ loc.page > 0
    BY DEF IInv, CallInv, Progress, AnyInv, Inside
  <2>2. /\ req[c].off \in Nat /\ loc.chunk \in Nat /\ loc.last \in Nat
        /\ Size(dev_class) \in Nat /\ Unpaged(dev_class) \in Nat
    BY <2>1, RequestType, Sizes DEF TypeOK
  <2>3. /\ loc.chunk <= loc.last /\ loc.page = PageOf(dev_class, Position(c))
        /\ req[c].off < Size(dev_class) /\ loc.last * 128 < Size(dev_class)
        /\ \/ torn \/ pageable
           \/ req[c].off < Unpaged(dev_class) /\ loc.last * 128 < Unpaged(dev_class)
    BY <2>1 DEF ReachOf, OPTOE_PAGE_SIZE
  <2>4. Position(c) = req[c].off \/ Position(c) = loc.chunk * 128
    BY DEF Position, ChunkOffset, OPTOE_PAGE_SIZE
  <2>5. loc.chunk * 128 <= loc.last * 128
    BY <2>2, <2>3
  <2>6. /\ Position(c) \in Nat /\ Position(c) < Size(dev_class)
        /\ torn \/ pageable \/ Position(c) < Unpaged(dev_class)
    BY <2>2, <2>3, <2>4, <2>5
  <2>7. loc.page < OPTOE_ARCH_PAGES /\ Position(c) >= Unpaged(dev_class)
    BY <2>1, <2>3, <2>6, PageBounded
  <2> QED
    BY <2>2, <2>6, <2>7
<1> QED
  BY <1>1, Inductive, Progressing, PTL

\* While bytes are transferred, the next is the one after those moved.
LEMMA OrderSuffices ==
  ASSUME IInv, RightPage, Progress
  PROVE  InOrder
<1> SUFFICES ASSUME NEW c \in Callers, pc[c] = "xfer", Aligned(req[c])
             PROVE  /\ loc.phy < 2 * OPTOE_PAGE_SIZE
                    /\ loc.phy < OPTOE_PAGE_SIZE \/ (~dirty[loc.client] /\ ~torn) =>
                         FlatOffset(loc.client, pageReg[loc.client], loc.phy)
                           = req[c].off + amount[c]
  BY DEF InOrder
<1>0. TypeOK /\ OrderOf(c) /\ CountOf(c)
  BY DEF IInv, Progress, AlignedInv, Inside
<1>1. /\ loc.upd \in Int /\ loc.count \in Int /\ loc.clen \in Int /\ loc.retval \in Int
      /\ loc.phy \in Nat /\ req[c].off \in Nat /\ pageReg[loc.client] \in Nat
  BY <1>0, RequestType DEF TypeOK
<1>2. /\ Position(c) = req[c].off + loc.retval
      /\ loc.clen = ChunkLen(req[c].off, loc.chunk, loc.pending) /\ loc.clen >= 1
      /\ loc.client = Client(dev_class, Position(c))
      /\ loc.page = PageOf(dev_class, Position(c))
      /\ loc.phy = PhyOffset(dev_class, Position(c)) + loc.upd
      /\ loc.count >= 1
  BY <1>0 DEF OrderOf
<1>3. /\ loc.upd >= 0 /\ loc.count + loc.upd = loc.clen
      /\ amount[c] = loc.retval + loc.upd
  BY <1>0, <1>1 DEF CountOf, Moved
<1>4. Position(c) \in Nat /\ (Position(c) % OPTOE_PAGE_SIZE) + loc.clen <= OPTOE_PAGE_SIZE
  BY <1>0, <1>2, OrderNumbers
<1>5. (Position(c) % OPTOE_PAGE_SIZE) + loc.upd < OPTOE_PAGE_SIZE /\ loc.upd \in Nat
  <2>1. Position(c) % OPTOE_PAGE_SIZE \in Nat
    BY <1>4, DivNat
  <2> QED
    BY <1>1, <1>2, <1>3, <1>4, <2>1 DEF OPTOE_PAGE_SIZE
<1>6. /\ loc.phy < 2 * OPTOE_PAGE_SIZE
      /\ FlatOffset(loc.client, loc.page, loc.phy) = Position(c) + loc.upd
      /\ loc.phy < OPTOE_PAGE_SIZE =>
           FlatOffset(loc.client, pageReg[loc.client], loc.phy) = Position(c) + loc.upd
  BY <1>1, <1>2, <1>4, <1>5, FlatInverse
<1>7. loc.phy < OPTOE_PAGE_SIZE \/ (~dirty[loc.client] /\ ~torn) =>
        FlatOffset(loc.client, pageReg[loc.client], loc.phy) = Position(c) + loc.upd
  <2>1. CASE loc.phy < OPTOE_PAGE_SIZE
    BY <1>6, <2>1
  <2>2. CASE ~(loc.phy < OPTOE_PAGE_SIZE)
    <3>1. loc.phy >= OPTOE_PAGE_SIZE
      BY <1>1, <2>2 DEF OPTOE_PAGE_SIZE
    <3>2. ~dirty[loc.client] /\ ~torn => pageReg[loc.client] = loc.page
      BY <3>1 DEF RightPage
    <3> QED
      BY <1>6, <2>2, <3>2
  <2> QED
    BY <2>1, <2>2
<1>8. Position(c) + loc.upd = req[c].off + amount[c]
  BY <1>1, <1>2, <1>3
<1> QED
  BY <1>6, <1>7, <1>8

\* A call with an aligned request moves the bytes of the file from its offset
\* on, each once and in order, for any callers, requests, failures, exchanges of
\* modules and changes of dev_class, while the page register is where the driver
\* put it (optoe_translate_offset, the loop of optoe_read_write and
\* optoe_eeprom_update_client, optoe.c:276-304, 506-566 and 637-739).
THEOREM Ordered == Spec => []InOrder
<1>1. IInv /\ RightPage /\ Progress => InOrder
  BY OrderSuffices
<1> QED
  BY <1>1, Inductive, Right, Progressing, PTL

=============================================================================
