------------------------- MODULE CachedDrivers_proofs -------------------------
(***************************************************************************)
(* Proofs about CachedDrivers, for every set of drivers, every number of    *)
(* processes and any files they open.                                      *)
(***************************************************************************)
EXTENDS CachedDrivers, TLAPS

-----------------------------------------------------------------------------
(* The rules, as the steps use them.                                         *)

LEMMA RulesOf ==
  ASSUME TypeOK
  PROVE  /\ KeepsRules(Table[drv])
         /\ \A p \in Actor : file[p] \in DOMAIN Table[drv].files
         /\ \A p \in Actor : None \notin DOMAIN Mine(p).set
BY RulesAreKept, DriversAssumption, NoneAssumption DEF TypeOK, Mine, F

LEMMA OpenedIs ==
  ASSUME TypeOK
  PROVE  Refresh = Table[drv].refresh /\ Watched = UNION {F(f).watch : f \in Files}
BY DEF TypeOK, Opened, Refresh, Watched

LEMMA RefreshFacts ==
  ASSUME TypeOK
  PROVE  /\ Len(Refresh) \in Nat /\ Len(Refresh) >= 1 /\ DOMAIN Refresh = 1..Len(Refresh)
         /\ RefreshForm(Refresh) /\ FillsAll(Refresh)
<1>1. RefreshForm(Refresh) /\ FillsAll(Refresh)
  BY RulesOf, OpenedIs DEF KeepsRules
<1>2. Refresh \in Seq({Refresh[i] : i \in DOMAIN Refresh}) /\ Refresh # <<>>
  BY <1>1 DEF RefreshForm, IsCode
<1> QED
  BY <1>1, <1>2

LEMMA FileFacts ==
  ASSUME TypeOK, NEW e \in DOMAIN Table[drv].files
  PROVE  /\ FileForm(F(e)) /\ KeptApart(Table[drv], F(e)) /\ ShowsAfresh(Table[drv], F(e))
         /\ LooksAtValid(Refresh, F(e))
         /\ \A g \in Programs(F(e)) :
              /\ ProgramForm(g) /\ LeavesCache(Refresh, g)
              /\ KeepsOthers(SharedCells(Table[drv]), g)
         /\ \A v \in DOMAIN F(e).set : \A g \in F(e).set[v] :
              g \in Programs(F(e)) /\ WritesItsOwn(Table[drv], F(e), v, g)
BY RulesOf, OpenedIs DEF KeepsRules, F, Programs

LEMMA ProgramFacts ==
  ASSUME TypeOK, NEW e \in DOMAIN Table[drv].files, NEW g \in Programs(F(e))
  PROVE  /\ Len(g) \in Nat /\ Len(g) >= 1 /\ DOMAIN g = 1..Len(g)
         /\ ProgramForm(g)
<1>1. ProgramForm(g)
  BY FileFacts
<1>2. g \in Seq({g[i] : i \in DOMAIN g}) /\ g # <<>>
  BY <1>1 DEF ProgramForm, IsCode
<1> QED
  BY <1>1, <1>2

-----------------------------------------------------------------------------
(* Calls.                                                                    *)

Calls(p) ==
  [prog : Programs(Mine(p)), at : Nat, upd : Nat, got : SUBSET AllBits,
   want : DOMAIN Mine(p).set \cup {None}, sure : BOOLEAN]

\* A call that is not idle.
LEMMA CallTyped ==
  ASSUME TypeOK, NEW p \in Actor, call[p].at # 0
  PROVE  call[p] \in Calls(p)
<1>1. IsCall(p, call[p]) /\ call[p] # Idle
  BY DEF TypeOK, Idle
<1> QED
  BY <1>1 DEF IsCall, Calls

LEMMA ProgramIs ==
  ASSUME TypeOK, NEW p \in Actor, call[p].at # 0
  PROVE  /\ Mine(p) = F(file[p]) /\ file[p] \in DOMAIN Table[drv].files
         /\ call[p].prog \in Programs(Mine(p))
         /\ Len(call[p].prog) \in Nat /\ Len(call[p].prog) >= 1
         /\ DOMAIN call[p].prog = 1..Len(call[p].prog)
         /\ call[p].at \in 1..Len(call[p].prog)
         /\ ProgramForm(call[p].prog)
<1>1. IsCall(p, call[p]) /\ call[p] # Idle
  BY DEF TypeOK, Idle
<1>3. file[p] \in DOMAIN Table[drv].files /\ Mine(p) = F(file[p])
  BY RulesOf DEF Mine
<1>4. call[p].prog \in Programs(Mine(p))
  BY CallTyped DEF Calls
<1>5. /\ Len(call[p].prog) \in Nat /\ Len(call[p].prog) >= 1
      /\ DOMAIN call[p].prog = 1..Len(call[p].prog)
      /\ ProgramForm(call[p].prog)
  BY <1>3, <1>4, ProgramFacts
<1> QED
  BY <1>1, <1>3, <1>4, <1>5 DEF IsCall

LEMMA CallFacts ==
  ASSUME TypeOK, NEW p \in Actor, call[p].at # 0
  PROVE  /\ call[p] \in Calls(p)
         /\ Mine(p) = F(file[p]) /\ file[p] \in DOMAIN Table[drv].files
         /\ call[p].prog \in Programs(Mine(p))
         /\ call[p].prog \in (IF call[p].want = None THEN {Mine(p).show} ELSE Mine(p).set[call[p].want])
         /\ call[p].want # None => ~call[p].sure
         /\ Len(call[p].prog) \in Nat /\ Len(call[p].prog) >= 1
         /\ DOMAIN call[p].prog = 1..Len(call[p].prog)
         /\ call[p].at \in 1..Len(call[p].prog)
         /\ call[p].upd # 0 => call[p].upd \in 1..Len(Refresh) /\ call[p].prog[call[p].at].do = "update"
         /\ ProgramForm(call[p].prog)
<1>1. IsCall(p, call[p]) /\ call[p] # Idle
  BY DEF TypeOK, Idle
<1>2. call[p] \in Calls(p)
  BY CallTyped
<1>6. DOMAIN Refresh = 1..Len(Refresh)
  BY RefreshFacts
<1> QED
  BY <1>1, <1>2, <1>6, ProgramIs DEF IsCall

\* Where a call that is not idle is.
LEMMA StepFacts ==
  ASSUME TypeOK, NEW p \in Actor, call[p].at # 0
  PROVE  /\ call[p].upd = 0 =>
              /\ Code(p) = call[p].prog /\ Place(p) = call[p].at
              /\ Step(p) = call[p].prog[call[p].at]
         /\ call[p].upd # 0 =>
              /\ Code(p) = Refresh /\ Place(p) = call[p].upd
              /\ Step(p) = Refresh[call[p].upd]
         /\ Place(p) \in 1..Len(Code(p)) /\ Len(Code(p)) \in Nat
         /\ Step(p).skip \in Nat
<1>1. \A i \in 1..Len(call[p].prog) : call[p].prog[i].skip \in Nat
  BY CallFacts DEF ProgramForm
<1>2. \A i \in 1..Len(Refresh) : Refresh[i].skip \in Nat
  BY RefreshFacts DEF RefreshForm
<1> QED
  BY <1>1, <1>2, CallFacts, RefreshFacts DEF Code, Place, Step

\* Wherever a show or store goes on.
LEMMA InProgramOK ==
  ASSUME TypeOK, NEW p \in Actor, call[p].at # 0, NEW m \in Nat
  PROVE  IsCall(p, InProgram(p, m))
<1>1. CASE m \in DOMAIN call[p].prog
  <2> DEFINE c == [call[p] EXCEPT !.at = m, !.upd = 0]
  <2>1. /\ c \in Calls(p)
        /\ c.at = m /\ c.upd = 0 /\ c.prog = call[p].prog /\ c.want = call[p].want
        /\ c.sure = call[p].sure
    BY CallFacts DEF Calls
  <2> HIDE DEF c
  <2>2. IsCall(p, c)
    BY <1>1, <2>1, CallFacts DEF IsCall, Calls
  <2> QED
    BY <1>1, <2>2 DEF InProgram, c
<1>2. CASE m \notin DOMAIN call[p].prog
  BY <1>2 DEF InProgram, IsCall
<1> QED
  BY <1>1, <1>2

\* Wherever update_device goes on.
LEMMA InRefreshOK ==
  ASSUME TypeOK, NEW p \in Actor, call[p].at # 0, NEW m \in 1..Len(Refresh),
         call[p].prog[call[p].at].do = "update"
  PROVE  /\ IsCall(p, [call[p] EXCEPT !.upd = m])
         /\ Holding([call[p] EXCEPT !.upd = m])
<1> DEFINE c == [call[p] EXCEPT !.upd = m]
<1>0. m \in Nat
  BY RefreshFacts
<1>3. call[p] \in Calls(p)
  BY CallTyped
<1>1. /\ c \in Calls(p)
      /\ c.upd = m /\ c.at = call[p].at /\ c.prog = call[p].prog /\ c.want = call[p].want
      /\ c.sure = call[p].sure
  BY <1>0, <1>3 DEF Calls
<1> HIDE DEF c
<1>2. m # 0 /\ m \in DOMAIN Refresh
  BY RefreshFacts
<1>4. IsCall(p, c) /\ Holding(c)
  BY <1>1, <1>2, CallFacts DEF IsCall, Calls, Holding
<1> QED
  BY <1>4 DEF c

\* A refresh never runs past the place where the lock is let go of.
LEMMA OnwardInRefresh ==
  ASSUME TypeOK, NEW n \in 1..Len(Refresh), NEW m \in Onward(Refresh, n)
  PROVE  m \in n..Len(Refresh)
<1>1. ~PassedOver(Refresh[Len(Refresh)])
  BY RefreshFacts DEF RefreshForm, PassedOver
<1> QED
  BY <1>1, RefreshFacts DEF Onward

LEMMA AheadInRefresh ==
  ASSUME TypeOK, NEW p \in Actor, call[p].at # 0, call[p].upd # 0, ~At(p, "unlock")
  PROVE  /\ call[p].upd \in 1..(Len(Refresh) - 1)
         /\ call[p].upd + 1 \in 1..Len(Refresh)
         /\ call[p].upd + Step(p).skip + 1 \in 1..Len(Refresh)
<1>1. call[p].upd \in 1..Len(Refresh) /\ Step(p) = Refresh[call[p].upd]
  BY CallFacts, StepFacts
<1>2. Step(p).do # "unlock"
  BY DEF At
<1>3. Step(p).skip \in Nat /\ call[p].upd # Len(Refresh)
  BY <1>1, <1>2, RefreshFacts DEF RefreshForm
<1>4. CASE Step(p).do = "done"
  BY <1>1, <1>3, <1>4, RefreshFacts DEF RefreshForm
<1>5. CASE Step(p).do # "done"
  BY <1>1, <1>2, <1>3, <1>5, RefreshFacts DEF RefreshForm
<1> QED
  BY <1>4, <1>5

\* Under the lock a store or show goes on one by one.
LEMMA OnwardLocked ==
  ASSUME TypeOK, NEW p \in Actor, call[p].at # 0, Locked(call[p].prog),
         call[p].prog[call[p].at].do # "unlock", NEW m \in Onward(call[p].prog, call[p].at + 1)
  PROVE  m = call[p].at + 1 /\ m \in 2..Len(call[p].prog)
<1> DEFINE g == call[p].prog
<1>1. /\ Len(g) \in Nat /\ DOMAIN g = 1..Len(g) /\ call[p].at \in 1..Len(g)
      /\ ProgramForm(g)
  BY CallFacts
<1> HIDE DEF g
<1>2. Locked(g) /\ g[call[p].at].do # "unlock" /\ m \in Onward(g, call[p].at + 1)
  BY DEF g
<1>3. call[p].at < Len(g)
  BY <1>1, <1>2 DEF ProgramForm
<1>4. ~PassedOver(g[call[p].at + 1])
  BY <1>1, <1>2, <1>3 DEF ProgramForm, PassedOver
<1> DEFINE i == call[p].at
<1>5. i \in Nat /\ i + 1 \in 2..Len(g)
  BY <1>1, <1>3
<1> HIDE DEF i
<1>6. m \in (i + 1)..(Len(g) + 1) /\ \A k \in (i + 1)..(m - 1) : PassedOver(g[k])
  BY <1>2 DEF Onward, i
<1>7. ~(i + 1 \in (i + 1)..(m - 1))
  BY <1>4, <1>6 DEF i
<1>8. m = i + 1
  BY <1>1, <1>5, <1>6, <1>7
<1> QED
  BY <1>5, <1>8 DEF g, i

LEMMA MovedOK ==
  ASSUME TypeOK, NEW p \in Actor, call[p].at # 0,
         Step(p).do \notin {"update", "lock", "unlock"},
         NEW n \in Nat, \/ n = Place(p) + 1
                        \/ n = Place(p) + Step(p).skip + 1 /\ Step(p).do \in {"when", "unlessall"},
         NEW m \in Onward(Code(p), n)
  PROVE  IsCall(p, Moved(p, m)) /\ (Holding(Moved(p, m)) <=> Holding(call[p]))
<1>1. m \in Nat
  BY StepFacts DEF Onward
<1>2. CASE call[p].upd # 0
  <2>1. n \in 1..Len(Refresh) /\ Code(p) = Refresh
    BY <1>2, AheadInRefresh, StepFacts DEF At
  <2>2. m \in 1..Len(Refresh)
    BY <2>1, OnwardInRefresh
  <2> QED
    BY <1>2, <2>2, InRefreshOK, CallFacts DEF Moved, Holding
<1>3. CASE call[p].upd = 0 /\ Locked(call[p].prog)
  <2>1. Step(p) = call[p].prog[call[p].at] /\ Code(p) = call[p].prog /\ Place(p) = call[p].at
    BY <1>3, StepFacts
  <2>2. n = call[p].at + 1 /\ call[p].at > 1
    <3>1. /\ DOMAIN call[p].prog = 1..Len(call[p].prog) /\ call[p].at \in 1..Len(call[p].prog)
          /\ ProgramForm(call[p].prog)
      BY CallFacts
    <3>2. Step(p).do \notin {"lock", "when", "unlessall"}
      BY <1>3, <2>1, <3>1 DEF ProgramForm
    <3> QED
      BY <1>3, <2>1, <3>1, <3>2 DEF Locked
  <2>3. m \in 2..Len(call[p].prog)
    BY <1>3, <2>1, <2>2, OnwardLocked
  <2>4. Moved(p, m) = [call[p] EXCEPT !.at = m, !.upd = 0] /\ Moved(p, m) = InProgram(p, m)
    BY <1>3, <2>3, CallFacts DEF Moved, InProgram
  <2>5. Moved(p, m).at = m /\ Moved(p, m).prog = call[p].prog
    BY <2>4, CallFacts DEF Calls
  <2> QED
    BY <1>1, <1>3, <2>2, <2>3, <2>4, <2>5, InProgramOK DEF Holding
<1>4. CASE call[p].upd = 0 /\ ~Locked(call[p].prog)
  <2>1. IsCall(p, Moved(p, m)) /\ Moved(p, m) = InProgram(p, m)
    BY <1>1, <1>4, InProgramOK DEF Moved
  <2>2. Moved(p, m).upd = 0 /\ (Moved(p, m).at = 0 \/ Moved(p, m).prog = call[p].prog)
    BY <2>1, CallFacts DEF InProgram, Idle, Calls
  <2> QED
    BY <1>4, <2>1, <2>2 DEF Holding
<1> QED
  BY <1>2, <1>3, <1>4

LEMMA AbortOK ==
  ASSUME TypeOK, NEW p \in Actor, call[p].at # 0, Step(p).do \notin {"update", "lock", "unlock"}
  PROVE  IsCall(p, Abort(p)) /\ (Holding(Abort(p)) <=> Holding(call[p]))
<1>1. CASE call[p].upd # 0
  <2>1. Len(Refresh) \in 1..Len(Refresh)
    BY RefreshFacts
  <2>2. call[p].prog[call[p].at].do = "update"
    BY <1>1, CallFacts
  <2> QED
    BY <1>1, <2>1, <2>2, InRefreshOK DEF Abort, Holding
<1>2. CASE call[p].upd = 0 /\ Locked(call[p].prog)
  <2>1. call[p].at > 1 /\ Len(call[p].prog) > 1
    BY <1>2, CallFacts, StepFacts DEF ProgramForm, Locked
  <2>2. Len(call[p].prog) \in DOMAIN call[p].prog /\ Len(call[p].prog) \in Nat
    BY ProgramIs
  <2>5. call[p] \in Calls(p)
    BY CallTyped
  <2>3. /\ Abort(p) = [call[p] EXCEPT !.at = Len(call[p].prog)]
        /\ InProgram(p, Len(call[p].prog)) = [call[p] EXCEPT !.at = Len(call[p].prog), !.upd = 0]
    BY <1>2, <2>2 DEF Abort, InProgram
  <2>4. /\ Abort(p) = InProgram(p, Len(call[p].prog))
        /\ Abort(p).at = Len(call[p].prog) /\ Abort(p).prog = call[p].prog
    BY <1>2, <2>2, <2>3, <2>5 DEF Calls
  <2> QED
    BY <1>2, <2>1, <2>2, <2>4, InProgramOK DEF Holding
<1>3. CASE call[p].upd = 0 /\ ~Locked(call[p].prog)
  BY <1>3 DEF Abort, IsCall, Holding, Idle
<1> QED
  BY <1>1, <1>2, <1>3

-----------------------------------------------------------------------------
(* What a step of p may do to calls: others at most become unsure.           *)

OthersKeep(p) ==
  /\ call' = [q \in Actor |-> call'[q]]
  /\ \A q \in Actor \ {p} : call'[q] = call[q] \/ call'[q] = [call[q] EXCEPT !.sure = FALSE]

LEMMA IdleOrBusy ==
  ASSUME TypeOK, NEW q \in Actor, call[q].at = 0
  PROVE  call[q] = Idle
<1>1. IsCall(q, call[q])
  BY DEF TypeOK
<1>2. ASSUME call[q] \in Calls(q), call[q].at \in DOMAIN call[q].prog PROVE FALSE
  <2>1. call[q].prog \in Programs(Mine(q))
    BY <1>2 DEF Calls
  <2>2. DOMAIN call[q].prog = 1..Len(call[q].prog)
    BY <2>1, RulesOf, ProgramFacts DEF Mine
  <2> QED
    BY <1>2, <2>2
<1> QED
  BY <1>1, <1>2 DEF IsCall, Calls

LEMMA Unsure ==
  ASSUME TypeOK, NEW q \in Actor
  PROVE  LET c == [call[q] EXCEPT !.sure = FALSE]
         IN  /\ IsCall(q, c) /\ (Holding(c) <=> Holding(call[q]))
             /\ c.sure = FALSE /\ c.at = call[q].at /\ c.upd = call[q].upd
             /\ c.prog = call[q].prog /\ c.got = call[q].got /\ c.want = call[q].want
<1>1. CASE call[q].at = 0
  <2>1. call[q] = Idle
    BY <1>1, IdleOrBusy
  <2>2. [Idle EXCEPT !.sure = FALSE] = Idle
    <3> DEFINE R == [prog : {<<>>}, at : {0}, upd : {0}, got : {{}}, want : {None}, sure : {FALSE}]
    <3>1. Idle \in R
      BY DEF Idle
    <3>2. [Idle EXCEPT !.sure = FALSE] \in R
      BY <3>1
    <3> QED
      BY <3>1, <3>2
  <2> QED
    BY <2>1, <2>2 DEF IsCall, Idle
<1>2. CASE call[q].at # 0
  <2> DEFINE c == [call[q] EXCEPT !.sure = FALSE]
  <2>1. call[q] \in Calls(q)
    BY <1>2, CallTyped
  <2>2. /\ c \in Calls(q) /\ c.sure = FALSE /\ c.at = call[q].at /\ c.upd = call[q].upd
        /\ c.prog = call[q].prog /\ c.got = call[q].got /\ c.want = call[q].want
    BY <2>1 DEF Calls
  <2> HIDE DEF c
  <2>3. IsCall(q, call[q]) /\ call[q] # Idle
    BY <1>2 DEF TypeOK, Idle
  <2>4. IsCall(q, c)
    BY <2>2, <2>3 DEF IsCall, Calls
  <2> QED
    BY <2>2, <2>4 DEF c, Holding
<1> QED
  BY <1>1, <1>2

LEMMA AloneIs ==
  ASSUME TypeOK, NEW p \in Actor, NEW ACTION its, Alone(p, its)
  PROVE  call'[p] = its /\ OthersKeep(p) /\ \A q \in Actor \ {p} : call'[q] = call[q]
BY DEF Alone, OthersKeep, TypeOK

LEMMA AmidIs ==
  ASSUME TypeOK, NEW p \in Actor, NEW ACTION its, Amid(p, its)
  PROVE  /\ call'[p] = its /\ OthersKeep(p)
         /\ \A q \in Actor \ {p} : call'[q] = [call[q] EXCEPT !.sure = FALSE]
BY DEF Amid, OthersKeep

\* The calls after a step of p that leaves the lock alone.
LEMMA CallsAfter ==
  ASSUME TypeOK, NEW p \in Actor, lock' = lock, OthersKeep(p), IsCall(p, call'[p]),
         Holding(call'[p]) <=> Holding(call[p])
  PROVE  \A q \in Actor : IsCall(q, call'[q]) /\ ((lock' = q) <=> Holding(call'[q]))
<1> SUFFICES ASSUME NEW q \in Actor
             PROVE  IsCall(q, call'[q]) /\ ((lock' = q) <=> Holding(call'[q]))
  OBVIOUS
<1>1. IsCall(q, call[q]) /\ ((lock = q) <=> Holding(call[q]))
  BY DEF TypeOK
<1>2. CASE q = p
  BY <1>1, <1>2
<1>3. CASE q # p /\ call'[q] = call[q]
  BY <1>1, <1>3
<1>4. CASE q # p /\ call'[q] = [call[q] EXCEPT !.sure = FALSE]
  BY <1>1, <1>4, Unsure
<1> QED
  BY <1>2, <1>3, <1>4 DEF OthersKeep

\* The same, for the ways to go on.
LEMMA GoesOn ==
  ASSUME TypeOK, NEW p \in Actor, call[p].at # 0, lock' = lock,
         Step(p).do \notin {"update", "lock", "unlock"},
         \/ Goes(p) \/ GoesAmid(p) \/ Alone(p, Abort(p))
         \/ LeavesOut(p) /\ Step(p).do \in {"when", "unlessall"}
  PROVE  /\ OthersKeep(p) /\ IsCall(p, call'[p])
         /\ \A q \in Actor : IsCall(q, call'[q]) /\ ((lock' = q) <=> Holding(call'[q]))
<1>0. Place(p) \in Nat /\ Step(p).skip \in Nat
  BY StepFacts
<1>1. CASE Goes(p)
  <2>1. PICK m \in Onward(Code(p), Place(p) + 1) : Alone(p, Moved(p, m))
    BY <1>1 DEF Goes, GoesTo
  <2>2. call'[p] = Moved(p, m) /\ OthersKeep(p)
    BY <2>1, AloneIs
  <2>3. IsCall(p, Moved(p, m)) /\ (Holding(Moved(p, m)) <=> Holding(call[p]))
    BY <1>0, MovedOK
  <2> QED
    BY <2>2, <2>3, CallsAfter
<1>2. CASE GoesAmid(p)
  <2>1. PICK m \in Onward(Code(p), Place(p) + 1) : Amid(p, Moved(p, m))
    BY <1>2 DEF GoesAmid
  <2>2. call'[p] = Moved(p, m) /\ OthersKeep(p)
    BY <2>1, AmidIs
  <2>3. IsCall(p, Moved(p, m)) /\ (Holding(Moved(p, m)) <=> Holding(call[p]))
    BY <1>0, MovedOK
  <2> QED
    BY <2>2, <2>3, CallsAfter
<1>3. CASE Alone(p, Abort(p))
  <2>1. call'[p] = Abort(p) /\ OthersKeep(p)
    BY <1>3, AloneIs
  <2> QED
    BY <2>1, AbortOK, CallsAfter
<1>4. CASE LeavesOut(p) /\ Step(p).do \in {"when", "unlessall"}
  <2>1. PICK m \in Onward(Code(p), Place(p) + Step(p).skip + 1) : Alone(p, Moved(p, m))
    BY <1>4 DEF LeavesOut, GoesTo
  <2>2. call'[p] = Moved(p, m) /\ OthersKeep(p)
    BY <2>1, AloneIs
  <2>3. IsCall(p, Moved(p, m)) /\ (Holding(Moved(p, m)) <=> Holding(call[p]))
    BY <1>0, <1>4, MovedOK
  <2> QED
    BY <2>2, <2>3, CallsAfter
<1> QED
  BY <1>1, <1>2, <1>3, <1>4

-----------------------------------------------------------------------------
(* Type correctness.                                                         *)

\* What depends on the driver and the open files only.
LEMMA FixedSame ==
  ASSUME UNCHANGED fixed
  PROVE  /\ drv' = drv /\ file' = file /\ opened' = opened /\ Opened' = Opened
         /\ Watched' = Watched /\ Refresh' = Refresh /\ Files' = Files /\ Cached' = Cached
         /\ \A f : F(f)' = F(f)
         /\ \A p : Mine(p)' = Mine(p)
BY DEF fixed, Watched, Refresh, Files, Cached, F, Mine, Opened

DataTyped ==
  /\ chip' \in [Watched -> SUBSET AllBits] /\ cache' \in [Watched -> SUBSET AllBits]
  /\ local' \in [Watched -> SUBSET AllBits]
  /\ valid' \in BOOLEAN /\ expired' \in BOOLEAN
  /\ stored' = [f \in Files |-> stored'[f]]
  /\ \A f \in Files : stored'[f] \in DOMAIN F(f).set \cup {None}
  /\ loose' \subseteq Watched /\ filled' \subseteq Watched /\ changes' \in 0..MaxChanges

LEMMA TypedAfter ==
  ASSUME TypeOK, UNCHANGED fixed, DataTyped, lock' \in Actor \cup {NoOne},
         call' = [q \in Actor |-> call'[q]],
         \A q \in Actor : IsCall(q, call'[q]) /\ ((lock' = q) <=> Holding(call'[q]))
  PROVE  TypeOK'
<1>1. \A q \in Actor : IsCall(q, call[q])'
  BY FixedSame DEF IsCall
<1> QED
  BY <1>1, FixedSame DEF TypeOK, DataTyped, Holding, Locked

LEMMA SameTyped ==
  ASSUME TypeOK
  PROVE  /\ chip \in [Watched -> SUBSET AllBits] /\ cache \in [Watched -> SUBSET AllBits]
         /\ local \in [Watched -> SUBSET AllBits]
         /\ valid \in BOOLEAN /\ expired \in BOOLEAN
         /\ stored = [f \in Files |-> stored[f]]
         /\ \A f \in Files : stored[f] \in DOMAIN F(f).set \cup {None}
         /\ loose \subseteq Watched /\ filled \subseteq Watched /\ changes \in 0..MaxChanges
         /\ lock \in Actor \cup {NoOne}
BY DEF TypeOK

LEMMA InProgramStep ==
  ASSUME TypeOK, NEW p \in Actor, call[p].at # 0,
         Step(p).do \in {"update", "lock", "check", "get", "put", "write", "answer"}
  PROVE  call[p].upd = 0 /\ Step(p) = call[p].prog[call[p].at]
<1>1. ASSUME call[p].upd # 0 PROVE FALSE
  <2>1. Step(p) = Refresh[call[p].upd] /\ call[p].upd \in 1..Len(Refresh)
    BY <1>1, StepFacts, CallFacts
  <2> QED
    BY <2>1, RefreshFacts DEF RefreshForm
<1> QED
  BY <1>1, StepFacts

LEMMA InRefreshStep ==
  ASSUME TypeOK, NEW p \in Actor, call[p].at # 0,
         Step(p).do \in {"fetch", "store", "done", "giveup", "unlessall"}
  PROVE  call[p].upd # 0 /\ Step(p) = Refresh[call[p].upd] /\ call[p].upd \in 1..(Len(Refresh) - 1)
<1>1. ASSUME call[p].upd = 0 PROVE FALSE
  <2>1. Step(p) = call[p].prog[call[p].at]
    BY <1>1, StepFacts
  <2> QED
    BY <2>1, ProgramIs DEF ProgramForm
<1> QED
  BY <1>1, StepFacts, AheadInRefresh DEF At

\* The cells that are about what is watched, of a statement's bits.
LEMMA BitsTyped ==
  ASSUME TypeOK, NEW p \in Actor, call[p].at # 0, Step(p).do \in {"put", "write"}
  PROVE  Step(p).bits \subseteq AllBits
BY InProgramStep, ProgramIs DEF ProgramForm

LEMMA WithTyped ==
  ASSUME TypeOK, NEW cells, NEW values, \A c \in Watched : values[c] \subseteq AllBits
  PROVE  With(cells, values) \in [Watched -> SUBSET AllBits]
BY DEF With, TypeOK

LEMMA StoredTyped ==
  ASSUME TypeOK, NEW p \in Actor, call[p].at # 0, NEW cells, NEW mask, NEW own, NEW arrives
  PROVE  /\ StoredAfter(p, cells, mask, own, arrives) =
              [f \in Files |-> StoredAfter(p, cells, mask, own, arrives)[f]]
         /\ \A f \in Files :
              StoredAfter(p, cells, mask, own, arrives)[f] \in DOMAIN F(f).set \cup {None}
<1>1. call[p].want \in DOMAIN F(file[p]).set \cup {None}
  BY CallTyped DEF Calls, Mine
<1>2. \A f \in Files : stored[f] \in DOMAIN F(f).set \cup {None}
  BY DEF TypeOK
<1> QED
  BY <1>1, <1>2 DEF StoredAfter

\* A call that has just been made.
LEMMA CallOK ==
  ASSUME TypeOK, NEW p \in Actor, NEW c, NEW g \in Programs(Mine(p)),
         NEW v \in DOMAIN Mine(p).set \cup {None}, NEW s \in BOOLEAN,
         g \in (IF v = None THEN {Mine(p).show} ELSE Mine(p).set[v]), v # None => ~s,
         c \in [prog : {g}, at : {1}, upd : {0}, got : {{}}, want : {v}, sure : {s}]
  PROVE  IsCall(p, c) /\ ~Holding(c)
<1>1. c.prog = g /\ c.at = 1 /\ c.upd = 0 /\ c.got = {} /\ c.want = v /\ c.sure = s
  OBVIOUS
<1>2. DOMAIN g = 1..Len(g) /\ 1 \in 1..Len(g)
  BY RulesOf, ProgramFacts DEF Mine
<1>3. 1 \in Nat /\ 0 \in Nat /\ {} \in SUBSET AllBits
  OBVIOUS
<1>4. c \in [prog : Programs(Mine(p)), at : Nat, upd : Nat, got : SUBSET AllBits,
             want : DOMAIN Mine(p).set \cup {None}, sure : BOOLEAN]
  BY <1>3
<1>5. c.at \in DOMAIN c.prog
  BY <1>1, <1>2
<1>6. IsCall(p, c)
  BY <1>1, <1>4, <1>5 DEF IsCall
<1> QED
  BY <1>1, <1>6 DEF Holding

LEMMA ShowTyped ==
  ASSUME TypeOK, NEW p \in Actor, Show(p)
  PROVE  TypeOK'
<1> DEFINE c == [Idle EXCEPT !.prog = Mine(p).show, !.at = 1, !.sure = TRUE]
<1>1. call[p].at = 0 /\ Alone(p, c) /\ UNCHANGED <<fixed, chip, cacheVars, lock, stored, loose, changes>>
  BY DEF Show
<1>2. /\ c.prog = Mine(p).show /\ c.at = 1 /\ c.upd = 0 /\ c.want = None
      /\ c \in [prog : {Mine(p).show}, at : {1}, upd : {0}, got : {{}}, want : {None}, sure : {TRUE}]
  BY DEF Idle
<1> HIDE DEF c
<1>3. Mine(p).show \in Programs(Mine(p)) /\ Mine(p) = F(file[p])
  BY DEF Programs, Mine
<1>5. IsCall(p, c)
  BY <1>2, <1>3, CallOK
<1>6. ~Holding(c) /\ ~Holding(call[p])
  BY <1>1, <1>2, IdleOrBusy DEF Holding, Idle
<1>7. call'[p] = c /\ OthersKeep(p)
  BY <1>1, AloneIs
<1>8. \A q \in Actor : IsCall(q, call'[q]) /\ ((lock' = q) <=> Holding(call'[q]))
  BY <1>1, <1>5, <1>6, <1>7, CallsAfter
<1>9. DataTyped
  BY <1>1, SameTyped DEF DataTyped, cacheVars
<1> QED
  BY <1>1, <1>7, <1>8, <1>9, SameTyped, TypedAfter DEF OthersKeep

\* A store that counts otherwise than by what it writes.
LEMMA CountsTyped ==
  ASSUME TypeOK, NEW p \in Actor, NEW v \in DOMAIN Mine(p).set \cup {None}, NEW g,
         stored' \in {stored, Counts(p, g, v)}
  PROVE  /\ stored' = [f \in Files |-> stored'[f]]
         /\ \A f \in Files : stored'[f] \in DOMAIN F(f).set \cup {None}
<1>1. stored = [f \in Files |-> stored[f]]
      /\ \A f \in Files : stored[f] \in DOMAIN F(f).set \cup {None}
  BY SameTyped
<1>2. CASE stored' = stored
  BY <1>1, <1>2
<1>3. CASE stored' = [stored EXCEPT ![file[p]] = v]
  <2>1. stored' = [f \in Files |-> IF f = file[p] THEN v ELSE stored[f]]
    BY <1>1, <1>3
  <2>2. v \in DOMAIN F(file[p]).set \cup {None}
    BY DEF Mine
  <2> QED
    BY <1>1, <2>1, <2>2
<1> QED
  BY <1>2, <1>3 DEF Counts

LEMMA StoreTyped ==
  ASSUME TypeOK, NEW p \in Actor, StoreValue(p)
  PROVE  TypeOK'
<1>0. PICK v \in DOMAIN Mine(p).set : \E g \in Mine(p).set[v] :
             /\ Alone(p, [Idle EXCEPT !.prog = g, !.at = 1, !.want = v])
             /\ stored' = Counts(p, g, v)
  BY DEF StoreValue
<1>00. PICK g \in Mine(p).set[v] : /\ Alone(p, [Idle EXCEPT !.prog = g, !.at = 1, !.want = v])
                                   /\ stored' = Counts(p, g, v)
  BY <1>0
<1> DEFINE c == [Idle EXCEPT !.prog = g, !.at = 1, !.want = v]
<1>1. call[p].at = 0 /\ Alone(p, c) /\ UNCHANGED <<fixed, chip, cacheVars, lock, loose, changes>>
  BY <1>00 DEF StoreValue
<1>2. /\ c.prog = g /\ c.at = 1 /\ c.upd = 0 /\ c.want = v /\ ~c.sure
      /\ c \in [prog : {g}, at : {1}, upd : {0}, got : {{}}, want : {v}, sure : {FALSE}]
  BY DEF Idle
<1> HIDE DEF c
<1>3. g \in Programs(Mine(p)) /\ Mine(p) = F(file[p])
  BY DEF Programs, Mine
<1>4. v # None
  BY RulesOf
<1>5. IsCall(p, c)
  BY <1>2, <1>3, <1>4, CallOK
<1>6. ~Holding(c) /\ ~Holding(call[p])
  BY <1>1, <1>2, IdleOrBusy DEF Holding, Idle
<1>7. call'[p] = c /\ OthersKeep(p)
  BY <1>1, AloneIs
<1>8. \A q \in Actor : IsCall(q, call'[q]) /\ ((lock' = q) <=> Holding(call'[q]))
  BY <1>1, <1>5, <1>6, <1>7, CallsAfter
<1>9. DataTyped
  <2>1. stored' = Counts(p, g, v)
    BY <1>00
  <2> QED
    BY <1>1, <2>1, SameTyped, CountsTyped DEF DataTyped, cacheVars
<1> QED
  BY <1>1, <1>7, <1>8, <1>9, SameTyped, TypedAfter DEF OthersKeep

LEMMA UpdateTyped ==
  ASSUME TypeOK, NEW p \in Actor, UpdateDevice(p)
  PROVE  TypeOK'
<1>1. /\ call[p].at # 0 /\ Step(p).do = "update" /\ lock = NoOne /\ lock' = p
      /\ UNCHANGED <<fixed, chip, cacheVars, stored, changes>>
      /\ loose' \in {{}, loose}
  BY DEF UpdateDevice, At
<1>2. call[p].upd = 0 /\ call[p].prog[call[p].at].do = "update"
  BY <1>1, InProgramStep
<1>3. 1 \in 1..Len(Refresh) /\ Len(Refresh) \in 1..Len(Refresh)
  BY RefreshFacts
<1>4. OthersKeep(p) /\ IsCall(p, call'[p]) /\ Holding(call'[p])
  <2>1. CASE Alone(p, [call[p] EXCEPT !.upd = Len(Refresh)])
    <3>1. call'[p] = [call[p] EXCEPT !.upd = Len(Refresh)] /\ OthersKeep(p)
      BY <2>1, AloneIs
    <3> QED
      BY <1>1, <1>2, <1>3, <3>1, InRefreshOK
  <2>2. CASE \E m \in Onward(Refresh, 1) : Amid(p, [call[p] EXCEPT !.upd = m])
    <3>1. PICK m \in Onward(Refresh, 1) : Amid(p, [call[p] EXCEPT !.upd = m])
      BY <2>2
    <3>2. call'[p] = [call[p] EXCEPT !.upd = m] /\ OthersKeep(p)
      BY <3>1, AmidIs
    <3>3. m \in 1..Len(Refresh)
      BY <1>3, OnwardInRefresh
    <3> QED
      BY <1>1, <1>2, <3>2, <3>3, InRefreshOK
  <2> QED
    BY <2>1, <2>2 DEF UpdateDevice
<1>5. ASSUME NEW q \in Actor
      PROVE  IsCall(q, call'[q]) /\ ((lock' = q) <=> Holding(call'[q]))
  <2>1. CASE q = p
    BY <1>1, <1>4, <2>1
  <2>2. CASE q # p
    <3>1. IsCall(q, call[q]) /\ ~Holding(call[q])
      BY <1>1, NoneAssumption DEF TypeOK
    <3>2. call'[q] = call[q] \/ call'[q] = [call[q] EXCEPT !.sure = FALSE]
      BY <1>4, <2>2 DEF OthersKeep
    <3> QED
      BY <1>1, <2>2, <3>1, <3>2, Unsure
  <2> QED
    BY <2>1, <2>2
<1>6. DataTyped
  BY <1>1, SameTyped DEF DataTyped, cacheVars
<1> QED
  BY <1>1, <1>4, <1>5, <1>6, TypedAfter DEF OthersKeep

LEMMA LockTyped ==
  ASSUME TypeOK, NEW p \in Actor, LockMutex(p)
  PROVE  TypeOK'
<1>1. /\ call[p].at # 0 /\ Step(p).do = "lock" /\ lock = NoOne /\ lock' = p /\ Goes(p)
      /\ UNCHANGED <<fixed, chip, cacheVars, stored, loose, changes>>
  BY DEF LockMutex, At
<1>2. call[p].upd = 0 /\ call[p].prog[call[p].at].do = "lock"
  BY <1>1, InProgramStep
<1>3. call[p].at = 1 /\ Locked(call[p].prog)
  <2>1. call[p].at \in DOMAIN call[p].prog /\ ProgramForm(call[p].prog)
    BY <1>1, ProgramIs
  <2> QED
    BY <1>2, <2>1 DEF ProgramForm, Locked
<1>4. PICK m \in Onward(call[p].prog, call[p].at + 1) : Alone(p, InProgram(p, m))
  BY <1>1, <1>2, StepFacts DEF Goes, GoesTo, Moved
<1>5. m = call[p].at + 1 /\ m \in 2..Len(call[p].prog)
  BY <1>1, <1>2, <1>3, OnwardLocked
<1>6. call'[p] = InProgram(p, m) /\ OthersKeep(p)
  BY <1>4, AloneIs
<1>7. InProgram(p, m) = [call[p] EXCEPT !.at = m, !.upd = 0]
  BY <1>1, <1>5, ProgramIs DEF InProgram
<1>8. call'[p].at = m /\ call'[p].prog = call[p].prog
  BY <1>1, <1>6, <1>7, CallTyped DEF Calls
<1>9. IsCall(p, call'[p]) /\ Holding(call'[p])
  BY <1>1, <1>3, <1>5, <1>6, <1>8, InProgramOK DEF Holding
<1>10. ASSUME NEW q \in Actor
       PROVE  IsCall(q, call'[q]) /\ ((lock' = q) <=> Holding(call'[q]))
  <2>1. CASE q = p
    BY <1>1, <1>9, <2>1
  <2>2. CASE q # p
    <3>1. IsCall(q, call[q]) /\ ~Holding(call[q])
      BY <1>1, NoneAssumption DEF TypeOK
    <3>2. call'[q] = call[q]
      BY <1>4, <2>2, AloneIs
    <3> QED
      BY <1>1, <2>2, <3>1, <3>2
  <2> QED
    BY <2>1, <2>2
<1>11. DataTyped
  BY <1>1, SameTyped DEF DataTyped, cacheVars
<1> QED
  BY <1>1, <1>6, <1>10, <1>11, TypedAfter DEF OthersKeep

LEMMA UnlockTyped ==
  ASSUME TypeOK, NEW p \in Actor, UnlockMutex(p)
  PROVE  TypeOK'
<1>1. /\ call[p].at # 0 /\ Step(p).do = "unlock" /\ lock' = NoOne /\ Returns(p)
      /\ local' = [c \in Watched |-> {}]
      /\ UNCHANGED <<fixed, chip, cache, valid, expired, filled, stored, loose, changes>>
  BY DEF UnlockMutex, At
<1>2. PICK m \in Onward(call[p].prog, call[p].at + 1) : Alone(p, InProgram(p, m))
  BY <1>1 DEF Returns
<1>3. call'[p] = InProgram(p, m) /\ OthersKeep(p) /\ m \in Nat
  BY <1>1, <1>2, AloneIs, ProgramIs DEF Onward
<1>4. IsCall(p, call'[p])
  BY <1>1, <1>3, InProgramOK
<1>5. Holding(call[p]) /\ ~Holding(call'[p])
  <2>1. CASE call[p].upd # 0
    <3>1. call[p].prog[call[p].at].do = "update"
      BY <1>1, <2>1, CallFacts
    <3>2. ~Locked(call[p].prog)
      BY <1>1, <3>1, ProgramIs DEF ProgramForm, Locked
    <3>3. call'[p].upd = 0 /\ (call'[p].at = 0 \/ call'[p].prog = call[p].prog)
      BY <1>1, <1>3, CallTyped DEF InProgram, Idle, Calls
    <3> QED
      BY <2>1, <3>2, <3>3 DEF Holding
  <2>2. CASE call[p].upd = 0
    <3>1. call[p].prog[call[p].at].do = "unlock"
      BY <1>1, <2>2, StepFacts
    <3>2. Locked(call[p].prog) /\ call[p].at = Len(call[p].prog) /\ call[p].at > 1
      BY <1>1, <3>1, ProgramIs DEF ProgramForm, Locked
    <3>3. m \notin DOMAIN call[p].prog
      BY <1>1, <3>2, ProgramIs DEF Onward
    <3>4. call'[p] = Idle
      BY <1>3, <3>3 DEF InProgram
    <3> QED
      BY <3>2, <3>4 DEF Holding, Idle
  <2> QED
    BY <2>1, <2>2
<1>6. ASSUME NEW q \in Actor
      PROVE  IsCall(q, call'[q]) /\ ((lock' = q) <=> Holding(call'[q]))
  <2>0. lock = p /\ NoOne # q
    BY <1>5, NoneAssumption DEF TypeOK
  <2>1. CASE q = p
    BY <1>1, <1>4, <1>5, <2>0, <2>1
  <2>2. CASE q # p
    <3>1. IsCall(q, call[q]) /\ ~Holding(call[q])
      BY <2>0, <2>2 DEF TypeOK
    <3>2. call'[q] = call[q]
      BY <1>2, <2>2, AloneIs
    <3> QED
      BY <1>1, <2>0, <3>1, <3>2
  <2> QED
    BY <2>1, <2>2
<1>7. DataTyped
  <2>1. local' \in [Watched -> SUBSET AllBits]
    BY <1>1
  <2> QED
    BY <1>1, <2>1, SameTyped DEF DataTyped
<1> QED
  BY <1>1, <1>3, <1>4, <1>6, <1>7, TypedAfter DEF OthersKeep

LEMMA ClearTyped ==
  ASSUME TypeOK, NEW p \in Actor, ClearValid(p)
  PROVE  TypeOK'
<1>1. /\ call[p].at # 0 /\ Step(p).do \in {"clear"} /\ lock' = lock /\ UNCHANGED fixed
      /\ Goes(p)
  BY DEF ClearValid, At
<1>2. OthersKeep(p) /\ \A q \in Actor : IsCall(q, call'[q]) /\ ((lock' = q) <=> Holding(call'[q]))
  BY <1>1, GoesOn
<1>3. DataTyped
  BY SameTyped DEF DataTyped, ClearValid, cacheVars
<1> QED
  BY <1>1, <1>2, <1>3, SameTyped, TypedAfter DEF OthersKeep

LEMMA DoneTyped ==
  ASSUME TypeOK, NEW p \in Actor, DoneRefreshing(p)
  PROVE  TypeOK'
<1>1. /\ call[p].at # 0 /\ Step(p).do \in {"done"} /\ lock' = lock /\ UNCHANGED fixed
      /\ Goes(p)
  BY DEF DoneRefreshing, At
<1>2. OthersKeep(p) /\ \A q \in Actor : IsCall(q, call'[q]) /\ ((lock' = q) <=> Holding(call'[q]))
  BY <1>1, GoesOn
<1>3. DataTyped
  BY SameTyped DEF DataTyped, DoneRefreshing, cacheVars
<1> QED
  BY <1>1, <1>2, <1>3, SameTyped, TypedAfter DEF OthersKeep

LEMMA BlankTyped ==
  ASSUME TypeOK, NEW p \in Actor, BlankCells(p)
  PROVE  TypeOK'
<1>1. /\ call[p].at # 0 /\ Step(p).do \in {"blank"} /\ lock' = lock /\ UNCHANGED fixed
      /\ Goes(p)
  BY DEF BlankCells, At
<1>2. OthersKeep(p) /\ \A q \in Actor : IsCall(q, call'[q]) /\ ((lock' = q) <=> Holding(call'[q]))
  BY <1>1, GoesOn
<1>3. DataTyped
  <2>1. \A c \in Watched : Nothing[c] \subseteq AllBits
    BY SameTyped DEF Nothing
  <2>2. cache' \in [Watched -> SUBSET AllBits]
    BY <2>1, WithTyped DEF BlankCells
  <2> QED
    BY <2>2, SameTyped DEF DataTyped, BlankCells
<1> QED
  BY <1>1, <1>2, <1>3, SameTyped, TypedAfter DEF OthersKeep

LEMMA PutTyped ==
  ASSUME TypeOK, NEW p \in Actor, PutCell(p)
  PROVE  TypeOK'
<1>1. /\ call[p].at # 0 /\ Step(p).do \in {"put"} /\ lock' = lock /\ UNCHANGED fixed
      /\ GoesAmid(p)
  BY DEF PutCell, At
<1>2. OthersKeep(p) /\ \A q \in Actor : IsCall(q, call'[q]) /\ ((lock' = q) <=> Holding(call'[q]))
  BY <1>1, GoesOn
<1>3. DataTyped
  <2>1. \A c \in Watched : [e \in Watched |-> Step(p).bits][c] \subseteq AllBits
    BY <1>1, BitsTyped
  <2>2. cache' \in [Watched -> SUBSET AllBits]
    BY <2>1, WithTyped DEF PutCell
  <2>3. /\ stored' = [f \in Files |-> stored'[f]]
        /\ \A f \in Files : stored'[f] \in DOMAIN F(f).set \cup {None}
    BY <1>1, StoredTyped, SameTyped DEF PutCell
  <2> QED
    BY <2>2, <2>3, SameTyped DEF DataTyped, PutCell
<1> QED
  BY <1>1, <1>2, <1>3, SameTyped, TypedAfter DEF OthersKeep

LEMMA ReadTyped ==
  ASSUME TypeOK, NEW p \in Actor, ReadCells(p)
  PROVE  TypeOK'
<1>1. /\ call[p].at # 0 /\ Step(p).do \in {"read"} /\ lock' = lock /\ UNCHANGED fixed
      /\ Goes(p)
  BY DEF ReadCells, At
<1>2. OthersKeep(p) /\ \A q \in Actor : IsCall(q, call'[q]) /\ ((lock' = q) <=> Holding(call'[q]))
  BY <1>1, GoesOn
<1>3. DataTyped
  <2>1. \A c \in Watched : chip[c] \subseteq AllBits
    BY SameTyped
  <2>2. cache' \in [Watched -> SUBSET AllBits]
    BY <2>1, WithTyped DEF ReadCells
  <2> QED
    BY <2>2, SameTyped DEF DataTyped, ReadCells
<1> QED
  BY <1>1, <1>2, <1>3, SameTyped, TypedAfter DEF OthersKeep

LEMMA FetchTyped ==
  ASSUME TypeOK, NEW p \in Actor, FetchCells(p)
  PROVE  TypeOK'
<1>1. /\ call[p].at # 0 /\ Step(p).do \in {"fetch"} /\ lock' = lock /\ UNCHANGED fixed
      /\ Goes(p)
  BY DEF FetchCells, At
<1>2. OthersKeep(p) /\ \A q \in Actor : IsCall(q, call'[q]) /\ ((lock' = q) <=> Holding(call'[q]))
  BY <1>1, GoesOn
<1>3. DataTyped
  <2>1. local' \in [Watched -> SUBSET AllBits]
    BY SameTyped DEF FetchCells
  <2> QED
    BY <2>1, SameTyped DEF DataTyped, FetchCells
<1> QED
  BY <1>1, <1>2, <1>3, SameTyped, TypedAfter DEF OthersKeep

LEMMA StoreCellsTyped ==
  ASSUME TypeOK, NEW p \in Actor, StoreCells(p)
  PROVE  TypeOK'
<1>1. /\ call[p].at # 0 /\ Step(p).do \in {"store"} /\ lock' = lock /\ UNCHANGED fixed
      /\ Goes(p)
  BY DEF StoreCells, At
<1>2. OthersKeep(p) /\ \A q \in Actor : IsCall(q, call'[q]) /\ ((lock' = q) <=> Holding(call'[q]))
  BY <1>1, GoesOn
<1>3. DataTyped
  <2>1. \A c \in Watched : local[c] \subseteq AllBits
    BY SameTyped
  <2>2. cache' \in [Watched -> SUBSET AllBits]
    BY <2>1, WithTyped DEF StoreCells
  <2> QED
    BY <2>2, SameTyped DEF DataTyped, StoreCells
<1> QED
  BY <1>1, <1>2, <1>3, SameTyped, TypedAfter DEF OthersKeep

LEMMA AbortsTyped ==
  ASSUME TypeOK, NEW p \in Actor, ReadAborts(p)
  PROVE  TypeOK'
<1>1. /\ call[p].at # 0 /\ Step(p).do \in {"read", "fetch"} /\ lock' = lock /\ UNCHANGED fixed
      /\ Alone(p, Abort(p))
  BY DEF ReadAborts, At, Fails
<1>2. OthersKeep(p) /\ \A q \in Actor : IsCall(q, call'[q]) /\ ((lock' = q) <=> Holding(call'[q]))
  BY <1>1, GoesOn
<1>3. DataTyped
  BY SameTyped DEF DataTyped, ReadAborts, cacheVars
<1> QED
  BY <1>1, <1>2, <1>3, SameTyped, TypedAfter DEF OthersKeep

LEMMA KeepsTyped ==
  ASSUME TypeOK, NEW p \in Actor, ReadKeeps(p)
  PROVE  TypeOK'
<1>1. /\ call[p].at # 0 /\ Step(p).do \in {"read", "fetch"} /\ lock' = lock /\ UNCHANGED fixed
      /\ Goes(p)
  BY DEF ReadKeeps, At, Fails
<1>2. OthersKeep(p) /\ \A q \in Actor : IsCall(q, call'[q]) /\ ((lock' = q) <=> Holding(call'[q]))
  BY <1>1, GoesOn
<1>3. DataTyped
  BY SameTyped DEF DataTyped, ReadKeeps, cacheVars
<1> QED
  BY <1>1, <1>2, <1>3, SameTyped, TypedAfter DEF OthersKeep

LEMMA BlanksTyped ==
  ASSUME TypeOK, NEW p \in Actor, ReadBlanks(p)
  PROVE  TypeOK'
<1>1. /\ call[p].at # 0 /\ Step(p).do \in {"read", "fetch"} /\ lock' = lock /\ UNCHANGED fixed
      /\ Goes(p)
  BY DEF ReadBlanks, At, Fails
<1>2. OthersKeep(p) /\ \A q \in Actor : IsCall(q, call'[q]) /\ ((lock' = q) <=> Holding(call'[q]))
  BY <1>1, GoesOn
<1>3. DataTyped
  <2>1. \A c \in Watched : Nothing[c] \subseteq AllBits
    BY SameTyped DEF Nothing
  <2>2. cache' \in [Watched -> SUBSET AllBits]
    BY <2>1, WithTyped DEF ReadBlanks
  <2> QED
    BY <2>2, SameTyped DEF DataTyped, ReadBlanks
<1> QED
  BY <1>1, <1>2, <1>3, SameTyped, TypedAfter DEF OthersKeep

LEMMA ErrnoTyped ==
  ASSUME TypeOK, NEW p \in Actor, FetchTakesErrno(p)
  PROVE  TypeOK'
<1>1. /\ call[p].at # 0 /\ Step(p).do \in {"read", "fetch"} /\ lock' = lock /\ UNCHANGED fixed
      /\ Goes(p)
  BY DEF FetchTakesErrno, At, Fails
<1>2. OthersKeep(p) /\ \A q \in Actor : IsCall(q, call'[q]) /\ ((lock' = q) <=> Holding(call'[q]))
  BY <1>1, GoesOn
<1>3. DataTyped
  <2>1. local' \in [Watched -> SUBSET AllBits]
    BY SameTyped DEF FetchTakesErrno, One, AllBits
  <2> QED
    BY <2>1, SameTyped DEF DataTyped, FetchTakesErrno
<1> QED
  BY <1>1, <1>2, <1>3, SameTyped, TypedAfter DEF OthersKeep

LEMMA WhetherTyped ==
  ASSUME TypeOK, NEW p \in Actor, Whether(p)
  PROVE  TypeOK'
<1>1. /\ call[p].at # 0 /\ Step(p).do \in {"when"} /\ lock' = lock /\ UNCHANGED fixed
      /\ Goes(p) \/ LeavesOut(p)
  BY DEF Whether, At
<1>2. OthersKeep(p) /\ \A q \in Actor : IsCall(q, call'[q]) /\ ((lock' = q) <=> Holding(call'[q]))
  BY <1>1, GoesOn
<1>3. DataTyped
  BY SameTyped DEF DataTyped, Whether, cacheVars
<1> QED
  BY <1>1, <1>2, <1>3, SameTyped, TypedAfter DEF OthersKeep

LEMMA UnlessTyped ==
  ASSUME TypeOK, NEW p \in Actor, UnlessAllRead(p)
  PROVE  TypeOK'
<1>1. /\ call[p].at # 0 /\ Step(p).do \in {"unlessall"} /\ lock' = lock /\ UNCHANGED fixed
      /\ Goes(p) \/ LeavesOut(p)
  BY DEF UnlessAllRead, At
<1>2. OthersKeep(p) /\ \A q \in Actor : IsCall(q, call'[q]) /\ ((lock' = q) <=> Holding(call'[q]))
  BY <1>1, GoesOn
<1>3. DataTyped
  BY SameTyped DEF DataTyped, UnlessAllRead, cacheVars
<1> QED
  BY <1>1, <1>2, <1>3, SameTyped, TypedAfter DEF OthersKeep

LEMMA GivesUpTyped ==
  ASSUME TypeOK, NEW p \in Actor, GivesUp(p)
  PROVE  TypeOK'
<1>1. /\ call[p].at # 0 /\ Step(p).do \in {"giveup"} /\ lock' = lock /\ UNCHANGED fixed
      /\ Alone(p, Abort(p))
  BY DEF GivesUp, At
<1>2. OthersKeep(p) /\ \A q \in Actor : IsCall(q, call'[q]) /\ ((lock' = q) <=> Holding(call'[q]))
  BY <1>1, GoesOn
<1>3. DataTyped
  BY SameTyped DEF DataTyped, GivesUp, cacheVars
<1> QED
  BY <1>1, <1>2, <1>3, SameTyped, TypedAfter DEF OthersKeep

LEMMA AnswerTyped ==
  ASSUME TypeOK, NEW p \in Actor, AnswerShow(p)
  PROVE  TypeOK'
<1>1. /\ call[p].at # 0 /\ Step(p).do \in {"answer"} /\ lock' = lock /\ UNCHANGED fixed
      /\ Goes(p)
  BY DEF AnswerShow, At
<1>2. OthersKeep(p) /\ \A q \in Actor : IsCall(q, call'[q]) /\ ((lock' = q) <=> Holding(call'[q]))
  BY <1>1, GoesOn
<1>3. DataTyped
  BY SameTyped DEF DataTyped, AnswerShow, cacheVars
<1> QED
  BY <1>1, <1>2, <1>3, SameTyped, TypedAfter DEF OthersKeep

LEMMA WriteTyped ==
  ASSUME TypeOK, NEW p \in Actor, WriteRegister(p)
  PROVE  TypeOK'
<1>1. /\ call[p].at # 0 /\ Step(p).do \in {"write"} /\ lock' = lock /\ UNCHANGED fixed
      /\ GoesAmid(p)
  BY DEF WriteRegister, At
<1>2. OthersKeep(p) /\ \A q \in Actor : IsCall(q, call'[q]) /\ ((lock' = q) <=> Holding(call'[q]))
  BY <1>1, GoesOn
<1>3. DataTyped
  <2>1. Step(p).bits \subseteq AllBits /\ call[p].got \subseteq AllBits
    BY <1>1, BitsTyped, CallTyped DEF Calls
  <2>2. chip' \in [Watched -> SUBSET AllBits]
    BY <2>1, SameTyped DEF WriteRegister
  <2>3. /\ stored' = [f \in Files |-> stored'[f]]
        /\ \A f \in Files : stored'[f] \in DOMAIN F(f).set \cup {None}
    <3>1. PICK arrives \in BOOLEAN :
            stored' = StoredAfter(p, Step(p).cells \cap Watched, Step(p).mask, Step(p).own, arrives)
      BY DEF WriteRegister
    <3> DEFINE after == StoredAfter(p, Step(p).cells \cap Watched, Step(p).mask, Step(p).own, arrives)
    <3>2. /\ after = [f \in Files |-> after[f]]
          /\ \A f \in Files : after[f] \in DOMAIN F(f).set \cup {None}
      BY <1>1, StoredTyped
    <3> HIDE DEF after
    <3>3. stored' = after
      BY <3>1 DEF after
    <3> QED
      BY <3>2, <3>3
  <2> QED
    BY <2>2, <2>3, SameTyped DEF DataTyped, WriteRegister, cacheVars
<1> QED
  BY <1>1, <1>2, <1>3, SameTyped, TypedAfter DEF OthersKeep

LEMMA CheckTyped ==
  ASSUME TypeOK, NEW p \in Actor, CheckValid(p)
  PROVE  TypeOK'
<1>1. /\ call[p].at # 0 /\ Step(p).do = "check" /\ lock' = lock /\ UNCHANGED fixed
      /\ Goes(p) \/ Alone(p, Idle)
  BY DEF CheckValid, At
<1>2. OthersKeep(p) /\ \A q \in Actor : IsCall(q, call'[q]) /\ ((lock' = q) <=> Holding(call'[q]))
  <2>1. CASE Goes(p)
    BY <1>1, <2>1, GoesOn
  <2>2. CASE Alone(p, Idle)
    <3>1. call[p].upd = 0 /\ call[p].prog[call[p].at].do = "check"
      BY <1>1, InProgramStep
    <3>2. ~Holding(call[p])
      BY <1>1, <3>1, ProgramIs DEF ProgramForm, Holding
    <3>3. call'[p] = Idle /\ OthersKeep(p)
      BY <2>2, AloneIs
    <3> QED
      <4>1. IsCall(p, Idle) /\ ~Holding(Idle)
        BY DEF IsCall, Holding, Idle
      <4> QED
        BY <1>1, <3>2, <3>3, <4>1, CallsAfter
  <2> QED
    BY <1>1, <2>1, <2>2
<1>3. DataTyped
  BY SameTyped DEF DataTyped, CheckValid, cacheVars
<1> QED
  BY <1>1, <1>2, <1>3, SameTyped, TypedAfter DEF OthersKeep

\* What was read is used by the next statement.
LEMMA GotIs ==
  ASSUME TypeOK, NEW p \in Actor, call[p].at # 0, Step(p).do = "get", NEW ACTION bits, Got(p, bits)
  PROVE  /\ call[p].upd = 0 /\ call[p].at + 1 \in 2..Len(call[p].prog)
         /\ call'[p] = [call[p] EXCEPT !.at = call[p].at + 1, !.upd = 0, !.got = bits]
         /\ OthersKeep(p) /\ \A q \in Actor \ {p} : call'[q] = call[q]
<1>1. call[p].upd = 0 /\ call[p].prog[call[p].at].do = "get"
  BY InProgramStep
<1>2. PICK m \in Onward(call[p].prog, call[p].at + 1) : Alone(p, [InProgram(p, m) EXCEPT !.got = bits])
  BY <1>1, StepFacts DEF Got, Moved
<1> DEFINE g == call[p].prog
<1>3. ProgramForm(g) /\ call[p].at \in 1..Len(g) /\ DOMAIN g = 1..Len(g) /\ Len(g) \in Nat
  BY ProgramIs
<1>4. g[call[p].at].do = "get" /\ m \in Onward(g, call[p].at + 1)
  BY <1>1
<1>5. InProgram(p, m) = IF m \in DOMAIN g THEN [call[p] EXCEPT !.at = m, !.upd = 0] ELSE Idle
  BY DEF InProgram
<1> HIDE DEF g
<1>6. call[p].at < Len(g) /\ g[call[p].at + 1].do \in {"write", "answer"}
  BY <1>3, <1>4 DEF ProgramForm
<1>7. ~PassedOver(g[call[p].at + 1])
  BY <1>6 DEF PassedOver
<1>8. m = call[p].at + 1 /\ m \in 2..Len(g)
  BY <1>3, <1>4, <1>6, <1>7 DEF Onward
<1>9. InProgram(p, m) = [call[p] EXCEPT !.at = m, !.upd = 0]
  BY <1>3, <1>5, <1>8
<1>10. /\ call'[p] = [InProgram(p, m) EXCEPT !.got = bits] /\ OthersKeep(p)
       /\ \A q \in Actor \ {p} : call'[q] = call[q]
  BY <1>2, AloneIs
<1> QED
  BY <1>1, <1>8, <1>9, <1>10 DEF g

LEMMA GotCalls ==
  ASSUME TypeOK, NEW p \in Actor, call[p].at # 0, Step(p).do = "get", NEW ACTION bits, Got(p, bits),
         bits \subseteq AllBits, lock' = lock
  PROVE  OthersKeep(p) /\ \A q \in Actor : IsCall(q, call'[q]) /\ ((lock' = q) <=> Holding(call'[q]))
<1> DEFINE c == [call[p] EXCEPT !.at = call[p].at + 1, !.upd = 0, !.got = bits]
<1>1. /\ call[p].upd = 0 /\ call[p].at + 1 \in 2..Len(call[p].prog) /\ call'[p] = c
      /\ OthersKeep(p)
  BY GotIs
<1>2. call[p] \in Calls(p) /\ call[p].at \in Nat /\ call[p].at >= 1 /\ DOMAIN call[p].prog = 1..Len(call[p].prog)
  BY CallTyped, ProgramIs
<1>3. /\ c \in Calls(p) /\ c.at = call[p].at + 1 /\ c.upd = 0 /\ c.prog = call[p].prog
      /\ c.want = call[p].want /\ c.sure = call[p].sure
  <2>1. call[p].at + 1 \in Nat /\ bits \in SUBSET AllBits /\ 0 \in Nat
    BY <1>2
  <2>2. c \in Calls(p)
    BY <1>2, <2>1 DEF Calls
  <2>3. c.at = call[p].at + 1 /\ c.upd = 0 /\ c.prog = call[p].prog
    BY <1>2 DEF Calls
  <2>4. c.want = call[p].want /\ c.sure = call[p].sure
    BY <1>2 DEF Calls
  <2> QED
    BY <2>2, <2>3, <2>4
<1>4. IsCall(p, call[p]) /\ call[p] # Idle
  BY DEF TypeOK, Idle
<1> HIDE DEF c
<1>5. c.at \in DOMAIN c.prog
  BY <1>1, <1>2, <1>3, ProgramIs
<1>6. IsCall(p, c)
  BY <1>3, <1>4, <1>5 DEF IsCall, Calls
<1>7. call[p].prog[call[p].at].do = "get"
  BY InProgramStep
<1>8. Locked(call[p].prog) => call[p].at > 1
  BY <1>2, <1>7 DEF Locked
<1>9. Holding(c) <=> Holding(call[p])
  BY <1>1, <1>2, <1>3, <1>8, ProgramIs DEF Holding
<1> QED
  BY <1>1, <1>6, <1>9, CallsAfter

LEMMA GetTyped ==
  ASSUME TypeOK, NEW p \in Actor, GetRegister(p)
  PROVE  TypeOK'
<1> DEFINE bits == IF TheCell(p) \in Watched THEN chip[TheCell(p)] ELSE {}
<1>1. /\ call[p].at # 0 /\ Step(p).do = "get" /\ lock' = lock /\ UNCHANGED fixed
      /\ Got(p, bits)
  BY DEF GetRegister, At
<1>2. bits \subseteq AllBits
  BY SameTyped
<1>3. OthersKeep(p) /\ \A q \in Actor : IsCall(q, call'[q]) /\ ((lock' = q) <=> Holding(call'[q]))
  BY <1>1, <1>2, GotCalls
<1>4. DataTyped
  BY SameTyped DEF DataTyped, GetRegister, cacheVars
<1> QED
  BY <1>1, <1>3, <1>4, SameTyped, TypedAfter DEF OthersKeep

\* A number taken for what was read is about a register of the file.
LEMMA ErrnoCell ==
  ASSUME TypeOK, NEW p \in Actor, call[p].at # 0, Step(p).do = "get"
  PROVE  /\ Step(p).cells = {TheCell(p)}
         /\ Step(p).otherwise = "errno" => TheCell(p) \in Watched
<1>1. Step(p) = call[p].prog[call[p].at]
  BY InProgramStep
<1>2. PICK c \in Step(p).cells : Step(p).cells = {c}
  <2>1. call[p].at \in DOMAIN call[p].prog /\ ProgramForm(call[p].prog)
    BY ProgramIs
  <2>2. call[p].prog[call[p].at].do = "get"
    BY <1>1
  <2>3. \E c \in call[p].prog[call[p].at].cells : call[p].prog[call[p].at].cells = {c}
    BY <2>1, <2>2 DEF ProgramForm
  <2> QED
    BY <1>1, <2>3
<1>3. TheCell(p) \in Step(p).cells
  BY <1>2 DEF TheCell
<1>4. FileForm(Mine(p)) /\ file[p] \in Files
  BY RulesOf, FileFacts DEF Mine, Files
<1>5. Step(p).otherwise = "errno" => Step(p).cells \subseteq Mine(p).watch
  BY <1>1, <1>4, ProgramIs DEF FileForm
<1> QED
  BY <1>2, <1>3, <1>4, <1>5, OpenedIs DEF Mine

LEMMA GetFailsTyped ==
  ASSUME TypeOK, NEW p \in Actor, GetFails(p)
  PROVE  TypeOK'
<1>1. /\ call[p].at # 0 /\ Step(p).do = "get" /\ lock' = lock /\ UNCHANGED fixed
      /\ Got(p, ErrnoBits) \/ Alone(p, Abort(p))
  BY DEF GetFails, At
<1>2. OthersKeep(p) /\ \A q \in Actor : IsCall(q, call'[q]) /\ ((lock' = q) <=> Holding(call'[q]))
  <2>1. CASE Got(p, ErrnoBits)
    BY <1>1, <2>1, BoundsAssumption, GotCalls
  <2>2. CASE Alone(p, Abort(p))
    BY <1>1, <2>2, GoesOn
  <2> QED
    BY <1>1, <2>1, <2>2
<1>3. loose' \subseteq Watched
  BY <1>1, SameTyped, ErrnoCell DEF GetFails
<1>4. DataTyped
  <2>1. stored' \in {stored, Counts(p, call[p].prog, None)}
    BY DEF GetFails
  <2>2. /\ stored' = [f \in Files |-> stored'[f]]
        /\ \A f \in Files : stored'[f] \in DOMAIN F(f).set \cup {None}
    BY <2>1, CountsTyped
  <2>3. UNCHANGED <<chip, cacheVars, changes>>
    BY DEF GetFails
  <2> QED
    BY <1>3, <2>2, <2>3, SameTyped DEF DataTyped, cacheVars
<1> QED
  BY <1>1, <1>2, <1>4, SameTyped, TypedAfter DEF OthersKeep

LEMMA ChangeTyped ==
  ASSUME TypeOK, DeviceChanges
  PROVE  TypeOK'
<1>1. PICK c \in UNION {F(f).watch : f \in {g \in Files : F(g).home = "chip"}} :
             /\ chip' = [chip EXCEPT ![c] = One \ @]
             /\ loose' = loose \cup {c}
             /\ stored' = [f \in Files |-> IF c \in F(f).watch THEN None ELSE stored[f]]
  BY DEF DeviceChanges
<1>2. c \in Watched
  BY OpenedIs
<1>3. chip' \in [Watched -> SUBSET AllBits]
  <2>1. One \ chip[c] \in SUBSET AllBits
    BY DEF One, AllBits
  <2>2. chip \in [Watched -> SUBSET AllBits]
    BY SameTyped
  <2> QED
    BY <1>1, <2>1, <2>2
<1>4. /\ stored' = [f \in Files |-> stored'[f]]
      /\ \A f \in Files : stored'[f] \in DOMAIN F(f).set \cup {None}
  BY <1>1, SameTyped
<1>5. changes' \in 0..MaxChanges
  BY BoundsAssumption, SameTyped DEF DeviceChanges
<1>6. DataTyped
  BY <1>1, <1>2, <1>3, <1>4, <1>5, SameTyped DEF DataTyped, DeviceChanges, cacheVars
<1> QED
  BY <1>6, SameTyped, TypedAfter DEF DeviceChanges, TypeOK

LEMMA ExpireTyped ==
  ASSUME TypeOK, Expire
  PROVE  TypeOK'
<1>1. DataTyped
  BY SameTyped DEF DataTyped, Expire
<1> QED
  BY <1>1, SameTyped, TypedAfter DEF Expire, TypeOK

LEMMA InitTypeOK == Init => TypeOK
<1> SUFFICES ASSUME Init PROVE TypeOK
  OBVIOUS
<1>1. {chip, cache, local} \subseteq [Watched -> SUBSET AllBits]
  BY DEF Init, One, AllBits
<1>2. \A p \in Actor : call[p] = Idle /\ lock # p
  BY NoneAssumption DEF Init
<1>3. \A p \in Actor : IsCall(p, call[p]) /\ ~Holding(call[p])
  <2>1. \A p \in Actor : IsCall(p, Idle)
    BY DEF IsCall
  <2>2. ~Holding(Idle)
    BY DEF Holding, Idle
  <2> QED
    BY <1>2, <2>1, <2>2
<1>4. call = [p \in Actor |-> call[p]] /\ stored = [f \in Files |-> stored[f]]
  BY DEF Init
<1>5. \A f \in Files : stored[f] \in DOMAIN F(f).set \cup {None}
  BY DEF Init
<1>6. drv \in Drivers /\ file \in [Actor -> Open(drv)] /\ opened = Opened
  BY DEF Init
<1>7. /\ {valid, expired} \subseteq BOOLEAN /\ lock \in Actor \cup {NoOne}
      /\ loose \subseteq Watched /\ filled \subseteq Watched /\ changes \in 0..MaxChanges
  <2>1. valid = FALSE /\ expired = FALSE /\ lock = NoOne /\ loose = {} /\ filled = {} /\ changes = 0
    BY DEF Init
  <2>2. 0 \in 0..MaxChanges
    BY BoundsAssumption
  <2> QED
    BY <2>1, <2>2
<1>8. \A p \in Actor : IsCall(p, call[p]) /\ ((lock = p) <=> Holding(call[p]))
  BY <1>2, <1>3
<1> QED
  BY <1>1, <1>4, <1>5, <1>6, <1>7, <1>8 DEF TypeOK

LEMMA RunTyped ==
  ASSUME TypeOK, NEW p \in Actor, Run(p)
  PROVE  TypeOK'
BY UpdateTyped, LockTyped, UnlockTyped, ClearTyped, DoneTyped, BlankTyped, PutTyped, ReadTyped,
   FetchTyped, StoreCellsTyped, AbortsTyped, KeepsTyped, BlanksTyped, ErrnoTyped, WhetherTyped,
   UnlessTyped, GivesUpTyped, CheckTyped, AnswerTyped, GetTyped, GetFailsTyped, WriteTyped DEF Run

LEMMA NextTypeOK == TypeOK /\ [Next]_vars => TypeOK'
<1> SUFFICES ASSUME TypeOK, [Next]_vars PROVE TypeOK'
  OBVIOUS
<1>1. ASSUME NEW p \in Actor, Show(p) \/ StoreValue(p) \/ Run(p) PROVE TypeOK'
  BY <1>1, ShowTyped, StoreTyped, RunTyped
<1>2. CASE UNCHANGED vars
  <2>1. DataTyped /\ UNCHANGED fixed
    BY <1>2, SameTyped DEF DataTyped, vars, cacheVars, fixed
  <2> QED
    BY <1>2, <2>1, SameTyped, TypedAfter DEF vars, TypeOK
<1> QED
  BY <1>1, <1>2, ChangeTyped, ExpireTyped DEF Next

\* Whatever driver, files and processes: every value is of its type, a call is
\* at a statement of the driver, and the mutex of the driver is held by exactly
\* the process that has still to let it go.
THEOREM TypeCorrect == Spec => []TypeOK
<1>1. Init => TypeOK
  BY InitTypeOK
<1>2. TypeOK /\ [Next]_vars => TypeOK'
  BY NextTypeOK
<1> QED
  BY <1>1, <1>2, PTL DEF Spec

-----------------------------------------------------------------------------
(* Where calls go, with what stays of them.                                  *)

\* The call after a step that leaves files and driver alone.
LEMMA NextCall ==
  ASSUME TypeOK, TypeOK', UNCHANGED fixed, NEW p \in Actor, call'[p].at # 0
  PROVE  /\ call'[p] \in Calls(p)
         /\ Mine(p) = F(file[p]) /\ file[p] \in DOMAIN Table[drv].files
         /\ call'[p].prog \in Programs(Mine(p))
         /\ call'[p].want # None => call'[p].prog \in Mine(p).set[call'[p].want] /\ ~call'[p].sure
         /\ call'[p].want = None => call'[p].prog = Mine(p).show
         /\ Len(call'[p].prog) \in Nat /\ DOMAIN call'[p].prog = 1..Len(call'[p].prog)
         /\ call'[p].at \in 1..Len(call'[p].prog)
         /\ call'[p].upd # 0 => call'[p].upd \in 1..Len(Refresh)
                                /\ call'[p].prog[call'[p].at].do = "update"
         /\ ProgramForm(call'[p].prog)
         /\ (lock' = p) <=> Holding(call'[p])
<1>1. IsCall(p, call[p])' /\ ((lock' = p) <=> Holding(call'[p]))
  BY DEF TypeOK, Holding, Locked
<1>2. IsCall(p, call'[p])
  BY <1>1, FixedSame DEF IsCall
<1>3. call'[p] # Idle
  BY DEF Idle
<1>4. call'[p] \in Calls(p)
  BY <1>2, <1>3 DEF IsCall, Calls
<1>5. Mine(p) = F(file[p]) /\ file[p] \in DOMAIN Table[drv].files
  BY RulesOf DEF Mine
<1>6. call'[p].prog \in Programs(F(file[p]))
  BY <1>4, <1>5 DEF Calls
<1>7. /\ Len(call'[p].prog) \in Nat /\ DOMAIN call'[p].prog = 1..Len(call'[p].prog)
      /\ ProgramForm(call'[p].prog)
  BY <1>5, <1>6, ProgramFacts
<1>8. DOMAIN Refresh = 1..Len(Refresh)
  BY RefreshFacts
<1> QED
  BY <1>1, <1>2, <1>3, <1>4, <1>5, <1>6, <1>7, <1>8 DEF IsCall

LEMMA InProgramIs ==
  ASSUME TypeOK, NEW p \in Actor, call[p].at # 0, NEW m \in Nat
  PROVE  LET c == InProgram(p, m)
         IN  \/ c = Idle /\ m \notin DOMAIN call[p].prog
             \/ /\ m \in DOMAIN call[p].prog
                /\ c.prog = call[p].prog /\ c.at = m /\ c.upd = 0 /\ c.got = call[p].got
                /\ c.want = call[p].want /\ c.sure = call[p].sure
<1>1. call[p] \in Calls(p)
  BY CallTyped
<1> QED
  BY <1>1 DEF InProgram, Calls

LEMMA InRefreshIs ==
  ASSUME TypeOK, NEW p \in Actor, call[p].at # 0, NEW m
  PROVE  LET c == [call[p] EXCEPT !.upd = m]
         IN  /\ c.prog = call[p].prog /\ c.at = call[p].at /\ c.upd = m /\ c.got = call[p].got
             /\ c.want = call[p].want /\ c.sure = call[p].sure
<1>1. call[p] \in Calls(p)
  BY CallTyped
<1> QED
  BY <1>1 DEF Calls

\* What stays of a call.
SameCall(c, d) == d.prog = c.prog /\ d.want = c.want /\ d.sure = c.sure

\* In update_device p goes on to the next place or past what is left out, or is
\* sent to the end.
RefreshGoes(p) ==
  /\ call[p].upd \in 1..(Len(Refresh) - 1) /\ SameCall(call[p], call'[p])
  /\ call'[p].at = call[p].at /\ call'[p].got = call[p].got
  /\ \E n \in {call[p].upd + 1, call[p].upd + Step(p).skip + 1} :
       n \in 1..Len(Refresh) /\ call'[p].upd \in Onward(Refresh, n)

\* In a show or store it goes on, past what is left out by a when, or is through.
ProgramGoes(p) ==
  /\ call[p].upd = 0
  /\ \/ call'[p] = Idle
     \/ /\ SameCall(call[p], call'[p]) /\ call'[p].upd = 0 /\ call'[p].got = call[p].got
        /\ \/ call'[p].at \in Onward(call[p].prog, call[p].at + 1)
           \/ Step(p).do = "when"
              /\ call'[p].at \in Onward(call[p].prog, call[p].at + Step(p).skip + 1)

LEMMA GoesIs ==
  ASSUME TypeOK, NEW p \in Actor, call[p].at # 0, ~At(p, "unlock"), Goes(p) \/ GoesAmid(p)
  PROVE  OthersKeep(p) /\ (RefreshGoes(p) \/ ProgramGoes(p))
<1>1. PICK m \in Onward(Code(p), Place(p) + 1) : call'[p] = Moved(p, m) /\ OthersKeep(p)
  BY AloneIs, AmidIs DEF Goes, GoesTo, GoesAmid
<1>2. m \in Nat
  BY StepFacts DEF Onward
<1>3. CASE call[p].upd = 0
  <2>1. call'[p] = InProgram(p, m) /\ m \in Onward(call[p].prog, call[p].at + 1)
    BY <1>1, <1>3, StepFacts DEF Moved
  <2> QED
    BY <1>1, <1>2, <1>3, <2>1, InProgramIs DEF ProgramGoes, SameCall
<1>4. CASE call[p].upd # 0
  <2>1. call'[p] = [call[p] EXCEPT !.upd = m] /\ m \in Onward(Refresh, call[p].upd + 1)
    BY <1>1, <1>4, StepFacts DEF Moved
  <2> QED
    BY <1>1, <1>4, <2>1, InRefreshIs, AheadInRefresh DEF RefreshGoes, SameCall
<1> QED
  BY <1>3, <1>4

LEMMA LeavesOutIs ==
  ASSUME TypeOK, NEW p \in Actor, call[p].at # 0, Step(p).do \in {"when", "unlessall"}, LeavesOut(p)
  PROVE  OthersKeep(p) /\ (RefreshGoes(p) \/ ProgramGoes(p))
<1>1. PICK m \in Onward(Code(p), Place(p) + Step(p).skip + 1) : call'[p] = Moved(p, m) /\ OthersKeep(p)
  BY AloneIs DEF LeavesOut, GoesTo
<1>2. m \in Nat
  BY StepFacts DEF Onward
<1>3. CASE call[p].upd = 0
  <2>1. call'[p] = InProgram(p, m) /\ m \in Onward(call[p].prog, call[p].at + Step(p).skip + 1)
    BY <1>1, <1>3, StepFacts DEF Moved
  <2>2. Step(p).do = "when"
    BY <1>3, InRefreshStep
  <2> QED
    BY <1>1, <1>2, <1>3, <2>1, <2>2, InProgramIs DEF ProgramGoes, SameCall
<1>4. CASE call[p].upd # 0
  <2>1. call'[p] = [call[p] EXCEPT !.upd = m] /\ m \in Onward(Refresh, call[p].upd + Step(p).skip + 1)
    BY <1>1, <1>4, StepFacts DEF Moved
  <2> QED
    BY <1>1, <1>4, <2>1, InRefreshIs, AheadInRefresh DEF RefreshGoes, SameCall, At
<1> QED
  BY <1>3, <1>4

\* An error ends the refresh, or the show or store.
Aborts(p) ==
  \/ /\ call[p].upd \in 1..(Len(Refresh) - 1) /\ SameCall(call[p], call'[p])
     /\ call'[p].at = call[p].at /\ call'[p].upd = Len(Refresh) /\ call'[p].got = call[p].got
  \/ /\ call[p].upd = 0
     /\ \/ call'[p] = Idle
        \/ /\ Locked(call[p].prog) /\ SameCall(call[p], call'[p]) /\ call'[p].upd = 0
           /\ call'[p].at = Len(call[p].prog)

LEMMA AbortIs ==
  ASSUME TypeOK, NEW p \in Actor, call[p].at # 0, ~At(p, "unlock"), Alone(p, Abort(p))
  PROVE  OthersKeep(p) /\ Aborts(p)
<1>1. call'[p] = Abort(p) /\ OthersKeep(p)
  BY AloneIs
<1>2. CASE call[p].upd # 0
  BY <1>1, <1>2, InRefreshIs, AheadInRefresh DEF Abort, Aborts, SameCall
<1>3. CASE call[p].upd = 0
  <2>1. call[p] \in Calls(p)
    BY CallTyped
  <2> QED
    BY <1>1, <1>3, <2>1 DEF Abort, Aborts, SameCall, Calls
<1> QED
  BY <1>2, <1>3

LEMMA UnlockIs ==
  ASSUME TypeOK, NEW p \in Actor, UnlockMutex(p)
  PROVE  /\ call[p].at # 0 /\ lock = p /\ OthersKeep(p)
         /\ \A q \in Actor \ {p} : call'[q] = call[q]
         /\ \/ /\ call[p].upd = Len(Refresh) /\ call[p].prog[call[p].at].do = "update" /\ call[p].at = 1
               /\ \/ call'[p] = Idle
                  \/ /\ SameCall(call[p], call'[p]) /\ call'[p].upd = 0
                     /\ call'[p].at \in Onward(call[p].prog, 2) /\ call'[p].got = call[p].got
            \/ call[p].upd = 0 /\ call[p].prog[call[p].at].do = "unlock" /\ call'[p] = Idle
<1>1. call[p].at # 0 /\ Step(p).do = "unlock" /\ Returns(p)
  BY DEF UnlockMutex, At
<1>2. PICK m \in Onward(call[p].prog, call[p].at + 1) : Alone(p, InProgram(p, m))
  BY <1>1 DEF Returns
<1>3. /\ call'[p] = InProgram(p, m) /\ OthersKeep(p) /\ m \in Nat
      /\ \A q \in Actor \ {p} : call'[q] = call[q]
  BY <1>1, <1>2, AloneIs, ProgramIs DEF Onward
<1>4. CASE call[p].upd # 0
  <2>1. call[p].upd \in 1..Len(Refresh) /\ call[p].prog[call[p].at].do = "update" /\ Refresh[call[p].upd].do = "unlock"
    BY <1>1, <1>4, CallFacts, StepFacts
  <2>2. call[p].upd = Len(Refresh)
    BY <2>1, RefreshFacts DEF RefreshForm
  <2>3. call[p].at = 1
    BY <1>1, <2>1, ProgramIs DEF ProgramForm
  <2>4. lock = p
    BY <1>4 DEF TypeOK, Holding
  <2> QED
    BY <1>1, <1>2, <1>3, <2>1, <2>2, <2>3, <2>4, InProgramIs DEF SameCall
<1>5. CASE call[p].upd = 0
  <2>1. call[p].prog[call[p].at].do = "unlock"
    BY <1>1, <1>5, StepFacts
  <2>2. Locked(call[p].prog) /\ call[p].at = Len(call[p].prog) /\ call[p].at > 1
    BY <1>1, <2>1, ProgramIs DEF ProgramForm, Locked
  <2>3. m \notin DOMAIN call[p].prog
    BY <1>1, <2>2, ProgramIs DEF Onward
  <2>4. lock = p
    BY <2>2 DEF TypeOK, Holding
  <2> QED
    BY <1>1, <1>3, <1>5, <2>1, <2>3, <2>4 DEF InProgram
<1> QED
  BY <1>4, <1>5

LEMMA UpdateIs ==
  ASSUME TypeOK, NEW p \in Actor, UpdateDevice(p)
  PROVE  /\ call[p].at = 1 /\ call[p].upd = 0 /\ call[p].prog[1].do = "update" /\ lock = NoOne
         /\ OthersKeep(p) /\ SameCall(call[p], call'[p]) /\ call'[p].at = 1 /\ call'[p].got = call[p].got
         /\ \/ /\ valid /\ ~expired /\ call'[p].upd = Len(Refresh) /\ UNCHANGED loose
               /\ \A q \in Actor \ {p} : call'[q] = call[q]
            \/ /\ ~(valid /\ ~expired) /\ call'[p].upd \in Onward(Refresh, 1) /\ loose' = {}
               /\ \A q \in Actor \ {p} : call'[q] = [call[q] EXCEPT !.sure = FALSE]
<1>1. call[p].at # 0 /\ Step(p).do = "update" /\ lock = NoOne
  BY DEF UpdateDevice, At
<1>2. call[p].upd = 0 /\ call[p].prog[call[p].at].do = "update"
  BY <1>1, InProgramStep
<1>3. call[p].at = 1
  BY <1>1, <1>2, ProgramIs DEF ProgramForm
<1>4. CASE valid /\ ~expired
  <2>1. Alone(p, [call[p] EXCEPT !.upd = Len(Refresh)]) /\ UNCHANGED loose
    BY <1>4 DEF UpdateDevice
  <2>2. /\ call'[p] = [call[p] EXCEPT !.upd = Len(Refresh)] /\ OthersKeep(p)
        /\ \A q \in Actor \ {p} : call'[q] = call[q]
    BY <2>1, AloneIs
  <2> QED
    BY <1>1, <1>2, <1>3, <1>4, <2>1, <2>2, InRefreshIs DEF SameCall
<1>5. CASE ~(valid /\ ~expired)
  <2>1. PICK m \in Onward(Refresh, 1) : Amid(p, [call[p] EXCEPT !.upd = m])
    BY <1>5 DEF UpdateDevice
  <2>2. /\ call'[p] = [call[p] EXCEPT !.upd = m] /\ OthersKeep(p)
        /\ \A q \in Actor \ {p} : call'[q] = [call[q] EXCEPT !.sure = FALSE]
    BY <2>1, AmidIs
  <2>3. loose' = {}
    BY <1>5 DEF UpdateDevice
  <2> QED
    <3>1. SameCall(call[p], call'[p]) /\ call'[p].at = 1 /\ call'[p].got = call[p].got /\ call'[p].upd = m
      BY <1>1, <1>3, <2>2, InRefreshIs DEF SameCall
    <3> QED
      BY <1>1, <1>2, <1>3, <1>5, <2>1, <2>2, <2>3, <3>1
<1> QED
  BY <1>4, <1>5

\* p reads a register and goes on to what uses it.
Gets(p) ==
  /\ call[p].upd = 0 /\ call[p].prog[call[p].at].do = "get" /\ SameCall(call[p], call'[p])
  /\ call'[p].upd = 0 /\ call'[p].at = call[p].at + 1 /\ call'[p].at <= Len(call[p].prog)

LEMMA GetIs ==
  ASSUME TypeOK, NEW p \in Actor, call[p].at # 0, Step(p).do = "get", NEW ACTION bits, Got(p, bits)
  PROVE  OthersKeep(p) /\ Gets(p) /\ call'[p].got = bits
<1>1. /\ call[p].upd = 0 /\ call[p].at + 1 \in 2..Len(call[p].prog)
      /\ call'[p] = [call[p] EXCEPT !.at = call[p].at + 1, !.upd = 0, !.got = bits]
      /\ OthersKeep(p)
  BY GotIs
<1>2. call[p] \in Calls(p) /\ call[p].prog[call[p].at].do = "get" /\ Len(call[p].prog) \in Nat
  BY CallTyped, InProgramStep, ProgramIs
<1>3. call'[p].at = call[p].at + 1 /\ call'[p].upd = 0 /\ call'[p].prog = call[p].prog
  BY <1>1, <1>2 DEF Calls
<1>4. call'[p].got = bits /\ call'[p].want = call[p].want /\ call'[p].sure = call[p].sure
  BY <1>1, <1>2 DEF Calls
<1> QED
  BY <1>1, <1>2, <1>3, <1>4 DEF Gets, SameCall

\* The ways a call goes on.
LEMMA RunIs ==
  ASSUME TypeOK, NEW p \in Actor, Run(p)
  PROVE  /\ call[p].at # 0 /\ UNCHANGED fixed /\ OthersKeep(p)
         /\ \/ UpdateDevice(p)
            \/ UnlockMutex(p)
            \/ Step(p).do \notin {"update", "unlock"} /\ (RefreshGoes(p) \/ ProgramGoes(p))
            \/ Aborts(p) /\ (ReadAborts(p) \/ GivesUp(p) \/ GetFails(p))
            \/ Step(p).do = "get" /\ Gets(p)
<1>1. CASE UpdateDevice(p)
  <2>1. UNCHANGED fixed
    BY <1>1 DEF UpdateDevice
  <2>2. call[p].at = 1 /\ OthersKeep(p)
    BY <1>1, UpdateIs
  <2> QED
    BY <1>1, <2>1, <2>2
<1>2. CASE UnlockMutex(p)
  BY <1>2, UnlockIs DEF UnlockMutex
<1>3. CASE /\ Goes(p) \/ GoesAmid(p)
           /\ call[p].at # 0 /\ Step(p).do \notin {"update", "unlock"} /\ UNCHANGED fixed
  BY <1>3, GoesIs DEF At
<1>4. CASE /\ Alone(p, Abort(p))
           /\ call[p].at # 0 /\ Step(p).do \notin {"update", "unlock"} /\ UNCHANGED fixed
           /\ ReadAborts(p) \/ GivesUp(p) \/ GetFails(p)
  BY <1>4, AbortIs DEF At
<1>5. CASE \/ LockMutex(p) \/ ClearValid(p) \/ DoneRefreshing(p) \/ BlankCells(p) \/ PutCell(p)
           \/ ReadCells(p) \/ FetchCells(p) \/ StoreCells(p) \/ AnswerShow(p) \/ WriteRegister(p)
  BY <1>3, <1>5 DEF LockMutex, ClearValid, DoneRefreshing, BlankCells, PutCell, ReadCells,
     FetchCells, StoreCells, AnswerShow, WriteRegister, At
<1>6. CASE ReadKeeps(p) \/ ReadBlanks(p) \/ FetchTakesErrno(p)
  BY <1>3, <1>6 DEF ReadKeeps, ReadBlanks, FetchTakesErrno, Fails, At
<1>7. CASE ReadAborts(p) \/ GivesUp(p)
  BY <1>4, <1>7 DEF ReadAborts, GivesUp, Fails, At
<1>8. CASE Whether(p) \/ UnlessAllRead(p)
  <2>1. call[p].at # 0 /\ Step(p).do \in {"when", "unlessall"} /\ UNCHANGED fixed
    BY <1>8 DEF Whether, UnlessAllRead, At
  <2>2. CASE Goes(p)
    BY <1>3, <2>1, <2>2
  <2>3. CASE LeavesOut(p)
    BY <2>1, <2>3, LeavesOutIs
  <2> QED
    BY <1>8, <2>2, <2>3 DEF Whether, UnlessAllRead
<1>9. CASE CheckValid(p)
  <2>1. call[p].at # 0 /\ Step(p).do = "check" /\ UNCHANGED fixed
    BY <1>9 DEF CheckValid, At
  <2>2. CASE Alone(p, Idle)
    <3>1. call[p].upd = 0
      BY <2>1, InProgramStep
    <3> QED
      BY <2>1, <2>2, <3>1, AloneIs DEF ProgramGoes
  <2> QED
    BY <1>3, <1>9, <2>1, <2>2 DEF CheckValid
<1>10. CASE GetRegister(p) \/ GetFails(p)
  <2>1. call[p].at # 0 /\ Step(p).do = "get" /\ UNCHANGED fixed
    BY <1>10 DEF GetRegister, GetFails, At
  <2>2. CASE Alone(p, Abort(p)) /\ GetFails(p)
    BY <1>4, <2>1, <2>2
  <2>3. CASE Got(p, IF TheCell(p) \in Watched THEN chip[TheCell(p)] ELSE {})
    BY <2>1, <2>3, GetIs
  <2>4. CASE Got(p, ErrnoBits)
    BY <2>1, <2>4, GetIs
  <2> QED
    BY <1>10, <2>2, <2>3, <2>4 DEF GetRegister, GetFails
<1> QED
  BY <1>1, <1>2, <1>5, <1>6, <1>7, <1>8, <1>9, <1>10 DEF Run

\* To a place of a function that has the lock p comes from the place before it.
LEMMA CameFrom ==
  ASSUME TypeOK, NEW p \in Actor, Run(p), call'[p].at # 0,
         Locked(call'[p].prog), call'[p].prog[call'[p].at].do # "unlock"
  PROVE  /\ call[p].at # 0 /\ call[p].upd = 0 /\ call'[p].upd = 0 /\ SameCall(call[p], call'[p])
         /\ call'[p].at = call[p].at + 1 /\ call'[p].at \in 2..Len(call[p].prog)
         /\ Step(p) = call[p].prog[call[p].at]
         /\ Step(p).do # "get" => call'[p].got = call[p].got
<1>1. call[p].at # 0 /\ Idle.at = 0
  BY RunIs DEF Idle
<1> DEFINE g == call[p].prog
           i == call[p].at
<1>2. ProgramForm(g) /\ i \in 1..Len(g) /\ DOMAIN g = 1..Len(g) /\ Len(g) \in Nat
  BY <1>1, ProgramIs
<1>3. call[p].upd # 0 => g[i].do = "update"
  BY <1>1, CallFacts
<1>4. call[p].upd = 0 => Step(p) = g[i]
  BY <1>1, StepFacts
<1>5. g[1].do = "update" => ~Locked(g)
  BY DEF Locked
<1>6. g[i].do = "update" => i = 1
  BY <1>2 DEF ProgramForm
<1>7. Locked(g) => g[Len(g)].do = "unlock" /\ \A j \in 1..Len(g) : g[j].do \notin {"when"}
  BY <1>2 DEF ProgramForm
<1>8. CASE UpdateDevice(p)
  BY <1>1, <1>8, <1>5, UpdateIs DEF SameCall
<1>9. CASE UnlockMutex(p)
  BY <1>1, <1>9, <1>5, UnlockIs DEF SameCall
<1>10. CASE RefreshGoes(p)
  BY <1>3, <1>5, <1>6, <1>10, RefreshFacts DEF RefreshGoes, SameCall
<1>11. CASE Aborts(p)
  BY <1>1, <1>3, <1>5, <1>6, <1>7, <1>11, RefreshFacts DEF Aborts, SameCall
<1>12. CASE Gets(p)
  BY <1>1, <1>2, <1>4, <1>12 DEF Gets, SameCall
<1>13. CASE ProgramGoes(p) /\ Step(p).do # "unlock"
  <2>1. /\ call[p].upd = 0 /\ SameCall(call[p], call'[p]) /\ call'[p].upd = 0
        /\ call'[p].got = call[p].got /\ Locked(g)
    BY <1>1, <1>13 DEF ProgramGoes, SameCall
  <2>2. call'[p].at \in Onward(g, i + 1)
    BY <1>1, <1>2, <1>4, <1>7, <1>13, <2>1 DEF ProgramGoes
  <2>3. call'[p].at = i + 1 /\ call'[p].at \in 2..Len(g)
    BY <1>1, <1>4, <1>13, <2>1, <2>2, OnwardLocked
  <2> QED
    BY <1>1, <1>4, <2>1, <2>3
<1> QED
  BY <1>8, <1>9, <1>10, <1>11, <1>12, <1>13, RunIs

-----------------------------------------------------------------------------
(* What was stored stays.                                                    *)

\* An answer depends on the file's own bits of its cells only.
LEMMA ShownSame ==
  ASSUME NEW f, FileForm(f), NEW u, NEW w,
         \A c \in ShownCells(f) : u[c] \cap OwnBits(f) = w[c] \cap OwnBits(f),
         \A c \in ShownCells(f) : u[c] \subseteq AllBits /\ w[c] \subseteq AllBits
  PROVE  ShownBy(f, u) = ShownBy(f, w)
<1>1. f.of[1] \in ShownCells(f) /\ (f.shows = "both" => f.of[2] \in ShownCells(f))
  BY DEF FileForm, ShownCells
<1>2. CASE f.shows = "mode"
  <2>1. u[f.of[1]] \cap f.mask = w[f.of[1]] \cap f.mask
    BY <1>1, <1>2 DEF OwnBits
  <2>2. ASSUME NEW x, NEW y, x \cap f.mask = y \cap f.mask
        PROVE  led_reg_val_to_light_mode(f, x) = led_reg_val_to_light_mode(f, y)
    <3> DEFINE fits(val) == {i \in DOMAIN f.rows : f.rows[i].bits = val \cap f.mask}
               mode(its) == IF its = {} THEN f.other ELSE f.rows[CHOOSE i \in its : TRUE].mode
    <3>1. fits(x) = fits(y)
      BY <2>2
    <3>2. /\ led_reg_val_to_light_mode(f, x) = mode(fits(x))
          /\ led_reg_val_to_light_mode(f, y) = mode(fits(y))
      BY DEF led_reg_val_to_light_mode
    <3> HIDE DEF fits, mode
    <3> QED
      BY <3>1, <3>2
  <2> QED
    BY <1>2, <2>1, <2>2 DEF ShownBy
<1>3. CASE f.shows # "mode"
  <2>1. \A c \in ShownCells(f) : u[c] = w[c]
    BY <1>3 DEF OwnBits
  <2>2. u[f.of[1]] = w[f.of[1]] /\ (f.shows = "both" => u[f.of[2]] = w[f.of[2]])
    BY <1>1, <2>1
  <2>3. f.shows \in {"is", "not", "both"}
    BY <1>3 DEF FileForm
  <2> QED
    BY <2>2, <2>3 DEF ShownBy
<1> QED
  BY <1>2, <1>3

\* A register of which some bits are replaced has been read just before, under
\* the lock, and is of LEDs.
LEMMA MaskedWrite ==
  ASSUME TypeOK, NEW e \in DOMAIN Table[drv].files, NEW g \in Programs(F(e)), NEW i \in DOMAIN g,
         g[i].do = "write", g[i].mask # AllBits
  PROVE  /\ i > 1 /\ g[i - 1].do = "get" /\ g[i - 1].cells = g[i].cells
         /\ g[i - 1].otherwise # "errno" /\ g[i].bits \subseteq g[i].mask
         /\ \A c \in g[i].cells : OfLed(c) /\ c \in SharedCells(Table[drv]) /\ Locked(g)
<1>1. KeepsOthers(SharedCells(Table[drv]), g)
  BY FileFacts
<1>2. g[i].cells \subseteq SharedCells(Table[drv])
  <2>1. g \in UNION {Programs(Table[drv].files[f]) : f \in DOMAIN Table[drv].files}
    BY DEF F
  <2>2. g[i].cells \subseteq UNION {g[j].cells : j \in {k \in DOMAIN g : g[k].do = "write" /\ g[k].mask # AllBits}}
    OBVIOUS
  <2> QED
    BY <2>1, <2>2 DEF SharedCells
<1>3. g[i].cells \subseteq CellsOf(g, {"write"})
  BY DEF CellsOf
<1> QED
  BY <1>1, <1>2, <1>3 DEF KeepsOthers

\* A write of a shared register is under the lock.
LEMMA SharedWrite ==
  ASSUME TypeOK, NEW p \in Actor, call[p].at # 0, Step(p).do = "write",
         NEW c \in Step(p).cells, c \in SharedCells(Table[drv])
  PROVE  lock = p
<1>1. Step(p) = call[p].prog[call[p].at] /\ call[p].upd = 0
  BY InProgramStep
<1>2. KeepsOthers(SharedCells(Table[drv]), call[p].prog)
  BY ProgramIs, FileFacts
<1>3. c \in CellsOf(call[p].prog, {"write"})
  BY <1>1, ProgramIs DEF CellsOf
<1>4. Locked(call[p].prog)
  BY <1>2, <1>3 DEF KeepsOthers
<1>5. call[p].at > 1
  BY <1>1, <1>4, ProgramIs DEF Locked
<1> QED
  BY <1>4, <1>5 DEF TypeOK, Holding

LEMMA GetInLock ==
  ASSUME TypeOK, NEW p \in Actor, GetFails(p), call'[p].at # 0,
         call'[p].prog[call'[p].at].do # "unlock"
  PROVE  Step(p).otherwise = "errno" /\ Got(p, ErrnoBits)
<1>1. call[p].at # 0 /\ Step(p).do = "get"
  BY DEF GetFails, At
<1>2. CASE Alone(p, Abort(p))
  <2>1. call[p].upd = 0 /\ call'[p] = Abort(p)
    BY <1>1, <1>2, InProgramStep, AloneIs
  <2>2. call[p] \in Calls(p) /\ Idle.at = 0
    BY <1>1, CallTyped DEF Idle
  <2>3. Locked(call[p].prog) => call[p].prog[Len(call[p].prog)].do = "unlock"
    BY <1>1, ProgramIs DEF ProgramForm
  <2>4. CASE Locked(call[p].prog)
    <3>1. call'[p].at = Len(call[p].prog) /\ call'[p].prog = call[p].prog
      BY <2>1, <2>2, <2>4 DEF Abort, Calls
    <3> QED
      BY <2>3, <2>4, <3>1
  <2>5. CASE ~Locked(call[p].prog)
    BY <2>1, <2>2, <2>5 DEF Abort
  <2> QED
    BY <2>4, <2>5
<1> QED
  BY <1>1, <1>2 DEF GetFails

\* The calls of others, but for what they know.
LEMMA OthersSame ==
  ASSUME TypeOK, NEW p \in Actor, OthersKeep(p), NEW q \in Actor \ {p}
  PROVE  /\ call'[q].prog = call[q].prog /\ call'[q].at = call[q].at /\ call'[q].upd = call[q].upd
         /\ call'[q].got = call[q].got /\ call'[q].want = call[q].want
         /\ call'[q].sure => call[q].sure
<1>1. CASE call'[q] = call[q]
  BY <1>1
<1>2. CASE call'[q] = [call[q] EXCEPT !.sure = FALSE]
  BY <1>2, Unsure
<1> QED
  BY <1>1, <1>2 DEF OthersKeep

\* What GotInv says of a call at the write of some bits of a register.
GotIn(c, values) ==
  c.at # 0 /\ c.upd = 0 /\ c.prog[c.at].do = "write" /\ c.prog[c.at].mask # AllBits
    => \A e \in c.prog[c.at].cells \cap Watched : c.got = values[e]

LEMMA GotInvIs ==
  ASSUME TypeOK
  PROVE  GotInv <=> \A p \in Actor : GotIn(call[p], chip)
BY StepFacts DEF GotInv, GotIn, InStore

LEMMA GotInvNext ==
  ASSUME TypeOK, TypeOK', UNCHANGED fixed, \A p \in Actor : GotIn(call'[p], chip')
  PROVE  GotInv'
<1> SUFFICES ASSUME NEW p \in Actor, InStore(p, "write")', (Step(p).mask # AllBits)',
                    NEW c \in (Step(p).cells \cap Watched)'
             PROVE  call'[p].got = chip'[c]
  BY DEF GotInv
<1>1. call'[p].at # 0 /\ call'[p].upd = 0 /\ call'[p].prog[call'[p].at].do = "write"
  BY DEF InStore
<1>2. Step(p)' = call'[p].prog[call'[p].at]
  BY <1>1 DEF Step, Code, Place
<1> QED
  BY <1>1, <1>2, FixedSame DEF GotIn

\* A call whose own place stays, where what it has read is not written.
LEMMA GotStays ==
  ASSUME TypeOK, NEW q \in Actor, GotIn(call[q], chip),
         call'[q].prog = call[q].prog, call'[q].at = call[q].at, call'[q].upd = call[q].upd,
         call'[q].got = call[q].got,
         \A c \in Watched : OfLed(c) /\ c \in SharedCells(Table[drv]) /\ lock = q => chip'[c] = chip[c]
  PROVE  GotIn(call'[q], chip')
<1> SUFFICES ASSUME call[q].at # 0, call[q].upd = 0, call[q].prog[call[q].at].do = "write",
                    call[q].prog[call[q].at].mask # AllBits,
                    NEW c \in call[q].prog[call[q].at].cells \cap Watched
             PROVE  call[q].got = chip'[c]
  BY DEF GotIn
<1>1. call[q].got = chip[c]
  BY DEF GotIn
<1>2. OfLed(c) /\ c \in SharedCells(Table[drv])
  BY ProgramIs, MaskedWrite
<1>3. Step(q) = call[q].prog[call[q].at]
  BY StepFacts
<1>4. lock = q
  BY <1>2, <1>3, SharedWrite
<1> QED
  BY <1>1, <1>2, <1>4

LEMMA OwnGot ==
  ASSUME TypeOK, TypeOK', NEW p \in Actor, Run(p), chip' = chip \/ WriteRegister(p)
  PROVE  GotIn(call'[p], chip')
<1> SUFFICES ASSUME call'[p].at # 0, call'[p].upd = 0, call'[p].prog[call'[p].at].do = "write",
                    call'[p].prog[call'[p].at].mask # AllBits,
                    NEW c \in call'[p].prog[call'[p].at].cells \cap Watched
             PROVE  call'[p].got = chip'[c]
  BY DEF GotIn
<1> DEFINE g == call'[p].prog
           i == call'[p].at
<1>1. UNCHANGED fixed
  BY RunIs
<1>2. g \in Programs(F(file[p])) /\ file[p] \in DOMAIN Table[drv].files /\ i \in DOMAIN g
  BY <1>1, NextCall
<1>3. /\ i > 1 /\ g[i - 1].do = "get" /\ g[i - 1].cells = g[i].cells
      /\ g[i - 1].otherwise # "errno" /\ Locked(g)
  BY <1>2, MaskedWrite
<1>4. /\ call[p].at # 0 /\ SameCall(call[p], call'[p]) /\ i = call[p].at + 1
      /\ Step(p) = call[p].prog[call[p].at] /\ call[p].at \in Nat
  BY <1>3, CameFrom, ProgramIs
<1>5. Step(p) = g[i - 1] /\ Step(p).do = "get"
  BY <1>3, <1>4 DEF SameCall
<1>6. ~GetFails(p)
  BY <1>3, <1>5, GetInLock
<1>7. GetRegister(p)
  BY <1>5, <1>6 DEF Run, UpdateDevice, LockMutex, UnlockMutex, ClearValid, DoneRefreshing, BlankCells,
     PutCell, ReadCells, FetchCells, StoreCells, ReadAborts, ReadKeeps, ReadBlanks, FetchTakesErrno,
     Fails, Whether, UnlessAllRead, GivesUp, CheckValid, AnswerShow, WriteRegister, At
<1>8. Step(p).cells = {TheCell(p)}
  BY <1>4, <1>5, ErrnoCell
<1>9. c = TheCell(p) /\ c \in Watched
  BY <1>3, <1>5, <1>8
<1>10. call'[p].got = chip[c]
  BY <1>4, <1>5, <1>7, <1>9, GetIs DEF GetRegister
<1>11. chip' = chip
  BY <1>7 DEF GetRegister
<1> QED
  BY <1>10, <1>11

LEMMA RunChip ==
  ASSUME NEW p \in Actor, Run(p)
  PROVE  chip' = chip \/ WriteRegister(p)
BY DEF Run, UpdateDevice, LockMutex, UnlockMutex, ClearValid, DoneRefreshing, BlankCells,
   PutCell, ReadCells, FetchCells, StoreCells, ReadAborts, ReadKeeps, ReadBlanks, FetchTakesErrno,
   Whether, UnlessAllRead, GivesUp, CheckValid, AnswerShow, GetRegister, GetFails

\* A new call.
LEMMA StartIs ==
  ASSUME TypeOK, NEW p \in Actor, Show(p) \/ StoreValue(p)
  PROVE  /\ call[p].at = 0 /\ UNCHANGED <<fixed, chip, cacheVars, lock, loose, changes>>
         /\ call'[p].at = 1 /\ call'[p].upd = 0 /\ call'[p].got = {}
         /\ OthersKeep(p) /\ \A q \in Actor \ {p} : call'[q] = call[q]
         /\ lock # p
<1>1. call[p].at = 0 /\ UNCHANGED <<fixed, chip, cacheVars, lock, loose, changes>>
  BY DEF Show, StoreValue
<1>2. ASSUME Show(p)
      PROVE  /\ call'[p].at = 1 /\ call'[p].upd = 0 /\ call'[p].got = {}
             /\ OthersKeep(p) /\ \A q \in Actor \ {p} : call'[q] = call[q]
  <2>1. Alone(p, [Idle EXCEPT !.prog = Mine(p).show, !.at = 1, !.sure = TRUE])
    BY <1>2 DEF Show
  <2> DEFINE c == [Idle EXCEPT !.prog = Mine(p).show, !.at = 1, !.sure = TRUE]
  <2>2. c.at = 1 /\ c.upd = 0 /\ c.got = {}
    BY DEF Idle
  <2>3. call'[p] = c /\ OthersKeep(p) /\ \A q \in Actor \ {p} : call'[q] = call[q]
    BY <2>1, AloneIs
  <2> HIDE DEF c
  <2> QED
    BY <2>2, <2>3
<1>3. ASSUME StoreValue(p)
      PROVE  /\ call'[p].at = 1 /\ call'[p].upd = 0 /\ call'[p].got = {}
             /\ OthersKeep(p) /\ \A q \in Actor \ {p} : call'[q] = call[q]
  <2>1. PICK v \in DOMAIN Mine(p).set : \E g \in Mine(p).set[v] :
               Alone(p, [Idle EXCEPT !.prog = g, !.at = 1, !.want = v])
    BY <1>3 DEF StoreValue
  <2>2. PICK g \in Mine(p).set[v] : Alone(p, [Idle EXCEPT !.prog = g, !.at = 1, !.want = v])
    BY <2>1
  <2> DEFINE c == [Idle EXCEPT !.prog = g, !.at = 1, !.want = v]
  <2>3. c.at = 1 /\ c.upd = 0 /\ c.got = {}
    BY DEF Idle
  <2>4. call'[p] = c /\ OthersKeep(p) /\ \A q \in Actor \ {p} : call'[q] = call[q]
    BY <2>2, AloneIs
  <2> HIDE DEF c
  <2> QED
    BY <2>3, <2>4
<1>4. lock # p
  BY <1>1, IdleOrBusy DEF TypeOK, Holding, Idle
<1> QED
  BY <1>1, <1>2, <1>3, <1>4

LEMMA NextGot ==
  ASSUME TypeOK, TypeOK', GotInv, [Next]_vars
  PROVE  GotInv'
<1>1. \A q \in Actor : GotIn(call[q], chip)
  BY GotInvIs
<1>2. ASSUME NEW p \in Actor, Show(p) \/ StoreValue(p) PROVE GotInv'
  <2>1. UNCHANGED fixed /\ chip' = chip /\ \A q \in Actor \ {p} : call'[q] = call[q]
    BY <1>2, StartIs
  <2>2. GotIn(call'[p], chip')
    <3>1. call'[p].at = 1 /\ call'[p].prog \in Programs(F(file[p])) /\ 1 \in DOMAIN call'[p].prog
          /\ file[p] \in DOMAIN Table[drv].files
      BY <1>2, <2>1, StartIs, NextCall
    <3>2. ~(call'[p].prog[1].do = "write" /\ call'[p].prog[1].mask # AllBits)
      BY <3>1, MaskedWrite
    <3> QED
      BY <3>1, <3>2 DEF GotIn
  <2> QED
    BY <1>1, <2>1, <2>2, GotInvNext
<1>3. ASSUME NEW p \in Actor, Run(p) PROVE GotInv'
  <2>1. UNCHANGED fixed /\ OthersKeep(p) /\ (chip' = chip \/ WriteRegister(p))
    BY <1>3, RunIs, RunChip
  <2>2. ASSUME NEW q \in Actor \ {p}, NEW c \in Watched,
               c \in SharedCells(Table[drv]), lock = q
        PROVE  chip'[c] = chip[c]
    <3>1. CASE WriteRegister(p)
      <4>1. call[p].at # 0 /\ Step(p).do = "write"
        BY <3>1 DEF WriteRegister, At
      <4>2. c \notin Step(p).cells
        BY <2>2, <4>1, SharedWrite
      <4> QED
        BY <3>1, <4>2 DEF WriteRegister
    <3> QED
      BY <2>1, <3>1
  <2>3. ASSUME NEW q \in Actor \ {p} PROVE GotIn(call'[q], chip')
    BY <1>1, <2>1, <2>2, OthersSame, GotStays
  <2>4. GotIn(call'[p], chip')
    BY <1>3, <2>1, OwnGot
  <2> QED
    BY <2>1, <2>3, <2>4, GotInvNext
<1>4. CASE DeviceChanges
  <2>1. UNCHANGED fixed /\ call' = call /\ \A c \in Watched : OfLed(c) => chip'[c] = chip[c]
    BY <1>4, SameTyped DEF DeviceChanges
  <2>2. ASSUME NEW q \in Actor PROVE GotIn(call'[q], chip')
    BY <1>1, <2>1, GotStays
  <2> QED
    BY <2>1, <2>2, GotInvNext
<1>5. CASE Expire \/ UNCHANGED vars
  <2>1. UNCHANGED fixed /\ call' = call /\ chip' = chip
    BY <1>5 DEF Expire, vars, fixed
  <2> QED
    BY <1>1, <2>1, GotInvNext
<1> QED
  BY <1>2, <1>3, <1>4, <1>5 DEF Next

-----------------------------------------------------------------------------

KeepsIn(f) ==
  stored'[f] # None /\ Lands(F(f), stored'[f])
    => ShownBy(F(f), IF F(f).home = "chip" THEN chip' ELSE cache') = stored'[f]

LEMMA KeepsNext ==
  ASSUME TypeOK, UNCHANGED fixed, \A f \in Files : KeepsIn(f)
  PROVE  KeepsWhatIsStored'
BY FixedSame DEF KeepsWhatIsStored, KeepsIn, Shows

LEMMA FilesAre ==
  ASSUME TypeOK, NEW f \in Files
  PROVE  /\ f \in DOMAIN Table[drv].files /\ FileForm(F(f))
         /\ ShownCells(F(f)) \subseteq F(f).watch /\ F(f).watch \subseteq Watched
         /\ F(f).home \in {"chip", "cache"}
<1>1. f \in DOMAIN Table[drv].files
  BY RulesOf DEF Files
<1>2. FileForm(F(f))
  BY <1>1, FileFacts
<1> QED
  BY <1>1, <1>2, OpenedIs DEF FileForm

\* What nothing was written to is shown as before.
LEMMA StaysShown ==
  ASSUME TypeOK, TypeOK', UNCHANGED fixed, KeepsWhatIsStored, NEW f \in Files, stored'[f] \in {stored[f], None},
         F(f).home = "chip" => \A c \in ShownCells(F(f)) :
                                 chip'[c] \cap OwnBits(F(f)) = chip[c] \cap OwnBits(F(f)),
         F(f).home = "cache" => \A c \in ShownCells(F(f)) : cache'[c] = cache[c]
  PROVE  KeepsIn(f)
<1> SUFFICES ASSUME stored'[f] # None, Lands(F(f), stored'[f])
             PROVE  ShownBy(F(f), IF F(f).home = "chip" THEN chip' ELSE cache') = stored'[f]
  BY DEF KeepsIn
<1>1. ShownBy(F(f), IF F(f).home = "chip" THEN chip ELSE cache) = stored'[f]
  BY DEF KeepsWhatIsStored, Shows
<1>2. FileForm(F(f)) /\ ShownCells(F(f)) \subseteq Watched /\ F(f).home \in {"chip", "cache"}
  BY FilesAre
<1>3. \A c \in Watched : /\ chip[c] \subseteq AllBits /\ chip'[c] \subseteq AllBits
                         /\ cache[c] \subseteq AllBits /\ cache'[c] \subseteq AllBits
  BY FixedSame DEF TypeOK
<1>4. CASE F(f).home = "chip"
  <2>1. ShownBy(F(f), chip') = ShownBy(F(f), chip)
    BY <1>2, <1>3, <1>4, ShownSame
  <2> QED
    BY <1>1, <1>4, <2>1
<1>5. CASE F(f).home = "cache"
  <2>1. ShownBy(F(f), cache') = ShownBy(F(f), cache)
    BY <1>2, <1>3, <1>5, ShownSame
  <2> QED
    BY <1>1, <1>5, <2>1
<1> QED
  BY <1>2, <1>4, <1>5

\* What is read from the device, or blanked, is not of a file the driver keeps.
LEMMA KeptCells ==
  ASSUME TypeOK, NEW p \in Actor, call[p].at # 0, Step(p).do \in {"blank", "read", "fetch", "store"},
         NEW f \in Files, F(f).home = "cache"
  PROVE  F(f).watch \cap Step(p).cells = {}
<1>1. KeptApart(Table[drv], F(f))
  BY FilesAre, FileFacts
<1>2. CASE call[p].upd # 0
  <2>1. Step(p) = Refresh[call[p].upd] /\ call[p].upd \in DOMAIN Refresh
    BY <1>2, StepFacts, CallFacts, RefreshFacts
  <2>2. CASE Step(p).do # "fetch"
    <3>1. Step(p).cells \subseteq CellsOf(Refresh, Filling)
      BY <2>1, <2>2 DEF CellsOf, Filling
    <3> QED
      BY <1>1, <3>1, OpenedIs DEF KeptApart
  <2>3. CASE Step(p).do = "fetch"
    <3>1. \A c \in Step(p).cells : Comes(Refresh, call[p].upd + 1, c, {"store"})
      BY <2>1, <2>3, RefreshFacts DEF FillsAll
    <3>2. \A c \in Step(p).cells : c \in CellsOf(Refresh, Filling)
      BY <2>1, <3>1, RefreshFacts DEF Comes, CellsOf, Filling
    <3> QED
      BY <1>1, <3>2, OpenedIs DEF KeptApart
  <2> QED
    BY <2>2, <2>3
<1>3. CASE call[p].upd = 0
  <2>1. /\ Step(p) = call[p].prog[call[p].at] /\ call[p].at \in DOMAIN call[p].prog
        /\ call[p].prog \in Programs(Table[drv].files[file[p]]) /\ file[p] \in DOMAIN Table[drv].files
    BY <1>3, StepFacts, ProgramIs DEF F
  <2>2. Step(p).do \in {"blank", "read"}
    BY <1>3, InRefreshStep
  <2>3. Step(p).cells \subseteq CellsOf(call[p].prog, {"blank", "read"})
    BY <2>1, <2>2 DEF CellsOf
  <2> QED
    BY <1>1, <2>1, <2>3 DEF KeptApart
<1> QED
  BY <1>2, <1>3

LEMMA StoredAfterIs ==
  ASSUME TypeOK, NEW p \in Actor, NEW cells, NEW mask, NEW own \in BOOLEAN, NEW arrives \in BOOLEAN,
         NEW f \in Files
  PROVE  LET after == StoredAfter(p, cells, mask, own, arrives)[f]
         IN  \/ /\ after = stored[f]
                /\ \/ cells \cap F(f).watch = {}
                   \/ own /\ OwnBits(Mine(p)) \cap OwnBits(F(f)) = {}
                   \/ ~own /\ mask \cap OwnBits(F(f)) = {}
             \/ after = call[p].want /\ own /\ f = file[p] /\ arrives /\ cells \cap F(f).watch # {}
             \/ after = None
BY DEF StoredAfter, Bits, Mine

\* The program that writes what is to be stored.
LEMMA OwnWrite ==
  ASSUME TypeOK, NEW p \in Actor, call[p].at # 0, Step(p).do = "write", Step(p).own
  PROVE  /\ call[p].want \in DOMAIN Mine(p).set /\ Mine(p).home = "chip"
         /\ ShownCells(Mine(p)) \subseteq Step(p).cells /\ OwnBits(Mine(p)) \subseteq Step(p).mask
         /\ ShownBy(Mine(p), [c \in ShownCells(Mine(p)) |-> Step(p).bits]) = call[p].want
         /\ \A e \in DOMAIN Table[drv].files :
              /\ Step(p).cells \cap F(e).watch # {}
              /\ OwnBits(Mine(p)) \cap OwnBits(F(e)) = {}
              => Step(p).mask \cap OwnBits(F(e)) = {}
<1>1. Step(p) = call[p].prog[call[p].at] /\ call[p].at \in DOMAIN call[p].prog
  BY InProgramStep, ProgramIs
<1>2. Mine(p) = F(file[p]) /\ file[p] \in DOMAIN Table[drv].files /\ FileForm(Mine(p))
  BY ProgramIs, FileFacts
<1>3. call[p].want # None
  <2>1. call[p].prog # Mine(p).show
    BY <1>1, <1>2 DEF FileForm
  <2> QED
    BY <2>1, CallFacts
<1>4. call[p].want \in DOMAIN Mine(p).set /\ call[p].prog \in Mine(p).set[call[p].want]
  BY <1>3, CallFacts DEF Calls
<1>5. WritesItsOwn(Table[drv], Mine(p), call[p].want, call[p].prog)
  BY <1>2, <1>4, FileFacts
<1> QED
  BY <1>1, <1>4, <1>5 DEF WritesItsOwn, F

LEMMA KeepsPut ==
  ASSUME TypeOK, TypeOK', KeepsWhatIsStored, NEW p \in Actor, PutCell(p), NEW f \in Files
  PROVE  KeepsIn(f)
<1> DEFINE cells == Step(p).cells
<1>1. /\ call[p].at # 0 /\ Step(p).do = "put" /\ UNCHANGED fixed /\ chip' = chip
      /\ \A c \in Watched : cache'[c] = IF c \in cells THEN Step(p).bits ELSE cache[c]
  BY DEF PutCell, At, With
<1>2. FileForm(F(f)) /\ ShownCells(F(f)) \subseteq F(f).watch /\ F(f).watch \subseteq Watched
      /\ f \in DOMAIN Table[drv].files
  BY FilesAre
<1>3. CASE F(f).home = "chip"
  <2>1. stored'[f] = stored[f]
    BY <1>3 DEF PutCell
  <2> QED
    BY <1>1, <1>3, <2>1, StaysShown
<1>4. CASE F(f).home # "chip"
  <2>1. stored'[f] = StoredAfter(p, cells, AllBits, TRUE, TRUE)[f]
    BY <1>4 DEF PutCell
  <2>2. F(f).home = "cache" /\ OwnBits(F(f)) = AllBits
    BY <1>2, <1>4, FilesAre, FileFacts DEF KeptApart, OwnBits
  <2>3. Mine(p) = F(file[p]) /\ FileForm(Mine(p))
    BY <1>1, ProgramIs, FileFacts
  <2>4. OwnBits(Mine(p)) \cap OwnBits(F(f)) # {}
    BY <2>2, <2>3 DEF FileForm
  <2>5. CASE stored'[f] = stored[f] /\ cells \cap F(f).watch = {}
    <3>1. \A c \in ShownCells(F(f)) : cache'[c] = cache[c]
      BY <1>1, <1>2, <2>5
    <3> QED
      BY <1>1, <1>4, <2>5, <3>1, StaysShown
  <2>6. CASE stored'[f] = None
    BY <2>6 DEF KeepsIn
  <2>7. CASE stored'[f] = call[p].want /\ f = file[p] /\ cells \cap F(f).watch # {} /\ call[p].want # None
    <3>1. Step(p) = call[p].prog[call[p].at] /\ call[p].at \in DOMAIN call[p].prog
      BY <1>1, InProgramStep, ProgramIs
    <3>2. call[p].want \in DOMAIN F(f).set /\ call[p].prog \in F(f).set[call[p].want]
      BY <1>1, <2>7, CallFacts DEF Calls
    <3>3. WritesItsOwn(Table[drv], F(f), call[p].want, call[p].prog)
      BY <1>2, <3>2, FileFacts
    <3> DEFINE w == [c \in ShownCells(F(f)) |-> Step(p).bits]
    <3>4. ShownCells(F(f)) \subseteq cells /\ ShownBy(F(f), w) = call[p].want
      BY <1>1, <2>2, <2>7, <3>1, <3>3 DEF WritesItsOwn
    <3>5. \A c \in ShownCells(F(f)) : cache'[c] = w[c] /\ w[c] \subseteq AllBits
      BY <1>1, <1>2, <3>4, BitsTyped
    <3> HIDE DEF w
    <3>6. ShownBy(F(f), cache') = ShownBy(F(f), w)
      BY <1>2, <3>5, ShownSame
    <3> QED
      BY <2>2, <2>7, <3>4, <3>6 DEF KeepsIn
  <2>8. \/ /\ stored'[f] = stored[f]
           /\ cells \cap F(f).watch = {} \/ OwnBits(Mine(p)) \cap OwnBits(F(f)) = {}
        \/ stored'[f] = call[p].want /\ f = file[p] /\ cells \cap F(f).watch # {}
        \/ stored'[f] = None
    <3> DEFINE after == StoredAfter(p, cells, AllBits, TRUE, TRUE)[f]
    <3>1. \/ /\ after = stored[f]
             /\ cells \cap F(f).watch = {} \/ OwnBits(Mine(p)) \cap OwnBits(F(f)) = {}
          \/ after = call[p].want /\ f = file[p] /\ cells \cap F(f).watch # {}
          \/ after = None
      BY DEF StoredAfter, Bits, Mine
    <3> HIDE DEF after
    <3>2. stored'[f] = after
      BY <2>1 DEF after
    <3> QED
      BY <3>1, <3>2
  <2> QED
    BY <2>4, <2>5, <2>6, <2>7, <2>8
<1> QED
  BY <1>3, <1>4

LEMMA KeepsWrite ==
  ASSUME TypeOK, TypeOK', KeepsWhatIsStored, GotInv, NEW p \in Actor, WriteRegister(p), NEW f \in Files
  PROVE  KeepsIn(f)
<1> DEFINE s == Step(p)
           cells == Step(p).cells \cap Watched
<1>1. call[p].at # 0 /\ Step(p).do = "write" /\ UNCHANGED fixed /\ cache' = cache
  BY DEF WriteRegister, At, cacheVars
<1>2. PICK arrives \in BOOLEAN :
        /\ chip' = [c \in Watched |-> IF c \in cells /\ arrives
                                      THEN (call[p].got \ s.mask) \cup s.bits ELSE chip[c]]
        /\ stored' = StoredAfter(p, cells, s.mask, s.own, arrives)
  BY DEF WriteRegister
<1>3. FileForm(F(f)) /\ ShownCells(F(f)) \subseteq F(f).watch /\ F(f).watch \subseteq Watched
      /\ f \in DOMAIN Table[drv].files /\ OwnBits(F(f)) # {} /\ OwnBits(F(f)) \subseteq AllBits
  BY FilesAre DEF FileForm
<1>4. CASE stored'[f] = None
  BY <1>4 DEF KeepsIn
<1>5. CASE /\ stored'[f] = call[p].want /\ s.own /\ f = file[p] /\ arrives
           /\ cells \cap F(f).watch # {}
  <2>1. /\ F(f).home = "chip" /\ ShownCells(F(f)) \subseteq s.cells /\ OwnBits(F(f)) \subseteq s.mask
        /\ ShownBy(F(f), [c \in ShownCells(F(f)) |-> s.bits]) = call[p].want
    BY <1>1, <1>5, OwnWrite DEF Mine
  <2> DEFINE w == [c \in ShownCells(F(f)) |-> s.bits]
  <2>2. ASSUME NEW c \in ShownCells(F(f))
        PROVE  /\ chip'[c] \cap OwnBits(F(f)) = w[c] \cap OwnBits(F(f))
               /\ chip'[c] \subseteq AllBits /\ w[c] \subseteq AllBits
    <3>1. chip'[c] = (call[p].got \ s.mask) \cup s.bits /\ w[c] = s.bits
      BY <1>2, <1>3, <1>5, <2>1
    <3>2. s.bits \subseteq AllBits /\ call[p].got \subseteq AllBits
      BY <1>1, BitsTyped, CallTyped DEF Calls
    <3> HIDE DEF w
    <3> QED
      BY <2>1, <3>1, <3>2
  <2> HIDE DEF w
  <2>3. ShownBy(F(f), chip') = ShownBy(F(f), w)
    BY <1>3, <2>2, ShownSame
  <2> QED
    BY <1>5, <2>1, <2>3 DEF KeepsIn, w
<1>6. CASE /\ stored'[f] = stored[f]
           /\ \/ cells \cap F(f).watch = {}
              \/ s.own /\ OwnBits(Mine(p)) \cap OwnBits(F(f)) = {}
              \/ ~s.own /\ s.mask \cap OwnBits(F(f)) = {}
  <2>1. cells \cap F(f).watch = {} \/ s.mask \cap OwnBits(F(f)) = {}
    BY <1>1, <1>3, <1>6, OwnWrite
  <2>2. ASSUME NEW c \in ShownCells(F(f))
        PROVE  chip'[c] \cap OwnBits(F(f)) = chip[c] \cap OwnBits(F(f))
    <3>1. CASE c \notin cells
      BY <1>2, <1>3, <3>1
    <3>2. CASE c \in cells
      <4>1. s.mask \cap OwnBits(F(f)) = {} /\ s.mask # AllBits
        BY <1>3, <2>1, <3>2
      <4>2. s = call[p].prog[call[p].at] /\ call[p].upd = 0
        BY <1>1, InProgramStep
      <4>3. s.bits \subseteq s.mask
        BY <1>1, <4>1, <4>2, ProgramIs, MaskedWrite
      <4>4. call[p].got = chip[c]
        BY <1>1, <3>2, <4>1, <4>2 DEF GotInv, InStore
      <4>5. chip'[c] = chip[c] \/ chip'[c] = (call[p].got \ s.mask) \cup s.bits
        BY <1>2, <3>2
      <4> HIDE DEF s
      <4> QED
        BY <4>1, <4>3, <4>4, <4>5
    <3> QED
      BY <3>1, <3>2
  <2> QED
    BY <1>1, <1>6, <2>2, StaysShown
<1>7. s.own \in BOOLEAN
  BY <1>1, InProgramStep, ProgramIs DEF ProgramForm
<1>8. \/ /\ stored'[f] = stored[f]
         /\ \/ cells \cap F(f).watch = {}
            \/ s.own /\ OwnBits(Mine(p)) \cap OwnBits(F(f)) = {}
            \/ ~s.own /\ s.mask \cap OwnBits(F(f)) = {}
      \/ stored'[f] = call[p].want /\ s.own /\ f = file[p] /\ arrives /\ cells \cap F(f).watch # {}
      \/ stored'[f] = None
  <2> DEFINE after == StoredAfter(p, cells, s.mask, s.own, arrives)[f]
  <2>1. \/ /\ after = stored[f]
           /\ \/ cells \cap F(f).watch = {}
              \/ s.own /\ OwnBits(Mine(p)) \cap OwnBits(F(f)) = {}
              \/ ~s.own /\ s.mask \cap OwnBits(F(f)) = {}
        \/ after = call[p].want /\ s.own /\ f = file[p] /\ arrives /\ cells \cap F(f).watch # {}
        \/ after = None
    BY <1>7, StoredAfterIs
  <2> HIDE DEF after
  <2>2. stored'[f] = after
    BY <1>2 DEF after
  <2> QED
    BY <2>1, <2>2
<1> QED
  BY <1>4, <1>5, <1>6, <1>8

LEMMA RunCache ==
  ASSUME NEW p \in Actor, Run(p)
  PROVE  \/ cache' = cache
         \/ PutCell(p)
         \/ /\ call[p].at # 0 /\ Step(p).do \in {"blank", "read", "fetch", "store"}
            /\ \A c \in Watched : c \notin Step(p).cells => cache'[c] = cache[c]
<1>1. CASE BlankCells(p) \/ ReadCells(p) \/ StoreCells(p) \/ ReadBlanks(p)
  BY <1>1 DEF BlankCells, ReadCells, StoreCells, ReadBlanks, Fails, At, With
<1>2. CASE ~(BlankCells(p) \/ ReadCells(p) \/ StoreCells(p) \/ ReadBlanks(p) \/ PutCell(p))
  BY <1>2 DEF Run, UpdateDevice, LockMutex, UnlockMutex, ClearValid, DoneRefreshing,
     FetchCells, ReadAborts, ReadKeeps, FetchTakesErrno, Whether, UnlessAllRead, GivesUp, CheckValid,
     AnswerShow, GetRegister, GetFails, WriteRegister, cacheVars
<1> QED
  BY <1>1, <1>2

LEMMA RunStored ==
  ASSUME NEW p \in Actor, Run(p)
  PROVE  stored' = stored \/ PutCell(p) \/ WriteRegister(p) \/ GetFails(p)
BY DEF Run, UpdateDevice, LockMutex, UnlockMutex, ClearValid, DoneRefreshing, BlankCells,
   ReadCells, FetchCells, StoreCells, ReadAborts, ReadKeeps, ReadBlanks, FetchTakesErrno,
   Whether, UnlessAllRead, GivesUp, CheckValid, AnswerShow, GetRegister

\* Where the value stored in a file is another one, it is none or it does not land.
LEMMA CountsIs ==
  ASSUME TypeOK, NEW p \in Actor, NEW v \in DOMAIN Mine(p).set, NEW g \in Mine(p).set[v],
         NEW f \in Files
  PROVE  Counts(p, g, v)[f] = stored[f] \/ (Counts(p, g, v)[f] = v /\ ~Lands(F(f), v))
<1>1. g \in Mine(p).set[v] /\ Mine(p) = F(file[p])
  BY DEF Mine
<1>2. stored = [e \in Files |-> stored[e]]
  BY SameTyped DEF TypeOK
<1>3. CASE ReachesItself(Mine(p), g)
  BY <1>3 DEF Counts
<1>4. CASE ~ReachesItself(Mine(p), g)
  <2>1. Counts(p, g, v)[f] = IF f = file[p] THEN v ELSE stored[f]
    BY <1>2, <1>4 DEF Counts
  <2>2. f = file[p] => ~Lands(F(f), v)
    BY <1>1, <1>4 DEF Lands
  <2> QED
    BY <2>1, <2>2
<1> QED
  BY <1>3, <1>4

LEMMA NextKeeps ==
  ASSUME TypeOK, TypeOK', GotInv, KeepsWhatIsStored, [Next]_vars
  PROVE  KeepsWhatIsStored'
<1>1. ASSUME UNCHANGED <<fixed, chip, cache, stored>> PROVE KeepsWhatIsStored'
  <2>1. \A f \in Files : KeepsIn(f)
    BY <1>1, StaysShown
  <2> QED
    BY <1>1, <2>1, KeepsNext
<1>2. ASSUME NEW p \in Actor, Run(p) PROVE KeepsWhatIsStored'
  <2>1. UNCHANGED fixed
    BY <1>2, RunIs
  <2>2. CASE PutCell(p)
    BY <2>1, <2>2, KeepsPut, KeepsNext
  <2>3. CASE WriteRegister(p)
    BY <2>1, <2>3, KeepsWrite, KeepsNext
  <2>5. CASE GetFails(p)
    <3>1. UNCHANGED <<fixed, chip, cache>>
      BY <2>5 DEF GetFails, cacheVars
    <3>2. ASSUME NEW f \in Files PROVE stored'[f] \in {stored[f], None}
      <4>1. stored = [e \in Files |-> stored[e]]
        BY DEF TypeOK
      <4>2. stored' = stored \/ stored' = [stored EXCEPT ![file[p]] = None]
        BY <2>5 DEF GetFails, Counts
      <4> QED
        BY <4>1, <4>2
    <3>3. \A f \in Files : KeepsIn(f)
      BY <3>1, <3>2, StaysShown
    <3> QED
      BY <2>1, <3>3, KeepsNext
  <2>4. CASE ~PutCell(p) /\ ~WriteRegister(p) /\ ~GetFails(p)
    <3>1. stored' = stored /\ chip' = chip
      BY <1>2, <2>4, RunStored, RunChip
    <3>2. CASE cache' = cache
      BY <1>1, <2>1, <3>1, <3>2
    <3>3. CASE /\ call[p].at # 0 /\ Step(p).do \in {"blank", "read", "fetch", "store"}
               /\ \A c \in Watched : c \notin Step(p).cells => cache'[c] = cache[c]
      <4>1. ASSUME NEW f \in Files PROVE KeepsIn(f)
        <5>1. ASSUME F(f).home = "cache", NEW c \in ShownCells(F(f)) PROVE cache'[c] = cache[c]
          BY <3>3, <5>1, FilesAre, KeptCells
        <5> QED
          BY <2>1, <3>1, <5>1, StaysShown
      <4> QED
        BY <2>1, <4>1, KeepsNext
    <3> QED
      BY <1>2, <2>4, <3>2, <3>3, RunCache
  <2> QED
    BY <2>2, <2>3, <2>4, <2>5
<1>3. CASE DeviceChanges
  <2>1. PICK c \in UNION {F(f).watch : f \in {g \in Files : F(g).home = "chip"}} :
               /\ chip' = [chip EXCEPT ![c] = One \ @]
               /\ stored' = [f \in Files |-> IF c \in F(f).watch THEN None ELSE stored[f]]
    BY <1>3 DEF DeviceChanges
  <2>2. UNCHANGED fixed /\ cache' = cache
    BY <1>3 DEF DeviceChanges, cacheVars
  <2>3. ASSUME NEW f \in Files PROVE KeepsIn(f)
    <3>1. CASE c \in F(f).watch
      BY <2>1, <3>1 DEF KeepsIn
    <3>2. CASE c \notin F(f).watch
      <4>1. stored'[f] = stored[f] /\ \A e \in ShownCells(F(f)) : chip'[e] = chip[e]
        BY <2>1, <3>2, FilesAre, SameTyped
      <4> QED
        BY <2>2, <4>1, StaysShown
    <3> QED
      BY <3>1, <3>2
  <2> QED
    BY <2>2, <2>3, KeepsNext
<1>4. CASE UNCHANGED vars \/ Expire \/ \E p \in Actor : Show(p)
  <2>1. UNCHANGED <<fixed, chip, cache, stored>>
    BY <1>4 DEF Expire, Show, vars, fixed, cacheVars
  <2> QED
    BY <1>1, <2>1
<1>5. ASSUME NEW p \in Actor, StoreValue(p) PROVE KeepsWhatIsStored'
  <2>1. UNCHANGED <<fixed, chip, cache>>
    BY <1>5 DEF StoreValue, cacheVars
  <2>2. PICK v \in DOMAIN Mine(p).set : \E g \in Mine(p).set[v] : stored' = Counts(p, g, v)
    BY <1>5 DEF StoreValue
  <2>3. PICK g \in Mine(p).set[v] : stored' = Counts(p, g, v)
    BY <2>2
  <2>4. ASSUME NEW f \in Files PROVE KeepsIn(f)
    <3>1. stored'[f] = stored[f] \/ ~Lands(F(f), stored'[f])
      BY <2>3, CountsIs
    <3>2. CASE stored'[f] = stored[f]
      BY <2>1, <3>2, StaysShown
    <3>3. CASE ~Lands(F(f), stored'[f])
      BY <3>3 DEF KeepsIn
    <3> QED
      BY <3>1, <3>2, <3>3
  <2> QED
    BY <2>1, <2>4, KeepsNext
<1> QED
  BY <1>2, <1>3, <1>4, <1>5 DEF Next

\* What was stored last in a LED, a fan's speed or a value the driver keeps is
\* still there, in whatever order stores into other LEDs of the register, shows
\* and failures come between.
THEOREM StoredStays == Spec => []KeepsWhatIsStored
<1>1. Init => TypeOK /\ GotInv /\ KeepsWhatIsStored
  <2> SUFFICES ASSUME Init PROVE TypeOK /\ GotInv /\ KeepsWhatIsStored
    OBVIOUS
  <2>1. TypeOK
    BY InitTypeOK
  <2>2. \A p \in Actor : call[p].at = 0
    BY DEF Init, Idle
  <2>3. \A f \in Files : stored[f] = None
    BY DEF Init
  <2> QED
    BY <2>1, <2>2, <2>3 DEF GotInv, InStore, KeepsWhatIsStored
<1>2. TypeOK /\ GotInv /\ KeepsWhatIsStored /\ [Next]_vars
        => (TypeOK /\ GotInv /\ KeepsWhatIsStored)'
  BY NextTypeOK, NextGot, NextKeeps
<1> QED
  BY <1>1, <1>2, PTL DEF Spec

-----------------------------------------------------------------------------
(* What a refresh has still to do.                                           *)

Duties == {"blank", "read", "fetch", "store"}

LEMMA ComesOnward ==
  ASSUME TypeOK, NEW n \in 1..Len(Refresh), NEW m \in Onward(Refresh, n), NEW c \in Watched,
         NEW kinds \in SUBSET Duties, Comes(Refresh, n, c, kinds)
  PROVE  m \in 1..Len(Refresh) /\ Comes(Refresh, m, c, kinds)
<1>1. m \in n..Len(Refresh) /\ Len(Refresh) \in Nat
  BY OnwardInRefresh, RefreshFacts
<1>2. PICK j \in n..Len(Refresh) :
        /\ Refresh[j].do \in kinds /\ c \in Refresh[j].cells
        /\ \A k \in n..(j - 1) : k + Refresh[k].skip < j
  BY DEF Comes
<1>3. ~(j < m)
  <2>1. ~PassedOver(Refresh[j])
    BY <1>2 DEF PassedOver
  <2> QED
    BY <1>1, <1>2, <2>1 DEF Onward
<1> QED
  BY <1>1, <1>2, <1>3 DEF Comes

LEMMA ComesNext ==
  ASSUME TypeOK, NEW i \in 1..(Len(Refresh) - 1), NEW c, NEW kinds,
         Comes(Refresh, i, c, kinds), ~(Refresh[i].do \in kinds /\ c \in Refresh[i].cells)
  PROVE  /\ Comes(Refresh, i + 1, c, kinds)
         /\ Comes(Refresh, i + Refresh[i].skip + 1, c, kinds)
<1>1. PICK j \in i..Len(Refresh) :
        /\ Refresh[j].do \in kinds /\ c \in Refresh[j].cells
        /\ \A k \in i..(j - 1) : k + Refresh[k].skip < j
  BY DEF Comes
<1>2. Refresh[i].skip \in Nat /\ Len(Refresh) \in Nat
  BY RefreshFacts DEF RefreshForm
<1>3. j # i
  BY <1>1
<1>4. i + Refresh[i].skip < j
  BY <1>1, <1>2, <1>3
<1>5. j \in (i + 1)..Len(Refresh) /\ j \in (i + Refresh[i].skip + 1)..Len(Refresh)
  BY <1>1, <1>2, <1>3, <1>4
<1>6. \A k \in (i + 1)..(j - 1) : k \in i..(j - 1)
  BY <1>1
<1>7. \A k \in (i + Refresh[i].skip + 1)..(j - 1) : k \in i..(j - 1)
  BY <1>1, <1>2
<1>8. Comes(Refresh, i + 1, c, kinds)
  BY <1>1, <1>5, <1>6 DEF Comes
<1>9. Comes(Refresh, i + Refresh[i].skip + 1, c, kinds)
  BY <1>1, <1>5, <1>7 DEF Comes
<1> QED
  BY <1>8, <1>9

\* p goes on in update_device: what was to come and is not done comes yet.
LEMMA ComesYet ==
  ASSUME TypeOK, NEW p \in Actor, call[p].at # 0, RefreshGoes(p), NEW c \in Watched,
         NEW kinds \in SUBSET Duties, Comes(Refresh, call[p].upd, c, kinds),
         ~(Step(p).do \in kinds /\ c \in Step(p).cells)
  PROVE  call'[p].upd \in 1..Len(Refresh) /\ Comes(Refresh, call'[p].upd, c, kinds)
<1>1. call[p].upd \in 1..(Len(Refresh) - 1) /\ Step(p) = Refresh[call[p].upd]
  BY StepFacts DEF RefreshGoes
<1>2. PICK n \in {call[p].upd + 1, call[p].upd + Step(p).skip + 1} :
        n \in 1..Len(Refresh) /\ call'[p].upd \in Onward(Refresh, n)
  BY DEF RefreshGoes
<1>3. Comes(Refresh, n, c, kinds)
  BY <1>1, <1>2, ComesNext
<1> QED
  BY <1>2, <1>3, ComesOnward

\* Nothing comes at the end.
LEMMA NothingAtEnd ==
  ASSUME TypeOK, NEW c, NEW kinds \in SUBSET Duties, NEW i \in 1..Len(Refresh), Comes(Refresh, i, c, kinds)
  PROVE  i < Len(Refresh) - 1
<1>1. PICK j \in i..Len(Refresh) : Refresh[j].do \in kinds
  BY DEF Comes
<1>2. j \in DOMAIN Refresh /\ Refresh[j].do \notin {"done", "unlock"} /\ Len(Refresh) \in Nat
  BY <1>1, RefreshFacts DEF Duties
<1>3. j # Len(Refresh) /\ j # Len(Refresh) - 1
  BY <1>2, RefreshFacts DEF RefreshForm
<1> QED
  BY <1>1, <1>2, <1>3

\* What a statement does.
LEMMA RunDoes ==
  ASSUME NEW p \in Actor, Run(p)
  PROVE  /\ Step(p).do = "blank" => BlankCells(p)
         /\ Step(p).do = "store" => StoreCells(p)
         /\ Step(p).do = "read" => ReadCells(p) \/ ReadAborts(p) \/ ReadKeeps(p) \/ ReadBlanks(p)
                                   \/ FetchTakesErrno(p)
         /\ Step(p).do = "fetch" => FetchCells(p) \/ ReadAborts(p) \/ ReadKeeps(p) \/ ReadBlanks(p)
                                    \/ FetchTakesErrno(p)
         /\ Step(p).do = "put" => PutCell(p)
         /\ Step(p).do = "write" => WriteRegister(p)
         /\ Step(p).do = "check" => CheckValid(p)
         /\ Step(p).do = "clear" => ClearValid(p)
         /\ Step(p).do = "done" => DoneRefreshing(p)
         /\ Step(p).do = "get" => GetRegister(p) \/ GetFails(p)
         /\ Step(p).do = "giveup" => GivesUp(p)
         /\ Step(p).do = "update" => UpdateDevice(p)
         /\ Step(p).do = "unlock" => UnlockMutex(p)
BY DEF Run, UpdateDevice, LockMutex, UnlockMutex, ClearValid, DoneRefreshing, BlankCells,
   PutCell, ReadCells, FetchCells, StoreCells, ReadAborts, ReadKeeps, ReadBlanks, FetchTakesErrno,
   Fails, Whether, UnlessAllRead, GivesUp, CheckValid, AnswerShow, GetRegister, GetFails,
   WriteRegister, At

\* A read that fails may end the refresh, the show or the store.
LEMMA AbortsHere ==
  ASSUME TypeOK, NEW p \in Actor, ReadAborts(p) \/ GivesUp(p)
  PROVE  loose' = Watched /\ Aborts(p) /\ OthersKeep(p) /\ UNCHANGED fixed
<1>1. call[p].at # 0 /\ ~At(p, "unlock") /\ Alone(p, Abort(p)) /\ loose' = Watched /\ UNCHANGED fixed
  BY DEF ReadAborts, GivesUp, Fails, At
<1> QED
  BY <1>1, AbortIs

-----------------------------------------------------------------------------
(* What a show that looks at valid answers with was read.                    *)

LEMMA FilledGrows ==
  ASSUME TypeOK, [Next]_vars
  PROVE  filled \subseteq filled'
<1>1. ASSUME NEW p \in Actor, Run(p) PROVE filled \subseteq filled'
  BY <1>1 DEF Run, UpdateDevice, LockMutex, UnlockMutex, ClearValid, DoneRefreshing, BlankCells,
     PutCell, ReadCells, FetchCells, StoreCells, ReadAborts, ReadKeeps, ReadBlanks, FetchTakesErrno,
     Whether, UnlessAllRead, GivesUp, CheckValid, AnswerShow, GetRegister, GetFails, WriteRegister,
     cacheVars
<1>2. CASE UNCHANGED vars \/ Expire \/ DeviceChanges \/ \E p \in Actor : Show(p) \/ StoreValue(p)
  BY <1>2 DEF Expire, DeviceChanges, Show, StoreValue, vars, cacheVars
<1> QED
  BY <1>1, <1>2 DEF Next

LEMMA FillStep ==
  ASSUME TypeOK, NEW p \in Actor, Run(p), call[p].upd # 0, call'[p].upd \in 1..(Len(Refresh) - 1),
         Step(p).do \in Filling, NEW c \in Watched, c \in Step(p).cells, PassesOverNothing
  PROVE  c \in filled'
<1>1. call[p].at # 0
  BY RunIs
<1>2. Step(p) = Refresh[call[p].upd] /\ call[p].upd \in DOMAIN Refresh /\ Len(Refresh) \in Nat
  BY <1>1, StepFacts, CallFacts, RefreshFacts
<1>3. CASE Step(p).do \in {"blank", "store"}
  BY <1>3, RunDoes DEF BlankCells, StoreCells
<1>4. CASE Step(p).do = "read"
  <2>1. ~FetchTakesErrno(p) /\ ~ReadKeeps(p)
    BY <1>2, <1>4, RefreshFacts DEF FetchTakesErrno, ReadKeeps, Fails, RefreshForm, PassesOverNothing
  <2>2. ~ReadAborts(p)
    BY <1>2, AbortsHere DEF Aborts
  <2> QED
    BY <1>4, <2>1, <2>2, RunDoes DEF ReadCells, ReadBlanks
<1> QED
  BY <1>3, <1>4 DEF Filling

LEMMA CachedComes ==
  ASSUME TypeOK, NEW c \in Cached
  PROVE  c \in Watched /\ c \in CacheCells(Refresh) /\ Comes(Refresh, 1, c, Filling)
BY RefreshFacts DEF Cached, CacheCells, FillsAll

LEMMA OwnFilled ==
  ASSUME TypeOK, FilledInv, PassesOverNothing, NEW p \in Actor, Run(p), filled \subseteq filled',
         call'[p].upd \in 1..(Len(Refresh) - 1), NEW c \in Cached
  PROVE  c \in filled' \/ Comes(Refresh, call'[p].upd, c, Filling)
<1>1. c \in Watched /\ Comes(Refresh, 1, c, Filling) /\ Filling \in SUBSET Duties
  BY CachedComes DEF Filling, Duties
<1>2. Len(Refresh) \in Nat /\ Idle.upd = 0 /\ call[p].at # 0
  BY RefreshFacts, RunIs DEF Idle
<1>3. CASE UpdateDevice(p)
  <2>1. call'[p].upd \in Onward(Refresh, 1)
    BY <1>2, <1>3, UpdateIs
  <2>2. 1 \in 1..Len(Refresh)
    BY RefreshFacts
  <2> QED
    BY <1>1, <2>1, <2>2, ComesOnward
<1>4. CASE RefreshGoes(p)
  <2>1. c \in filled \/ Comes(Refresh, call[p].upd, c, Filling)
    BY <1>4 DEF FilledInv, Refreshing, RefreshGoes
  <2>2. CASE Step(p).do \in Filling /\ c \in Step(p).cells
    <3>1. call[p].upd # 0
      BY <1>4 DEF RefreshGoes
    <3> QED
      BY <1>1, <2>2, <3>1, FillStep
  <2>3. CASE Comes(Refresh, call[p].upd, c, Filling) /\ ~(Step(p).do \in Filling /\ c \in Step(p).cells)
    BY <1>1, <1>2, <1>4, <2>3, ComesYet
  <2> QED
    BY <2>1, <2>2, <2>3
<1>5. ~UnlockMutex(p) /\ ~ProgramGoes(p) /\ ~Aborts(p) /\ ~Gets(p)
  BY <1>2, UnlockIs DEF ProgramGoes, Aborts, Gets
<1> QED
  BY <1>3, <1>4, <1>5, RunIs

LEMMA NextFilled ==
  ASSUME TypeOK, FilledInv, [Next]_vars
  PROVE  FilledInv'
<1>0. filled \subseteq filled' /\ UNCHANGED fixed
  BY FilledGrows, RunIs DEF Next, Show, StoreValue, DeviceChanges, Expire, vars, fixed
<1> SUFFICES ASSUME PassesOverNothing
             PROVE  /\ valid' => Cached \subseteq filled'
                    /\ \A p \in Actor : call'[p].upd \in 1..(Len(Refresh) - 1) =>
                         \A c \in Cached : c \in filled' \/ Comes(Refresh, call'[p].upd, c, Filling)
  BY <1>0, FixedSame DEF FilledInv, Refreshing, PassesOverNothing
<1>1. /\ valid => Cached \subseteq filled
      /\ \A p \in Actor : call[p].upd \in 1..(Len(Refresh) - 1) =>
           \A c \in Cached : c \in filled \/ Comes(Refresh, call[p].upd, c, Filling)
  BY DEF FilledInv, Refreshing
<1>2. ASSUME NEW p \in Actor, Run(p), NEW q \in Actor, call'[q].upd \in 1..(Len(Refresh) - 1),
             NEW c \in Cached
      PROVE  c \in filled' \/ Comes(Refresh, call'[q].upd, c, Filling)
  <2>1. CASE q = p
    BY <1>0, <1>2, <2>1, OwnFilled
  <2>2. CASE q # p
    <3>1. call'[q].upd = call[q].upd
      BY <1>2, <2>2, RunIs, OthersSame
    <3> QED
      BY <1>0, <1>1, <1>2, <3>1
  <2> QED
    BY <2>1, <2>2
<1>3. ASSUME NEW p \in Actor, Run(p), valid' PROVE Cached \subseteq filled'
  <2>1. CASE valid
    BY <1>0, <1>1, <2>1
  <2>2. CASE ~valid
    <3>1. DoneRefreshing(p)
      BY <1>3, <2>2 DEF Run, UpdateDevice, LockMutex, UnlockMutex, ClearValid, BlankCells,
         PutCell, ReadCells, FetchCells, StoreCells, ReadAborts, ReadKeeps, ReadBlanks, FetchTakesErrno,
         Whether, UnlessAllRead, GivesUp, CheckValid, AnswerShow, GetRegister, GetFails, WriteRegister,
         cacheVars
    <3>2. call[p].at # 0 /\ Step(p).do = "done"
      BY <3>1 DEF DoneRefreshing, At
    <3>3. call[p].upd \in 1..(Len(Refresh) - 1) /\ Refresh[call[p].upd].do = "done"
      BY <3>2, InRefreshStep
    <3>4. call[p].upd = Len(Refresh) - 1 /\ call[p].upd \in 1..Len(Refresh)
      BY <3>3, RefreshFacts DEF RefreshForm
    <3>5. \A c \in Cached : ~Comes(Refresh, call[p].upd, c, Filling)
      BY <3>4, NothingAtEnd, RefreshFacts DEF Filling, Duties
    <3> QED
      BY <1>0, <1>1, <3>3, <3>5
  <2> QED
    BY <2>1, <2>2
<1>4. CASE \/ UNCHANGED vars \/ Expire \/ DeviceChanges
  <2>1. call' = call /\ valid' = valid
    BY <1>4 DEF Expire, DeviceChanges, vars, cacheVars
  <2> QED
    BY <1>0, <1>1, <2>1
<1>5. ASSUME NEW p \in Actor, Show(p) \/ StoreValue(p)
      PROVE  valid' = valid /\ \A q \in Actor : call'[q].upd = call[q].upd \/ call'[q].upd = 0
  BY <1>5, StartIs DEF cacheVars
<1> QED
  BY <1>0, <1>1, <1>2, <1>3, <1>4, <1>5 DEF Next

\* A show that looks at valid.
LEMMA CheckFacts ==
  ASSUME TypeOK, NEW p \in Actor, 2 \in DOMAIN Mine(p).show, Mine(p).show[2].do = "check"
  PROVE  /\ PassesOverNothing /\ Mine(p).show[1].do = "update" /\ ~Locked(Mine(p).show)
         /\ \A c \in ShownCells(Mine(p)) : c \in Watched
         /\ \A c \in ShownCells(Mine(p)) \ CacheCells(Refresh) :
              /\ Len(Mine(p).show) > 3
              /\ Mine(p).show[3].do = "when" /\ 3 + Mine(p).show[3].skip = Len(Mine(p).show)
              /\ Mine(p).show[4].do = "blank" /\ c \in Mine(p).show[4].cells
<1>1. Mine(p) = F(file[p]) /\ file[p] \in DOMAIN Table[drv].files /\ file[p] \in Files
  BY RulesOf DEF Mine, Files
<1>2. LooksAtValid(Refresh, Mine(p)) /\ ShownCells(Mine(p)) \subseteq Watched
  BY <1>1, FileFacts, FilesAre
<1> QED
  BY <1>2 DEF LooksAtValid, PassesOverNothing, Locked

CheckedIn(p) ==
  \A c \in ShownCells(Mine(p)) : c \in CacheCells(Refresh) \/ call'[p].at > 4 => c \in filled'

LEMMA OwnChecked ==
  ASSUME TypeOK, TypeOK', FilledInv, CheckedInv, NEW p \in Actor, Run(p), filled \subseteq filled',
         call'[p].at > 2, call'[p].want = None, call'[p].prog[2].do = "check"
  PROVE  CheckedIn(p)
<1> SUFFICES ASSUME NEW c \in ShownCells(Mine(p)), c \in CacheCells(Refresh) \/ call'[p].at > 4
             PROVE  c \in filled'
  BY DEF CheckedIn
<1> DEFINE g == Mine(p).show
           i == call[p].at
           j == call'[p].at
<1>1. /\ UNCHANGED fixed /\ call[p].at # 0 /\ Idle.at = 0
  BY RunIs DEF Idle
<1>2. call'[p].at \in Nat /\ call[p].at \in Nat
  <2>1. call'[p].at = 0 \/ call'[p].at # 0
    OBVIOUS
  <2> QED
    BY <1>1, <2>1, NextCall, ProgramIs
<1>3. j # 0 /\ call'[p] # Idle
  BY <1>1, <1>2
<1>4. call'[p].prog = g /\ j \in 1..Len(g) /\ DOMAIN g = 1..Len(g) /\ Len(g) \in Nat
  BY <1>1, <1>2, <1>3, NextCall
<1>5. /\ g[2].do = "check" /\ 2 \in DOMAIN g
  BY <1>2, <1>4
<1>6. /\ PassesOverNothing /\ g[1].do = "update" /\ ~Locked(g) /\ c \in Watched
      /\ c \notin CacheCells(Refresh) =>
           /\ Len(g) > 3 /\ g[3].do = "when" /\ 3 + g[3].skip = Len(g)
           /\ g[4].do = "blank" /\ c \in g[4].cells
  BY <1>5, CheckFacts
<1>7. ASSUME call[p].prog = g, call[p].want = None, i > 2, c \in CacheCells(Refresh) \/ i > 4
      PROVE  c \in filled'
  BY <1>5, <1>7 DEF CheckedInv
<1>8. call[p].upd # 0 => call[p].prog[call[p].at].do = "update" /\ call[p].at = 1
  BY <1>1, CallFacts, ProgramIs DEF ProgramForm
<1>9. call[p].upd = 0 => Step(p) = call[p].prog[call[p].at]
  BY <1>1, StepFacts
<1>10. ~UpdateDevice(p) /\ ~RefreshGoes(p) /\ ~Aborts(p)
  BY <1>1, <1>2, <1>3, <1>4, <1>6, <1>8, UpdateIs, RefreshFacts DEF RefreshGoes, Aborts, SameCall
<1>11. ~UnlockMutex(p)
  <2>1. ASSUME call[p].prog = g, j \in Onward(g, 2) PROVE FALSE
    <3>1. ~PassedOver(g[2])
      BY <1>5 DEF PassedOver
    <3> QED
      BY <1>2, <2>1, <3>1 DEF Onward
  <2> QED
    BY <1>3, <1>4, <2>1, UnlockIs DEF SameCall
<1>12. CASE Gets(p)
  <2>1. /\ call[p].prog = g /\ call[p].want = None /\ g[i].do = "get" /\ j = i + 1
    BY <1>4, <1>12 DEF Gets, SameCall
  <2>2. i # 1 /\ i # 2
    BY <1>5, <1>6, <2>1
  <2>3. c \notin CacheCells(Refresh) => i # 4 /\ i >= 4
    BY <1>2, <1>6, <2>1
  <2> QED
    BY <1>1, <1>2, <1>7, <2>1, <2>2, <2>3
<1>13. CASE ProgramGoes(p) /\ Step(p).do \notin {"update", "unlock"}
  <2>1. /\ call[p].upd = 0 /\ call[p].prog = g /\ call[p].want = None /\ Step(p) = g[i]
        /\ \/ j \in Onward(g, i + 1)
           \/ g[i].do = "when" /\ j \in Onward(g, i + g[i].skip + 1)
    BY <1>3, <1>4, <1>9, <1>13 DEF ProgramGoes, SameCall
  <2>2. i # 1
    BY <1>6, <1>13, <2>1
  <2>3. CASE i = 2
    <3>1. CheckValid(p) /\ g[i].do # "when"
      BY <1>5, <2>1, <2>3, RunDoes
    <3>2. valid
      BY <1>3, <3>1, AloneIs DEF CheckValid
    <3>3. c \in CacheCells(Refresh) => c \in filled'
      BY <1>6, <3>2 DEF FilledInv, Cached, CacheCells
    <3>4. CASE c \notin CacheCells(Refresh)
      <4>1. j > 4 /\ j \in Onward(g, 3) /\ ~PassedOver(g[4])
        BY <1>6, <2>1, <2>3, <3>1, <3>4 DEF PassedOver
      <4> QED
        BY <1>2, <4>1 DEF Onward
    <3> QED
      BY <3>3, <3>4
  <2>4. CASE i # 2 /\ (c \in CacheCells(Refresh) \/ i > 4)
    BY <1>1, <1>2, <1>7, <2>1, <2>2, <2>4
  <2>5. CASE i = 3 /\ c \notin CacheCells(Refresh)
    <3>1. j > 4 /\ ~PassedOver(g[4])
      BY <1>6, <2>5 DEF PassedOver
    <3>2. j \notin Onward(g, 4)
      BY <1>2, <3>1 DEF Onward
    <3>3. i + g[i].skip + 1 = Len(g) + 1
      BY <1>4, <1>6, <2>5
    <3>4. j \notin Onward(g, Len(g) + 1)
      BY <1>4 DEF Onward
    <3> QED
      BY <2>1, <2>5, <3>2, <3>3, <3>4
  <2>6. CASE i = 4 /\ c \notin CacheCells(Refresh)
    BY <1>6, <2>1, <2>6, RunDoes DEF BlankCells
  <2> QED
    BY <1>1, <1>2, <2>2, <2>3, <2>4, <2>5, <2>6
<1> QED
  BY <1>10, <1>11, <1>12, <1>13, RunIs

LEMMA NextChecked ==
  ASSUME TypeOK, TypeOK', FilledInv, CheckedInv, [Next]_vars
  PROVE  CheckedInv'
<1>0. filled \subseteq filled' /\ UNCHANGED fixed
  BY FilledGrows, RunIs DEF Next, Show, StoreValue, DeviceChanges, Expire, vars, fixed
<1> SUFFICES ASSUME NEW p \in Actor, call'[p].at > 2, call'[p].want = None,
                    call'[p].prog[2].do = "check"
             PROVE  CheckedIn(p)
  BY <1>0, FixedSame DEF CheckedInv, CheckedIn
<1>1. ASSUME call'[p].at = call[p].at, call'[p].want = call[p].want, call'[p].prog = call[p].prog
      PROVE  CheckedIn(p)
  BY <1>0, <1>1 DEF CheckedInv, CheckedIn
<1>2. ASSUME NEW q \in Actor, Run(q) PROVE CheckedIn(p)
  <2>1. CASE q = p
    BY <1>0, <1>2, <2>1, OwnChecked
  <2>2. CASE q # p
    BY <1>1, <1>2, <2>2, RunIs, OthersSame
  <2> QED
    BY <2>1, <2>2
<1>3. ASSUME NEW q \in Actor, Show(q) \/ StoreValue(q) PROVE CheckedIn(p)
  <2>1. CASE q = p
    BY <1>3, <2>1, StartIs
  <2>2. CASE q # p
    BY <1>1, <1>3, <2>2, StartIs
  <2> QED
    BY <2>1, <2>2
<1>4. CASE UNCHANGED vars \/ Expire \/ DeviceChanges
  BY <1>1, <1>4 DEF Expire, DeviceChanges, vars
<1> QED
  BY <1>2, <1>3, <1>4 DEF Next

\* A call that answers is a show.
LEMMA AnswersShow ==
  ASSUME TypeOK, NEW p \in Actor, At(p, "answer")
  PROVE  /\ call[p].at # 0 /\ call[p].upd = 0 /\ call[p].want = None /\ call[p].prog = Mine(p).show
         /\ call[p].at \in 1..Len(Mine(p).show) /\ Mine(p).show[call[p].at].do = "answer"
         /\ DOMAIN Mine(p).show = 1..Len(Mine(p).show) /\ Len(Mine(p).show) \in Nat
<1>1. call[p].at # 0 /\ call[p].upd = 0 /\ call[p].prog[call[p].at].do = "answer"
  BY InProgramStep DEF At
<1>2. call[p].at \in DOMAIN call[p].prog /\ Mine(p) = F(file[p]) /\ file[p] \in DOMAIN Table[drv].files
  BY <1>1, ProgramIs
<1>3. ASSUME call[p].want # None PROVE FALSE
  <2>1. call[p].want \in DOMAIN Mine(p).set /\ call[p].prog \in Mine(p).set[call[p].want]
    BY <1>1, <1>3, CallFacts DEF Calls
  <2>2. WritesItsOwn(Table[drv], Mine(p), call[p].want, call[p].prog)
    BY <1>2, <2>1, FileFacts
  <2> QED
    BY <1>1, <1>2, <2>2 DEF WritesItsOwn
<1> QED
  BY <1>1, <1>3, CallFacts

LEMMA WasRead ==
  ASSUME TypeOK, CheckedInv
  PROVE  ShownWasRead
<1> SUFFICES ASSUME NEW p \in Actor, At(p, "answer"),
                    Check \in {Mine(p).show[i] : i \in DOMAIN Mine(p).show}
             PROVE  ShownCells(Mine(p)) \subseteq filled
  BY DEF ShownWasRead, ShownCells
<1> DEFINE g == Mine(p).show
<1>1. /\ call[p].at # 0 /\ call[p].want = None /\ call[p].prog = g
      /\ call[p].at \in 1..Len(g) /\ g[call[p].at].do = "answer" /\ DOMAIN g = 1..Len(g)
  BY AnswersShow
<1>2. PICK i \in DOMAIN g : g[i].do = "check"
  BY DEF Check, Statement
<1>3. Mine(p) = F(file[p]) /\ file[p] \in DOMAIN Table[drv].files
  BY <1>1, ProgramIs
<1>4. i = 2
  BY <1>2, <1>3, FileFacts DEF LooksAtValid
<1>5. g[1].do = "update" /\ g[2].do = "check" /\ 2 \in DOMAIN g
  BY <1>2, <1>4, CheckFacts
<1>6. ASSUME NEW c \in ShownCells(Mine(p)) PROVE c \in CacheCells(Refresh) \/ call[p].at > 4
  BY <1>1, <1>5, CheckFacts
<1>7. call[p].at > 2
  BY <1>1, <1>5
<1> QED
  BY <1>1, <1>5, <1>6, <1>7 DEF CheckedInv

\* A driver that looks at valid before it answers never answers with a cell that
\* nothing was read into since it was loaded, whatever fails and whoever else
\* refreshes, writes or clears valid meanwhile.
THEOREM AnswersWereRead == Spec => []ShownWasRead
<1>1. Init => TypeOK /\ FilledInv /\ CheckedInv
  <2> SUFFICES ASSUME Init PROVE TypeOK /\ FilledInv /\ CheckedInv
    OBVIOUS
  <2>1. TypeOK
    BY InitTypeOK
  <2>2. \A p \in Actor : call[p].at = 0 /\ call[p].upd = 0
    BY DEF Init, Idle
  <2>3. ~valid
    BY DEF Init
  <2> QED
    BY <2>1, <2>2, <2>3 DEF FilledInv, CheckedInv, Refreshing
<1>2. TypeOK /\ FilledInv /\ CheckedInv /\ [Next]_vars => (TypeOK /\ FilledInv /\ CheckedInv)'
  BY NextTypeOK, NextFilled, NextChecked
<1>3. TypeOK /\ FilledInv /\ CheckedInv => ShownWasRead
  BY WasRead
<1> QED
  BY <1>1, <1>2, <1>3, PTL DEF Spec

-----------------------------------------------------------------------------
(* The cache and the device.                                                 *)

\* What Excused says of the call of who has the lock.
ExcusedBy(k, c) ==
  \/ k.upd # 0 /\ Comes(Refresh, k.upd, c, Filling)
  \/ k.at # 0 /\ k.upd = 0 /\ k.prog[k.at].do = "clear"
  \/ /\ k.at # 0 /\ k.upd = 0 /\ k.prog[k.at].do = "write"
     /\ k.prog[k.at - 1].do = "put" /\ c \in k.prog[k.at].cells

LEMMA ExcusedIs ==
  ASSUME TypeOK, NEW p \in Actor, NEW c
  PROVE  Excused(p, c) <=> lock = p /\ ExcusedBy(call[p], c)
<1>1. InStore(p, "write") => Step(p) = call[p].prog[call[p].at]
  BY DEF InStore, Step, Code, Place
<1> QED
  BY <1>1 DEF Excused, ExcusedBy, InStore

LEMMA ExcusedNext ==
  ASSUME UNCHANGED fixed, NEW p \in Actor, NEW c, lock' = p, ExcusedBy(call'[p], c)
  PROVE  Excused(p, c)'
<1>1. InStore(p, "write")' => Step(p)' = call'[p].prog[call'[p].at]
  BY DEF InStore, Step, Code, Place
<1> QED
  BY <1>1, FixedSame DEF Excused, ExcusedBy, InStore

\* The refresh begins.
Starts(p) == UpdateDevice(p) /\ ~(valid /\ ~expired)

\* A statement leaves what it is not about as it is.
LEMMA CellStays ==
  ASSUME TypeOK, NEW p \in Actor, Run(p), ~Starts(p), NEW c \in Watched,
         c \notin Step(p).cells \/ Step(p).do \notin {"blank", "read", "fetch", "store", "put", "write"}
  PROVE  cache'[c] = cache[c] /\ chip'[c] = chip[c] /\ (c \in loose => c \in loose')
<1>1. CASE UpdateDevice(p)
  BY <1>1, UpdateIs DEF Starts, UpdateDevice, cacheVars
<1>2. CASE \/ LockMutex(p) \/ UnlockMutex(p) \/ ClearValid(p) \/ DoneRefreshing(p) \/ Whether(p)
           \/ UnlessAllRead(p) \/ CheckValid(p) \/ AnswerShow(p) \/ GetRegister(p)
  BY <1>2 DEF LockMutex, UnlockMutex, ClearValid, DoneRefreshing, Whether, UnlessAllRead, CheckValid,
     AnswerShow, GetRegister, cacheVars
<1>3. CASE ReadAborts(p) \/ GivesUp(p) \/ ReadKeeps(p) \/ GetFails(p) \/ FetchTakesErrno(p)
  BY <1>3, SameTyped DEF ReadAborts, GivesUp, ReadKeeps, GetFails, FetchTakesErrno, cacheVars
<1>4. CASE BlankCells(p) \/ ReadCells(p) \/ FetchCells(p) \/ StoreCells(p) \/ ReadBlanks(p)
  BY <1>4 DEF BlankCells, ReadCells, FetchCells, StoreCells, ReadBlanks, Fails, At, With
<1>5. CASE PutCell(p) \/ WriteRegister(p)
  BY <1>5 DEF PutCell, WriteRegister, At, With, cacheVars
<1> QED
  BY <1>1, <1>2, <1>3, <1>4, <1>5 DEF Run

\* What a refresh does to a cell of the cache.
LEMMA RefreshCell ==
  ASSUME TypeOK, LocalInv, NEW p \in Actor, Run(p), call[p].at # 0, RefreshGoes(p),
         ~ReadAborts(p), ~GivesUp(p), NEW c \in Cached,
         c \in Step(p).cells, Step(p).do \in {"blank", "read", "fetch", "store", "put", "write"}
  PROVE  \/ cache'[c] = chip'[c] \/ c \in loose'
         \/ Comes(Refresh, call'[p].upd, c, Filling)
<1>1. c \in Watched /\ c \in CacheCells(Refresh)
  BY CachedComes
<1>2. /\ call[p].upd \in 1..(Len(Refresh) - 1) /\ Step(p) = Refresh[call[p].upd] /\ call[p].upd # 0
      /\ Len(Refresh) \in Nat
  BY StepFacts, RefreshFacts DEF RefreshGoes
<1>3. Step(p).do \notin {"put", "write"}
  BY <1>2, InProgramStep
<1>4. ASSUME NEW i \in 1..Len(Refresh), Comes(Refresh, i, c, {"store"}) PROVE Comes(Refresh, i, c, Filling)
  BY <1>4 DEF Comes, Filling
<1>5. CASE ReadKeeps(p) \/ ReadBlanks(p) \/ FetchTakesErrno(p) \/ BlankCells(p)
  BY <1>1, <1>5 DEF ReadKeeps, ReadBlanks, FetchTakesErrno, BlankCells
<1>6. CASE ReadCells(p)
  BY <1>1, <1>6 DEF ReadCells, With
<1>7. CASE FetchCells(p)
  <2>1. Step(p).do = "fetch"
    BY <1>7 DEF FetchCells, At
  <2>2. Comes(Refresh, call[p].upd + 1, c, {"store"}) /\ call[p].upd + 1 \in 1..Len(Refresh)
    BY <1>2, <2>1, RefreshFacts DEF FillsAll
  <2>3. Refresh[call[p].upd].skip = 0
    BY <1>2, <2>1, RefreshFacts DEF RefreshForm
  <2>4. call'[p].upd \in Onward(Refresh, call[p].upd + 1)
    BY <1>2, <2>3 DEF RefreshGoes
  <2>5. call'[p].upd \in 1..Len(Refresh) /\ Comes(Refresh, call'[p].upd, c, {"store"})
    BY <1>1, <2>2, <2>4, ComesOnward DEF Duties
  <2> QED
    BY <1>4, <2>5
<1>8. CASE StoreCells(p)
  <2>1. Step(p).do = "store" /\ cache'[c] = local[c] /\ chip' = chip /\ loose' = loose
    BY <1>1, <1>8 DEF StoreCells, At, With
  <2>2. c \in CellsOf(Refresh, {"store"})
    BY <1>2, <2>1, RefreshFacts DEF CellsOf
  <2>3. local[c] = chip[c] \/ c \in loose \/ Comes(Refresh, call[p].upd, c, {"fetch"})
    BY <1>1, <1>2, <2>2 DEF LocalInv, Refreshing
  <2>4. ASSUME Comes(Refresh, call[p].upd, c, {"fetch"}) PROVE Comes(Refresh, call'[p].upd, c, Filling)
    <3> DEFINE n == call'[p].upd
    <3>1. n \in 1..Len(Refresh) /\ Comes(Refresh, n, c, {"fetch"})
      BY <1>1, <2>1, <2>4, ComesYet DEF Duties
    <3>2. PICK j \in n..Len(Refresh) :
            /\ Refresh[j].do = "fetch" /\ c \in Refresh[j].cells
            /\ \A k \in n..(j - 1) : k + Refresh[k].skip < j
      BY <3>1 DEF Comes
    <3> HIDE DEF n
    <3>3. j \in DOMAIN Refresh /\ Refresh[j].skip = 0
      BY <1>2, <3>1, <3>2, RefreshFacts DEF RefreshForm
    <3>4. Comes(Refresh, j + 1, c, {"store"})
      BY <3>2, <3>3, RefreshFacts DEF FillsAll
    <3>5. PICK i \in (j + 1)..Len(Refresh) :
            /\ Refresh[i].do = "store" /\ c \in Refresh[i].cells
            /\ \A k \in (j + 1)..(i - 1) : k + Refresh[k].skip < i
      BY <3>4 DEF Comes
    <3>6. ASSUME NEW k \in n..(i - 1) PROVE k + Refresh[k].skip < i
      <4>1. CASE k < j
        <5>1. k + Refresh[k].skip < j /\ k \in DOMAIN Refresh
          BY <1>2, <3>1, <3>2, <4>1, RefreshFacts
        <5>2. Refresh[k].skip \in Nat
          BY <5>1, RefreshFacts DEF RefreshForm
        <5> QED
          BY <3>1, <3>2, <3>5, <5>1, <5>2
      <4>2. CASE k = j
        BY <3>1, <3>2, <3>3, <3>5, <4>2
      <4>3. CASE k > j
        BY <3>1, <3>2, <3>5, <4>3
      <4> QED
        BY <3>1, <3>2, <4>1, <4>2, <4>3
    <3>7. i \in n..Len(Refresh)
      BY <3>1, <3>2, <3>5
    <3>8. Comes(Refresh, n, c, {"store"})
      BY <3>5, <3>6, <3>7 DEF Comes
    <3> QED
      BY <1>4, <3>1, <3>8 DEF n
  <2> QED
    BY <2>1, <2>3, <2>4
<1> QED
  BY <1>3, <1>5, <1>6, <1>7, <1>8, RunDoes

LEMMA RunLock ==
  ASSUME NEW p \in Actor, Run(p)
  PROVE  lock' = lock \/ UpdateDevice(p) \/ LockMutex(p) \/ UnlockMutex(p)
BY DEF Run, ClearValid, DoneRefreshing, BlankCells, PutCell, ReadCells, FetchCells, StoreCells,
   ReadAborts, ReadKeeps, ReadBlanks, FetchTakesErrno, Whether, UnlessAllRead, GivesUp, CheckValid,
   AnswerShow, GetRegister, GetFails, WriteRegister

\* In update_device.
LEMMA InRefreshGoes ==
  ASSUME TypeOK, NEW p \in Actor, Run(p), call[p].upd # 0, ~UnlockMutex(p)
  PROVE  /\ call[p].at # 0 /\ lock = p /\ lock' = p /\ call[p].upd \in 1..(Len(Refresh) - 1)
         /\ ~ReadAborts(p) /\ ~GivesUp(p) => RefreshGoes(p)
<1>1. call[p].at # 0 /\ Step(p).do # "unlock"
  BY RunIs, RunDoes
<1>2. call[p].upd \in 1..(Len(Refresh) - 1)
  BY <1>1, AheadInRefresh DEF At
<1>3. Step(p).do \notin {"update", "lock", "get"}
  BY <1>1, InProgramStep
<1>4. ~UpdateDevice(p) /\ ~LockMutex(p) /\ ~GetFails(p)
  BY <1>3 DEF UpdateDevice, LockMutex, GetFails, At
<1>5. lock = p
  BY DEF TypeOK, Holding
<1>6. ~ProgramGoes(p) /\ ~Gets(p)
  BY DEF ProgramGoes, Gets
<1> QED
  BY <1>1, <1>2, <1>4, <1>5, <1>6, RunLock, RunIs

\* The rules of the program p is in, about the cells of the cache.
LEMMA CacheRule ==
  ASSUME TypeOK, NEW p \in Actor, call[p].at # 0, call[p].upd = 0
  PROVE  /\ Step(p) = call[p].prog[call[p].at] /\ call[p].at \in DOMAIN call[p].prog
         /\ LeavesCache(Refresh, call[p].prog)
         /\ \A c \in Cached : c \in Step(p).cells => Step(p).do \notin {"blank", "read", "fetch", "store"}
<1>1. Step(p) = call[p].prog[call[p].at] /\ call[p].at \in DOMAIN call[p].prog
  BY StepFacts, ProgramIs
<1>2. LeavesCache(Refresh, call[p].prog)
  BY ProgramIs, FileFacts
<1>3. Step(p).do \notin {"fetch", "store"}
  BY InRefreshStep
<1>4. ASSUME NEW c \in Cached, c \in Step(p).cells, Step(p).do \in {"blank", "read"} PROVE FALSE
  <2>1. c \in CellsOf(call[p].prog, {"blank", "read"})
    BY <1>1, <1>4 DEF CellsOf
  <2> QED
    BY <1>2, <2>1, CachedComes DEF LeavesCache
<1> QED
  BY <1>1, <1>2, <1>3, <1>4

\* What is put in the cache under the lock is written next.
LEMMA PutRule ==
  ASSUME TypeOK, NEW p \in Actor, call[p].at # 0, call[p].upd = 0, Step(p).do = "put",
         NEW c \in Cached, c \in Step(p).cells
  PROVE  LET g == call[p].prog
             i == call[p].at
         IN  /\ Locked(g) /\ i < Len(g) /\ lock = p
             /\ g[i + 1].do = "write" /\ g[i + 1].cells = g[i].cells
             /\ g[i + 1].mask = AllBits /\ g[i + 1].bits = g[i].bits
<1> DEFINE g == call[p].prog
           i == call[p].at
<1>1. Step(p) = g[i] /\ i \in DOMAIN g /\ LeavesCache(Refresh, g) /\ c \in CacheCells(Refresh)
  BY CacheRule, CachedComes
<1>2. g[i].cells \cap CacheCells(Refresh) # {} /\ g[i].do = "put"
  BY <1>1
<1>3. /\ Locked(g) /\ i < Len(g) /\ g[i + 1].do = "write" /\ g[i + 1].cells = g[i].cells
      /\ g[i + 1].mask = AllBits /\ g[i + 1].bits = g[i].bits
  BY <1>1, <1>2 DEF LeavesCache
<1>4. i > 1
  BY <1>2, <1>3, ProgramIs DEF Locked
<1>5. lock = p
  BY <1>3, <1>4 DEF TypeOK, Holding
<1> QED
  BY <1>3, <1>5

\* Under the lock a show or store goes on to the next place.
LEMMA LockedGoes ==
  ASSUME TypeOK, NEW p \in Actor, call[p].at # 0, call[p].upd = 0, Locked(call[p].prog),
         call[p].prog[call[p].at].do # "unlock", Goes(p) \/ GoesAmid(p)
  PROVE  /\ call'[p].at = call[p].at + 1 /\ call'[p].upd = 0 /\ call'[p].prog = call[p].prog
         /\ call'[p].at \in 2..Len(call[p].prog)
<1>1. PICK m \in Onward(call[p].prog, call[p].at + 1) : call'[p] = InProgram(p, m)
  BY StepFacts, AloneIs, AmidIs DEF Goes, GoesTo, GoesAmid, Moved
<1>2. m = call[p].at + 1 /\ m \in 2..Len(call[p].prog)
  BY <1>1, OnwardLocked
<1>3. m \in DOMAIN call[p].prog /\ m \in Nat /\ Idle.at = 0
  BY <1>2, ProgramIs DEF Idle
<1> QED
  BY <1>1, <1>2, <1>3, InProgramIs

\* A cell of the cache agrees with the device, or who has the lock sees to it.
CellFine(p, c) ==
  cache'[c] = chip'[c] \/ c \in loose' \/ (lock' = p /\ ExcusedBy(call'[p], c))

LEMMA PutFine ==
  ASSUME TypeOK, NEW p \in Actor, PutCell(p), NEW c \in Cached, c \in Step(p).cells
  PROVE  CellFine(p, c)
<1>1. call[p].at # 0 /\ Step(p).do = "put" /\ lock' = lock /\ GoesAmid(p)
  BY DEF PutCell, At
<1>2. call[p].upd = 0 /\ Step(p) = call[p].prog[call[p].at]
  BY <1>1, InProgramStep
<1>3. LET g == call[p].prog
          i == call[p].at
      IN  Locked(g) /\ lock = p /\ g[i + 1].do = "write" /\ g[i + 1].cells = g[i].cells
  BY <1>1, <1>2, PutRule
<1>4. call'[p].at = call[p].at + 1 /\ call'[p].upd = 0 /\ call'[p].prog = call[p].prog
  BY <1>1, <1>2, <1>3, LockedGoes
<1>5. call'[p].at # 0 /\ call'[p].at - 1 = call[p].at
  BY <1>1, <1>4, ProgramIs
<1> QED
  BY <1>1, <1>2, <1>3, <1>4, <1>5 DEF CellFine, ExcusedBy

LEMMA WriteFine ==
  ASSUME TypeOK, PutInv, NEW p \in Actor, WriteRegister(p), NEW c \in Cached, c \in Step(p).cells
  PROVE  CellFine(p, c)
<1> DEFINE g == call[p].prog
           i == call[p].at
           s == Step(p)
<1>1. call[p].at # 0 /\ s.do = "write" /\ lock' = lock /\ GoesAmid(p) /\ cache' = cache /\ c \in Watched
  BY CachedComes DEF WriteRegister, At, cacheVars
<1>2. PICK arrives \in BOOLEAN :
        /\ chip'[c] = IF arrives THEN (call[p].got \ s.mask) \cup s.bits ELSE chip[c]
        /\ lock # p \/ ~arrives => c \in loose'
  BY <1>1 DEF WriteRegister
<1>3. call[p].upd = 0 /\ s = g[i]
  BY <1>1, InProgramStep
<1>4. CASE lock # p \/ ~arrives
  BY <1>2, <1>4 DEF CellFine
<1>5. CASE lock = p /\ arrives
  <2>1. Locked(g) /\ i > 1
    BY <1>3, <1>5 DEF TypeOK, Holding
  <2>2. LeavesCache(Refresh, g) /\ i \in DOMAIN g /\ c \in CacheCells(Refresh)
    BY <1>1, <1>3, CacheRule, CachedComes
  <2>3. \/ g[i + 1].do = "clear"
        \/ g[i - 1].do = "put" /\ g[i - 1].cells = g[i].cells
    <3>1. Locked(g) /\ g[i].do = "write" /\ g[i].cells \cap CacheCells(Refresh) # {}
      BY <1>1, <1>3, <2>1, <2>2
    <3> QED
      BY <2>2, <3>1 DEF LeavesCache
  <2>4. CASE g[i + 1].do = "clear"
    <3>1. call'[p].at = i + 1 /\ call'[p].upd = 0 /\ call'[p].prog = g /\ i + 1 # 0
      BY <1>1, <1>3, <2>1, LockedGoes, ProgramIs
    <3> QED
      BY <1>1, <1>5, <2>4, <3>1 DEF CellFine, ExcusedBy
  <2>5. CASE g[i - 1].do = "put" /\ g[i - 1].cells = g[i].cells
    <3>1. i - 1 \in DOMAIN g /\ (i - 1) + 1 = i
      BY <1>1, <2>1, <2>5, ProgramIs
    <3>2. g[i - 1].cells \cap CacheCells(Refresh) # {}
      BY <1>1, <1>3, <2>2, <2>5
    <3>3. g[i].mask = AllBits /\ g[i].bits = g[i - 1].bits
      BY <2>2, <2>5, <3>1, <3>2 DEF LeavesCache
    <3>4. cache[c] = s.bits
      BY <1>1, <1>3, <2>1, <2>5, <3>3 DEF PutInv, InStore
    <3>5. call[p].got \subseteq AllBits
      BY <1>1, CallTyped DEF Calls
    <3>6. chip'[c] = s.bits
      BY <1>2, <1>3, <1>5, <3>3, <3>5
    <3> QED
      BY <1>1, <3>4, <3>6 DEF CellFine
  <2> QED
    BY <2>3, <2>4, <2>5
<1> QED
  BY <1>4, <1>5

\* Valid, or about to become so.
Looked == valid' \/ \E q \in Actor : call'[q].upd \in 1..(Len(Refresh) - 1)

LEMMA ClearFine ==
  ASSUME TypeOK, NEW p \in Actor, ClearValid(p), call[p].upd = 0, lock = p, Run(p)
  PROVE  ~Looked
<1>1. call[p].at # 0 /\ Step(p).do = "clear" /\ valid' = FALSE /\ Goes(p) /\ ~At(p, "unlock")
  BY DEF ClearValid, At
<1>2. OthersKeep(p) /\ (RefreshGoes(p) \/ ProgramGoes(p))
  BY <1>1, GoesIs
<1>3. call'[p].upd = 0
  BY <1>2, RefreshFacts DEF RefreshGoes, ProgramGoes, Idle
<1>4. ASSUME NEW q \in Actor \ {p} PROVE call'[q].upd = 0
  <2>1. call'[q].upd = call[q].upd
    BY <1>2, OthersSame
  <2>2. ~Holding(call[q])
    BY DEF TypeOK
  <2> QED
    BY <2>1, <2>2 DEF Holding
<1> QED
  BY <1>1, <1>3, <1>4, RefreshFacts DEF Looked

LEMMA RunCell ==
  ASSUME TypeOK, LocalInv, PutInv, NEW p \in Actor, Run(p), ~Starts(p), Looked,
         NEW c \in Cached, Agrees(c) \/ Excused(p, c)
  PROVE  CellFine(p, c)
<1> DEFINE touches == c \in Step(p).cells /\ Step(p).do \in {"blank", "read", "fetch", "store", "put", "write"}
<1>1. c \in Watched /\ call[p].at # 0
  BY CachedComes, RunIs
<1>2. ~touches /\ Agrees(c) => CellFine(p, c)
  BY <1>1, CellStays DEF Agrees, CellFine
<1>3. Excused(p, c) <=> lock = p /\ ExcusedBy(call[p], c)
  BY ExcusedIs
<1>4. CASE call[p].upd # 0 /\ ~UnlockMutex(p)
  <2>1. /\ lock' = p /\ call[p].upd \in 1..(Len(Refresh) - 1)
        /\ ~ReadAborts(p) /\ ~GivesUp(p) => RefreshGoes(p)
    BY <1>4, InRefreshGoes
  <2>2. CASE ReadAborts(p) \/ GivesUp(p)
    BY <1>1, <2>2, AbortsHere DEF CellFine
  <2>3. CASE ~ReadAborts(p) /\ ~GivesUp(p) /\ touches
    <3>1. \/ cache'[c] = chip'[c] \/ c \in loose'
          \/ Comes(Refresh, call'[p].upd, c, Filling)
      BY <1>1, <2>1, <2>3, RefreshCell
    <3>2. Comes(Refresh, call'[p].upd, c, Filling) => call'[p].upd # 0
      BY <2>1, <2>3, OnwardInRefresh, RefreshFacts DEF RefreshGoes
    <3> QED
      BY <2>1, <3>1, <3>2 DEF CellFine, ExcusedBy
  <2>4. CASE ~ReadAborts(p) /\ ~GivesUp(p) /\ ~touches /\ ~Agrees(c)
    <3>1. Comes(Refresh, call[p].upd, c, Filling)
      BY <1>3, <1>4, <2>4 DEF ExcusedBy
    <3>2. ~(Step(p).do \in Filling /\ c \in Step(p).cells)
      BY <2>4 DEF Filling
    <3>3. call'[p].upd \in 1..Len(Refresh) /\ Comes(Refresh, call'[p].upd, c, Filling)
      BY <1>1, <2>1, <2>4, <3>1, <3>2, ComesYet DEF Filling, Duties
    <3> QED
      BY <2>1, <3>3, RefreshFacts DEF CellFine, ExcusedBy
  <2> QED
    BY <1>2, <2>2, <2>3, <2>4
<1>5. CASE UnlockMutex(p)
  <2>1. Step(p).do = "unlock"
    BY <1>5 DEF UnlockMutex, At
  <2>2. ~Excused(p, c)
    <3>1. CASE call[p].upd # 0
      <4>1. call[p].upd = Len(Refresh) /\ call[p].upd \in 1..Len(Refresh)
        BY <1>5, <3>1, UnlockIs, RefreshFacts
      <4>2. ~Comes(Refresh, call[p].upd, c, Filling)
        BY <4>1, NothingAtEnd, RefreshFacts DEF Filling, Duties
      <4> QED
        BY <1>3, <3>1, <4>2 DEF ExcusedBy
    <3>2. CASE call[p].upd = 0
      <4>1. call[p].prog[call[p].at].do = "unlock"
        BY <1>1, <2>1, <3>2, StepFacts
      <4> QED
        BY <1>3, <3>2, <4>1 DEF ExcusedBy
    <3> QED
      BY <3>1, <3>2
  <2> QED
    BY <1>2, <2>1, <2>2
<1>6. CASE call[p].upd = 0 /\ ~UnlockMutex(p)
  <2>1. Step(p) = call[p].prog[call[p].at] /\ (c \in Step(p).cells => Step(p).do \notin {"blank", "read", "fetch", "store"})
    BY <1>1, <1>6, CacheRule
  <2>2. CASE c \in Step(p).cells /\ Step(p).do = "put"
    BY <2>2, RunDoes, PutFine
  <2>3. CASE c \in Step(p).cells /\ Step(p).do = "write"
    BY <2>3, RunDoes, WriteFine
  <2>4. CASE ~touches /\ ~Agrees(c)
    <3>1. lock = p /\ Step(p).do = "clear"
      BY <1>3, <1>6, <2>1, <2>4 DEF ExcusedBy
    <3> QED
      BY <1>6, <3>1, RunDoes, ClearFine
  <2> QED
    BY <1>2, <2>1, <2>2, <2>3, <2>4
<1> QED
  BY <1>4, <1>5, <1>6

\* A refresh that begins has every cell of the cache still to fill.
LEMMA StartFine ==
  ASSUME TypeOK, NEW p \in Actor, Starts(p), NEW c \in Cached
  PROVE  lock' = p /\ ExcusedBy(call'[p], c)
<1>1. lock' = p /\ call'[p].upd \in Onward(Refresh, 1)
  BY UpdateIs DEF Starts, UpdateDevice
<1>2. c \in Watched /\ Comes(Refresh, 1, c, Filling) /\ 1 \in 1..Len(Refresh)
  BY CachedComes, RefreshFacts
<1>3. call'[p].upd \in 1..Len(Refresh) /\ Comes(Refresh, call'[p].upd, c, Filling)
  BY <1>1, <1>2, ComesOnward DEF Filling, Duties
<1> QED
  BY <1>1, <1>3, RefreshFacts DEF ExcusedBy

\* Who is in a refresh that has not just begun was in it before.
LEMMA RefreshingBefore ==
  ASSUME TypeOK, NEW p \in Actor, Run(p), ~Starts(p), NEW q \in Actor,
         call'[q].upd \in 1..(Len(Refresh) - 1)
  PROVE  Refreshing(q)
<1>1. CASE q # p
  BY <1>1, RunIs, OthersSame DEF Refreshing
<1>2. CASE q = p
  <2>1. Idle.upd = 0 /\ Len(Refresh) \in Nat /\ call'[p].upd # 0 /\ call'[p].upd # Len(Refresh)
    BY <1>2, RefreshFacts DEF Idle
  <2>2. ~UpdateDevice(p)
    BY <2>1, UpdateIs DEF Starts
  <2>3. ~UnlockMutex(p) /\ ~ProgramGoes(p) /\ ~Gets(p) /\ ~Aborts(p)
    BY <2>1, UnlockIs DEF ProgramGoes, Gets, Aborts
  <2> QED
    BY <1>2, <2>2, <2>3, RunIs DEF RefreshGoes, Refreshing
<1> QED
  BY <1>1, <1>2

LEMMA LookedBefore ==
  ASSUME TypeOK, NEW p \in Actor, Run(p), ~Starts(p), Looked
  PROVE  valid \/ \E q \in Actor : Refreshing(q)
<1>1. CASE valid'
  <2>1. valid \/ DoneRefreshing(p)
    BY <1>1 DEF Run, UpdateDevice, LockMutex, UnlockMutex, ClearValid, BlankCells,
       PutCell, ReadCells, FetchCells, StoreCells, ReadAborts, ReadKeeps, ReadBlanks, FetchTakesErrno,
       Whether, UnlessAllRead, GivesUp, CheckValid, AnswerShow, GetRegister, GetFails, WriteRegister,
       cacheVars
  <2>2. DoneRefreshing(p) => Refreshing(p)
    BY InRefreshStep DEF DoneRefreshing, At, Refreshing
  <2> QED
    BY <2>1, <2>2
<1> QED
  BY <1>1, RefreshingBefore DEF Looked

LEMMA CacheNext ==
  ASSUME TypeOK, UNCHANGED fixed,
         Looked => \A c \in Cached : cache'[c] = chip'[c] \/ c \in loose'
                                     \/ \E p \in Actor : lock' = p /\ ExcusedBy(call'[p], c)
  PROVE  CacheInv'
<1>1. (valid \/ \E p \in Actor : Refreshing(p))' => Looked
  BY FixedSame DEF Looked, Refreshing
<1>2. ASSUME NEW c \in Cached, NEW p \in Actor, lock' = p /\ ExcusedBy(call'[p], c)
      PROVE  Excused(p, c)'
  BY <1>2, ExcusedNext
<1> QED
  BY <1>1, <1>2, FixedSame DEF CacheInv, Agrees

LEMMA NextCache ==
  ASSUME TypeOK, CacheInv, LocalInv, PutInv, [Next]_vars
  PROVE  CacheInv'
<1>1. ASSUME NEW p \in Actor, Run(p) PROVE CacheInv'
  <2>1. UNCHANGED fixed /\ OthersKeep(p)
    BY <1>1, RunIs
  <2>2. CASE Starts(p)
    BY <2>1, <2>2, StartFine, CacheNext
  <2>3. CASE ~Starts(p)
    <3>1. ASSUME Looked, NEW c \in Cached
          PROVE  cache'[c] = chip'[c] \/ c \in loose'
                 \/ \E q \in Actor : lock' = q /\ ExcusedBy(call'[q], c)
      <4>1. Agrees(c) \/ \E q \in Actor : Excused(q, c)
        BY <1>1, <2>3, <3>1, LookedBefore DEF CacheInv
      <4>2. CASE Agrees(c) \/ Excused(p, c)
        BY <1>1, <2>3, <3>1, <4>2, RunCell DEF CellFine
      <4>3. ASSUME NEW q \in Actor \ {p}, Excused(q, c)
            PROVE  lock' = q /\ ExcusedBy(call'[q], c)
        <5>1. lock = q /\ ExcusedBy(call[q], c)
          BY <4>3, ExcusedIs
        <5>2. lock' = lock
          BY <1>1, <5>1, NoneAssumption, RunLock, UnlockIs DEF UpdateDevice, LockMutex
        <5>3. call'[q].prog = call[q].prog /\ call'[q].at = call[q].at /\ call'[q].upd = call[q].upd
          BY <2>1, OthersSame
        <5> QED
          BY <5>1, <5>2, <5>3 DEF ExcusedBy
      <4> QED
        BY <4>1, <4>2, <4>3
    <3> QED
      BY <2>1, <3>1, CacheNext
  <2> QED
    BY <2>2, <2>3
<1>2. ASSUME UNCHANGED <<fixed, cache, valid, lock>>,
             \A q \in Actor : /\ lock = q => call'[q] = call[q]
                              /\ call'[q].upd = call[q].upd,
             \A c \in Watched : (chip'[c] = chip[c] \/ c \in loose') /\ (c \in loose => c \in loose')
      PROVE  CacheInv'
  <2>1. ASSUME Looked, NEW c \in Cached
        PROVE  cache'[c] = chip'[c] \/ c \in loose'
               \/ \E q \in Actor : lock' = q /\ ExcusedBy(call'[q], c)
    <3>1. valid \/ \E q \in Actor : Refreshing(q)
      BY <1>2, <2>1 DEF Looked, Refreshing
    <3>2. Agrees(c) \/ \E q \in Actor : lock = q /\ ExcusedBy(call[q], c)
      BY <3>1, ExcusedIs DEF CacheInv
    <3>3. c \in Watched
      BY CachedComes
    <3> QED
      BY <1>2, <3>2, <3>3 DEF Agrees
  <2> QED
    BY <1>2, <2>1, CacheNext
<1>3. ASSUME NEW p \in Actor, Show(p) \/ StoreValue(p) PROVE CacheInv'
  <2>1. call[p].upd = 0
    BY <1>3, StartIs, IdleOrBusy DEF Idle
  <2> QED
    BY <1>2, <1>3, <2>1, StartIs DEF cacheVars
<1>4. CASE DeviceChanges
  <2>1. UNCHANGED <<fixed, cache, valid, lock, call>>
    BY <1>4 DEF DeviceChanges, cacheVars
  <2>2. \A c \in Watched : (chip'[c] = chip[c] \/ c \in loose') /\ (c \in loose => c \in loose')
    BY <1>4, SameTyped DEF DeviceChanges
  <2> QED
    BY <1>2, <2>1, <2>2
<1>5. CASE Expire \/ UNCHANGED vars
  BY <1>2, <1>5 DEF Expire, vars, fixed, cacheVars
<1> QED
  BY <1>1, <1>3, <1>4, <1>5 DEF Next

-----------------------------------------------------------------------------
(* What the refresh has fetched.                                             *)

LEMMA FetchedFirst ==
  ASSUME TypeOK, NEW c \in Watched \cap CellsOf(Refresh, {"store"})
  PROVE  /\ c \in Watched /\ c \in Cached /\ c \notin CellsOf(Refresh, {"read"})
         /\ Comes(Refresh, 1, c, {"fetch"})
<1>1. CellsOf(Refresh, {"store"}) \subseteq CellsOf(Refresh, {"read", "store"})
  BY DEF CellsOf
<1> QED
  BY <1>1, RefreshFacts DEF FillsAll, Cached

\* Variables of the refresh are changed by it alone.
LEMMA LocalStays ==
  ASSUME TypeOK, NEW p \in Actor, Run(p), ~UnlockMutex(p), NEW c \in Watched,
         c \notin Step(p).cells \/ Step(p).do \notin {"read", "fetch"}
  PROVE  local'[c] = local[c]
<1>1. CASE FetchCells(p) \/ FetchTakesErrno(p)
  BY <1>1 DEF FetchCells, FetchTakesErrno, Fails, At
<1>2. CASE ~FetchCells(p) /\ ~FetchTakesErrno(p)
  <2>1. local' = local
    BY <1>2 DEF Run, UpdateDevice, LockMutex, ClearValid, DoneRefreshing, BlankCells, PutCell,
       ReadCells, StoreCells, ReadAborts, ReadKeeps, ReadBlanks, Whether, UnlessAllRead, GivesUp,
       CheckValid, AnswerShow, GetRegister, GetFails, WriteRegister, cacheVars
  <2> QED
    BY <2>1
<1> QED
  BY <1>1, <1>2

LocalFine(q, c) ==
  local'[c] = chip'[c] \/ c \in loose' \/ Comes(Refresh, call'[q].upd, c, {"fetch"})

LEMMA OwnLocal ==
  ASSUME TypeOK, LocalInv, NEW p \in Actor, Run(p), call'[p].upd \in 1..(Len(Refresh) - 1),
         NEW c \in Watched \cap CellsOf(Refresh, {"store"})
  PROVE  LocalFine(p, c)
<1>1. /\ c \in Watched /\ c \in Cached /\ c \notin CellsOf(Refresh, {"read"})
      /\ Comes(Refresh, 1, c, {"fetch"}) /\ Len(Refresh) \in Nat
  BY FetchedFirst, RefreshFacts
<1>2. CASE call[p].upd = 0
  <2>1. call'[p].upd # 0 /\ call'[p].upd # Len(Refresh) /\ Idle.upd = 0
    BY <1>1 DEF Idle
  <2>2. UpdateDevice(p)
    BY <1>2, <2>1, RunIs, UnlockIs, RefreshFacts DEF RefreshGoes, ProgramGoes, Aborts, Gets
  <2>3. call'[p].upd \in Onward(Refresh, 1) /\ 1 \in 1..Len(Refresh)
    BY <2>1, <2>2, UpdateIs, RefreshFacts
  <2>4. Comes(Refresh, call'[p].upd, c, {"fetch"})
    BY <1>1, <2>3, ComesOnward DEF Duties
  <2> QED
    BY <2>4 DEF LocalFine
<1>3. CASE call[p].upd # 0
  <2>1. ~UnlockMutex(p)
    BY <1>1, <1>3, UnlockIs DEF Idle
  <2>2. /\ call[p].at # 0 /\ call[p].upd \in 1..(Len(Refresh) - 1)
        /\ ~ReadAborts(p) /\ ~GivesUp(p) => RefreshGoes(p)
    BY <1>3, <2>1, InRefreshGoes
  <2>3. CASE ReadAborts(p) \/ GivesUp(p)
    BY <1>1, <2>3, AbortsHere DEF LocalFine
  <2>4. CASE RefreshGoes(p) /\ ~ReadAborts(p) /\ ~GivesUp(p)
    <3>1. Step(p) = Refresh[call[p].upd] /\ call[p].upd \in DOMAIN Refresh
      BY <1>3, <2>2, StepFacts, RefreshFacts
    <3>2. CASE c \in Step(p).cells /\ Step(p).do = "fetch"
      <4>1. FetchCells(p) \/ ReadKeeps(p) \/ ReadBlanks(p) \/ FetchTakesErrno(p)
        BY <2>4, <3>2, RunDoes
      <4> QED
        BY <1>1, <3>2, <4>1 DEF FetchCells, ReadKeeps, ReadBlanks, FetchTakesErrno, LocalFine
    <3>3. CASE ~(c \in Step(p).cells /\ Step(p).do = "fetch")
      <4>1. ~(c \in Step(p).cells /\ Step(p).do = "read")
        BY <1>1, <3>1 DEF CellsOf
      <4>2. local'[c] = local[c]
        BY <1>1, <2>1, <3>3, <4>1, LocalStays
      <4>3. Step(p).do \notin {"put", "write"}
        BY <1>3, <2>2, InProgramStep
      <4>4. chip'[c] = chip[c] /\ (c \in loose => c \in loose')
        <5>1. CASE Step(p).do \in {"blank", "store"}
          <6>1. BlankCells(p) \/ StoreCells(p)
            BY <5>1, RunDoes
          <6> QED
            BY <6>1 DEF BlankCells, StoreCells
        <5>2. CASE Step(p).do \notin {"blank", "store"}
          <6>1. ~Starts(p)
            BY <1>3, UpdateIs DEF Starts
          <6>2. c \notin Step(p).cells \/ Step(p).do \notin {"blank", "read", "fetch", "store", "put", "write"}
            BY <3>3, <4>1, <4>3, <5>2
          <6> QED
            BY <1>1, <6>1, <6>2, CellStays
        <5> QED
          BY <5>1, <5>2
      <4>5. local[c] = chip[c] \/ c \in loose \/ Comes(Refresh, call[p].upd, c, {"fetch"})
        BY <2>2 DEF LocalInv, Refreshing
      <4>6. ASSUME Comes(Refresh, call[p].upd, c, {"fetch"})
            PROVE  Comes(Refresh, call'[p].upd, c, {"fetch"})
        BY <1>1, <2>2, <2>4, <3>3, <4>6, ComesYet DEF Duties
      <4> QED
        BY <4>2, <4>4, <4>5, <4>6 DEF LocalFine
    <3> QED
      BY <3>2, <3>3
  <2> QED
    BY <2>2, <2>3, <2>4
<1> QED
  BY <1>2, <1>3

\* Beside who has the lock, cells of the cache are written at most, which leaves
\* them loose.
LEMMA Beside ==
  ASSUME TypeOK, NEW p \in Actor, Run(p), NEW q \in Actor \ {p}, lock = q, NEW c \in Cached
  PROVE  /\ call[p].upd = 0 /\ ~UnlockMutex(p) /\ ~UpdateDevice(p) /\ ~LockMutex(p)
         /\ chip'[c] = chip[c] \/ c \in loose'
         /\ c \in loose => c \in loose'
         /\ cache'[c] = cache[c] /\ local'[c] = local[c]
<1>1. c \in Watched /\ call[p].at # 0
  BY CachedComes, RunIs
<1>2. ~Holding(call[p]) /\ lock # NoOne /\ lock # p
  BY NoneAssumption DEF TypeOK
<1>3. call[p].upd = 0
  BY <1>2 DEF Holding
<1>4. ~UnlockMutex(p) /\ ~UpdateDevice(p) /\ ~LockMutex(p)
  BY <1>2, UnlockIs DEF UpdateDevice, LockMutex
<1>5. c \in Step(p).cells => Step(p).do \notin {"blank", "read", "fetch", "store"}
  BY <1>1, <1>3, CacheRule
<1>6. local'[c] = local[c]
  BY <1>1, <1>4, <1>5, LocalStays
<1>7. CASE c \in Step(p).cells /\ Step(p).do = "write"
  <2>1. WriteRegister(p)
    BY <1>7, RunDoes
  <2>2. cache' = cache /\ c \in loose'
    BY <1>1, <1>2, <1>7, <2>1 DEF WriteRegister, cacheVars
  <2> QED
    BY <1>3, <1>4, <1>6, <2>2
<1>8. CASE ~(c \in Step(p).cells /\ Step(p).do = "write")
  <2>1. ~(c \in Step(p).cells /\ Step(p).do = "put")
    BY <1>1, <1>2, <1>3, PutRule
  <2>2. ~Starts(p)
    BY <1>4 DEF Starts
  <2>3. c \notin Step(p).cells \/ Step(p).do \notin {"blank", "read", "fetch", "store", "put", "write"}
    BY <1>5, <1>8, <2>1
  <2>4. cache'[c] = cache[c] /\ chip'[c] = chip[c] /\ (c \in loose => c \in loose')
    BY <1>1, <2>2, <2>3, CellStays
  <2> QED
    BY <1>3, <1>4, <1>6, <2>4
<1> QED
  BY <1>7, <1>8

\* What the device does of its own leaves its cell loose.
LEMMA ChangeLoosens ==
  ASSUME TypeOK, DeviceChanges, NEW c \in Watched
  PROVE  /\ chip'[c] = chip[c] \/ c \in loose'
         /\ c \in loose => c \in loose'
BY SameTyped DEF DeviceChanges

LEMMA NextLocal ==
  ASSUME TypeOK, LocalInv, [Next]_vars
  PROVE  LocalInv'
<1>1. ASSUME UNCHANGED fixed,
             \A q \in Actor : call'[q].upd \in 1..(Len(Refresh) - 1) =>
               \A c \in Watched \cap CellsOf(Refresh, {"store"}) : LocalFine(q, c)
      PROVE  LocalInv'
  BY <1>1, FixedSame DEF LocalInv, LocalFine, Refreshing
<1>2. ASSUME NEW p \in Actor, Run(p) PROVE LocalInv'
  <2>1. UNCHANGED fixed /\ OthersKeep(p)
    BY <1>2, RunIs
  <2>2. ASSUME NEW q \in Actor, call'[q].upd \in 1..(Len(Refresh) - 1),
               NEW c \in Watched \cap CellsOf(Refresh, {"store"})
        PROVE  LocalFine(q, c)
    <3>1. CASE q = p
      BY <1>2, <2>2, <3>1, OwnLocal
    <3>2. CASE q # p
      <4>1. call'[q].upd = call[q].upd /\ call[q].upd # 0 /\ Refreshing(q)
        BY <2>1, <2>2, <3>2, OthersSame DEF Refreshing
      <4>2. lock = q
        BY <4>1 DEF TypeOK, Holding
      <4>3. c \in Cached
        BY FetchedFirst
      <4>4. /\ chip'[c] = chip[c] \/ c \in loose'
            /\ c \in loose => c \in loose'
            /\ local'[c] = local[c]
        BY <1>2, <3>2, <4>2, <4>3, Beside
      <4> QED
        BY <4>1, <4>4 DEF LocalInv, LocalFine
    <3> QED
      BY <3>1, <3>2
  <2> QED
    BY <1>1, <2>1, <2>2
<1>3. ASSUME UNCHANGED <<fixed, local>>, \A q \in Actor : call'[q].upd = call[q].upd,
             \A c \in Watched : (chip'[c] = chip[c] \/ c \in loose') /\ (c \in loose => c \in loose')
      PROVE  LocalInv'
  <2>1. ASSUME NEW q \in Actor, call'[q].upd \in 1..(Len(Refresh) - 1),
               NEW c \in Watched \cap CellsOf(Refresh, {"store"})
        PROVE  LocalFine(q, c)
    BY <1>3, <2>1 DEF LocalInv, LocalFine, Refreshing
  <2> QED
    BY <1>1, <1>3, <2>1
<1>4. ASSUME NEW p \in Actor, Show(p) \/ StoreValue(p) PROVE LocalInv'
  <2>1. call[p].upd = 0
    BY <1>4, StartIs, IdleOrBusy DEF Idle
  <2>2. \A q \in Actor : call'[q].upd = call[q].upd
    BY <1>4, <2>1, StartIs
  <2> QED
    BY <1>3, <1>4, <2>2, StartIs DEF cacheVars
<1>5. CASE DeviceChanges
  BY <1>3, <1>5, ChangeLoosens DEF DeviceChanges, cacheVars
<1>6. CASE Expire \/ UNCHANGED vars
  BY <1>3, <1>6 DEF Expire, vars, fixed, cacheVars
<1> QED
  BY <1>2, <1>4, <1>5, <1>6 DEF Next

-----------------------------------------------------------------------------
(* What is put in the cache to be written next.                              *)

PutIn(k, values) ==
  k.at # 0 /\ k.upd = 0 /\ k.prog[k.at].do = "write" /\ Locked(k.prog) /\ k.prog[k.at - 1].do = "put"
    => \A c \in k.prog[k.at - 1].cells \cap Cached : values[c] = k.prog[k.at - 1].bits

LEMMA OwnPut ==
  ASSUME TypeOK, NEW p \in Actor, Run(p)
  PROVE  PutIn(call'[p], cache')
<1> DEFINE g == call'[p].prog
           i == call'[p].at
<1>1. SUFFICES ASSUME i # 0, call'[p].upd = 0, g[i].do = "write", Locked(g), g[i - 1].do = "put",
                      NEW c \in g[i - 1].cells \cap Cached
               PROVE  cache'[c] = g[i - 1].bits
  BY DEF PutIn
<1>2. /\ call[p].at # 0 /\ call[p].upd = 0 /\ SameCall(call[p], call'[p]) /\ i = call[p].at + 1
      /\ Step(p) = call[p].prog[call[p].at]
  BY <1>1, CameFrom
<1>3. g = call[p].prog /\ i - 1 = call[p].at
  BY <1>2, ProgramIs DEF SameCall
<1>4. Step(p) = g[i - 1] /\ c \in Watched
  BY <1>2, <1>3, CachedComes
<1>5. PutCell(p)
  BY <1>1, <1>4, RunDoes
<1>6. cache'[c] = Step(p).bits
  BY <1>1, <1>4, <1>5 DEF PutCell, With
<1> QED
  BY <1>4, <1>6

LEMMA PutInvNext ==
  ASSUME UNCHANGED fixed, \A q \in Actor : PutIn(call'[q], cache')
  PROVE  PutInv'
BY FixedSame DEF PutInv, PutIn, InStore

LEMMA PutInLock ==
  ASSUME TypeOK, NEW q \in Actor, call[q].at # 0, call[q].upd = 0,
         call[q].prog[call[q].at].do = "write", Locked(call[q].prog)
  PROVE  lock = q
<1>1. call[q].at > 1
  BY ProgramIs DEF Locked
<1> QED
  BY <1>1 DEF TypeOK, Holding

LEMMA NextPut ==
  ASSUME TypeOK, PutInv, [Next]_vars
  PROVE  PutInv'
<1>1. ASSUME NEW q \in Actor PROVE PutIn(call[q], cache)
  BY DEF PutInv, PutIn, InStore
<1>2. ASSUME NEW p \in Actor, Run(p) PROVE PutInv'
  <2>1. UNCHANGED fixed /\ OthersKeep(p)
    BY <1>2, RunIs
  <2>2. ASSUME NEW q \in Actor \ {p} PROVE PutIn(call'[q], cache')
    <3>1. call'[q].prog = call[q].prog /\ call'[q].at = call[q].at /\ call'[q].upd = call[q].upd
      BY <2>1, OthersSame
    <3>2. SUFFICES ASSUME call[q].at # 0, call[q].upd = 0, call[q].prog[call[q].at].do = "write",
                          Locked(call[q].prog), call[q].prog[call[q].at - 1].do = "put",
                          NEW c \in call[q].prog[call[q].at - 1].cells \cap Cached
                   PROVE  cache'[c] = call[q].prog[call[q].at - 1].bits
      BY <3>1 DEF PutIn
    <3>3. cache[c] = call[q].prog[call[q].at - 1].bits
      BY <1>1, <3>2 DEF PutIn
    <3>4. cache'[c] = cache[c]
      BY <1>2, <3>2, PutInLock, Beside
    <3> QED
      BY <3>3, <3>4
  <2> QED
    BY <1>2, <2>1, <2>2, OwnPut, PutInvNext
<1>3. ASSUME NEW p \in Actor, Show(p) \/ StoreValue(p) PROVE PutInv'
  <2>1. call'[p].at = 1 /\ UNCHANGED <<fixed, cache>> /\ \A q \in Actor \ {p} : call'[q] = call[q]
    BY <1>3, StartIs DEF cacheVars
  <2>2. PutIn(call'[p], cache')
    BY <2>1 DEF PutIn, Locked
  <2> QED
    BY <1>1, <2>1, <2>2, PutInvNext
<1>4. CASE DeviceChanges \/ Expire \/ UNCHANGED vars
  <2>1. UNCHANGED <<fixed, cache, call>>
    BY <1>4 DEF DeviceChanges, Expire, vars, fixed, cacheVars
  <2> QED
    BY <1>1, <2>1, PutInvNext
<1> QED
  BY <1>2, <1>3, <1>4 DEF Next

-----------------------------------------------------------------------------
(* A valid cache is current.                                                 *)

LEMMA InitCache == Init => CacheInv /\ LocalInv /\ PutInv
<1> SUFFICES ASSUME Init PROVE CacheInv /\ LocalInv /\ PutInv
  OBVIOUS
<1>1. ~valid /\ \A p \in Actor : call[p].at = 0 /\ call[p].upd = 0
  BY DEF Init, Idle
<1>2. \A p \in Actor : ~Refreshing(p)
  BY <1>1 DEF Refreshing
<1> QED
  BY <1>1, <1>2 DEF CacheInv, LocalInv, PutInv, InStore

\* While no one is in the lock, a cache that is marked valid has what the device
\* has, but for cells that changed or were written beside the lock since: whatever
\* processes do between led_set, update_device and the duty cycles.
THEOREM ValidStaysCurrent == Spec => []ValidIsCurrent
<1> DEFINE I == TypeOK /\ CacheInv /\ LocalInv /\ PutInv
<1>1. Init => I
  BY InitTypeOK, InitCache
<1>2. I /\ [Next]_vars => I'
  BY NextTypeOK, NextCache, NextLocal, NextPut
<1>3. I => ValidIsCurrent
  <2> SUFFICES ASSUME I, valid, lock = NoOne, NEW c \in Cached \ loose
               PROVE  cache[c] = chip[c]
    BY DEF ValidIsCurrent
  <2>1. \A p \in Actor : ~Excused(p, c)
    BY NoneAssumption DEF Excused
  <2> QED
    BY <2>1 DEF CacheInv, Agrees
<1> HIDE DEF I
<1> QED
  BY <1>1, <1>2, <1>3, PTL DEF Spec

-----------------------------------------------------------------------------
(* A show that nothing happens beside.                                       *)

\* Outside the lock cells of the cache are written at most.
LEMMA Outside ==
  ASSUME TypeOK, NEW p \in Actor, Run(p), call[p].upd = 0, lock # p, ~Starts(p), NEW c \in Cached
  PROVE  /\ chip'[c] = chip[c] \/ c \in loose'
         /\ c \in loose => c \in loose'
         /\ cache'[c] = cache[c]
<1>1. c \in Watched /\ call[p].at # 0
  BY CachedComes, RunIs
<1>2. c \in Step(p).cells => Step(p).do \notin {"blank", "read", "fetch", "store"}
  BY <1>1, CacheRule
<1>3. CASE c \in Step(p).cells /\ Step(p).do = "write"
  <2>1. WriteRegister(p)
    BY <1>3, RunDoes
  <2> QED
    BY <1>1, <1>3, <2>1 DEF WriteRegister, cacheVars
<1>4. CASE ~(c \in Step(p).cells /\ Step(p).do = "write")
  <2>1. ~(c \in Step(p).cells /\ Step(p).do = "put")
    BY <1>1, PutRule
  <2>2. c \notin Step(p).cells \/ Step(p).do \notin {"blank", "read", "fetch", "store", "put", "write"}
    BY <1>2, <1>4, <2>1
  <2> QED
    BY <1>1, <2>2, CellStays
<1> QED
  BY <1>3, <1>4

Sure(k) == k.sure /\ k.prog[1].do = "update" /\ (k.at > 1 \/ k.upd = Len(Refresh))
AllAgree == (\A c \in Cached : Agrees(c)) /\ \A q \in Actor : ~Refreshing(q)

\* The same of the next state.
AgreesNext(c) == cache'[c] = chip'[c] \/ c \in loose'
AllAgreeNext ==
  /\ \A c \in Cached : AgreesNext(c)
  /\ \A q \in Actor : call'[q].upd \notin 1..(Len(Refresh) - 1)

LEMMA SureInvNext ==
  ASSUME UNCHANGED fixed, \A p \in Actor : Sure(call'[p]) => AllAgreeNext
  PROVE  SureInv'
BY FixedSame DEF SureInv, Sure, AllAgreeNext, AgreesNext, Agrees, Refreshing

\* A call that is sure after a step was so before, or begins.
LEMMA SureBefore ==
  ASSUME TypeOK, NEW p \in Actor, Run(p), call'[p].sure
  PROVE  SameCall(call[p], call'[p])
<1>1. Idle.sure = FALSE
  BY DEF Idle
<1> QED
  BY <1>1, RunIs, UpdateIs, UnlockIs DEF RefreshGoes, ProgramGoes, Aborts, Gets

\* update_device comes to its end by itself through done alone.
LEMMA DoneLast ==
  ASSUME TypeOK, NEW p \in Actor, call[p].at # 0, RefreshGoes(p), call'[p].upd = Len(Refresh)
  PROVE  Step(p).do = "done" /\ call[p].upd = Len(Refresh) - 1
<1> DEFINE i == call[p].upd
           n == Len(Refresh)
<1>1. i \in 1..(n - 1) /\ n \in Nat /\ DOMAIN Refresh = 1..n /\ Step(p) = Refresh[i] /\ RefreshForm(Refresh)
  BY StepFacts, RefreshFacts DEF RefreshGoes
<1>2. SUFFICES ASSUME Step(p).do # "done" PROVE FALSE
  BY <1>1 DEF RefreshForm
<1>3. Refresh[i].do # "unlock" /\ Refresh[i].skip \in Nat
  BY <1>1 DEF RefreshForm
<1>4. i + Refresh[i].skip < n - 1
  BY <1>1, <1>2, <1>3 DEF RefreshForm
<1>5. PICK m \in {i + 1, i + Step(p).skip + 1} : m \in 1..n /\ n \in Onward(Refresh, m)
  BY DEF RefreshGoes
<1>6. m <= n - 1
  BY <1>1, <1>3, <1>4, <1>5
<1>7. PassedOver(Refresh[n - 1])
  BY <1>1, <1>5, <1>6 DEF Onward
<1>8. Refresh[n - 1].do = "done"
  BY <1>1 DEF RefreshForm
<1> QED
  BY <1>7, <1>8 DEF PassedOver

LEMMA OwnSure ==
  ASSUME TypeOK, CacheInv, SureInv, NEW p \in Actor, Run(p), Sure(call'[p])
  PROVE  AllAgreeNext
<1>1. /\ SameCall(call[p], call'[p]) /\ call[p].sure /\ call[p].prog[1].do = "update"
      /\ ~Locked(call[p].prog) /\ call[p].at # 0 /\ Len(Refresh) \in Nat /\ Len(Refresh) >= 1
      /\ OthersKeep(p) /\ Idle.sure = FALSE
  BY SureBefore, RunIs, RefreshFacts DEF Sure, SameCall, Locked, Idle
<1>2. \A q \in Actor \ {p} : call'[q].upd = call[q].upd
  BY <1>1, OthersSame
<1>3. /\ call[p].at \in 1..Len(call[p].prog) /\ Len(call[p].prog) \in Nat
      /\ \A j \in 1..Len(call[p].prog) : call[p].prog[j].do = "update" => j = 1
      /\ call[p].upd # 0 => call[p].prog[call[p].at].do = "update"
  BY <1>1, CallFacts DEF ProgramForm
<1>4. Sure(call[p]) => \A c \in Cached : Agrees(c)
  BY DEF SureInv, Sure
<1>5. CASE UpdateDevice(p)
  <2>1. \A q \in Actor : call[q].upd = 0
    BY <1>5, NoneAssumption DEF UpdateDevice, TypeOK, Holding
  <2>2. call'[p].at = 1 /\ call'[p].upd = Len(Refresh)
    BY <1>5, UpdateIs DEF Sure
  <2>3. ASSUME NEW c \in Cached PROVE AgreesNext(c)
    <3>1. CASE Starts(p)
      <4>1. Comes(Refresh, Len(Refresh), c, Filling)
        BY <1>1, <2>2, <3>1, StartFine, RefreshFacts DEF ExcusedBy
      <4> QED
        BY <1>1, <4>1, NothingAtEnd DEF Filling, Duties
    <3>2. CASE ~Starts(p)
      <4>1. valid /\ lock = NoOne /\ UNCHANGED <<cache, chip, loose>>
        BY <1>5, <3>2, UpdateIs DEF Starts, UpdateDevice, cacheVars
      <4>2. \A q \in Actor : ~Excused(q, c)
        BY <4>1, NoneAssumption DEF Excused
      <4> QED
        BY <4>1, <4>2 DEF CacheInv, Agrees, AgreesNext
    <3> QED
      BY <3>1, <3>2
  <2> QED
    BY <1>1, <1>2, <2>1, <2>2, <2>3 DEF AllAgreeNext
<1>6. CASE UnlockMutex(p)
  <2>1. call[p].upd = Len(Refresh) /\ call'[p].upd = 0 /\ lock = p
    BY <1>1, <1>3, <1>6, UnlockIs DEF Sure, Locked
  <2>2. \A c \in Cached : Agrees(c)
    BY <1>1, <1>4, <2>1 DEF Sure
  <2>3. UNCHANGED <<cache, chip, loose>>
    BY <1>6 DEF UnlockMutex
  <2>4. \A q \in Actor \ {p} : call[q].upd = 0
    BY <2>1 DEF TypeOK, Holding
  <2> QED
    BY <1>1, <1>2, <2>1, <2>2, <2>3, <2>4 DEF AllAgreeNext, AgreesNext, Agrees
<1>7. CASE call[p].upd # 0 /\ ~UnlockMutex(p)
  <2>1. /\ lock = p /\ call[p].upd \in 1..(Len(Refresh) - 1)
        /\ ~ReadAborts(p) /\ ~GivesUp(p) => RefreshGoes(p)
    BY <1>7, InRefreshGoes
  <2>2. \A q \in Actor \ {p} : call[q].upd = 0
    BY <2>1 DEF TypeOK, Holding
  <2>3. call[p].at = 1
    BY <1>3, <1>7
  <2>4. CASE ReadAborts(p) \/ GivesUp(p)
    <3>1. loose' = Watched /\ call'[p].upd = Len(Refresh)
      BY <1>7, <2>4, AbortsHere DEF Aborts
    <3> QED
      BY <1>1, <1>2, <2>2, <3>1, CachedComes DEF AllAgreeNext, AgreesNext
  <2>5. CASE RefreshGoes(p) /\ ~ReadAborts(p) /\ ~GivesUp(p)
    <3>1. call'[p].upd = Len(Refresh)
      BY <2>3, <2>5 DEF RefreshGoes, Sure
    <3>2. Step(p).do = "done" /\ call[p].upd = Len(Refresh) - 1
      BY <1>1, <2>5, <3>1, DoneLast
    <3>3. DoneRefreshing(p)
      BY <3>2, RunDoes
    <3>4. UNCHANGED <<cache, chip, loose>>
      BY <3>3 DEF DoneRefreshing
    <3>5. ASSUME NEW c \in Cached PROVE Agrees(c)
      <4>1. Agrees(c) \/ \E q \in Actor : Excused(q, c)
        BY <2>1 DEF CacheInv, Refreshing
      <4>2. ASSUME NEW q \in Actor, Excused(q, c) PROVE FALSE
        <5>1. q = p /\ ExcusedBy(call[p], c)
          BY <2>1, <4>2, ExcusedIs
        <5>2. Comes(Refresh, call[p].upd, c, Filling)
          BY <1>7, <5>1 DEF ExcusedBy
        <5> QED
          BY <1>1, <2>1, <3>2, <5>2, NothingAtEnd DEF Filling, Duties
      <4> QED
        BY <4>1, <4>2
    <3> QED
      BY <1>1, <1>2, <2>2, <3>1, <3>4, <3>5 DEF AllAgreeNext, AgreesNext, Agrees
  <2> QED
    BY <2>1, <2>4, <2>5
<1>8. CASE call[p].upd = 0 /\ ~UnlockMutex(p) /\ ~UpdateDevice(p)
  <2>1. Step(p) = call[p].prog[call[p].at]
    BY <1>1, <1>8, StepFacts
  <2>2. Step(p).do # "update"
    BY <1>8, RunDoes
  <2>3. call[p].at > 1
    BY <1>1, <1>3, <2>1, <2>2
  <2>4. \A c \in Cached : Agrees(c)
    BY <1>1, <1>4, <2>3 DEF Sure
  <2>5. lock # p
    BY <1>1, <1>8 DEF TypeOK, Holding
  <2>6. ~Starts(p)
    BY <1>8 DEF Starts
  <2>7. \A c \in Cached : AgreesNext(c)
    BY <1>8, <2>4, <2>5, <2>6, Outside DEF Agrees, AgreesNext
  <2>8. \A q \in Actor : ~Refreshing(q)
    BY <1>1, <2>3 DEF SureInv
  <2> QED
    BY <2>6, <2>7, <2>8, RefreshingBefore DEF AllAgreeNext
<1> QED
  BY <1>5, <1>6, <1>7, <1>8

\* Beside a show that stays sure nothing is written and no refresh begins.
LEMMA SureBeside ==
  ASSUME TypeOK, NEW p \in Actor, Run(p), NEW q \in Actor \ {p}, call'[q].sure
  PROVE  ~Starts(p) /\ Step(p).do \notin {"put", "write"} /\ call[q].sure
<1>1. call[q].sure
  BY RunIs, OthersSame
<1>2. ~Starts(p)
  <2>1. SUFFICES ASSUME Starts(p) PROVE FALSE
    OBVIOUS
  <2>2. call'[q] = [call[q] EXCEPT !.sure = FALSE]
    BY <2>1, UpdateIs DEF Starts
  <2> QED
    BY <2>2, Unsure
<1>3. Step(p).do \notin {"put", "write"}
  <2>1. SUFFICES ASSUME GoesAmid(p) PROVE FALSE
    BY RunDoes DEF PutCell, WriteRegister
  <2>2. call'[q] = [call[q] EXCEPT !.sure = FALSE]
    BY <2>1, AmidIs DEF GoesAmid
  <2> QED
    BY <2>2, Unsure
<1> QED
  BY <1>1, <1>2, <1>3

LEMMA OtherSure ==
  ASSUME TypeOK, SureInv, NEW p \in Actor, Run(p), NEW q \in Actor \ {p}, Sure(call'[q])
  PROVE  AllAgreeNext
<1>1. ~Starts(p) /\ Step(p).do \notin {"put", "write"} /\ call[q].sure
  BY SureBeside DEF Sure
<1>2. Sure(call[q])
  BY <1>1, RunIs, OthersSame DEF Sure
<1>3. (\A c \in Cached : Agrees(c)) /\ \A r \in Actor : ~Refreshing(r)
  BY <1>2 DEF SureInv, Sure
<1>4. ASSUME NEW c \in Cached PROVE AgreesNext(c)
  <2>1. c \in Watched /\ call[p].at # 0
    BY CachedComes, RunIs
  <2>2. c \in Step(p).cells => Step(p).do \notin {"blank", "read", "fetch", "store"}
    <3>1. CASE call[p].upd = 0
      BY <2>1, <3>1, CacheRule
    <3>2. CASE call[p].upd # 0
      <4>1. UnlockMutex(p)
        BY <1>3, <3>2, InRefreshGoes DEF Refreshing
      <4> QED
        BY <4>1 DEF UnlockMutex, At
    <3> QED
      BY <3>1, <3>2
  <2>3. c \notin Step(p).cells \/ Step(p).do \notin {"blank", "read", "fetch", "store", "put", "write"}
    BY <1>1, <2>2
  <2>4. cache'[c] = cache[c] /\ chip'[c] = chip[c] /\ (c \in loose => c \in loose')
    BY <1>1, <2>1, <2>3, CellStays
  <2> QED
    BY <1>3, <2>4 DEF Agrees, AgreesNext
<1> QED
  BY <1>1, <1>3, <1>4, RefreshingBefore DEF AllAgreeNext

LEMMA NextSure ==
  ASSUME TypeOK, CacheInv, SureInv, [Next]_vars
  PROVE  SureInv'
<1>1. ASSUME NEW p \in Actor, Run(p) PROVE SureInv'
  <2>1. ASSUME NEW q \in Actor, Sure(call'[q]) PROVE AllAgreeNext
    BY <1>1, <2>1, OwnSure, OtherSure
  <2> QED
    BY <1>1, <2>1, RunIs, SureInvNext
<1>2. ASSUME UNCHANGED <<fixed, cache>>,
             \A q \in Actor : call'[q].upd = call[q].upd /\ (Sure(call'[q]) => Sure(call[q])),
             \A c \in Watched : (chip'[c] = chip[c] \/ c \in loose') /\ (c \in loose => c \in loose')
      PROVE  SureInv'
  <2>1. ASSUME NEW q \in Actor, Sure(call'[q]) PROVE AllAgreeNext
    <3>1. (\A c \in Cached : Agrees(c)) /\ \A r \in Actor : ~Refreshing(r)
      BY <1>2, <2>1 DEF SureInv, Sure
    <3>2. \A c \in Cached : AgreesNext(c)
      BY <1>2, <3>1, CachedComes DEF Agrees, AgreesNext
    <3> QED
      BY <1>2, <3>1, <3>2 DEF AllAgreeNext, Refreshing
  <2> QED
    BY <1>2, <2>1, SureInvNext
<1>3. ASSUME NEW p \in Actor, Show(p) \/ StoreValue(p) PROVE SureInv'
  <2>1. call[p].upd = 0 /\ call'[p].upd = 0 /\ call'[p].at = 1 /\ ~Sure(call'[p])
    BY <1>3, StartIs, IdleOrBusy, RefreshFacts DEF Idle, Sure
  <2>2. \A q \in Actor : call'[q].upd = call[q].upd /\ (Sure(call'[q]) => Sure(call[q]))
    BY <1>3, <2>1, StartIs
  <2> QED
    BY <1>2, <1>3, <2>2, StartIs DEF cacheVars
<1>4. CASE DeviceChanges
  BY <1>2, <1>4, ChangeLoosens DEF DeviceChanges, cacheVars
<1>5. CASE Expire \/ UNCHANGED vars
  BY <1>2, <1>5 DEF Expire, vars, fixed, cacheVars
<1> QED
  BY <1>1, <1>3, <1>4, <1>5 DEF Next

-----------------------------------------------------------------------------
(* A show that answers from a register.                                      *)

\* It reads the register, which nobody else does, and answers.
LEMMA FromRegister ==
  ASSUME TypeOK, NEW p \in Actor, Mine(p).from = "got", DOMAIN Mine(p).set # {}, NEW c \in ShownCells(Mine(p))
  PROVE  /\ Len(Mine(p).show) = 2 /\ Mine(p).show[1].do = "get" /\ Mine(p).show[1].cells = ShownCells(Mine(p))
         /\ ProgramForm(Mine(p).show) /\ DOMAIN Mine(p).show = 1..2
         /\ c \in Watched /\ c \notin CellsOf(Refresh, {"read", "fetch"})
         /\ \A q \in Actor : call[q].at # 0 => c \notin CellsOf(call[q].prog, {"read"})
<1>1. Mine(p) = F(file[p]) /\ file[p] \in DOMAIN Table[drv].files /\ file[p] \in Files
  BY RulesOf DEF Mine, Files
<1>2. /\ FileForm(Mine(p)) /\ KeptApart(Table[drv], Mine(p)) /\ ShowsAfresh(Table[drv], Mine(p))
      /\ ProgramForm(Mine(p).show)
  BY <1>1, FileFacts DEF Programs
<1>3. Mine(p).home = "chip"
  BY <1>2 DEF FileForm, KeptApart
<1>4. /\ Len(Mine(p).show) = 2 /\ Mine(p).show[1].do = "get" /\ Mine(p).show[1].cells = ShownCells(Mine(p))
      /\ c \notin CellsOf(Refresh, {"read", "fetch"})
      /\ \A e \in DOMAIN Table[drv].files : \A g \in Programs(Table[drv].files[e]) :
           c \notin CellsOf(g, {"read"})
  BY <1>2, <1>3, OpenedIs DEF ShowsAfresh
<1>5. DOMAIN Mine(p).show = 1..2
  <2>1. Mine(p).show \in Programs(F(file[p]))
    BY <1>1 DEF Programs
  <2> QED
    BY <1>1, <1>4, <2>1, ProgramFacts
<1>6. c \in Watched
  BY <1>1, FilesAre
<1>7. ASSUME NEW q \in Actor, call[q].at # 0 PROVE c \notin CellsOf(call[q].prog, {"read"})
  BY <1>4, <1>7, ProgramIs DEF F
<1> QED
  BY <1>2, <1>4, <1>5, <1>6, <1>7

GotCurrent(p) ==
  call'[p].sure /\ call'[p].at = 2 /\ Mine(p).from = "got" /\ DOMAIN Mine(p).set # {}
    => \A c \in ShownCells(Mine(p)) : call'[p].got = chip'[c] \/ c \in loose'

LEMMA GotCurrentNext ==
  ASSUME UNCHANGED fixed, \A p \in Actor : GotCurrent(p)
  PROVE  SureOfGot'
BY FixedSame DEF SureOfGot, GotCurrent

LEMMA OwnGotCurrent ==
  ASSUME TypeOK, NEW p \in Actor, Run(p)
  PROVE  GotCurrent(p)
<1>1. SUFFICES ASSUME call'[p].sure, call'[p].at = 2, Mine(p).from = "got", DOMAIN Mine(p).set # {},
                      NEW c \in ShownCells(Mine(p))
               PROVE  call'[p].got = chip'[c] \/ c \in loose'
  BY DEF GotCurrent
<1>2. /\ Len(Mine(p).show) = 2 /\ Mine(p).show[1].do = "get" /\ Mine(p).show[1].cells = ShownCells(Mine(p))
      /\ ProgramForm(Mine(p).show) /\ DOMAIN Mine(p).show = 1..2 /\ c \in Watched
  BY <1>1, FromRegister
<1>3. SameCall(call[p], call'[p]) /\ call[p].sure /\ call[p].at # 0 /\ Idle.at = 0
  BY <1>1, SureBefore, RunIs DEF SameCall, Idle
<1>4. call[p].want = None /\ call[p].prog = Mine(p).show /\ call[p].at \in 1..2
  BY <1>2, <1>3, CallFacts
<1>5. call[p].upd = 0
  <2>1. call[p].prog[call[p].at].do = "update" => call[p].at = 1
    BY <1>2, <1>4 DEF ProgramForm
  <2> QED
    BY <1>2, <1>3, <1>4, <2>1, CallFacts
<1>6. Step(p) = Mine(p).show[call[p].at] /\ Step(p).skip \in Nat
  BY <1>3, <1>4, <1>5, StepFacts
<1>7. ~UpdateDevice(p) /\ ~RefreshGoes(p)
  BY <1>2, <1>4, <1>5, UpdateIs DEF RefreshGoes
<1>8. ~Aborts(p)
  BY <1>1, <1>2, <1>3, <1>4, <1>5 DEF Aborts, Locked
<1>9. ~UnlockMutex(p)
  BY <1>1, <1>3, <1>5, RefreshFacts, UnlockIs
<1>10. call[p].at = 1
  <2>1. CASE Gets(p)
    BY <1>1, <1>4, <2>1 DEF Gets
  <2>2. CASE ProgramGoes(p)
    BY <1>1, <1>3, <1>4, <1>6, <2>2 DEF ProgramGoes, Onward
  <2> QED
    BY <1>7, <1>8, <1>9, <2>1, <2>2, RunIs
<1>11. Step(p).do = "get" /\ c = TheCell(p)
  <2>1. Step(p).do = "get" /\ c \in Step(p).cells
    BY <1>1, <1>2, <1>6, <1>10
  <2> QED
    BY <1>3, <2>1, ErrnoCell
<1>12. CASE GetRegister(p)
  <2>1. Got(p, chip[c]) /\ chip' = chip
    BY <1>2, <1>11, <1>12 DEF GetRegister
  <2>2. call'[p].got = chip[c]
    BY <1>3, <1>11, <2>1, GetIs
  <2> QED
    BY <2>1, <2>2
<1>13. CASE GetFails(p)
  <2>1. Step(p).otherwise = "errno"
    <3>1. SUFFICES ASSUME Step(p).otherwise # "errno" PROVE FALSE
      OBVIOUS
    <3>2. Alone(p, Abort(p)) /\ ~At(p, "unlock")
      BY <1>11, <1>13, <3>1 DEF GetFails, At
    <3> QED
      BY <1>3, <1>8, <3>2, AbortIs
  <2> QED
    BY <1>11, <1>13, <2>1 DEF GetFails
<1> QED
  BY <1>11, <1>12, <1>13, RunDoes

\* Beside it nothing reads the register again.
LEMMA OtherGotCurrent ==
  ASSUME TypeOK, SureOfGot, NEW p \in Actor, Run(p), NEW q \in Actor \ {p}
  PROVE  GotCurrent(q)
<1>1. SUFFICES ASSUME call'[q].sure, call'[q].at = 2, Mine(q).from = "got", DOMAIN Mine(q).set # {},
                      NEW c \in ShownCells(Mine(q))
               PROVE  call'[q].got = chip'[c] \/ c \in loose'
  BY DEF GotCurrent
<1>2. /\ c \in Watched /\ c \notin CellsOf(Refresh, {"read", "fetch"})
      /\ \A r \in Actor : call[r].at # 0 => c \notin CellsOf(call[r].prog, {"read"})
  BY <1>1, FromRegister
<1>3. ~Starts(p) /\ Step(p).do \notin {"put", "write"} /\ call[q].sure /\ call[p].at # 0
  BY <1>1, SureBeside, RunIs
<1>4. call[q].at = 2 /\ call'[q].got = call[q].got
  BY <1>1, RunIs, OthersSame
<1>5. call[q].got = chip[c] \/ c \in loose
  BY <1>1, <1>3, <1>4 DEF SureOfGot
<1>6. c \in Step(p).cells => Step(p).do \notin {"read", "fetch"}
  <2>1. CASE call[p].upd = 0
    <3>1. Step(p) = call[p].prog[call[p].at] /\ call[p].at \in DOMAIN call[p].prog
      BY <1>3, <2>1, StepFacts, ProgramIs
    <3>2. Step(p).do # "fetch"
      BY <1>3, <2>1, InRefreshStep
    <3> QED
      BY <1>2, <1>3, <3>1, <3>2 DEF CellsOf
  <2>2. CASE call[p].upd # 0
    <3>1. Step(p) = Refresh[call[p].upd] /\ call[p].upd \in DOMAIN Refresh
      BY <1>3, <2>2, StepFacts, CallFacts, RefreshFacts
    <3> QED
      BY <1>2, <3>1 DEF CellsOf
  <2> QED
    BY <2>1, <2>2
<1>7. chip'[c] = chip[c] /\ (c \in loose => c \in loose')
  <2>1. CASE c \in Step(p).cells /\ Step(p).do \in {"blank", "store"}
    <3>1. BlankCells(p) \/ StoreCells(p)
      BY <2>1, RunDoes
    <3> QED
      BY <3>1 DEF BlankCells, StoreCells
  <2>2. CASE ~(c \in Step(p).cells /\ Step(p).do \in {"blank", "store"})
    <3>1. c \notin Step(p).cells \/ Step(p).do \notin {"blank", "read", "fetch", "store", "put", "write"}
      BY <1>3, <1>6, <2>2
    <3> QED
      BY <1>2, <1>3, <3>1, CellStays
  <2> QED
    BY <2>1, <2>2
<1> QED
  BY <1>4, <1>5, <1>7

LEMMA NextSureOfGot ==
  ASSUME TypeOK, SureOfGot, [Next]_vars
  PROVE  SureOfGot'
<1>1. ASSUME NEW p \in Actor, Run(p) PROVE SureOfGot'
  BY <1>1, RunIs, OwnGotCurrent, OtherGotCurrent, GotCurrentNext
<1>2. ASSUME UNCHANGED fixed,
             \A q \in Actor : call'[q] = call[q] \/ call'[q].at = 1,
             \A c \in Watched : (chip'[c] = chip[c] \/ c \in loose') /\ (c \in loose => c \in loose')
      PROVE  SureOfGot'
  <2>1. ASSUME NEW q \in Actor PROVE GotCurrent(q)
    <3>1. SUFFICES ASSUME call'[q].sure, call'[q].at = 2, Mine(q).from = "got", DOMAIN Mine(q).set # {},
                          NEW c \in ShownCells(Mine(q))
                   PROVE  call'[q].got = chip'[c] \/ c \in loose'
      BY DEF GotCurrent
    <3>2. call'[q] = call[q] /\ c \in Watched
      BY <1>2, <3>1, FromRegister
    <3>3. call[q].got = chip[c] \/ c \in loose
      BY <3>1, <3>2 DEF SureOfGot
    <3> QED
      BY <1>2, <3>2, <3>3
  <2> QED
    BY <1>2, <2>1, GotCurrentNext
<1>3. ASSUME NEW p \in Actor, Show(p) \/ StoreValue(p) PROVE SureOfGot'
  <2>1. \A q \in Actor : call'[q] = call[q] \/ call'[q].at = 1
    BY <1>3, StartIs
  <2> QED
    BY <1>2, <1>3, <2>1, StartIs
<1>4. CASE DeviceChanges
  BY <1>2, <1>4, ChangeLoosens DEF DeviceChanges
<1>5. CASE Expire \/ UNCHANGED vars
  BY <1>2, <1>5 DEF Expire, vars, fixed, cacheVars
<1> QED
  BY <1>1, <1>3, <1>4, <1>5 DEF Next

-----------------------------------------------------------------------------
(* What was stored is shown.                                                 *)

LEMMA SureShown ==
  ASSUME TypeOK, SureInv, SureOfGot, NEW p \in Actor, At(p, "answer"), call[p].sure,
         Mine(p).home = "chip", DOMAIN Mine(p).set # {},
         ShownCells(Mine(p)) \cap loose = {}
  PROVE  Answered(p) = Shows(file[p], chip)
<1>1. Mine(p) = F(file[p]) /\ file[p] \in Files /\ file[p] \in DOMAIN Table[drv].files
  BY RulesOf DEF Mine, Files
<1>2. FileForm(Mine(p)) /\ ShowsAfresh(Table[drv], Mine(p)) /\ ShownCells(Mine(p)) \subseteq Watched
  BY <1>1, FileFacts, FilesAre
<1>3. /\ call[p].at # 0 /\ call[p].upd = 0 /\ call[p].prog = Mine(p).show
      /\ call[p].at \in 1..Len(Mine(p).show) /\ Mine(p).show[call[p].at].do = "answer"
  BY AnswersShow
<1>4. chip \in [Watched -> SUBSET AllBits] /\ cache \in [Watched -> SUBSET AllBits]
  BY SameTyped
<1>5. CASE /\ Mine(p).from = "cache" /\ Mine(p).show[1].do = "update"
           /\ ShownCells(Mine(p)) \subseteq CacheCells(Refresh)
  <2>1. call[p].at > 1
    BY <1>3, <1>5
  <2>2. \A c \in Cached : Agrees(c)
    BY <1>3, <1>5, <2>1 DEF SureInv
  <2>3. ASSUME NEW c \in ShownCells(Mine(p)) PROVE cache[c] = chip[c]
    BY <1>2, <1>5, <2>2 DEF Cached, CacheCells, Agrees
  <2>4. ShownBy(Mine(p), cache) = ShownBy(Mine(p), chip)
    BY <1>2, <1>4, <2>3, ShownSame
  <2> QED
    BY <1>1, <1>5, <2>4 DEF Answered, Shows
<1>6. CASE /\ Mine(p).from = "got" /\ Len(Mine(p).show) = 2 /\ Mine(p).show[1].do = "get"
  <2> DEFINE u == [c \in Watched |-> call[p].got]
  <2>1. call[p].at = 2
    BY <1>3, <1>6
  <2>2. ASSUME NEW c \in ShownCells(Mine(p)) PROVE u[c] = chip[c]
    BY <1>2, <1>6, <2>1 DEF SureOfGot
  <2>3. Answered(p) = ShownBy(Mine(p), u)
    BY <1>1, <1>6 DEF Answered, Shows
  <2> HIDE DEF u
  <2>4. ShownBy(Mine(p), u) = ShownBy(Mine(p), chip)
    BY <1>2, <1>4, <2>2, ShownSame
  <2> QED
    BY <1>1, <2>3, <2>4 DEF Shows
<1> QED
  BY <1>2, <1>5, <1>6, OpenedIs DEF ShowsAfresh

LEMMA IsShown ==
  ASSUME TypeOK, KeepsWhatIsStored, SureInv, SureOfGot
  PROVE  ShownIsStored
<1> SUFFICES ASSUME NEW p \in Actor, At(p, "answer"), call[p].sure, stored[file[p]] # None,
                    Lands(Mine(p), stored[file[p]]), ShownCells(Mine(p)) \cap loose = {}
             PROVE  Answered(p) = stored[file[p]]
  BY DEF ShownIsStored, ShownCells
<1>1. Mine(p) = F(file[p]) /\ file[p] \in Files /\ file[p] \in DOMAIN Table[drv].files
  BY RulesOf DEF Mine, Files
<1>2. FileForm(Mine(p)) /\ KeptApart(Table[drv], Mine(p))
  BY <1>1, FileFacts
<1>3. Shows(file[p], IF Mine(p).home = "chip" THEN chip ELSE cache) = stored[file[p]]
  BY <1>1 DEF KeepsWhatIsStored, Mine
<1>4. CASE Mine(p).home = "cache"
  <2>1. Mine(p).from = "cache"
    BY <1>2, <1>4 DEF KeptApart
  <2> QED
    BY <1>3, <1>4, <2>1 DEF Answered
<1>5. CASE Mine(p).home = "chip"
  <2>1. DOMAIN Mine(p).set # {}
    BY <1>1, SameTyped
  <2>2. Answered(p) = Shows(file[p], chip)
    BY <1>5, <2>1, SureShown
  <2> QED
    BY <1>3, <1>5, <2>2
<1> QED
  BY <1>2, <1>4, <1>5 DEF FileForm

LEMMA InitSure == Init => GotInv /\ KeepsWhatIsStored /\ SureInv /\ SureOfGot
<1> SUFFICES ASSUME Init PROVE GotInv /\ KeepsWhatIsStored /\ SureInv /\ SureOfGot
  OBVIOUS
<1>1. \A p \in Actor : call[p].at = 0 /\ ~call[p].sure
  BY DEF Init, Idle
<1>2. \A f \in Files : stored[f] = None
  BY DEF Init
<1> QED
  BY <1>1, <1>2 DEF GotInv, KeepsWhatIsStored, SureInv, SureOfGot, InStore

\* A show that began after a store was through, with no write and no new refresh
\* beside it, answers with what was stored, whatever was stored in other files of
\* the driver before and whoever refreshed the cache since.
THEOREM StoredIsAnswered == Spec => []ShownIsStored
<1> DEFINE I == /\ TypeOK /\ CacheInv /\ LocalInv /\ PutInv
                /\ GotInv /\ KeepsWhatIsStored /\ SureInv /\ SureOfGot
<1>1. Init => I
  BY InitTypeOK, InitCache, InitSure
<1>2. I /\ [Next]_vars => I'
  BY NextTypeOK, NextCache, NextLocal, NextPut, NextGot, NextKeeps, NextSure, NextSureOfGot
<1>3. I => ShownIsStored
  BY IsShown
<1> HIDE DEF I
<1> QED
  BY <1>1, <1>2, <1>3, PTL DEF Spec
=============================================================================
